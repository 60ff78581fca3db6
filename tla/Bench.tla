------------------------------- MODULE Bench -------------------------------
(***************************************************************************)
(* The benchmark of an inference endpoint (pulsing-bench): a coordinator   *)
(* runs phases, a scheduler keeps requests going, workers send them and    *)
(* report each one, and a metrics aggregator counts what is reported into  *)
(* the phase that is current.  The four are actors, each handling one      *)
(* message at a time; the requests of a phase are concurrent tasks.        *)
(***************************************************************************)
EXTENDS Naturals, Sequences, FiniteSets, Functions

CONSTANTS
  Runs,          \* the callers of run_benchmark, each with its run id
  NumWorkers,    \* num_workers, at most 3
  MaxVus,        \* config.max_vus
  NumRates,      \* config.num_rates, and the length of config.rates
  Kinds,         \* the benchmark kinds that are asked for
  MaxRequests,   \* bound: requests sent in a phase of constant users
  MaxArrivals    \* bound: requests sent in a phase of constant rate

VARIABLES
  client,     \* run_benchmark, of each run
  signal,     \* the runs whose user has pressed ctrl-c
  inbox,      \* the mailboxes: coordinator, scheduler, metrics, each worker
  coord,      \* the coordinator: handler step, state, phases left, refs
  alive,      \* the actors of runs that are running: <<role, run>>
  sched,      \* the scheduler: handler step, configured phase, atomics
  task,       \* the tasks of the scheduler: a virtual user or one request
  worker,     \* the workers: idle, or the task whose request they handle
  metrics,    \* the aggregator: current phase and completed phases
  sent        \* history: per phase of the current run, the requests sent

vars == <<client, signal, inbox, coord, alive, sched, task, worker, metrics, sent>>

-----------------------------------------------------------------------------
(* Phases                                                                  *)

WorkerNames == <<"worker-0", "worker-1", "worker-2">>
Workers == {WorkerNames[i] : i \in 1..NumWorkers}
Tasks == 1..(MaxVus + 1)    \* one more than may ever be busy

Phase(type, vus) == [type |-> type, vus |-> vus]

\* How generate_concurrency_levels goes on from a level.
Step(level) == level + (IF level < 10 THEN 1 ELSE IF level < 50 THEN 5
                        ELSE IF level < 100 THEN 10 ELSE 20)

generate_concurrency_levels(max) ==
  LET from[level \in 2..(max + 20)] ==
        IF level > max THEN <<>> ELSE <<level>> \o from[Step(level)]
      levels == <<1>> \o from[2]
  IN IF max \in Range(levels) THEN levels ELSE Append(levels, max)

generate_phases(kind) ==
  CASE kind = "sweep" -> <<Phase("vus", MaxVus)>> \o [i \in 1..NumRates |-> Phase("rate", MaxVus)]
    [] kind = "rate" -> [i \in 1..NumRates |-> Phase("rate", MaxVus)]
    [] kind = "csweep" -> [i \in DOMAIN generate_concurrency_levels(MaxVus) |->
                             Phase("vus", generate_concurrency_levels(MaxVus)[i])]
    [] OTHER -> <<Phase("vus", MaxVus)>>    \* "throughput", and a kind that is unknown

Warmup == Phase("vus", 1)

-----------------------------------------------------------------------------

NoPhase == [type |-> "none", vus |-> 0]
NoRun == 0
NoStats == [phase |-> 0, successful |-> 0, failed |-> 0]
NoReport == [run |-> NoRun, phases |-> <<>>]

\* The actors of a run, each with a mailbox.
Boxes == {"coordinator", "scheduler", "metrics"} \cup Workers

\* The mailboxes of run actors are made anew with the actors.
FreshInbox(coordinator) == [a \in Boxes |-> IF a = "coordinator" THEN coordinator ELSE <<>>]

Init ==
  /\ client = [r \in Runs |-> "begin"]
  /\ signal = {}
  /\ inbox = FreshInbox(<<>>)
  /\ coord = [step |-> "idle", state |-> "Idle", run |-> NoRun, todo |-> <<>>, at |-> 0,
              refs |-> {}, final_report |-> NoReport]
  /\ alive = {}
  /\ sched = [step |-> "idle", config |-> NoPhase, is_active |-> FALSE, elapsed |-> FALSE,
              sent |-> 0, active_vus |-> 0]
  /\ task = [t \in Tasks |-> "none"]
  /\ worker = [w \in Workers |-> [task |-> 0, step |-> "idle"]]
  /\ metrics = [run |-> NoRun, current |-> NoStats, completed |-> <<>>]
  /\ sent = <<>>

Post(box, to, msg) == [box EXCEPT ![to] = Append(@, msg)]
Took(box, a) == [box EXCEPT ![a] = Tail(@)]
Gets(a, type) == inbox[a] # <<>> /\ Head(inbox[a]).type = type

-----------------------------------------------------------------------------
(* run_benchmark                                                           *)

\* run_benchmark asks once; a caller that keeps the coordinator may ask again
\* after an error.
Ask(r) ==
  /\ client[r] \in {"begin", "failed"}
  /\ \E kind \in Kinds :
       inbox' = Post(inbox, "coordinator", [type |-> "StartBenchmark", run |-> r, kind |-> kind])
  /\ client' = [client EXCEPT ![r] = "waiting"]
  /\ UNCHANGED <<signal, coord, alive, sched, task, worker, metrics, sent>>

\* The ctrl-c task tells the coordinator to stop this run; nobody waits for it.
CtrlC(r) ==
  /\ client[r] # "begin" /\ r \notin signal
  /\ signal' = signal \cup {r}
  /\ inbox' = Post(inbox, "coordinator", [type |-> "StopBenchmark", run |-> r])
  /\ UNCHANGED <<client, coord, alive, sched, task, worker, metrics, sent>>

\* A run that succeeded asks for the report; any other returns its error.
AskReport(r) ==
  /\ client[r] = "succeeded"
  /\ client' = [client EXCEPT ![r] = "asking"]
  /\ inbox' = Post(inbox, "coordinator", [type |-> "GetReport", run |-> r])
  /\ UNCHANGED <<signal, coord, alive, sched, task, worker, metrics, sent>>

-----------------------------------------------------------------------------
(* CoordinatorActor                                                        *)

Idle(type) == coord.step = "idle" /\ Gets("coordinator", type)
Asked == Head(inbox["coordinator"])

\* start_benchmark begins, unless a run is under way or was left behind.
start_benchmark ==
  /\ Idle("StartBenchmark")
  /\ IF coord.state # "Idle"
       THEN /\ client' = [client EXCEPT ![Asked.run] = "failed"]
            /\ UNCHANGED <<coord, sent>>
       ELSE /\ coord' = [coord EXCEPT !.step = "spawn", !.state = "Running", !.run = Asked.run,
                           !.todo = <<Warmup>> \o generate_phases(Asked.kind), !.at = 1]
            /\ sent' = <<>>
            /\ UNCHANGED client
  /\ inbox' = Took(inbox, "coordinator")
  /\ UNCHANGED <<signal, alive, sched, task, worker, metrics>>

\* The actors of a run in the order they are spawned.
Roles == <<"renderer", "metrics">> \o SubSeq(WorkerNames, 1, NumWorkers) \o <<"scheduler">>
Spawned == Cardinality({i \in DOMAIN Roles : <<Roles[i], coord.run>> \in alive})

\* Spawning fails when the system is shutting down or the name is taken; the
\* error is returned at once, with state and references as they are.
SpawnNext ==
  /\ coord.step = "spawn"
  /\ LET role == Roles[Spawned + 1]
     IN \/ /\ alive' = alive \cup {<<role, coord.run>>}
           /\ coord' = [coord EXCEPT !.refs = @ \cup ({role} \ Workers),
                          !.step = IF role = "scheduler" THEN "phase" ELSE "spawn"]
           /\ inbox' = IF role = "metrics"
                         THEN Post(inbox, "metrics", [type |-> "RegisterRun", run |-> coord.run])
                         ELSE inbox
           /\ UNCHANGED client
        \/ /\ client' = [client EXCEPT ![coord.run] = "failed"]
           /\ coord' = [coord EXCEPT !.step = "idle"]
           /\ UNCHANGED <<alive, inbox>>
  /\ UNCHANGED <<signal, sched, task, worker, metrics, sent>>

\* run_phase up to the ask: the scheduler is configured, the aggregator told that
\* the phase starts, the scheduler asked to run it.
run_phase ==
  /\ coord.step = "phase" /\ coord.at <= Len(coord.todo)
  /\ LET configured == Post(inbox, "scheduler", [type |-> "ConfigureScheduler", phase |-> coord.todo[coord.at]])
         announced == Post(configured, "metrics", [type |-> "StartPhase", phase |-> coord.at])
     IN inbox' = Post(announced, "scheduler", [type |-> "StartScheduling"])
  /\ coord' = [coord EXCEPT !.step = "scheduling"]
  /\ UNCHANGED <<client, signal, alive, sched, task, worker, metrics, sent>>

\* The scheduler has answered; an error in its answer is not looked at.
EndPhase ==
  /\ coord.step = "scheduled"
  /\ inbox' = Post(inbox, "metrics", [type |-> "EndPhase"])
  /\ coord' = [coord EXCEPT !.step = "phase", !.at = @ + 1]
  /\ UNCHANGED <<client, signal, alive, sched, task, worker, metrics, sent>>

\* After the phases and the cooldown, the report is fetched before the cleanup.
FetchReport ==
  /\ coord.step = "phase" /\ coord.at > Len(coord.todo)
  /\ inbox' = Post(inbox, "metrics", [type |-> "GetReport", for |-> NoRun])
  /\ coord' = [coord EXCEPT !.step = "fetching"]
  /\ UNCHANGED <<client, signal, alive, sched, task, worker, metrics, sent>>

\* What cleanup stops: every worker there could be, the others if they are known.
Stopped == {<<w, coord.run>> : w \in Workers} \cup {<<a, coord.run>> : a \in coord.refs}

\* cleanup: the actors are stopped, their mailboxes go with them.
cleanup ==
  /\ alive' = alive \ Stopped
  /\ sched' = [sched EXCEPT !.is_active = FALSE, !.config = NoPhase, !.sent = 0]
  /\ metrics' = [run |-> NoRun, current |-> NoStats, completed |-> <<>>]
  /\ coord' = [coord EXCEPT !.step = "idle", !.state = "Idle", !.run = NoRun, !.todo = <<>>,
                 !.at = 0, !.refs = {}]

FinishRun ==
  /\ coord.step = "fetched"
  /\ cleanup
  /\ inbox' = FreshInbox(inbox["coordinator"])
  /\ client' = [client EXCEPT ![coord.run] = "succeeded"]
  /\ UNCHANGED <<signal, task, worker, sent>>

\* stop_benchmark is handled when no other handler runs: it finds a run only if
\* that run's handler failed half way.
stop_benchmark ==
  /\ Idle("StopBenchmark")
  /\ IF coord.state = "Running" /\ coord.run = Asked.run
       THEN cleanup /\ inbox' = FreshInbox(Tail(inbox["coordinator"]))
       ELSE inbox' = Took(inbox, "coordinator") /\ UNCHANGED <<coord, alive, sched, metrics>>
  /\ UNCHANGED <<client, signal, task, worker, sent>>

\* The live aggregator answers if there is one, else the cached report does,
\* whichever run either of them is of.
GetReport ==
  /\ Idle("GetReport")
  /\ IF "metrics" \in coord.refs
       THEN /\ inbox' = Post(Took(inbox, "coordinator"), "metrics", [type |-> "GetReport", for |-> Asked.run])
            /\ coord' = [coord EXCEPT !.step = "forwarding"]
            /\ UNCHANGED client
       ELSE /\ client' = [client EXCEPT ![Asked.run] = "reported"]
            /\ inbox' = Took(inbox, "coordinator")
            /\ UNCHANGED coord
  /\ UNCHANGED <<signal, alive, sched, task, worker, metrics, sent>>

-----------------------------------------------------------------------------
(* SchedulerActor                                                          *)

configure ==
  /\ sched.step = "idle" /\ Gets("scheduler", "ConfigureScheduler")
  /\ sched' = [sched EXCEPT !.config = Head(inbox["scheduler"]).phase]
  /\ inbox' = Took(inbox, "scheduler")
  /\ UNCHANGED <<client, signal, coord, alive, task, worker, metrics, sent>>

\* start_scheduling: without workers it is refused.  run_constant_vus spawns the
\* users at once, each with a first request; is_active cannot change meanwhile.
start_scheduling ==
  /\ sched.step = "idle" /\ Gets("scheduler", "StartScheduling")
  /\ inbox' = Took(inbox, "scheduler")
  /\ IF NumWorkers = 0
       THEN /\ coord' = [coord EXCEPT !.step = "scheduled"]
            /\ sent' = Append(sent, 0)
            /\ UNCHANGED <<sched, task>>
       ELSE LET first == IF sched.config.type = "vus" THEN sched.config.vus ELSE 0
            IN /\ sched' = [sched EXCEPT !.step = sched.config.type, !.is_active = TRUE,
                              !.elapsed = FALSE, !.sent = first, !.active_vus = first]
               /\ task' = [t \in Tasks |-> IF t <= first THEN "ask" ELSE "none"]
               /\ sent' = Append(sent, first)
               /\ UNCHANGED coord
  /\ UNCHANGED <<client, signal, alive, worker, metrics>>

\* The duration of the phase is over.
Elapse ==
  /\ sched.step \in {"vus", "rate"} /\ ~sched.elapsed
  /\ sched' = [sched EXCEPT !.elapsed = TRUE]
  /\ UNCHANGED <<client, signal, inbox, coord, alive, task, worker, metrics, sent>>

\* A task's request goes to the worker that the sent counter points at; the users
\* read and bump the counter on their own, so that any worker may be next.
SendRequest(t) ==
  /\ task[t] = "ask"
  /\ \E w \in Workers : inbox' = Post(inbox, w, [type |-> "SendRequest", task |-> t])
  /\ task' = [task EXCEPT ![t] = "waiting"]
  /\ UNCHANGED <<client, signal, coord, alive, sched, worker, metrics, sent>>

CountSent == sent' = [sent EXCEPT ![Len(sent)] = @ + 1]

\* A virtual user has its answer: it goes on until the phase is over.
VuAnswered(t) ==
  /\ sched.step \in {"vus", "join"} /\ task[t] = "answered"
  /\ IF sched.config.type = "vus" /\ sched.is_active /\ ~sched.elapsed /\ sched.sent < MaxRequests
       THEN /\ task' = [task EXCEPT ![t] = "ask"]
            /\ sched' = [sched EXCEPT !.sent = @ + 1]
            /\ CountSent
       ELSE /\ task' = [task EXCEPT ![t] = "done"]
            /\ sched' = [sched EXCEPT !.active_vus = @ - 1]
            /\ UNCHANGED sent
  /\ UNCHANGED <<client, signal, inbox, coord, alive, worker, metrics>>

\* The sleep is over; then the users are awaited.
StopVus ==
  /\ sched.step = "vus" /\ sched.elapsed
  /\ sched' = [sched EXCEPT !.is_active = FALSE, !.step = "join"]
  /\ UNCHANGED <<client, signal, inbox, coord, alive, task, worker, metrics, sent>>

Reply ==
  /\ sched' = [sched EXCEPT !.step = "idle"]
  /\ coord' = [coord EXCEPT !.step = "scheduled"]
  /\ task' = [t \in Tasks |-> "none"]

JoinVus ==
  /\ sched.step = "join" /\ \A t \in Tasks : task[t] \in {"none", "done"}
  /\ Reply
  /\ UNCHANGED <<client, signal, inbox, alive, worker, metrics, sent>>

\* A tick of run_constant_rate spawns a request if the limit of concurrent ones
\* allows; the loop looks at the clock between ticks, not between requests.
MayTick == sched.active_vus < sched.config.vus

Tick ==
  /\ sched.step = "rate" /\ MayTick /\ sched.sent < MaxArrivals
  /\ \E t \in Tasks :
       /\ task[t] = "none" /\ \A u \in 1..(t - 1) : task[u] # "none"
       /\ task' = [task EXCEPT ![t] = "ask"]
  /\ sched' = [sched EXCEPT !.sent = @ + 1, !.active_vus = @ + 1]
  /\ CountSent
  /\ UNCHANGED <<client, signal, inbox, coord, alive, worker, metrics>>

RequestAnswered(t) ==
  /\ sched.step \in {"rate", "drain"} /\ task[t] = "answered"
  /\ task' = [task EXCEPT ![t] = "none"]
  /\ sched' = [sched EXCEPT !.active_vus = @ - 1]
  /\ UNCHANGED <<client, signal, inbox, coord, alive, worker, metrics, sent>>

StopRate ==
  /\ sched.step = "rate" /\ sched.elapsed
  /\ sched' = [sched EXCEPT !.is_active = FALSE, !.step = "drain"]
  /\ UNCHANGED <<client, signal, inbox, coord, alive, task, worker, metrics, sent>>

\* "Wait for remaining requests to complete"
Drained == sched.active_vus = 0

DrainRate ==
  /\ sched.step = "drain" /\ Drained
  /\ Reply
  /\ UNCHANGED <<client, signal, inbox, alive, worker, metrics, sent>>

-----------------------------------------------------------------------------
(* WorkerActor                                                             *)

\* receive begins: execute_streaming_request runs until the endpoint is done.
Receive(w) ==
  /\ worker[w].step = "idle" /\ Gets(w, "SendRequest")
  /\ worker' = [worker EXCEPT ![w] = [task |-> Head(inbox[w]).task, step |-> "executing"]]
  /\ inbox' = Took(inbox, w)
  /\ UNCHANGED <<client, signal, coord, alive, sched, task, metrics, sent>>

\* The request has ended, well or badly, and is reported to the aggregator.
Report(w) ==
  /\ worker[w].step = "executing"
  /\ worker' = [worker EXCEPT ![w].step = "replying"]
  /\ \E ok \in BOOLEAN :
       inbox' = Post(inbox, "metrics", [type |-> "RequestCompleted", success |-> ok])
  /\ UNCHANGED <<client, signal, coord, alive, sched, task, metrics, sent>>

\* Then the task that asked gets its answer.
Answer(w) ==
  /\ worker[w].step = "replying"
  /\ task' = [task EXCEPT ![worker[w].task] = "answered"]
  /\ worker' = [worker EXCEPT ![w] = [task |-> 0, step |-> "idle"]]
  /\ UNCHANGED <<client, signal, inbox, coord, alive, sched, metrics, sent>>

-----------------------------------------------------------------------------
(* MetricsAggregatorActor                                                  *)

register_run(msg) == [run |-> msg.run, current |-> NoStats, completed |-> <<>>]

Closed == IF metrics.current = NoStats THEN metrics.completed
          ELSE Append(metrics.completed, metrics.current)

start_phase(msg) == [metrics EXCEPT !.completed = Closed, !.current = [NoStats EXCEPT !.phase = msg.phase]]

end_phase(msg) == [metrics EXCEPT !.completed = Closed, !.current = NoStats]

\* Mutant of add_result: what failed is counted among the successful too.
AddWithoutElse(msg) ==
  IF metrics.current = NoStats THEN metrics
  ELSE [metrics EXCEPT !.current.successful = @ + 1,
                       !.current.failed = IF msg.success THEN @ ELSE @ + 1]

\* PhaseStats::add_result; a result that comes between phases is dropped.
add_result(msg) ==
  IF metrics.current = NoStats THEN metrics
  ELSE IF msg.success THEN [metrics EXCEPT !.current.successful = @ + 1]
  ELSE [metrics EXCEPT !.current.failed = @ + 1]

Aggregate ==
  /\ inbox["metrics"] # <<>> /\ Head(inbox["metrics"]).type # "GetReport"
  /\ LET msg == Head(inbox["metrics"])
     IN metrics' = CASE msg.type = "RegisterRun" -> register_run(msg)
                     [] msg.type = "StartPhase" -> start_phase(msg)
                     [] msg.type = "EndPhase" -> end_phase(msg)
                     [] msg.type = "RequestCompleted" -> add_result(msg)
  /\ inbox' = Took(inbox, "metrics")
  /\ UNCHANGED <<client, signal, coord, alive, sched, task, worker, sent>>

\* get_report: the completed phases, without the current one.
get_report == [run |-> metrics.run, phases |-> metrics.completed]

AnswerReport ==
  /\ Gets("metrics", "GetReport")
  /\ IF Head(inbox["metrics"]).for = NoRun
       THEN /\ coord' = [coord EXCEPT !.step = "fetched", !.final_report = get_report]
            /\ UNCHANGED client
       ELSE LET r == Head(inbox["metrics"]).for
            IN /\ coord' = [coord EXCEPT !.step = "idle"]
               /\ client' = [client EXCEPT ![r] = "reported"]
  /\ inbox' = Took(inbox, "metrics")
  /\ UNCHANGED <<signal, alive, sched, task, worker, metrics, sent>>

-----------------------------------------------------------------------------

Next ==
  \/ \E r \in Runs : Ask(r) \/ CtrlC(r) \/ AskReport(r)
  \/ start_benchmark \/ SpawnNext \/ run_phase \/ EndPhase \/ FetchReport \/ FinishRun
  \/ stop_benchmark \/ GetReport
  \/ configure \/ start_scheduling \/ Elapse \/ StopVus \/ JoinVus \/ Tick \/ StopRate \/ DrainRate
  \/ \E t \in Tasks : SendRequest(t) \/ VuAnswered(t) \/ RequestAnswered(t)
  \/ \E w \in Workers : Receive(w) \/ Report(w) \/ Answer(w)
  \/ Aggregate \/ AnswerReport

Spec == Init /\ [][Next]_vars

-----------------------------------------------------------------------------

Counted(phase) == phase.successful + phase.failed
Sent(phase) == IF phase.phase \in DOMAIN sent THEN sent[phase.phase] ELSE 0

\* The phases count every request in the phase that sent it.
CountsAll(phases) == \A i \in DOMAIN phases : phases[i].phase = i /\ Counted(phases[i]) = Sent(phases[i])

\* The report counts every request in the phase that sent it, and no phase ever
\* counts more: one entry per phase, in order, and as many results as requests
\* once the aggregator closes it, although workers report on their own and the
\* phases are only marked in the aggregator's mailbox.
ReportCountsAll ==
  /\ Counted(metrics.current) <= Sent(metrics.current)
  /\ CountsAll(metrics.completed)
  /\ coord.step = "fetched" =>
       /\ Len(coord.final_report.phases) = Len(coord.todo) /\ Len(sent) = Len(coord.todo)
       /\ CountsAll(coord.final_report.phases)

=============================================================================
