------------------------------ MODULE Serving -------------------------------
(* The parts that serve requests around the actor system: the load-        *)
(* balancing policies (Routing), Python actors (PythonActors) and the      *)
(* benchmark's actors (Bench).  They share no state: a behaviour runs one  *)
(* of them, `part` says which, and the others rest.                        *)
EXTENDS Naturals, Sequences, FiniteSets

CONSTANTS
  LastWorker, Lists, Selectors, Requests, Clockwise, MaxLoad, LoadMaps, Period,
  Actors, Threads, Calls, Buffer, MaxItems, MaxStreams, Stoppable,
  Runs, NumWorkers, MaxVus, NumRates, Kinds, MaxRequests, MaxArrivals

VARIABLES
  part,
  policy, healthy, load, cached, counter, ring, current, sel, turn, went,
  gil, actor, mailbox, queue, thread, coro, call, trace, stream,
  client, signal, inbox, coord, alive, sched, task, worker, metrics, sent

policyVars == <<policy, healthy, load, cached, counter, ring, current, sel, turn, went>>
pythonVars == <<gil, actor, mailbox, queue, thread, coro, call, trace, stream>>
benchVars == <<client, signal, inbox, coord, alive, sched, task, worker, metrics, sent>>
servingVars == <<part, policyVars, pythonVars, benchVars>>

-----------------------------------------------------------------------------

Policy == INSTANCE Routing

\* A selector passes workers there are, and the counter that is kept is as good as
\* the unbounded one for every list of healthy workers.
ASSUME ListsAssumption ==
  /\ LastWorker \in Nat
  /\ \A list \in Lists : list \subseteq Policy!Workers /\ list # {}
  /\ Period \in Nat \ {0}
  /\ \A list \in Lists : \A S \in (SUBSET list) \ {{}} : Period % Cardinality(S) = 0

\* Every worker has virtual nodes, so a walk round the ring meets all of them.
ASSUME ClockwiseAssumption ==
  \A r \in Requests :
    LET order == Clockwise[Policy!extract_hash_key(r)]
    IN order \in Seq(Policy!Workers) /\ \A w \in Policy!Workers : \E i \in DOMAIN order : order[i] = w

Python == INSTANCE PythonActors

Benchmark == INSTANCE Bench

\* There are names for three workers, and generate_concurrency_levels starts with one
\* user and does not go beyond the number that is configured.
ASSUME BenchAssumption ==
  /\ NumWorkers \in 0 .. 3 /\ MaxVus \in Nat /\ NumRates \in Nat /\ Benchmark!NoRun \notin Runs
  /\ Benchmark!generate_concurrency_levels(MaxVus) \in Seq(0 .. MaxVus + 1)

-----------------------------------------------------------------------------

ServingInit ==
  /\ Policy!Init /\ (part # "policy" => policy = "random")
  /\ Python!Init
  /\ Benchmark!Init

ServingNext ==
  \/ /\ part = "policy" /\ Policy!Next
     /\ UNCHANGED <<part, pythonVars, benchVars>>
  \/ /\ part = "python" /\ Python!Next
     /\ UNCHANGED <<part, policyVars, benchVars>>
  \/ /\ part = "bench" /\ Benchmark!Next
     /\ UNCHANGED <<part, policyVars, pythonVars>>

ServingSpec == ServingInit /\ [][ServingNext]_servingVars

-----------------------------------------------------------------------------

\* Requests of one session go to one worker while all workers are healthy
\* (consistent_hash.rs:4), also those that run while the ring is being built,
\* round robin deals evenly (round_robin.rs), and a worker that is chosen was
\* healthy at some time since the request came.
RoutesAreKept == part = "policy" => Policy!Affinity /\ Policy!RoundRobinEven /\ Policy!ChoiceIsFit

\* A Python handler runs under the trace context of the call it serves
\* (pulsing-py actor.rs), whatever calls its actor has in progress.
TraceIsMine == part = "python" => Python!TraceIsMine

\* When nothing can run any more, every ask has ended and no reader waits,
\* unless a thread holds the interpreter lock while it waits for a stream's
\* room, or nested asks have taken every thread (python_executor.rs).
RestIsDone == part = "python" => Python!RestIsDone

\* The report of a benchmark counts every request of its run once
\* (coordinator.rs, metrics_aggregator.rs), although phases, metrics and
\* requests in flight are messages between actors.
ReportCountsAll == part = "bench" => Benchmark!ReportCountsAll
=============================================================================
