---------------------------- MODULE ForgeSession ----------------------------
(***************************************************************************)
(* The session service of pulsing-forge (session/service.rs, reducer.rs,   *)
(* store.rs, client.rs) for one session id, with the agent's turn          *)
(* (agent/loop.rs) and the turn's resources (turn.rs).                     *)
(*                                                                         *)
(* A command is handled in one step under the session's control lock; what *)
(* it does after the unlock (broadcasting the event, cancelling the turn)  *)
(* are steps of their own, interleaved with the other calls, the turn's    *)
(* task and the subscriber.  A start command's id stands for the turn's    *)
(* execution: a retried command starts no second one.                      *)
(*                                                                         *)
(* An event is appended to the store before the snapshot applies it.  When *)
(* apply refuses it the store is one event ahead (Diverged), and every     *)
(* later append of the session is refused.                                 *)
(***************************************************************************)
EXTENDS Integers, Sequences, FiniteSets

CONSTANTS
    Creates, Starts, Cancels,   \* command ids by type
    TurnOf,                     \* start or cancel command -> its turn_id
    Turns, None,
    Runs,           \* the start commands sent by run_turn, which subscribes
    Calls,          \* tasks of clients that send commands
    MaxTries,       \* command -> times it is sent
    MaxRounds,      \* AgentConfig::max_turns
    MaxTools,       \* start command -> tool uses of one reply
    MaxDeltas,      \* start command -> text chunks of one reply
    Capacity        \* EVENT_CHANNEL_CAPACITY

Commands == Creates \cup Starts \cup Cancels

ASSUME SessionAssumption ==
    /\ TurnOf \in [Starts \cup Cancels -> Turns] /\ None \notin Turns \cup Commands
    /\ Creates \cap Starts = {} /\ Creates \cap Cancels = {} /\ Starts \cap Cancels = {}
    /\ MaxTries \in [Commands -> Nat] /\ MaxRounds \in Nat
    /\ MaxTools \in [Starts -> Nat] /\ MaxDeltas \in [Starts -> Nat]
    /\ Runs \subseteq Starts /\ Capacity \in Nat \ {0}

VARIABLES
    store,      \* the events of the session in the store
    known,      \* the session is in the service's table
    snap,       \* ControlState.snapshot: [last, active, status]
    receipts,   \* ControlState.receipts: command -> accepted_seq, 0 when none
    execution,  \* ControlState.active_execution
    call,       \* call -> what it does: [cmd, pc, out]
    tries,      \* command -> times it was sent
    task,       \* start command -> its run_turn_task
    token,      \* start command -> its execution is cancelled
    process,    \* start command -> background process registered with the turn
    history,    \* the agent's messages: <<role, turn's start command>>
    sub         \* the subscription of a client's run_turn, with its queue

control == <<store, known, snap, receipts, execution>>
turn    == <<task, token, process, history>>
client  == <<call, tries>>
vars    == <<control, turn, client, sub>>

Terminal == {"completed", "failed", "cancelled"}
Activity == {"delta", "tool_started", "tool_completed", "tool_cancelled"}
Live     == {"running", "cancelling", "unknown"}

Event(k, t, c) == [kind |-> k, turn |-> t, cause |-> c]
Idle           == [cmd |-> None, pc |-> "idle", out |-> 0]
NoTask         == [pc |-> "none", left |-> 0, round |-> 0, result |-> "none", out |-> 0]
NoSub          == [pc |-> "none", turn |-> None, queue |-> <<>>, last |-> 0]

Diverged == Len(store) # snap.last

Init ==
    /\ store = <<>> /\ known = FALSE
    /\ snap = [last |-> 0, active |-> None, status |-> [t \in Turns |-> "none"]]
    /\ receipts = [c \in Commands |-> 0] /\ execution = None
    /\ call = [k \in Calls |-> Idle] /\ tries = [c \in Commands |-> 0]
    /\ task = [c \in Starts |-> NoTask]
    /\ token = [c \in Starts |-> FALSE] /\ process = [c \in Starts |-> "none"]
    /\ history = <<>> /\ sub = NoSub

-----------------------------------------------------------------------------
(* The reducer and the store *)

\* apply accepts the event in this state.  (Nothing emits SessionClosed.)
Legal(s, e) ==
    CASE e.kind = "created" -> s.last = 0
      [] e.kind = "started" -> s.active = None
      [] e.kind = "cancel_requested" -> s.active = e.turn /\ s.status[e.turn] = "running"
      [] e.kind = "cancelled" -> s.active = e.turn /\ s.status[e.turn] \in Live
      [] e.kind \in Activity -> s.active = e.turn /\ s.status[e.turn] \notin Terminal
      [] OTHER -> s.active = e.turn

\* The snapshot after the event.
Reduced(s, e) ==
    LET to(st, a) == [last |-> s.last + 1, active |-> a, status |-> [s.status EXCEPT ![e.turn] = st]]
    IN  CASE e.kind \in {"created"} \cup Activity -> [s EXCEPT !.last = @ + 1]
          [] e.kind = "started" -> to("running", e.turn)
          [] e.kind = "cancel_requested" -> to("cancelling", e.turn)
          [] e.kind = "stalled" -> to("unknown", e.turn)
          [] OTHER -> to(e.kind, None)

\* store.append, which accepts only the number after its last, then apply.
AppendAndApply(e) ==
    /\ ~Diverged
    /\ store' = Append(store, e)
    /\ snap' = IF Legal(snap, e) THEN Reduced(snap, e) ELSE snap

-----------------------------------------------------------------------------
(* The broadcast channel, as the subscription of run_turn sees it *)

\* The turn's terminal event, on which run_turn returns.
EndsTurn(s, n) == store[n].turn = s.turn /\ store[n].kind \in Terminal

\* run_turn has returned.
Finished(s) == [pc |-> "done", turn |-> s.turn, queue |-> <<>>, last |-> 0]

\* recv hands out event n.
Deliver(s, n) == IF EndsTurn(s, n) THEN Finished(s) ELSE [s EXCEPT !.last = n]

\* recv skips an event that the replay, or a later event, has overtaken.
Received(s, n) == IF s.pc = "done" \/ n <= s.last THEN s ELSE Deliver(s, n)

\* broadcast::Sender::send.  A receiver takes the event at once: a delay
\* only matters by making it lag, which a slow load does as well.
Send(n) ==
    sub' = CASE sub.pc = "recv" -> Received(sub, n)
             [] sub.pc = "load" /\ Len(sub.queue) <= Capacity -> [sub EXCEPT !.queue = Append(@, n)]
             [] OTHER -> sub

-----------------------------------------------------------------------------
(* Commands *)

At(k, pc) == call[k].pc = pc
Goto(k, c, pc, out) == call' = [call EXCEPT ![k] = [cmd |-> c, pc |-> pc, out |-> out]]
Return(k) == call' = [call EXCEPT ![k] = Idle]

Sent(k, c) ==
    /\ At(k, "idle") /\ tries[c] < MaxTries[c]
    /\ tries' = [tries EXCEPT ![c] = @ + 1]

\* create_session finds no session of this id (and else returns the receipt
\* or SessionAlreadyExists, changing nothing).
CreateSession(k, c) ==
    /\ Sent(k, c) /\ ~known
    /\ Goto(k, c, "append", 0)
    /\ UNCHANGED <<control, turn, sub>>

\* The agent cannot be built, or another create has already appended.
CreateFails(k) ==
    /\ At(k, "append") /\ Return(k)
    /\ UNCHANGED <<control, turn, tries, sub>>

CreateAppend(k) ==
    /\ At(k, "append") /\ store = <<>>
    /\ store' = <<Event("created", None, call[k].cmd)>>
    /\ Goto(k, call[k].cmd, "insert", 0)
    /\ UNCHANGED <<known, snap, receipts, execution, turn, tries, sub>>

\* The new runtime, with its snapshot and the receipt, enters the table
\* unless a session of this id is there.
CreateInsert(k) ==
    /\ At(k, "insert") /\ Return(k)
    /\ IF known
       THEN UNCHANGED <<known, snap, receipts>>
       ELSE /\ known' = TRUE
            /\ snap' = Reduced(snap, store[1])
            /\ receipts' = [receipts EXCEPT ![call[k].cmd] = 1]
    /\ UNCHANGED <<store, execution, turn, tries, sub>>

\* No receipt, and ensure_can_start.
CanStart(c) == receipts[c] = 0 /\ snap.active = None

\* start_turn under the lock.  expected_seq, when it is given and stale, is
\* one more reason to refuse.
StartTurn(k, c) ==
    /\ Sent(k, c) /\ known /\ CanStart(c)
    /\ AppendAndApply(Event("started", TurnOf[c], c))
    /\ IF Legal(snap, Event("started", TurnOf[c], c))
       THEN /\ execution' = c
            /\ receipts' = [receipts EXCEPT ![c] = Len(store) + 1]
            /\ Goto(k, c, "start", Len(store) + 1)
       ELSE UNCHANGED <<execution, receipts, call>>
    /\ UNCHANGED <<known, turn, sub>>

\* start_turn after the lock: the broadcast, and the turn's task.
StartSpawn(k) ==
    /\ At(k, "start")
    /\ Send(call[k].out)
    /\ task' = [task EXCEPT ![call[k].cmd].pc = "new"]
    /\ Return(k)
    /\ UNCHANGED <<control, tries, token, process, history>>

\* cancel_turn under the lock.  A turn that is cancelling or unknown is
\* still active: the store takes the event and apply refuses it.
CancelTurn(k, c) ==
    LET e == Event("cancel_requested", TurnOf[c], c) IN
    /\ Sent(k, c) /\ known /\ receipts[c] = 0
    /\ execution # None /\ TurnOf[execution] = TurnOf[c]
    /\ AppendAndApply(e)
    /\ IF Legal(snap, e)
       THEN /\ receipts' = [receipts EXCEPT ![c] = Len(store) + 1]
            /\ call' = [call EXCEPT ![k] = [cmd |-> execution, pc |-> "cancel", out |-> Len(store) + 1]]
       ELSE UNCHANGED <<receipts, call>>
    /\ UNCHANGED <<known, execution, turn, sub>>

\* cancel_all calls the canceller of every resource registered by now.
CancelAll(c) == process' = [process EXCEPT ![c] = IF @ = "running" THEN "stopping" ELSE @]

\* cancel_turn after the lock: the broadcast, then TurnExecutionContext::
\* cancel, which sets the token and cancels the resources.
CancelExecution(k) ==
    /\ At(k, "cancel") /\ Return(k)
    /\ Send(call[k].out)
    /\ token' = [token EXCEPT ![call[k].cmd] = TRUE]
    /\ CancelAll(call[k].cmd)
    /\ UNCHANGED <<control, task, history, tries>>

-----------------------------------------------------------------------------
(* The turn's task: run_turn_task around ForgeAgent::run_in_turn *)

In(c, pc) == task[c].pc = pc /\ task[c].out = 0
Cancellable == {"model", "call"}

\* record_event under the lock; a refused event is dropped, the task goes on
\* as `after' says.
Record(c, kind, after) ==
    IF Diverged
    THEN /\ task' = [task EXCEPT ![c] = after]
         /\ UNCHANGED <<store, snap>>
    ELSE /\ AppendAndApply(Event(kind, TurnOf[c], None))
         /\ task' = [task EXCEPT ![c] = [after EXCEPT !.out = Len(store) + 1]]

\* record_event after the lock.
TaskSend(c) ==
    /\ task[c].out # 0
    /\ Send(task[c].out)
    /\ task' = [task EXCEPT ![c].out = 0]
    /\ UNCHANGED <<control, token, process, history, client>>

\* The prompt joins the messages, unless the turn is already cancelled.
TaskBegin(c) ==
    /\ In(c, "new")
    /\ IF token[c]
       THEN /\ task' = [task EXCEPT ![c].pc = "cleanup", ![c].result = "cancelled"]
            /\ UNCHANGED history
       ELSE /\ task' = [task EXCEPT ![c].pc = IF MaxRounds = 0 THEN "cleanup" ELSE "model",
                                    ![c].result = "completed"]
            /\ history' = Append(history, <<"user", c>>)
    /\ UNCHANGED <<control, token, process, client, sub>>

\* The model's answer arrives: its text is handed on chunk by chunk.
TextDelta(c) ==
    /\ In(c, "model") /\ task[c].left < MaxDeltas[c]
    /\ Record(c, "delta", [task[c] EXCEPT !.left = @ + 1])
    /\ UNCHANGED <<known, receipts, execution, token, process, history, client, sub>>

\* The whole message joins the agent's messages.  Without tool uses the turn
\* is complete.
MessageDone(c) ==
    /\ In(c, "model")
    /\ \E n \in 0..MaxTools[c] :
          /\ task' = [task EXCEPT ![c].pc = IF n = 0 THEN "cleanup" ELSE "tool", ![c].left = n]
          /\ history' = Append(history, <<IF n = 0 THEN "text" ELSE "tool_uses", c>>)
    /\ UNCHANGED <<control, token, process, client, sub>>

\* The request fails, before there is any text: the turn ends as failed.
ModelFails(c) ==
    /\ In(c, "model") /\ task[c].left = 0
    /\ task' = [task EXCEPT ![c].pc = "cleanup", ![c].result = "failed"]
    /\ UNCHANGED <<control, token, process, history, client, sub>>

ToolStart(c) ==
    /\ In(c, "tool") /\ task[c].left > 0
    /\ Record(c, "tool_started", [task[c] EXCEPT !.pc = "call"])
    /\ UNCHANGED <<known, receipts, execution, token, process, history, client, sub>>

\* The tool starts a process that may outlive the call; it is registered
\* with the turn.
ToolSpawn(c) ==
    /\ In(c, "call") /\ process[c] = "none"
    /\ process' = [process EXCEPT ![c] = "running"]
    /\ UNCHANGED <<control, task, token, history, client, sub>>

ToolEnd(c) ==
    /\ In(c, "call")
    /\ Record(c, "tool_completed", [task[c] EXCEPT !.pc = "tool", !.left = @ - 1])
    /\ UNCHANGED <<known, receipts, execution, token, process, history, client, sub>>

\* Mutant of ToolsDone: in the last round the results are not kept.
ToolsDoneForget(c) ==
    /\ In(c, "tool") /\ task[c].left = 0
    /\ IF task[c].round + 1 = MaxRounds
       THEN task' = [task EXCEPT ![c].pc = "cleanup"] /\ UNCHANGED history
       ELSE /\ task' = [task EXCEPT ![c].round = @ + 1, ![c].pc = "model"]
            /\ history' = Append(history, <<"results", c>>)
    /\ UNCHANGED <<control, token, process, client, sub>>

\* The results join the messages; the next round, or the last was reached.
ToolsDone(c) ==
    /\ In(c, "tool") /\ task[c].left = 0
    /\ history' = Append(history, <<"results", c>>)
    /\ task' = [task EXCEPT ![c].round = @ + 1,
                            ![c].pc = IF task[c].round + 1 = MaxRounds THEN "cleanup" ELSE "model"]
    /\ UNCHANGED <<control, token, process, client, sub>>

\* The select sees the cancellation, while the model answers or a tool runs.
TaskCancelled(c) ==
    LET after == [task[c] EXCEPT !.pc = "cleanup", !.result = "cancelled"] IN
    /\ task[c].pc \in Cancellable /\ task[c].out = 0 /\ token[c]
    /\ IF task[c].pc = "call"
       THEN Record(c, "tool_cancelled", after)
       ELSE task' = [task EXCEPT ![c] = after] /\ UNCHANGED <<store, snap>>
    /\ UNCHANGED <<known, receipts, execution, token, process, history, client, sub>>

\* Mutant of Cleanup: leaves the resources to the cancel command.
CleanupOnly(c) ==
    /\ In(c, "cleanup")
    /\ task' = [task EXCEPT ![c].pc = "wait"]
    /\ UNCHANGED <<control, token, process, history, client, sub>>

\* cleanup_and_wait cancels what the turn still holds.
Cleanup(c) ==
    /\ In(c, "cleanup") /\ CancelAll(c)
    /\ task' = [task EXCEPT ![c].pc = "wait"]
    /\ UNCHANGED <<control, token, history, client, sub>>

\* wait_for_idle, or wait_for_idle_unbounded after the timeout.
WaitIdle(c) ==
    /\ In(c, "wait") \/ In(c, "drain")
    /\ process[c] = "none"
    /\ task' = [task EXCEPT ![c].pc = "end"]
    /\ UNCHANGED <<control, token, process, history, client, sub>>

WaitTimeout(c) ==
    /\ In(c, "wait") /\ process[c] # "none"
    /\ Record(c, "stalled", [task[c] EXCEPT !.pc = "drain"])
    /\ UNCHANGED <<known, receipts, execution, token, process, history, client, sub>>

\* Mutant of TurnKind: a turn that has not completed was cancelled.
TurnKindCancels(c) == IF token[c] \/ task[c].result # "completed" THEN "cancelled" ELSE "completed"
TurnKind(c) == IF token[c] THEN "cancelled" ELSE task[c].result

\* record_terminal_event.
TurnEnd(c) ==
    /\ In(c, "end")
    /\ Record(c, TurnKind(c), [task[c] EXCEPT !.pc = "done"])
    /\ execution' = IF ~Diverged /\ execution # None /\ TurnOf[execution] = TurnOf[c]
                    THEN None ELSE execution
    /\ UNCHANGED <<known, receipts, token, process, history, client, sub>>

\* A stopped process releases its guard; so does one that has exited when a
\* tool call polls it.
ProcessGone(c) ==
    /\ process[c] = "stopping" \/ (process[c] = "running" /\ In(c, "call"))
    /\ process' = [process EXCEPT ![c] = "none"]
    /\ UNCHANGED <<control, task, token, history, client, sub>>

-----------------------------------------------------------------------------
(* A client's run_turn: subscribe from accepted_seq, receive to the end *)

\* subscribe joins the channel before it loads the history.
Subscribe(c) ==
    /\ c \in Runs
    /\ sub.pc = "none" /\ receipts[c] # 0
    /\ sub' = [sub EXCEPT !.pc = "load", !.turn = TurnOf[c], !.last = receipts[c]]
    /\ UNCHANGED <<control, turn, client>>

\* EventStore::load: the history after sub.last is handed out, up to the turn's
\* end if that is in it.  The channel then holds only events of the store, which
\* the history has handed out already, and they are skipped.
SubscribeLoad ==
    /\ sub.pc = "load" /\ Len(sub.queue) <= Capacity
    /\ sub' = IF \E n \in sub.last + 1 .. Len(store) : EndsTurn(sub, n)
              THEN Finished(sub)
              ELSE [sub EXCEPT !.pc = "recv", !.queue = <<>>, !.last = Len(store)]
    /\ UNCHANGED <<control, turn, client>>

\* The receiver lags by more than the channel holds: run_turn fails.
RecvLagged ==
    /\ sub.pc = "load" /\ Len(sub.queue) > Capacity
    /\ sub' = [NoSub EXCEPT !.pc = "lagged"]
    /\ UNCHANGED <<control, turn, client>>

-----------------------------------------------------------------------------

Continue(k) ==
    \/ CreateFails(k) \/ CreateAppend(k) \/ CreateInsert(k)
    \/ StartSpawn(k) \/ CancelExecution(k)

TaskStep(c) ==
    \/ TaskSend(c) \/ TaskBegin(c) \/ ToolStart(c) \/ ToolsDone(c) \/ TaskCancelled(c)
    \/ Cleanup(c) \/ WaitIdle(c) \/ TurnEnd(c)

Next ==
    \/ \E k \in Calls, c \in Creates : CreateSession(k, c)
    \/ \E k \in Calls, c \in Starts : StartTurn(k, c)
    \/ \E k \in Calls, c \in Cancels : CancelTurn(k, c)
    \/ \E k \in Calls : Continue(k)
    \/ \E c \in Starts :
        \/ TaskStep(c) \/ TextDelta(c) \/ MessageDone(c) \/ ModelFails(c) \/ ToolSpawn(c) \/ ToolEnd(c)
        \/ WaitTimeout(c) \/ ProcessGone(c) \/ Subscribe(c)
    \/ SubscribeLoad \/ RecvLagged

\* The runtime polls ready tasks; a killed process dies.  Nothing makes a
\* model or a tool answer.
Fairness ==
    /\ \A k \in Calls : WF_vars(Continue(k))
    /\ \A c \in Starts : WF_vars(TaskStep(c)) /\ WF_vars(process[c] = "stopping" /\ ProcessGone(c))

Spec == Init /\ [][Next]_vars /\ Fairness

-----------------------------------------------------------------------------
(* Properties *)

Events == [kind  : Terminal \cup Activity \cup {"created", "started", "cancel_requested", "stalled"},
           turn  : Turns \cup {None},
           cause : Commands \cup {None}]

Snapshots == [last : Nat, active : Turns \cup {None},
              status : [Turns -> Live \cup Terminal \cup {"none"}]]
TaskStates == [pc : {"none", "new", "model", "tool", "call", "cleanup", "wait", "drain",
                     "end", "done"},
               left : Nat, round : Nat, result : Terminal \cup {"none"}, out : Nat]
CallStates == [cmd : Commands \cup {None}, out : Nat,
               pc : {"idle", "append", "insert", "start", "cancel"}]
Subscriptions == [pc : {"none", "load", "recv", "done", "lagged"}, turn : Turns \cup {None},
                  queue : Seq(Nat), last : Nat]

\* Every part of the session keeps its type.
TypeOK ==
    /\ store \in Seq(Events) /\ known \in BOOLEAN
    /\ snap \in Snapshots
    /\ receipts \in [Commands -> Nat] /\ execution \in Starts \cup {None}
    /\ call \in [Calls -> CallStates]
    /\ tries \in [Commands -> Nat]
    /\ task \in [Starts -> TaskStates]
    /\ token \in [Starts -> BOOLEAN] /\ process \in [Starts -> {"none", "running", "stopping"}]
    /\ history \in Seq({"user", "text", "tool_uses", "results"} \X Starts)
    /\ sub \in Subscriptions

\* The store and the snapshot part only when a turn whose cancellation was
\* already accepted (or that is stalled) is cancelled once more: every other
\* event that reaches the store is applied (service.rs appends first).
DivergesOnlyBySecondCancel ==
    known /\ Diverged =>
        /\ Len(store) = snap.last + 1
        /\ store[Len(store)].kind = "cancel_requested"
        /\ snap.status[store[Len(store)].turn] \in {"cancelling", "unknown"}

\* The active execution is the one of the snapshot's active turn, and an
\* idle session holds none: a later cancel cannot hit a finished turn.
ExecutionIsActive ==
    IF execution = None THEN snap.active = None ELSE snap.active = TurnOf[execution]

\* A command has at most one effect however often it is sent, and its
\* receipt names it.
CommandOnce ==
    /\ \A i, j \in 1..Len(store) : store[i].cause = store[j].cause /\ i # j => store[i].cause = None
    /\ \A c \in Commands : receipts[c] # 0 => store[receipts[c]].cause = c

\* A turn ends only after everything it started has stopped (turn.rs:
\* terminal events wait until all guards have been released).
EndedTurnIsIdle ==
    \A c \in Starts : task[c].pc = "done" => process[c] = "none"

\* In the agent's messages, which all turns of a session share, tool uses
\* are followed by their results, unless their turn was cancelled there.
ToolUsesAnswered ==
    \A i \in 1..Len(history) - 1 :
        LET c == history[i][2] IN
        history[i][1] = "tool_uses" =>
            history[i + 1] = <<"results", c>> \/ task[c].result = "cancelled"

\* A run_turn that has returned got its turn's end, not that of another turn
\* (client.rs), whether from the history or from the channel.
ReturnedIsEnded ==
    sub.pc = "done" => \E n \in 1..Len(store) : EndsTurn(sub, n)

\* What holds of a session at every moment: its log, its snapshot, its active
\* execution, the agent's messages and the subscription fit together.
SessionSound ==
    /\ DivergesOnlyBySecondCancel
    /\ ExecutionIsActive
    /\ CommandOnce
    /\ EndedTurnIsIdle
    /\ ToolUsesAnswered
    /\ ReturnedIsEnded

\* The session implements the log it promises.
Log == INSTANCE SessionLog WITH
          log <- IF known THEN SubSeq(store, 1, snap.last) ELSE <<>>
ImplementsLog == Log!Spec

\* A turn whose execution was cancelled ends, without help from the model or
\* the tool, unless a second cancel has blocked the session's log.
CancelledTurnEnds ==
    \A c \in Starts :
        token[c] ~> \/ Diverged
                   \/ \E i \in receipts[c]+1..Len(store) :
                         store[i].turn = TurnOf[c] /\ store[i].kind \in Terminal

=============================================================================
