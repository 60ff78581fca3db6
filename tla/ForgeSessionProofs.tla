------------------------- MODULE ForgeSessionProofs -------------------------
(***************************************************************************)
(* Proofs about one Forge session, for any number of clients, commands and *)
(* turns, and about the shell tools, for any number of processes.          *)
(* SessionInv is the inductive invariant behind SessionSound; RefineInv,   *)
(* which extends it, the one behind the refinement of the log; ExecInv the *)
(* one of the shell tools.                                                 *)
(***************************************************************************)
EXTENDS MCForge, SequenceTheorems, WellFoundedInduction, TLAPS

\* The snapshot of a session that is not in the table.
NoSnap == [last |-> 0, active |-> None, status |-> [t \in Turns |-> "none"]]

\* Before the session is in the table there is at most its creation; after
\* that the store is at the snapshot, or one refused cancellation ahead.
LogInv ==
    /\ ~known => snap = NoSnap /\ execution = None /\ Len(store) <= 1
    /\ known => snap.last > 0 /\ snap.last <= Len(store)
    /\ DivergesOnlyBySecondCancel

\* Receipts and causes name each other; only the refused event has none.
CauseInv ==
    /\ \A i \in 1..Len(store) : store[i].cause # None =>
          \/ receipts[store[i].cause] = i
          \/ Diverged /\ i = Len(store) /\ receipts[store[i].cause] = 0
    /\ \A c \in Commands : receipts[c] # 0 =>
          known /\ receipts[c] <= Len(store) /\ store[receipts[c]].cause = c

\* The active execution's turn is the snapshot's, and it has not ended.
ActiveInv ==
    /\ ExecutionIsActive
    /\ execution # None => snap.status[TurnOf[execution]] \in Live

\* A command between its unlock and its return.
CallInv ==
    /\ \A k \in Calls :
          /\ call[k].pc = "append" => call[k].cmd \in Creates
          /\ call[k].pc = "insert" =>
                /\ ~known /\ Len(store) = 1 /\ call[k].cmd \in Creates
                /\ store[1] = Event("created", None, call[k].cmd)
          /\ call[k].pc = "start" =>
                /\ call[k].cmd \in Starts /\ execution = call[k].cmd
                /\ task[call[k].cmd].pc = "none" /\ receipts[call[k].cmd] # 0
          /\ call[k].pc = "cancel" => call[k].cmd \in Starts
          /\ call[k].pc \in {"start", "cancel"} => call[k].out \in 1..Len(store)
    /\ \A k, l \in Calls :
          call[k].pc = call[l].pc /\ call[k].pc \in {"insert", "start"} => k = l

Early == {"none", "new"}
Busy  == {"model", "tool", "call"}

\* A turn's task: while it runs its turn is the active execution.
TaskInv ==
    \A c \in Starts :
        /\ receipts[c] = 0 => task[c].pc = "none"
        /\ task[c].pc \notin {"none", "done"} => execution = c
        /\ task[c].pc \in Early => task[c].result = "none"
        /\ task[c].pc \in Busy => task[c].result = "completed"
        /\ task[c].pc \notin Early => task[c].result # "none"
        /\ task[c].pc = "call" => task[c].left > 0
        /\ task[c].pc \in {"end", "done"} => process[c] = "none"
        /\ task[c].out <= Len(store)

\* Tool uses at the end of the messages have a task that is at its tools, or
\* that was cancelled there.
HistoryInv ==
    /\ ToolUsesAnswered
    /\ history # <<>> /\ history[Len(history)][1] = "tool_uses" =>
          LET c == history[Len(history)][2]
          IN  task[c].pc \in {"tool", "call"} \/ task[c].result = "cancelled"

SessionInv ==
    /\ TypeOK /\ LogInv /\ CauseInv /\ ActiveInv /\ CallInv /\ TaskInv /\ HistoryInv
    /\ ReturnedIsEnded

-----------------------------------------------------------------------------
(* What an event does to the snapshot and the store                        *)

\* The events a turn's task records.
TaskKinds == Activity \cup Terminal \cup {"stalled"}

\* The reducer takes whatever the task of the active turn records.
LEMMA TaskEventLegal ==
    ASSUME NEW s \in Snapshots, NEW t \in Turns, NEW kind \in TaskKinds,
           s.active = t, s.status[t] \in Live
    PROVE  Legal(s, Event(kind, t, None))
  BY DEF Legal, Event, TaskKinds, Activity, Terminal, Live

\* What the snapshot becomes.
LEMMA TaskEventReduced ==
    ASSUME NEW t \in Turns, NEW kind \in TaskKinds,
           snap \in Snapshots, snap.active = t, snap.status[t] \in Live,
           snap' = Reduced(snap, Event(kind, t, None))
    PROVE  /\ snap' \in Snapshots /\ snap'.last = snap.last + 1
           /\ kind \notin Terminal => snap'.active = t /\ snap'.status[t] \in Live
           /\ kind \notin Terminal /\ snap'.status[t] = "running" =>
                 snap.status[t] = "running" /\ kind # "stalled"
           /\ kind \in Terminal => snap'.active = None
<1>1. CASE kind \in Activity
  <2>1. snap' = [snap EXCEPT !.last = @ + 1]
    BY <1>1 DEF Reduced, Event, Activity
  <2>2. QED
    BY <1>1, <2>1 DEF Snapshots, Activity, Terminal
<1>2. CASE kind = "stalled"
  <2>1. snap' = [last |-> snap.last + 1, active |-> t,
                 status |-> [snap.status EXCEPT ![t] = "unknown"]]
    BY <1>2 DEF Reduced, Event, Activity
  <2>2. QED
    BY <1>2, <2>1 DEF Snapshots, Activity, Terminal, Live
<1>3. CASE kind \in Terminal
  <2>1. snap' = [last |-> snap.last + 1, active |-> None,
                 status |-> [snap.status EXCEPT ![t] = kind]]
    BY <1>3 DEF Reduced, Event, Activity, Terminal
  <2>2. QED
    BY <1>3, <2>1 DEF Snapshots, Activity, Terminal, Live
<1>4. QED
  BY <1>1, <1>2, <1>3 DEF TaskKinds

\* A start, in a session without an active turn.
LEMMA StartReduced ==
    ASSUME NEW t \in Turns, NEW c \in Commands, snap \in Snapshots, snap.active = None
    PROVE  /\ Legal(snap, Event("started", t, c))
           /\ snap' = Reduced(snap, Event("started", t, c)) =>
                 /\ snap' \in Snapshots /\ snap'.last = snap.last + 1
                 /\ snap'.active = t /\ snap'.status[t] = "running"
<1>1. Legal(snap, Event("started", t, c))
  BY DEF Legal, Event, Activity
<1>2. Reduced(snap, Event("started", t, c))
        = [last |-> snap.last + 1, active |-> t, status |-> [snap.status EXCEPT ![t] = "running"]]
  BY DEF Reduced, Event, Activity
<1>3. QED
  BY <1>1, <1>2 DEF Snapshots, Live

\* A cancellation of the active turn: refused unless the turn is running.
LEMMA CancelReduced ==
    ASSUME NEW t \in Turns, NEW c \in Commands, snap \in Snapshots, snap.active = t
    PROVE  /\ Legal(snap, Event("cancel_requested", t, c)) <=> snap.status[t] = "running"
           /\ snap' = Reduced(snap, Event("cancel_requested", t, c)) =>
                 /\ snap' \in Snapshots /\ snap'.last = snap.last + 1
                 /\ snap'.active = t /\ snap'.status[t] = "cancelling"
<1>1. Legal(snap, Event("cancel_requested", t, c)) <=> snap.status[t] = "running"
  BY DEF Legal, Event, Activity
<1>2. Reduced(snap, Event("cancel_requested", t, c))
        = [last |-> snap.last + 1, active |-> t, status |-> [snap.status EXCEPT ![t] = "cancelling"]]
  BY DEF Reduced, Event, Activity
<1>3. QED
  BY <1>1, <1>2 DEF Snapshots, Live

\* The creation, which makes the first snapshot.
LEMMA CreateReduced ==
    ASSUME NEW e \in Events, e.kind = "created", snap = NoSnap, snap' = Reduced(snap, e)
    PROVE  snap' \in Snapshots /\ snap'.last = 1 /\ snap'.active = None
<1>1. snap' = [snap EXCEPT !.last = 1]
  BY DEF Reduced, NoSnap, Activity
<1>2. QED
  BY <1>1 DEF NoSnap, Snapshots

-----------------------------------------------------------------------------
(* Steps of a turn's task                                                  *)

\* A step that leaves the control state alone.
LEMMA ControlKept ==
    ASSUME SessionInv, UNCHANGED control
    PROVE  LogInv' /\ CauseInv' /\ ActiveInv'
<1> USE DEF SessionInv, control
<1>1. LogInv'
  BY DEF LogInv, DivergesOnlyBySecondCancel, Diverged, NoSnap
<1>2. CauseInv'
  BY DEF CauseInv, Diverged
<1>3. ActiveInv'
  BY DEF ActiveInv, ExecutionIsActive
<1>4. QED
  BY <1>1, <1>2, <1>3

\* A broadcast of an event of the store.
LEMMA SendKeeps ==
    ASSUME TypeOK, ReturnedIsEnded, NEW n \in 1..Len(store), Send(n), UNCHANGED store
    PROVE  sub' \in Subscriptions /\ ReturnedIsEnded'
<1>1. sub \in Subscriptions /\ n \in Nat /\ store' = store
  BY DEF TypeOK
<1>2. CASE sub.pc = "recv"
  <2>1. sub' = Received(sub, n)
    BY <1>2 DEF Send
  <2>2. CASE n <= sub.last
    BY <1>1, <1>2, <2>1, <2>2 DEF Received, ReturnedIsEnded
  <2>3. CASE ~(n <= sub.last) /\ EndsTurn(sub, n)
    <3>1. sub' = Finished(sub)
      BY <1>2, <2>1, <2>3 DEF Received, Deliver
    <3>2. sub' \in Subscriptions /\ sub'.turn = sub.turn
      BY <1>1, <3>1 DEF Finished, Subscriptions
    <3>3. ReturnedIsEnded'
      BY <1>1, <2>3, <3>2 DEF ReturnedIsEnded, EndsTurn
    <3>4. QED
      BY <3>2, <3>3
  <2>4. CASE ~(n <= sub.last) /\ ~EndsTurn(sub, n)
    <3>1. sub' = [sub EXCEPT !.last = n]
      BY <1>2, <2>1, <2>4 DEF Received, Deliver
    <3>2. sub' \in Subscriptions /\ sub'.pc = "recv"
      BY <1>1, <1>2, <3>1 DEF Subscriptions
    <3>3. QED
      BY <3>2 DEF ReturnedIsEnded
  <2>5. QED
    BY <2>2, <2>3, <2>4
<1>3. CASE sub.pc # "recv"
  <2>1. sub' = sub \/ (sub.pc = "load" /\ sub' = [sub EXCEPT !.queue = Append(@, n)])
    BY <1>3 DEF Send
  <2>2. CASE sub' = sub
    BY <1>1, <2>2 DEF ReturnedIsEnded, EndsTurn
  <2>3. CASE sub.pc = "load" /\ sub' = [sub EXCEPT !.queue = Append(@, n)]
    <3>1. Append(sub.queue, n) \in Seq(Nat)
      BY <1>1 DEF Subscriptions
    <3>2. sub' \in Subscriptions /\ sub'.pc = "load"
      BY <1>1, <2>3, <3>1 DEF Subscriptions
    <3>3. QED
      BY <3>2 DEF ReturnedIsEnded
  <2>4. QED
    BY <2>1, <2>2, <2>3
<1>4. QED
  BY <1>2, <1>3

\* The author of every message is a turn.
LEMMA Authors ==
    ASSUME TypeOK, NEW i \in 1..Len(history)
    PROVE  /\ history[i] \in {"user", "text", "tool_uses", "results"} \X Starts
           /\ history[i][2] \in Starts
  BY DEF TypeOK

\* A step that adds no message, and after which a task that was at its tools is
\* still there or has been cancelled.
LEMMA HistoryKept ==
    ASSUME SessionInv, UNCHANGED history,
           \A d \in Starts :
               /\ task[d].result = "cancelled" => task'[d].result = "cancelled"
               /\ task[d].pc \in {"tool", "call"} =>
                     task'[d].pc \in {"tool", "call"} \/ task'[d].result = "cancelled"
    PROVE  HistoryInv'
<1>1. Len(history) \in Nat
  BY DEF SessionInv, TypeOK
<1>2. ToolUsesAnswered'
  <2> SUFFICES ASSUME NEW i \in 1..Len(history) - 1, history[i][1] = "tool_uses"
               PROVE  \/ history[i + 1] = <<"results", history[i][2]>>
                      \/ task'[history[i][2]].result = "cancelled"
    BY DEF ToolUsesAnswered
  <2>1. history[i][2] \in Starts
    BY <1>1, Authors DEF SessionInv
  <2>2. QED
    BY <2>1 DEF SessionInv, HistoryInv, ToolUsesAnswered
<1>3. ASSUME history # <<>>, history[Len(history)][1] = "tool_uses"
      PROVE  LET c == history[Len(history)][2]
             IN  task'[c].pc \in {"tool", "call"} \/ task'[c].result = "cancelled"
  <2>1. Len(history) \in 1..Len(history)
    BY <1>1, <1>3 DEF SessionInv, TypeOK
  <2>2. history[Len(history)][2] \in Starts
    BY <2>1, Authors DEF SessionInv
  <2>3. QED
    BY <1>3, <2>2 DEF SessionInv, HistoryInv
<1>4. QED
  BY <1>2, <1>3 DEF HistoryInv

\* record_event, and record_terminal_event with its effect on the execution:
\* the event is applied, unless the log is already blocked.
LEMMA RecordStep ==
    ASSUME SessionInv, NEW c \in Starts, NEW kind \in TaskKinds, NEW after \in TaskStates,
           task[c].pc \notin {"none", "done"},
           after.pc \notin Early, after.out = 0, after.result # "none",
           after.pc \in Busy => after.result = "completed",
           after.pc = "call" => after.left > 0,
           after.pc \in {"end", "done"} => process[c] = "none",
           task[c].pc \in {"tool", "call"} => after.pc \in {"tool", "call"} \/ after.result = "cancelled",
           task[c].result = "cancelled" => after.result = "cancelled",
           Record(c, kind, after),
           kind \in Terminal => after.pc = "done" /\ execution' = (IF Diverged THEN execution ELSE None),
           kind \notin Terminal => execution' = execution,
           UNCHANGED <<known, receipts, token, process, history, client, sub>>
    PROVE  SessionInv'
<1> USE SessionAssumption DEF client
<1>1. /\ execution = c /\ snap.active = TurnOf[c] /\ TurnOf[c] \in Turns /\ known
      /\ snap.status[TurnOf[c]] \in Live /\ c \notin {None}
  BY DEF SessionInv, TaskInv, ActiveInv, ExecutionIsActive, LogInv, Commands
<1>2. CASE Diverged
  <2>1. task' = [task EXCEPT ![c] = after] /\ UNCHANGED <<store, snap, execution>>
    BY <1>2 DEF Record
  <2>2. LogInv' /\ CauseInv' /\ ActiveInv'
    BY <2>1, ControlKept DEF control
  <2>3. TypeOK'
    BY <2>1 DEF SessionInv, TypeOK
  <2>4. CallInv'
    BY <2>1 DEF SessionInv, TypeOK, CallInv
  <2>5. TaskInv'
    BY <1>1, <2>1 DEF SessionInv, TypeOK, TaskInv, TaskStates
  <2>6. HistoryInv'
    BY <2>1, HistoryKept DEF SessionInv, TypeOK
  <2>7. ReturnedIsEnded'
    BY <2>1 DEF SessionInv, ReturnedIsEnded, EndsTurn
  <2>8. QED
    BY <2>2, <2>3, <2>4, <2>5, <2>6, <2>7 DEF SessionInv
<1>3. CASE ~Diverged
  <2> DEFINE e == Event(kind, TurnOf[c], None)
  <2>1. /\ Legal(snap, e) /\ e \in Events /\ e.cause = None /\ e.kind = kind
    BY <1>1, TaskEventLegal DEF SessionInv, TypeOK, Event, Events, TaskKinds
  <2>2. /\ store' = Append(store, e) /\ snap' = Reduced(snap, e)
        /\ task' = [task EXCEPT ![c] = [after EXCEPT !.out = Len(store) + 1]]
    BY <1>3, <2>1 DEF Record, AppendAndApply
  <2>3. /\ snap' \in Snapshots /\ snap'.last = snap.last + 1
        /\ kind \notin Terminal => /\ snap'.active = TurnOf[c]
                                   /\ snap'.status[TurnOf[c]] \in Live
        /\ kind \in Terminal => snap'.active = None
    <3>1. snap \in Snapshots /\ snap' = Reduced(snap, Event(kind, TurnOf[c], None))
      BY <2>2 DEF SessionInv, TypeOK
    <3>2. QED
      BY <1>1, <3>1, TaskEventReduced
  <2>4. /\ store' \in Seq(Events) /\ Len(store') = Len(store) + 1
        /\ \A i \in 1..Len(store) : store'[i] = store[i]
        /\ store'[Len(store) + 1] = e
    BY <2>1, <2>2 DEF SessionInv, TypeOK
  <2> HIDE DEF e
  <2>5. ~Diverged'
    BY <1>3, <2>3, <2>4 DEF Diverged, SessionInv, TypeOK, Snapshots
  <2>6. TypeOK'
    <3>1. task' \in [Starts -> TaskStates]
      <4>1. Len(store) + 1 \in Nat /\ task \in [Starts -> TaskStates]
        BY DEF SessionInv, TypeOK
      <4>2. [after EXCEPT !.out = Len(store) + 1] \in TaskStates
        BY <4>1 DEF TaskStates
      <4>3. QED
        BY <2>2, <4>1, <4>2
    <3>2. execution' \in Starts \cup {None}
      BY <1>1, <1>3
    <3>3. QED
      BY <2>3, <2>4, <3>1, <3>2 DEF SessionInv, TypeOK
  <2>7. LogInv'
    BY <1>1, <1>3, <2>3, <2>4, <2>5
    DEF SessionInv, TypeOK, Snapshots, LogInv, DivergesOnlyBySecondCancel, Diverged
  <2>8. CauseInv'
    <3> receipts' = receipts /\ known' = known /\ Len(store) \in Nat
      BY DEF SessionInv, TypeOK
    <3>1. ASSUME NEW i \in 1..Len(store'), store'[i].cause # None
          PROVE  receipts'[store'[i].cause] = i
      <4>1. i \in 1..Len(store) /\ store'[i] = store[i]
        BY <2>1, <2>4, <3>1
      <4>2. QED
        BY <1>3, <3>1, <4>1 DEF SessionInv, CauseInv
    <3>2. ASSUME NEW d \in Commands, receipts'[d] # 0
          PROVE  known' /\ receipts'[d] <= Len(store') /\ store'[receipts'[d]].cause = d
      <4>1. known /\ receipts[d] \in 1..Len(store) /\ store[receipts[d]].cause = d
        BY <3>2 DEF SessionInv, TypeOK, CauseInv
      <4>2. QED
        BY <2>4, <4>1
    <3>3. QED
      BY <3>1, <3>2 DEF CauseInv
  <2>9. ActiveInv'
    BY <1>1, <1>3, <2>3 DEF ActiveInv, ExecutionIsActive
  <2>10. CallInv'
    BY <1>1, <2>2, <2>4 DEF SessionInv, TypeOK, CallInv
  <2>11. TaskInv'
    BY <1>1, <2>2, <2>4 DEF SessionInv, TypeOK, TaskInv, TaskStates
  <2>12. HistoryInv'
    BY <2>2, HistoryKept DEF SessionInv, TypeOK, TaskStates
  <2>13. ReturnedIsEnded'
    BY <2>4 DEF SessionInv, ReturnedIsEnded, EndsTurn, TypeOK
  <2>14. QED
    BY <2>6, <2>7, <2>8, <2>9, <2>10, <2>11, <2>12, <2>13 DEF SessionInv
<1>4. QED
  BY <1>2, <1>3

\* A new message.  Whoever is at its tools is the active turn, so only that turn
\* itself can follow its tool uses, and it follows them with their results.
LEMMA HistoryAppend ==
    ASSUME SessionInv, NEW c \in Starts, NEW m \in {"user", "text", "tool_uses", "results"},
           history' = Append(history, <<m, c>>),
           task[c].pc \in {"new", "model", "tool"},
           task[c].pc = "tool" <=> m = "results",
           m = "tool_uses" => task'[c].pc = "tool",
           \A d \in Starts \ {c} : task'[d] = task[d]
    PROVE  /\ history' \in Seq({"user", "text", "tool_uses", "results"} \X Starts)
           /\ HistoryInv'
<1>1. /\ history \in Seq({"user", "text", "tool_uses", "results"} \X Starts)
      /\ Len(history) \in Nat
  BY DEF SessionInv, TypeOK
<1>2. /\ history' \in Seq({"user", "text", "tool_uses", "results"} \X Starts)
      /\ Len(history') = Len(history) + 1
      /\ \A i \in 1..Len(history) : history'[i] = history[i]
      /\ history'[Len(history) + 1] = <<m, c>>
  BY <1>1
<1>3. execution = c /\ task[c].result # "cancelled"
  BY DEF SessionInv, TaskInv, Early, Busy
<1>4. ASSUME NEW d \in Starts, task[d].result = "cancelled"
      PROVE  task'[d].result = "cancelled"
  BY <1>3, <1>4
<1>5. ASSUME NEW i \in 1..Len(history), history[i][1] = "tool_uses"
      PROVE  \/ history'[i + 1] = <<"results", history[i][2]>>
             \/ task'[history[i][2]].result = "cancelled"
  <2>1. history[i][2] \in Starts
    BY Authors DEF SessionInv
  <2>2. CASE i < Len(history)
    <3>1. i \in 1..Len(history) - 1 /\ history'[i + 1] = history[i + 1]
      BY <1>1, <1>2, <2>2
    <3>2. \/ history[i + 1] = <<"results", history[i][2]>>
          \/ task[history[i][2]].result = "cancelled"
      BY <1>5, <3>1 DEF SessionInv, HistoryInv, ToolUsesAnswered
    <3>3. QED
      BY <1>4, <2>1, <3>1, <3>2
  <2>3. CASE i = Len(history)
    <3>1. task[history[i][2]].pc \in {"tool", "call"} \/ task[history[i][2]].result = "cancelled"
      BY <1>1, <1>5, <2>3 DEF SessionInv, HistoryInv
    <3>2. CASE task[history[i][2]].result = "cancelled"
      BY <1>4, <2>1, <3>2
    <3>3. CASE task[history[i][2]].pc \in {"tool", "call"}
      <4>1. history[i][2] = c
        BY <1>3, <2>1, <3>3 DEF SessionInv, TaskInv
      <4>2. m = "results"
        BY <3>3, <4>1
      <4>3. QED
        BY <1>2, <2>3, <4>1, <4>2
    <3>4. QED
      BY <3>1, <3>2, <3>3
  <2>4. QED
    BY <1>1, <2>2, <2>3
<1>6. ToolUsesAnswered'
  <2> SUFFICES ASSUME NEW i \in 1..Len(history') - 1, history'[i][1] = "tool_uses"
               PROVE  \/ history'[i + 1] = <<"results", history'[i][2]>>
                      \/ task'[history'[i][2]].result = "cancelled"
    BY DEF ToolUsesAnswered
  <2>1. i \in 1..Len(history) /\ history'[i] = history[i]
    BY <1>1, <1>2
  <2>2. QED
    BY <1>5, <2>1
<1>7. QED
  BY <1>1, <1>2, <1>6 DEF HistoryInv

\* A step of a turn's task that records nothing.
LEMMA LocalStep ==
    ASSUME SessionInv, NEW c \in Starts, NEW after \in TaskStates,
           task' = [task EXCEPT ![c] = after],
           task[c].pc \notin {"none", "done"} \/ after = [task[c] EXCEPT !.out = 0],
           task[c].pc \notin {"none", "done"} =>
               /\ after.pc \notin Early \cup {"done"} \/ after.pc = task[c].pc
               /\ after.pc \notin Early => after.result # "none"
               /\ after.pc \in Early => after.result = "none"
               /\ after.pc \in Busy => after.result = "completed"
               /\ after.pc = "call" => after.left > 0
               /\ after.pc = "end" => process'[c] = "none",
           after.out = 0,
           process' \in [Starts -> {"none", "running", "stopping"}],
           \A d \in Starts : process[d] = "none" /\ process'[d] # "none" => after.pc = "call" /\ d = c,
           UNCHANGED <<control, client, token>>,
           history' \in Seq({"user", "text", "tool_uses", "results"} \X Starts), HistoryInv',
           sub' \in Subscriptions, ReturnedIsEnded'
    PROVE  SessionInv'
<1> USE DEF client
<1>1. LogInv' /\ CauseInv' /\ ActiveInv'
  BY ControlKept
<1>2. TypeOK'
  BY DEF SessionInv, TypeOK, control
<1>3. CallInv'
  BY DEF SessionInv, TypeOK, CallInv, TaskStates, control
<1>4. TaskInv'
  BY DEF SessionInv, TypeOK, TaskInv, TaskStates, Early, Busy, control
<1>5. QED
  BY <1>1, <1>2, <1>3, <1>4 DEF SessionInv

\* The subscription is not touched.
LEMMA SubKept ==
    ASSUME SessionInv, UNCHANGED <<store, sub>>
    PROVE  sub' \in Subscriptions /\ ReturnedIsEnded'
  BY DEF SessionInv, TypeOK, ReturnedIsEnded, EndsTurn

\* The steps of ForgeAgent::run_in_turn and of run_turn_task that add to the
\* agent's messages.
LEMMA MessagePreserves ==
    ASSUME SessionInv, NEW c \in Starts, TaskBegin(c) \/ MessageDone(c) \/ ToolsDone(c)
    PROVE  SessionInv'
<1>1. task \in [Starts -> TaskStates] /\ task[c] \in TaskStates
      /\ process \in [Starts -> {"none", "running", "stopping"}]
      /\ history \in Seq({"user", "text", "tool_uses", "results"} \X Starts)
  BY DEF SessionInv, TypeOK
<1>2. /\ UNCHANGED <<control, client, token, process, sub>>
      /\ task[c].out = 0 /\ task[c].pc \in {"new", "model", "tool"}
  BY DEF TaskBegin, MessageDone, ToolsDone, In
<1>3. sub' \in Subscriptions /\ ReturnedIsEnded'
  BY <1>2, SubKept DEF control
<1>4. CASE TaskBegin(c) /\ token[c]
  <2> DEFINE after == [task[c] EXCEPT !.pc = "cleanup", !.result = "cancelled"]
  <2>1. task' = [task EXCEPT ![c] = after] /\ UNCHANGED history /\ task[c].pc = "new"
    BY <1>1, <1>4 DEF TaskBegin, In
  <2>2. after \in TaskStates /\ after.pc = "cleanup" /\ after.result = "cancelled" /\ after.out = 0
    BY <1>1, <1>2 DEF TaskStates, Terminal
  <2> HIDE DEF after
  <2>3. HistoryInv'
    BY <1>1, <2>1, <2>2, HistoryKept
  <2>4. QED
    BY <1>1, <1>2, <1>3, <2>1, <2>2, <2>3, LocalStep DEF Early, Busy
<1>5. CASE TaskBegin(c) /\ ~token[c]
  <2> DEFINE after == [task[c] EXCEPT !.pc = IF MaxRounds = 0 THEN "cleanup" ELSE "model",
                                     !.result = "completed"]
  <2>1. /\ task' = [task EXCEPT ![c] = after] /\ task[c].pc = "new"
        /\ history' = Append(history, <<"user", c>>)
    BY <1>1, <1>5 DEF TaskBegin, In
  <2>2. /\ after \in TaskStates /\ after.pc \in {"cleanup", "model"}
        /\ after.result = "completed" /\ after.out = 0
    BY <1>1, <1>2 DEF TaskStates, Terminal
  <2> HIDE DEF after
  <2>3. history' \in Seq({"user", "text", "tool_uses", "results"} \X Starts) /\ HistoryInv'
    BY <1>1, <2>1, HistoryAppend
  <2>4. QED
    BY <1>1, <1>2, <1>3, <2>1, <2>2, <2>3, LocalStep DEF Early, Busy
<1>6. CASE MessageDone(c)
  <2>1. PICK n \in 0..MaxTools[c] :
          /\ task' = [task EXCEPT ![c].pc = IF n = 0 THEN "cleanup" ELSE "tool", ![c].left = n]
          /\ history' = Append(history, <<IF n = 0 THEN "text" ELSE "tool_uses", c>>)
    BY <1>6 DEF MessageDone
  <2> DEFINE after == [task[c] EXCEPT !.pc = IF n = 0 THEN "cleanup" ELSE "tool", !.left = n]
             m     == IF n = 0 THEN "text" ELSE "tool_uses"
  <2>2. task' = [task EXCEPT ![c] = after] /\ task[c].pc = "model"
    BY <1>1, <1>6, <2>1 DEF MessageDone, In
  <2>3. n \in Nat
    BY SessionAssumption
  <2>4. task[c].result = "completed"
    BY <2>2 DEF SessionInv, TaskInv, Busy
  <2>5. /\ after \in TaskStates /\ after.pc \in {"cleanup", "tool"} /\ after.out = 0
        /\ after.result = "completed" /\ (m = "tool_uses" => after.pc = "tool")
    BY <1>1, <1>2, <2>3, <2>4 DEF TaskStates, Terminal
  <2>6. m \in {"user", "text", "tool_uses", "results"} /\ m # "results"
        /\ history' = Append(history, <<m, c>>)
    BY <2>1
  <2> HIDE DEF after, m
  <2>7. history' \in Seq({"user", "text", "tool_uses", "results"} \X Starts) /\ HistoryInv'
    BY <1>1, <2>2, <2>5, <2>6, HistoryAppend
  <2>8. QED
    BY <1>1, <1>2, <1>3, <2>2, <2>5, <2>7, LocalStep DEF Early, Busy
<1>7. CASE ToolsDone(c)
  <2> DEFINE after == [task[c] EXCEPT !.round = task[c].round + 1,
                                     !.pc = IF task[c].round + 1 = MaxRounds THEN "cleanup" ELSE "model"]
  <2>1. /\ task' = [task EXCEPT ![c] = after] /\ task[c].pc = "tool"
        /\ history' = Append(history, <<"results", c>>)
    BY <1>1, <1>7 DEF ToolsDone, In
  <2>2. task[c].result = "completed"
    BY <2>1 DEF SessionInv, TaskInv, Busy
  <2>3. /\ after \in TaskStates /\ after.pc \in {"cleanup", "model"} /\ after.out = 0
        /\ after.result = "completed"
    <3>1. task[c].round + 1 \in Nat
      BY <1>1 DEF TaskStates
    <3>2. QED
      BY <1>1, <1>2, <2>2, <3>1 DEF TaskStates, Terminal
  <2> HIDE DEF after
  <2>4. history' \in Seq({"user", "text", "tool_uses", "results"} \X Starts) /\ HistoryInv'
    BY <1>1, <2>1, HistoryAppend
  <2>5. QED
    BY <1>1, <1>2, <1>3, <2>1, <2>3, <2>4, LocalStep DEF Early, Busy
<1>8. QED
  BY <1>4, <1>5, <1>6, <1>7

\* The other steps of a task that record nothing.
LEMMA QuietPreserves ==
    ASSUME SessionInv, NEW c \in Starts,
           \/ TaskSend(c) \/ ModelFails(c) \/ ToolSpawn(c) \/ Cleanup(c) \/ WaitIdle(c)
           \/ ProcessGone(c) \/ (TaskCancelled(c) /\ task[c].pc = "model")
    PROVE  SessionInv'
<1>1. /\ task \in [Starts -> TaskStates] /\ task[c] \in TaskStates
      /\ process \in [Starts -> {"none", "running", "stopping"}]
      /\ history \in Seq({"user", "text", "tool_uses", "results"} \X Starts)
  BY DEF SessionInv, TypeOK
<1>2. UNCHANGED <<control, client, token, history>>
  BY DEF TaskSend, ModelFails, ToolSpawn, Cleanup, WaitIdle, ProcessGone, TaskCancelled, control
<1>3. CASE TaskSend(c)
  <2> DEFINE after == [task[c] EXCEPT !.out = 0]
  <2>1. task' = [task EXCEPT ![c] = after] /\ UNCHANGED process
    BY <1>1, <1>3 DEF TaskSend
  <2>2. task[c].out \in 1..Len(store) /\ Send(task[c].out)
    BY <1>1, <1>3 DEF TaskSend, SessionInv, TypeOK, TaskInv, TaskStates
  <2>3. sub' \in Subscriptions /\ ReturnedIsEnded'
    BY <1>2, <2>2, SendKeeps DEF SessionInv, control
  <2>4. /\ after \in TaskStates /\ after.pc = task[c].pc /\ after.result = task[c].result
        /\ after.left = task[c].left /\ after.out = 0
    BY <1>1 DEF TaskStates
  <2>5. HistoryInv'
    BY <1>1, <1>2, <2>1, <2>4, HistoryKept
  <2>6. task[c].pc \notin {"none", "done"} =>
          /\ after.pc \notin Early => after.result # "none"
          /\ after.pc \in Early => after.result = "none"
          /\ after.pc \in Busy => after.result = "completed"
          /\ after.pc = "call" => after.left > 0
          /\ after.pc = "end" => process[c] = "none"
    BY <2>4 DEF SessionInv, TaskInv
  <2>7. QED
    BY <1>1, <1>2, <2>1, <2>3, <2>4, <2>5, <2>6, LocalStep
<1>4. CASE ~TaskSend(c)
  <2>1. sub' \in Subscriptions /\ ReturnedIsEnded'
    BY <1>2, <1>4, SubKept
    DEF ModelFails, ToolSpawn, Cleanup, WaitIdle, ProcessGone, TaskCancelled, control
  <2>2. CASE ToolSpawn(c) \/ ProcessGone(c)
    <3>1. /\ UNCHANGED task /\ process' = [process EXCEPT ![c] = process'[c]]
          /\ process'[c] \in {"none", "running"}
          /\ process'[c] = "none" \/ (task[c].pc = "call")
      BY <1>1, <2>2 DEF ToolSpawn, ProcessGone, In
    <3>2. LogInv' /\ CauseInv' /\ ActiveInv'
      BY <1>2, ControlKept
    <3>3. TypeOK'
      BY <1>2, <2>1, <3>1 DEF SessionInv, TypeOK, control, client
    <3>4. CallInv' /\ TaskInv'
      BY <1>1, <1>2, <3>1 DEF SessionInv, CallInv, TaskInv, control, client
    <3>5. HistoryInv'
      BY <1>2, <3>1, HistoryKept
    <3>6. QED
      BY <2>1, <3>2, <3>3, <3>4, <3>5 DEF SessionInv
  <2>3. CASE ModelFails(c) \/ (TaskCancelled(c) /\ task[c].pc = "model")
    <3>1. PICK res \in {"failed", "cancelled"} :
            /\ task' = [task EXCEPT ![c] = [task[c] EXCEPT !.pc = "cleanup", !.result = res]]
            /\ task[c].pc = "model" /\ task[c].out = 0 /\ UNCHANGED process
      BY <1>1, <2>3 DEF ModelFails, TaskCancelled, In
    <3> DEFINE after == [task[c] EXCEPT !.pc = "cleanup", !.result = res]
    <3>2. after \in TaskStates /\ after.pc = "cleanup" /\ after.result # "none" /\ after.out = 0
      BY <1>1, <3>1 DEF TaskStates, Terminal
    <3>3. task[c].result # "cancelled" /\ task' = [task EXCEPT ![c] = after]
      BY <3>1 DEF SessionInv, TaskInv, Busy
    <3> HIDE DEF after
    <3>4. HistoryInv'
      BY <1>1, <1>2, <3>1, <3>3, HistoryKept
    <3>5. QED
      BY <1>1, <1>2, <2>1, <3>1, <3>2, <3>3, <3>4, LocalStep DEF Early, Busy
  <2>4. CASE Cleanup(c) \/ WaitIdle(c)
    <3>1. PICK pc \in {"wait", "end"} :
            /\ task' = [task EXCEPT ![c] = [task[c] EXCEPT !.pc = pc]]
            /\ task[c].pc \in {"cleanup", "wait", "drain"} /\ task[c].out = 0
            /\ process' \in [Starts -> {"none", "running", "stopping"}]
            /\ \A d \in Starts : process[d] = "none" /\ process'[d] # "none" => FALSE
            /\ pc = "end" => process'[c] = "none"
      <4>1. CASE Cleanup(c)
        BY <1>1, <4>1 DEF Cleanup, CancelAll, In
      <4>2. CASE WaitIdle(c)
        BY <1>1, <4>2 DEF WaitIdle, In
      <4>3. QED
        BY <2>4, <4>1, <4>2
    <3> DEFINE after == [task[c] EXCEPT !.pc = pc]
    <3>2. /\ after \in TaskStates /\ after.pc = pc /\ after.result = task[c].result
          /\ after.out = 0 /\ task' = [task EXCEPT ![c] = after]
      BY <1>1, <3>1 DEF TaskStates
    <3>3. after.result # "none"
      BY <3>1, <3>2 DEF SessionInv, TaskInv, Early
    <3> HIDE DEF after
    <3>4. HistoryInv'
      BY <1>1, <1>2, <3>1, <3>2, HistoryKept
    <3>5. /\ task[c].pc \notin {"none", "done"} /\ after.pc \in {"wait", "end"}
          /\ after.pc = "end" => process'[c] = "none"
          /\ process' \in [Starts -> {"none", "running", "stopping"}]
          /\ \A d \in Starts : process[d] = "none" /\ process'[d] # "none" => FALSE
          /\ after \in TaskStates /\ after.out = 0 /\ task' = [task EXCEPT ![c] = after]
          /\ history' \in Seq({"user", "text", "tool_uses", "results"} \X Starts)
      BY <1>1, <1>2, <3>1, <3>2
    <3>6. QED
      BY <1>2, <2>1, <3>3, <3>4, <3>5, LocalStep DEF Early, Busy
  <2>5. QED
    BY <1>4, <2>2, <2>3, <2>4
<1>5. QED
  BY <1>3, <1>4

\* The steps that record an event.
LEMMA RecordPreserves ==
    ASSUME SessionInv, NEW c \in Starts,
           \/ TextDelta(c) \/ ToolStart(c) \/ ToolEnd(c) \/ WaitTimeout(c)
           \/ (TaskCancelled(c) /\ task[c].pc = "call")
    PROVE  SessionInv'
<1>1. /\ task[c] \in TaskStates /\ task[c].left \in Nat /\ task[c].out = 0
      /\ UNCHANGED <<known, receipts, execution, token, process, history, client, sub>>
  BY DEF SessionInv, TypeOK, TaskStates, TextDelta, ToolStart, ToolEnd, WaitTimeout, TaskCancelled, In
<1>2. CASE TextDelta(c)
  <2> DEFINE after == [task[c] EXCEPT !.left = task[c].left + 1]
  <2>1. task[c].pc = "model" /\ Record(c, "delta", after) /\ task[c].result = "completed"
    BY <1>1, <1>2 DEF TextDelta, In, SessionInv, TaskInv, Busy
  <2>2. /\ after \in TaskStates /\ after.pc = "model" /\ after.out = 0
        /\ after.result = "completed"
    BY <1>1, <2>1 DEF TaskStates
  <2> HIDE DEF after
  <2>3. QED
    BY <1>1, <2>1, <2>2, RecordStep DEF Early, Busy, TaskKinds, Activity, Terminal
<1>3. CASE ToolStart(c)
  <2> DEFINE after == [task[c] EXCEPT !.pc = "call"]
  <2>1. /\ task[c].pc = "tool" /\ Record(c, "tool_started", after) /\ task[c].left > 0
        /\ task[c].result = "completed"
    BY <1>3 DEF ToolStart, In, SessionInv, TaskInv, Busy
  <2>2. /\ after \in TaskStates /\ after.pc = "call" /\ after.out = 0 /\ after.left > 0
        /\ after.result = "completed"
    BY <1>1, <2>1 DEF TaskStates
  <2> HIDE DEF after
  <2>3. QED
    BY <1>1, <2>1, <2>2, RecordStep DEF Early, Busy, TaskKinds, Activity, Terminal
<1>4. CASE ToolEnd(c)
  <2> DEFINE after == [task[c] EXCEPT !.pc = "tool", !.left = task[c].left - 1]
  <2>1. /\ task[c].pc = "call" /\ Record(c, "tool_completed", after) /\ task[c].left > 0
        /\ task[c].result = "completed"
    BY <1>1, <1>4 DEF ToolEnd, In, SessionInv, TaskInv, Busy
  <2>2. /\ after \in TaskStates /\ after.pc = "tool" /\ after.out = 0
        /\ after.result = "completed"
    <3>1. task[c].left - 1 \in Nat
      BY <1>1, <2>1
    <3>2. QED
      BY <1>1, <2>1, <3>1 DEF TaskStates
  <2> HIDE DEF after
  <2>3. QED
    BY <1>1, <2>1, <2>2, RecordStep DEF Early, Busy, TaskKinds, Activity, Terminal
<1>5. CASE WaitTimeout(c)
  <2> DEFINE after == [task[c] EXCEPT !.pc = "drain"]
  <2>1. task[c].pc = "wait" /\ Record(c, "stalled", after) /\ task[c].result # "none"
    BY <1>5 DEF WaitTimeout, In, SessionInv, TaskInv, Early
  <2>2. /\ after \in TaskStates /\ after.pc = "drain" /\ after.out = 0
        /\ after.result = task[c].result
    BY <1>1, <2>1 DEF TaskStates
  <2> HIDE DEF after
  <2>3. QED
    BY <1>1, <2>1, <2>2, RecordStep DEF Early, Busy, TaskKinds, Activity, Terminal
<1>6. CASE TaskCancelled(c) /\ task[c].pc = "call"
  <2> DEFINE after == [task[c] EXCEPT !.pc = "cleanup", !.result = "cancelled"]
  <2>1. Record(c, "tool_cancelled", after)
    BY <1>6 DEF TaskCancelled
  <2>2. /\ after \in TaskStates /\ after.pc = "cleanup" /\ after.out = 0
        /\ after.result = "cancelled"
    BY <1>1 DEF TaskStates, Terminal
  <2> HIDE DEF after
  <2>3. QED
    BY <1>1, <1>6, <2>1, <2>2, RecordStep DEF Early, Busy, TaskKinds, Activity, Terminal
<1>7. QED
  BY <1>2, <1>3, <1>4, <1>5, <1>6

\* The turn's end is recorded, and the session has no active execution.
LEMMA TurnEndPreserves ==
    ASSUME SessionInv, NEW c \in Starts, TurnEnd(c)
    PROVE  SessionInv'
<1> DEFINE after == [task[c] EXCEPT !.pc = "done"]
<1>1. /\ task[c] \in TaskStates /\ task[c].out = 0 /\ task[c].pc = "end"
      /\ Record(c, TurnKind(c), after)
      /\ UNCHANGED <<known, receipts, token, process, history, client, sub>>
  BY DEF SessionInv, TypeOK, TurnEnd, In
<1>2. /\ task[c].result # "none" /\ process[c] = "none" /\ execution = c
  BY <1>1 DEF SessionInv, TaskInv, Early
<1>3. TurnKind(c) \in Terminal
  BY <1>1, <1>2 DEF TurnKind, TaskStates, Terminal
<1>4. /\ after \in TaskStates /\ after.pc = "done" /\ after.out = 0
      /\ after.result = task[c].result
  BY <1>1 DEF TaskStates
<1>5. execution' = IF Diverged THEN execution ELSE None
  BY <1>2, SessionAssumption DEF TurnEnd, Commands
<1> HIDE DEF after
<1>6. QED
  BY <1>1, <1>2, <1>3, <1>4, <1>5, RecordStep DEF Early, Busy, TaskKinds

-----------------------------------------------------------------------------
(* Commands and the subscription                                           *)

\* A step of a call that changes nothing but the call.
LEMMA CallLocal ==
    ASSUME SessionInv, NEW k \in Calls, NEW x \in CallStates,
           call' = [call EXCEPT ![k] = x],
           x.pc = "idle" \/ (x.pc = "append" /\ x.cmd \in Creates),
           tries' \in [Commands -> Nat], UNCHANGED <<control, turn, sub>>
    PROVE  SessionInv'
<1> USE DEF turn, control
<1>1. LogInv' /\ CauseInv' /\ ActiveInv'
  BY ControlKept
<1>2. TypeOK'
  BY DEF SessionInv, TypeOK
<1>3. CallInv'
  BY DEF SessionInv, TypeOK, CallInv
<1>4. TaskInv' /\ HistoryInv' /\ ReturnedIsEnded'
  BY DEF SessionInv, TaskInv, HistoryInv, ToolUsesAnswered, ReturnedIsEnded, EndsTurn
<1>5. QED
  BY <1>1, <1>2, <1>3, <1>4 DEF SessionInv

\* What the sending of a command leaves of tries.
LEMMA SentType ==
    ASSUME TypeOK, NEW k \in Calls, NEW c \in Commands, Sent(k, c)
    PROVE  tries' \in [Commands -> Nat] /\ call[k].pc = "idle"
<1>1. tries[c] + 1 \in Nat /\ tries \in [Commands -> Nat]
  BY DEF TypeOK
<1>2. QED
  BY <1>1 DEF Sent, At

\* create_session up to its append.
LEMMA CreatePreserves ==
    ASSUME SessionInv, NEW k \in Calls,
           CreateFails(k) \/ \E c \in Creates : CreateSession(k, c)
    PROVE  SessionInv'
<1>1. CASE CreateFails(k)
  <2>1. Idle \in CallStates /\ Idle.pc = "idle"
    BY DEF Idle, CallStates
  <2>2. tries' \in [Commands -> Nat] /\ UNCHANGED <<control, turn, sub>>
        /\ call' = [call EXCEPT ![k] = Idle]
    BY <1>1 DEF CreateFails, Return, SessionInv, TypeOK
  <2>3. QED
    BY <2>1, <2>2, CallLocal
<1>2. ASSUME NEW c \in Creates, CreateSession(k, c)
      PROVE  SessionInv'
  <2> DEFINE x == [cmd |-> c, pc |-> "append", out |-> 0]
  <2>1. x \in CallStates /\ x.pc = "append" /\ x.cmd \in Creates
    BY DEF CallStates, Commands
  <2>2. c \in Commands /\ Sent(k, c) /\ UNCHANGED <<control, turn, sub>>
        /\ call' = [call EXCEPT ![k] = x]
    BY <1>2 DEF CreateSession, Goto, Commands
  <2>3. tries' \in [Commands -> Nat]
    BY <2>2, SentType DEF SessionInv
  <2> HIDE DEF x
  <2>4. QED
    BY <2>1, <2>2, <2>3, CallLocal
<1>3. QED
  BY <1>1, <1>2

\* The creation reaches the store.
LEMMA CreateAppendPreserves ==
    ASSUME SessionInv, NEW k \in Calls, CreateAppend(k)
    PROVE  SessionInv'
<1> DEFINE c == call[k].cmd
           e == Event("created", None, c)
           x == [cmd |-> c, pc |-> "insert", out |-> 0]
<1>1. /\ call[k].pc = "append" /\ c \in Creates /\ c \in Commands /\ c # None /\ store = <<>>
      /\ store' = <<e>> /\ call' = [call EXCEPT ![k] = x]
      /\ UNCHANGED <<known, snap, receipts, execution, turn, tries, sub>>
  BY SessionAssumption DEF CreateAppend, At, Goto, SessionInv, CallInv, Commands
<1>2. /\ e \in Events /\ e.cause = c /\ e = Event("created", None, c)
      /\ x \in CallStates /\ x.pc = "insert" /\ x.cmd = c
  BY <1>1 DEF Event, Events, CallStates
<1> HIDE DEF c, e, x
<1>3. /\ Len(store) = 0 /\ Len(store') = 1 /\ store'[1] = e /\ store' \in Seq(Events)
  BY <1>1, <1>2
<1>4. /\ ~known /\ snap = NoSnap /\ execution = None /\ \A d \in Commands : receipts[d] = 0
  BY <1>3 DEF SessionInv, TypeOK, Snapshots, LogInv, CauseInv
<1>5. Diverged' /\ snap.last = 0
  BY <1>1, <1>3, <1>4 DEF Diverged, NoSnap
<1>6. TypeOK'
  BY <1>1, <1>2, <1>3 DEF SessionInv, TypeOK, turn
<1>7. LogInv'
  BY <1>1, <1>3, <1>4 DEF LogInv, DivergesOnlyBySecondCancel, NoSnap
<1>8. CauseInv'
  <2>1. receipts'[c] = 0 /\ 1 = Len(store') /\ store'[1].cause = c /\ c # None
    BY <1>1, <1>2, <1>3, <1>4
  <2>2. \A d \in Commands : receipts'[d] = 0
    BY <1>1, <1>4
  <2>3. ASSUME NEW i \in 1..Len(store')
        PROVE  i = Len(store') /\ receipts'[store'[i].cause] = 0
    <3>1. i = 1
      BY <1>3
    <3>2. QED
      BY <2>1, <3>1
  <2>4. QED
    BY <1>5, <2>2, <2>3 DEF CauseInv
<1>9. ActiveInv'
  BY <1>1 DEF SessionInv, ActiveInv, ExecutionIsActive
<1>10. CallInv'
  <2>1. \A l \in Calls : call[l].pc \notin {"insert", "start", "cancel"}
    BY <1>3 DEF SessionInv, CallInv
  <2>2. call \in [Calls -> CallStates]
    BY DEF SessionInv, TypeOK
  <2>3. QED
    BY <1>1, <1>2, <1>3, <1>4, <2>1, <2>2 DEF SessionInv, CallInv
<1>11. TaskInv'
  BY <1>1, <1>3 DEF SessionInv, TypeOK, TaskStates, TaskInv, turn
<1>12. HistoryInv' /\ ReturnedIsEnded'
  BY <1>1, <1>3 DEF SessionInv, HistoryInv, ToolUsesAnswered, ReturnedIsEnded, turn
<1>13. QED
  BY <1>6, <1>7, <1>8, <1>9, <1>10, <1>11, <1>12 DEF SessionInv

\* The session enters the table: no other session is there yet, for its creation
\* would have kept this one from the store.
LEMMA CreateInsertPreserves ==
    ASSUME SessionInv, NEW k \in Calls, CreateInsert(k)
    PROVE  SessionInv'
<1> DEFINE c == call[k].cmd
<1>1. /\ call[k].pc = "insert" /\ ~known /\ Len(store) = 1 /\ c \in Creates /\ c \in Commands
      /\ store[1].kind = "created" /\ store[1].cause = c /\ c \notin Starts /\ c # None
  <2>1. /\ call[k].pc = "insert" /\ ~known /\ Len(store) = 1 /\ c \in Creates
        /\ store[1] = Event("created", None, c)
    BY DEF CreateInsert, At, SessionInv, CallInv
  <2>2. QED
    BY <2>1, SessionAssumption DEF Commands, Event
<1>2. /\ known' = TRUE /\ snap' = Reduced(snap, store[1])
      /\ receipts' = [receipts EXCEPT ![c] = 1] /\ call' = [call EXCEPT ![k] = Idle]
      /\ UNCHANGED <<store, execution, turn, tries, sub>>
  BY <1>1 DEF CreateInsert, Return
<1> HIDE DEF c
<1>3. snap = NoSnap /\ execution = None /\ \A d \in Commands : receipts[d] = 0
  BY <1>1 DEF SessionInv, LogInv, CauseInv
<1>4. snap' \in Snapshots /\ snap'.last = 1 /\ snap'.active = None
  <2>1. store \in Seq(Events) /\ 1 \in 1..Len(store)
    BY <1>1 DEF SessionInv, TypeOK
  <2>2. store[1] \in Events
    BY <2>1
  <2>3. QED
    BY <1>1, <1>2, <1>3, <2>2, CreateReduced
<1>5. Idle \in CallStates /\ Idle.pc = "idle"
  BY DEF Idle, CallStates
<1>6. TypeOK'
  BY <1>1, <1>2, <1>4, <1>5 DEF SessionInv, TypeOK, turn
<1>7. LogInv'
  <2>1. Len(store') = 1 /\ known' /\ snap'.last = Len(store') /\ snap'.last > 0
    BY <1>1, <1>2, <1>4
  <2>2. QED
    BY <2>1 DEF LogInv, DivergesOnlyBySecondCancel, Diverged
<1>8. CauseInv'
  <2>1. /\ Len(store') = 1 /\ known' /\ store'[1].cause = c
        /\ receipts'[c] = 1 /\ \A d \in Commands : d # c => receipts'[d] = 0
    BY <1>1, <1>2, <1>3 DEF SessionInv, TypeOK
  <2>2. QED
    BY <2>1 DEF CauseInv
<1>9. ActiveInv'
  BY <1>2, <1>3, <1>4 DEF ActiveInv, ExecutionIsActive
<1>10. CallInv'
  <2>1. \A l \in Calls \ {k} : call[l].pc \notin {"insert", "start"}
    BY <1>1, <1>3, SessionAssumption DEF SessionInv, CallInv, Commands
  <2>2. call \in [Calls -> CallStates]
    BY DEF SessionInv, TypeOK
  <2>3. QED
    BY <1>2, <1>5, <2>1, <2>2 DEF SessionInv, CallInv
<1>11. TaskInv'
  BY <1>1, <1>2 DEF SessionInv, TypeOK, TaskInv, turn, Commands
<1>12. HistoryInv' /\ ReturnedIsEnded'
  BY <1>2 DEF SessionInv, HistoryInv, ToolUsesAnswered, ReturnedIsEnded, EndsTurn, turn
<1>13. QED
  BY <1>6, <1>7, <1>8, <1>9, <1>10, <1>11, <1>12 DEF SessionInv

\* A command's event joins the store: with its receipt, or refused.
LEMMA AppendCause ==
    ASSUME SessionInv, known, ~Diverged, NEW c \in Commands, NEW e \in Events, e.cause = c, c # None,
           receipts[c] = 0, known' = known,
           Len(store') = Len(store) + 1, store'[Len(store) + 1] = e,
           \A i \in 1..Len(store) : store'[i] = store[i],
           \/ receipts' = [receipts EXCEPT ![c] = Len(store) + 1]
           \/ (receipts' = receipts /\ Diverged')
    PROVE  CauseInv'
<1>1. receipts \in [Commands -> Nat] /\ Len(store) \in Nat /\ store \in Seq(Events)
  BY DEF SessionInv, TypeOK
<1>2. ASSUME NEW i \in 1..Len(store'), store'[i].cause # None
      PROVE  \/ receipts'[store'[i].cause] = i
             \/ Diverged' /\ i = Len(store') /\ receipts'[store'[i].cause] = 0
  <2>1. CASE i \in 1..Len(store)
    <3>1. store'[i] = store[i] /\ store[i] \in Events
      BY <1>1, <2>1
    <3>2. store[i].cause \in Commands /\ receipts[store[i].cause] = i
      BY <1>2, <2>1, <3>1 DEF SessionInv, CauseInv, Events
    <3>3. store[i].cause # c
      BY <2>1, <3>2
    <3>4. QED
      BY <1>1, <3>1, <3>2, <3>3
  <2>2. CASE i = Len(store) + 1
    BY <1>1, <2>2
  <2>3. QED
    BY <1>1, <2>1, <2>2
<1>3. ASSUME NEW d \in Commands, receipts'[d] # 0
      PROVE  known' /\ receipts'[d] <= Len(store') /\ store'[receipts'[d]].cause = d
  <2>1. CASE receipts'[d] = receipts[d]
    <3>1. receipts[d] \in 1..Len(store) /\ store[receipts[d]].cause = d
      BY <1>1, <1>3, <2>1 DEF SessionInv, CauseInv
    <3>2. QED
      BY <1>1, <2>1, <3>1
  <2>2. CASE d = c /\ receipts'[d] = Len(store) + 1
    BY <1>1, <2>2
  <2>3. QED
    BY <1>1, <2>1, <2>2
<1>4. QED
  BY <1>2, <1>3 DEF CauseInv

\* start_turn under the lock: no turn is active, so none has a running task.
LEMMA StartTurnPreserves ==
    ASSUME SessionInv, NEW k \in Calls, NEW c \in Starts, StartTurn(k, c)
    PROVE  SessionInv'
<1> DEFINE e == Event("started", TurnOf[c], c)
           x == [cmd |-> c, pc |-> "start", out |-> Len(store) + 1]
<1>1. /\ Sent(k, c) /\ known /\ receipts[c] = 0 /\ snap.active = None /\ ~Diverged
      /\ c \in Commands /\ TurnOf[c] \in Turns /\ c # None /\ Len(store) \in Nat
      /\ snap \in Snapshots
  BY SessionAssumption DEF StartTurn, CanStart, AppendAndApply, Commands, SessionInv, TypeOK
<1>2. Legal(snap, e)
  BY <1>1, StartReduced
<1>3. /\ store' = Append(store, e) /\ snap' = Reduced(snap, e) /\ execution' = c
      /\ receipts' = [receipts EXCEPT ![c] = Len(store) + 1]
      /\ call' = [call EXCEPT ![k] = x] /\ UNCHANGED <<known, turn, sub>>
  BY <1>2 DEF StartTurn, AppendAndApply, Goto
<1>4. /\ snap' \in Snapshots /\ snap'.last = snap.last + 1
      /\ snap'.active = TurnOf[c] /\ snap'.status[TurnOf[c]] = "running"
  BY <1>1, <1>3, StartReduced
<1>5. /\ e \in Events /\ e.cause = c
      /\ x \in CallStates /\ x.pc = "start" /\ x.cmd = c /\ x.out = Len(store) + 1
  BY <1>1 DEF Event, Events, CallStates
<1> HIDE DEF e, x
<1>6. /\ store' \in Seq(Events) /\ Len(store') = Len(store) + 1
      /\ \A i \in 1..Len(store) : store'[i] = store[i]
      /\ store'[Len(store) + 1] = e
  BY <1>3, <1>5 DEF SessionInv, TypeOK
<1>7. execution = None /\ None \notin Turns
  BY <1>1, SessionAssumption DEF SessionInv, TypeOK, ActiveInv, ExecutionIsActive
<1>8. tries' \in [Commands -> Nat] /\ call[k].pc = "idle"
  BY <1>1, SentType DEF SessionInv
<1>9. ~Diverged'
  BY <1>1, <1>4, <1>6 DEF Diverged, Snapshots
<1>10. TypeOK'
  <2>1. call' \in [Calls -> CallStates] /\ receipts' \in [Commands -> Nat]
    BY <1>1, <1>3, <1>5 DEF SessionInv, TypeOK
  <2>2. QED
    BY <1>3, <1>4, <1>6, <1>8, <2>1 DEF SessionInv, TypeOK, turn
<1>11. LogInv'
  <2>1. known' /\ snap'.last = Len(store') /\ snap'.last > 0
    BY <1>1, <1>3, <1>4, <1>6 DEF Diverged, Snapshots
  <2>2. QED
    BY <2>1 DEF LogInv, DivergesOnlyBySecondCancel, Diverged
<1>12. CauseInv'
  BY <1>1, <1>3, <1>5, <1>6, AppendCause
<1>13. ActiveInv'
  BY <1>1, <1>3, <1>4 DEF ActiveInv, ExecutionIsActive, Live
<1>14. \A d \in Starts : task[d].pc \in {"none", "done"} /\ d \in Commands
  BY <1>7, SessionAssumption DEF SessionInv, TaskInv, Commands
<1>15. CallInv'
  <2>1. \A l \in Calls : call[l].pc \notin {"insert", "start"}
    BY <1>1, <1>7, SessionAssumption DEF SessionInv, CallInv, Commands
  <2>2. call \in [Calls -> CallStates] /\ task[c].pc = "none" /\ receipts'[c] # 0
    BY <1>1, <1>3 DEF SessionInv, TypeOK, TaskInv
  <2>3. QED
    BY <1>1, <1>3, <1>5, <1>6, <2>1, <2>2 DEF SessionInv, CallInv, turn
<1>16. TaskInv'
  BY <1>1, <1>3, <1>6, <1>14 DEF SessionInv, TypeOK, TaskStates, TaskInv, turn
<1>17. HistoryInv'
  BY <1>3 DEF SessionInv, HistoryInv, ToolUsesAnswered, turn
<1>18. ReturnedIsEnded'
  BY <1>3, <1>6 DEF SessionInv, TypeOK, ReturnedIsEnded, EndsTurn
<1>19. QED
  BY <1>10, <1>11, <1>12, <1>13, <1>15, <1>16, <1>17, <1>18 DEF SessionInv

\* start_turn after the lock.
LEMMA StartSpawnPreserves ==
    ASSUME SessionInv, NEW k \in Calls, StartSpawn(k)
    PROVE  SessionInv'
<1> DEFINE c     == call[k].cmd
           after == [task[c] EXCEPT !.pc = "new"]
<1>1. /\ call[k].pc = "start" /\ c \in Starts /\ execution = c /\ receipts[c] # 0
      /\ task[c].pc = "none" /\ call[k].out \in 1..Len(store) /\ Send(call[k].out)
      /\ task' = [task EXCEPT ![c].pc = "new"] /\ call' = [call EXCEPT ![k] = Idle]
      /\ UNCHANGED <<control, tries, token, process, history>>
  BY DEF StartSpawn, At, Return, SessionInv, CallInv
<1>2. /\ task \in [Starts -> TaskStates] /\ task' = [task EXCEPT ![c] = after]
      /\ call \in [Calls -> CallStates] /\ task[c] \in TaskStates
  BY <1>1 DEF SessionInv, TypeOK
<1> HIDE DEF c
<1>3. /\ after \in TaskStates /\ after.pc = "new" /\ after.result = task[c].result
      /\ after.out = task[c].out
  BY <1>2 DEF TaskStates
<1>4. Idle \in CallStates /\ Idle.pc = "idle"
  BY DEF Idle, CallStates
<1> HIDE DEF after
<1>5. sub' \in Subscriptions /\ ReturnedIsEnded'
  BY <1>1, SendKeeps DEF SessionInv, control
<1>6. LogInv' /\ CauseInv' /\ ActiveInv'
  BY <1>1, ControlKept
<1>7. TypeOK'
  BY <1>1, <1>2, <1>3, <1>4, <1>5 DEF SessionInv, TypeOK, control
<1>8. CallInv'
  BY <1>1, <1>2, <1>4 DEF SessionInv, CallInv, control
<1>9. TaskInv'
  BY <1>1, <1>2, <1>3 DEF SessionInv, TaskInv, Early, Busy, control
<1>10. HistoryInv'
  <2>1. task[c].result = "none"
    BY <1>1 DEF SessionInv, TaskInv, Early
  <2>2. QED
    BY <1>1, <1>2, <2>1, HistoryKept
<1>11. QED
  BY <1>5, <1>6, <1>7, <1>8, <1>9, <1>10 DEF SessionInv

\* cancel_turn under the lock, accepted or refused by the reducer.
LEMMA CancelTurnPreserves ==
    ASSUME SessionInv, NEW k \in Calls, NEW c \in Cancels, CancelTurn(k, c)
    PROVE  SessionInv'
<1> DEFINE t == TurnOf[c]
           e == Event("cancel_requested", t, c)
           x == [cmd |-> execution, pc |-> "cancel", out |-> Len(store) + 1]
<1>1. /\ Sent(k, c) /\ known /\ receipts[c] = 0 /\ ~Diverged /\ execution # None
      /\ c \in Commands /\ t \in Turns /\ c # None /\ Len(store) \in Nat /\ snap \in Snapshots
      /\ TurnOf[execution] = t /\ execution \in Starts /\ execution \in Commands /\ c \notin Starts
      /\ store' = Append(store, e) /\ UNCHANGED <<known, execution, turn, sub>>
  BY SessionAssumption DEF CancelTurn, AppendAndApply, Commands, SessionInv, TypeOK
<1>2. snap.active = t /\ snap.status[t] \in Live
  BY <1>1 DEF SessionInv, ActiveInv, ExecutionIsActive
<1>3. Legal(snap, e) <=> snap.status[t] = "running"
  BY <1>1, <1>2, CancelReduced
<1>4. CASE Legal(snap, e)
  <2>1. /\ snap' = Reduced(snap, e)
        /\ receipts' = [receipts EXCEPT ![c] = Len(store) + 1]
        /\ call' = [call EXCEPT ![k] = x]
    BY <1>4 DEF CancelTurn, AppendAndApply
  <2>2. /\ snap' \in Snapshots /\ snap'.last = snap.last + 1
        /\ snap'.active = t /\ snap'.status[t] = "cancelling"
    BY <1>1, <1>2, <2>1, CancelReduced
  <2>3. /\ e \in Events /\ e.cause = c
        /\ x \in CallStates /\ x.pc = "cancel" /\ x.cmd = execution /\ x.out = Len(store) + 1
    BY <1>1 DEF Event, Events, CallStates
  <2> HIDE DEF t, e, x
  <2>4. /\ store' \in Seq(Events) /\ Len(store') = Len(store) + 1
        /\ \A i \in 1..Len(store) : store'[i] = store[i]
        /\ store'[Len(store) + 1] = e
    BY <1>1, <2>3 DEF SessionInv, TypeOK
  <2>5. tries' \in [Commands -> Nat] /\ call[k].pc = "idle"
    BY <1>1, SentType DEF SessionInv
  <2>6. TypeOK'
    <3>1. call' \in [Calls -> CallStates] /\ receipts' \in [Commands -> Nat]
      BY <1>1, <2>1, <2>3 DEF SessionInv, TypeOK
    <3>2. QED
      BY <1>1, <2>2, <2>4, <2>5, <3>1 DEF SessionInv, TypeOK, turn
  <2>7. LogInv'
    <3>1. known' /\ snap'.last = Len(store') /\ snap'.last > 0
      BY <1>1, <2>2, <2>4 DEF Diverged, Snapshots
    <3>2. QED
      BY <3>1 DEF LogInv, DivergesOnlyBySecondCancel, Diverged
  <2>8. CauseInv'
    BY <1>1, <2>1, <2>3, <2>4, AppendCause
  <2>9. ActiveInv'
    BY <1>1, <2>2 DEF ActiveInv, ExecutionIsActive, Live
  <2>10. CallInv'
    <3>1. /\ call \in [Calls -> CallStates]
          /\ \A d \in Starts : receipts'[d] = receipts[d]
      BY <1>1, <2>1, SessionAssumption DEF SessionInv, TypeOK, Commands
    <3>2. QED
      BY <1>1, <2>1, <2>3, <2>4, <3>1 DEF SessionInv, CallInv, turn
  <2>11. TaskInv'
    <3>1. \A d \in Starts : receipts'[d] = receipts[d]
      BY <1>1, <2>1, SessionAssumption DEF SessionInv, TypeOK, Commands
    <3>2. QED
      BY <1>1, <2>4, <3>1 DEF SessionInv, TypeOK, TaskStates, TaskInv, turn
  <2>12. HistoryInv' /\ ReturnedIsEnded'
    BY <1>1, <2>4
    DEF SessionInv, TypeOK, HistoryInv, ToolUsesAnswered, ReturnedIsEnded, EndsTurn, turn
  <2>13. QED
    BY <2>6, <2>7, <2>8, <2>9, <2>10, <2>11, <2>12 DEF SessionInv
<1>5. CASE ~Legal(snap, e)
  <2>1. UNCHANGED <<snap, receipts, call>> /\ snap.status[t] \in {"cancelling", "unknown"}
    BY <1>2, <1>3, <1>5 DEF CancelTurn, AppendAndApply, Live
  <2>2. e \in Events /\ e.cause = c /\ e.turn = t /\ e.kind = "cancel_requested"
    BY <1>1 DEF Event, Events
  <2> HIDE DEF e
  <2>3. /\ store' \in Seq(Events) /\ Len(store') = Len(store) + 1
        /\ \A i \in 1..Len(store) : store'[i] = store[i]
        /\ store'[Len(store) + 1] = e
    BY <1>1, <2>2 DEF SessionInv, TypeOK
  <2>4. tries' \in [Commands -> Nat]
    BY <1>1, SentType DEF SessionInv
  <2>5. TypeOK'
    BY <1>1, <2>1, <2>3, <2>4 DEF SessionInv, TypeOK, turn
  <2>6. LogInv'
    BY <1>1, <2>1, <2>2, <2>3
    DEF SessionInv, LogInv, DivergesOnlyBySecondCancel, Diverged, Snapshots
  <2>7. CauseInv'
    BY <1>1, <2>1, <2>2, <2>3, AppendCause DEF Diverged
  <2>8. ActiveInv'
    BY <1>1, <2>1 DEF SessionInv, ActiveInv, ExecutionIsActive
  <2>9. CallInv'
    BY <1>1, <2>1, <2>3 DEF SessionInv, CallInv, turn
  <2>10. TaskInv'
    BY <1>1, <2>1, <2>3 DEF SessionInv, TypeOK, TaskStates, TaskInv, turn
  <2>11. HistoryInv'
    BY <1>1 DEF SessionInv, HistoryInv, ToolUsesAnswered, turn
  <2>12. ReturnedIsEnded'
    BY <1>1, <2>3 DEF SessionInv, TypeOK, ReturnedIsEnded, EndsTurn
  <2>13. QED
    BY <2>5, <2>6, <2>7, <2>8, <2>9, <2>10, <2>11, <2>12 DEF SessionInv
<1>6. QED
  BY <1>4, <1>5

\* cancel_turn after the lock.
LEMMA CancelExecutionPreserves ==
    ASSUME SessionInv, NEW k \in Calls, CancelExecution(k)
    PROVE  SessionInv'
<1> DEFINE c == call[k].cmd
<1>1. /\ c \in Starts /\ call[k].out \in 1..Len(store) /\ Send(call[k].out)
      /\ call' = [call EXCEPT ![k] = Idle] /\ token' = [token EXCEPT ![c] = TRUE]
      /\ CancelAll(c) /\ UNCHANGED <<control, task, history, tries>>
  BY DEF CancelExecution, At, Return, SessionInv, CallInv
<1> HIDE DEF c
<1>2. Idle \in CallStates /\ Idle.pc = "idle"
  BY DEF Idle, CallStates
<1>3. sub' \in Subscriptions /\ ReturnedIsEnded'
  BY <1>1, SendKeeps DEF SessionInv, control
<1>4. LogInv' /\ CauseInv' /\ ActiveInv'
  BY <1>1, ControlKept
<1>5. /\ process' \in [Starts -> {"none", "running", "stopping"}]
      /\ \A d \in Starts : process[d] = "none" => process'[d] = "none"
  BY <1>1 DEF SessionInv, TypeOK, CancelAll
<1>6. TypeOK'
  <2>1. call' \in [Calls -> CallStates] /\ token' \in [Starts -> BOOLEAN]
    BY <1>1, <1>2 DEF SessionInv, TypeOK
  <2>2. QED
    BY <1>1, <1>3, <1>5, <2>1 DEF SessionInv, TypeOK, control
<1>7. CallInv'
  BY <1>1, <1>2 DEF SessionInv, TypeOK, CallInv, control
<1>8. TaskInv'
  BY <1>1, <1>5 DEF SessionInv, TaskInv, control
<1>9. HistoryInv'
  BY <1>1 DEF SessionInv, HistoryInv, ToolUsesAnswered
<1>10. QED
  BY <1>3, <1>4, <1>6, <1>7, <1>8, <1>9 DEF SessionInv

\* The subscription of a run_turn: only its own state changes.
LEMMA SubscriptionPreserves ==
    ASSUME SessionInv, (\E c \in Starts : Subscribe(c)) \/ SubscribeLoad \/ RecvLagged
    PROVE  SessionInv'
<1>1. UNCHANGED <<control, turn, client>>
  BY DEF Subscribe, SubscribeLoad, RecvLagged
<1>2. sub \in Subscriptions /\ store' = store /\ Len(store) \in Nat
  BY <1>1 DEF SessionInv, TypeOK, control
<1>3. sub' \in Subscriptions /\ ReturnedIsEnded'
  <2>1. ASSUME NEW c \in Starts, Subscribe(c)
        PROVE  sub' \in Subscriptions /\ ReturnedIsEnded'
    <3>1. TurnOf[c] \in Turns /\ receipts[c] \in Nat
      BY SessionAssumption DEF SessionInv, TypeOK, Commands
    <3>2. sub' \in Subscriptions /\ sub'.pc = "load"
      BY <1>2, <2>1, <3>1 DEF Subscribe, Subscriptions
    <3>3. QED
      BY <3>2 DEF ReturnedIsEnded
  <2>2. CASE SubscribeLoad
    <3>1. CASE \E n \in sub.last + 1 .. Len(store) : EndsTurn(sub, n)
      <4>1. PICK n \in sub.last + 1 .. Len(store) : EndsTurn(sub, n)
        BY <3>1
      <4>2. n \in 1..Len(store) /\ sub' = Finished(sub)
        BY <1>2, <2>2, <3>1 DEF SubscribeLoad, Subscriptions
      <4>3. sub' \in Subscriptions /\ sub'.turn = sub.turn
        BY <1>2, <4>2 DEF Finished, Subscriptions
      <4>4. QED
        BY <1>2, <4>1, <4>2, <4>3 DEF ReturnedIsEnded, EndsTurn
    <3>2. CASE ~\E n \in sub.last + 1 .. Len(store) : EndsTurn(sub, n)
      <4>1. sub' = [sub EXCEPT !.pc = "recv", !.queue = <<>>, !.last = Len(store)]
        BY <2>2, <3>2 DEF SubscribeLoad
      <4>2. <<>> \in Seq(Nat)
        OBVIOUS
      <4>3. sub' \in Subscriptions /\ sub'.pc = "recv"
        BY <1>2, <4>1, <4>2 DEF Subscriptions
      <4>4. QED
        BY <4>3 DEF ReturnedIsEnded
    <3>3. QED
      BY <3>1, <3>2
  <2>3. CASE RecvLagged
    <3>1. <<>> \in Seq(Nat)
      OBVIOUS
    <3>2. sub' \in Subscriptions /\ sub'.pc = "lagged"
      BY <2>3, <3>1 DEF RecvLagged, NoSub, Subscriptions
    <3>3. QED
      BY <3>2 DEF ReturnedIsEnded
  <2>4. QED
    BY <2>1, <2>2, <2>3
<1>4. LogInv' /\ CauseInv' /\ ActiveInv'
  BY <1>1, ControlKept
<1>5. TypeOK' /\ CallInv' /\ TaskInv' /\ HistoryInv'
  BY <1>1, <1>3
  DEF SessionInv, TypeOK, CallInv, TaskInv, HistoryInv, ToolUsesAnswered, control, turn, client
<1>6. QED
  BY <1>3, <1>4, <1>5 DEF SessionInv

-----------------------------------------------------------------------------
(* The theorems                                                            *)

LEMMA InitSound == Init => SessionInv
<1> SUFFICES ASSUME Init PROVE SessionInv
  OBVIOUS
<1> USE DEF Init
<1>1. TypeOK
  <2>1. Idle \in CallStates /\ NoTask \in TaskStates /\ NoSub \in Subscriptions
    BY DEF Idle, CallStates, NoTask, TaskStates, NoSub, Subscriptions
  <2>2. snap \in Snapshots
    BY DEF Snapshots
  <2>3. /\ store \in Seq(Events)
        /\ history \in Seq({"user", "text", "tool_uses", "results"} \X Starts)
    OBVIOUS
  <2>4. call \in [Calls -> CallStates] /\ task \in [Starts -> TaskStates] /\ sub \in Subscriptions
    BY <2>1
  <2>5. QED
    BY <2>2, <2>3, <2>4 DEF TypeOK
<1>2. LogInv /\ CauseInv /\ ActiveInv
  BY DEF LogInv, DivergesOnlyBySecondCancel, NoSnap, CauseInv, ActiveInv, ExecutionIsActive
<1>3. CallInv /\ TaskInv
  BY DEF CallInv, TaskInv, Idle, NoTask, Early, Busy
<1>4. HistoryInv /\ ReturnedIsEnded
  BY DEF HistoryInv, ToolUsesAnswered, ReturnedIsEnded, NoSub
<1>5. QED
  BY <1>1, <1>2, <1>3, <1>4 DEF SessionInv

\* The same state, by other names.
LEMMA StutterSound == SessionInv /\ UNCHANGED vars => SessionInv'
<1> SUFFICES ASSUME SessionInv, UNCHANGED vars PROVE SessionInv'
  OBVIOUS
<1> USE DEF vars, turn, client, control
<1>1. LogInv' /\ CauseInv' /\ ActiveInv'
  BY ControlKept
<1>2. TypeOK' /\ CallInv' /\ TaskInv' /\ HistoryInv' /\ ReturnedIsEnded'
  BY DEF SessionInv, TypeOK, CallInv, TaskInv, HistoryInv, ToolUsesAnswered, ReturnedIsEnded, EndsTurn
<1>3. QED
  BY <1>1, <1>2 DEF SessionInv

LEMMA NextSound == SessionInv /\ [Next]_vars => SessionInv'
<1> SUFFICES ASSUME SessionInv, [Next]_vars PROVE SessionInv'
  OBVIOUS
<1>1. ASSUME NEW k \in Calls, \E c \in Creates : CreateSession(k, c)
      PROVE  SessionInv'
  BY <1>1, CreatePreserves
<1>2. ASSUME NEW k \in Calls, NEW c \in Starts, StartTurn(k, c)
      PROVE  SessionInv'
  BY <1>2, StartTurnPreserves
<1>3. ASSUME NEW k \in Calls, NEW c \in Cancels, CancelTurn(k, c)
      PROVE  SessionInv'
  BY <1>3, CancelTurnPreserves
<1>4. ASSUME NEW k \in Calls, Continue(k)
      PROVE  SessionInv'
  BY <1>4, CreatePreserves, CreateAppendPreserves, CreateInsertPreserves, StartSpawnPreserves,
     CancelExecutionPreserves DEF Continue
<1>5. ASSUME NEW c \in Starts, TaskCancelled(c)
      PROVE  SessionInv'
  BY <1>5, QuietPreserves, RecordPreserves DEF TaskCancelled, Cancellable
<1>6. ASSUME NEW c \in Starts, TaskStep(c)
      PROVE  SessionInv'
  BY <1>5, <1>6, QuietPreserves, MessagePreserves, RecordPreserves, TurnEndPreserves DEF TaskStep
<1>7. ASSUME NEW c \in Starts,
             \/ TextDelta(c) \/ MessageDone(c) \/ ModelFails(c) \/ ToolSpawn(c) \/ ToolEnd(c)
             \/ WaitTimeout(c) \/ ProcessGone(c)
      PROVE  SessionInv'
  BY <1>7, QuietPreserves, MessagePreserves, RecordPreserves
<1>8. CASE (\E c \in Starts : Subscribe(c)) \/ SubscribeLoad \/ RecvLagged
  BY <1>8, SubscriptionPreserves
<1>9. CASE UNCHANGED vars
  BY <1>9, StutterSound
<1>10. QED
  BY <1>1, <1>2, <1>3, <1>4, <1>6, <1>7, <1>8, <1>9 DEF Next

\* The inductive invariant of a session.
THEOREM SessionCorrect == Spec => []SessionInv
  BY InitSound, NextSound, PTL DEF Spec

\* Every part of a session keeps its type.
THEOREM SessionTypes == Spec => []TypeOK
<1>1. SessionInv => TypeOK
  BY DEF SessionInv
<1>2. QED
  BY <1>1, SessionCorrect, PTL

\* A session's log, snapshot, active execution, messages and subscription fit
\* together at every moment, whatever its clients send and however their calls
\* and the turns' tasks interleave (session/service.rs, client.rs, turn.rs).
THEOREM SessionIsSound == Spec => []SessionSound
<1>1. SessionInv => SessionSound
  <2> SUFFICES ASSUME SessionInv PROVE SessionSound
    OBVIOUS
  <2>1. CommandOnce
    <3>1. ASSUME NEW i \in 1..Len(store), NEW j \in 1..Len(store),
                 store[i].cause = store[j].cause, i # j, store[i].cause # None
          PROVE  FALSE
      <4>1. \/ receipts[store[i].cause] = i
            \/ i = Len(store) /\ receipts[store[i].cause] = 0
        BY <3>1 DEF SessionInv, CauseInv
      <4>2. \/ receipts[store[i].cause] = j
            \/ j = Len(store) /\ receipts[store[i].cause] = 0
        BY <3>1 DEF SessionInv, CauseInv
      <4>3. QED
        BY <3>1, <4>1, <4>2
    <3>2. QED
      BY <3>1 DEF SessionInv, CauseInv, CommandOnce
  <2>2. QED
    BY <2>1 DEF SessionInv, SessionSound, LogInv, ActiveInv, TaskInv, HistoryInv, EndedTurnIsIdle
<1>2. QED
  BY <1>1, SessionCorrect, PTL

-----------------------------------------------------------------------------
(* The session implements the log it promises (SessionLog): every step of  *)
(* ForgeSession is a step of SessionLog on the events the snapshot has     *)
(* applied, or leaves them alone.  RefineInv is the inductive invariant.   *)

\* The log that the session's clients see.
TheLog == IF known THEN SubSeq(store, 1, snap.last) ELSE <<>>

\* Cancellations on their way, tokens and results say what the log says.
CancelInv ==
    /\ \A k \in Calls : call[k].pc = "cancel" =>
          /\ call[k].out > receipts[call[k].cmd] /\ call[k].out <= snap.last
          /\ store[call[k].out].kind = "cancel_requested"
          /\ receipts[call[k].cmd] # 0
    /\ \A c \in Starts : token[c] =>
          /\ receipts[c] # 0
          /\ \E i \in receipts[c] + 1 .. snap.last : store[i].kind = "cancel_requested"
    /\ \A c \in Starts : task[c].result = "cancelled" => token[c]

\* The start of a turn that none of the events up to n has ended.
Opening(s, n, i) ==
    /\ s[i].kind = "started"
    /\ \A j \in i + 1 .. n : s[j].kind \notin Terminal

\* The active execution is the one the log has opened and not ended, and while
\* its turn is running the log has no cancellation of it and no stall.
OpenInv ==
    /\ \A i \in 1 .. snap.last : Opening(store, snap.last, i) => execution # None /\ i = receipts[execution]
    /\ execution # None =>
          /\ receipts[execution] \in 1 .. snap.last
          /\ Opening(store, snap.last, receipts[execution])
          /\ store[receipts[execution]].turn = TurnOf[execution]
          /\ snap.status[TurnOf[execution]] = "running" =>
                \A j \in receipts[execution] + 1 .. snap.last :
                    store[j].kind \notin {"cancel_requested", "stalled"}

RefineInv == SessionInv /\ CancelInv /\ OpenInv

-----------------------------------------------------------------------------
(* Prefixes of the store                                                   *)

\* What a prefix is.
LEMMA Prefix ==
    ASSUME NEW s \in Seq(Events), NEW n \in 0 .. Len(s)
    PROVE  /\ SubSeq(s, 1, n) \in Seq(Events) /\ Len(SubSeq(s, 1, n)) = n
           /\ \A i \in 1 .. n : SubSeq(s, 1, n)[i] = s[i]
<1>1. 1 \in Int /\ n \in Int /\ Len(s) \in Nat
  OBVIOUS
<1>2. \A i \in 1 .. n : s[i] \in Events
  BY <1>1, ElementOfSeq
<1>3. /\ SubSeq(s, 1, n) \in Seq(Events)
      /\ Len(SubSeq(s, 1, n)) = IF 1 <= n THEN n - 1 + 1 ELSE 0
      /\ \A i \in 1 .. n - 1 + 1 : SubSeq(s, 1, n)[i] = s[1 + i - 1]
  BY <1>1, <1>2, SubSeqProperties
<1>4. QED
  BY <1>1, <1>3

\* The same prefix of two sequences, and one that is longer by an event.
LEMMA PrefixKept ==
    ASSUME NEW s \in Seq(Events), NEW t \in Seq(Events), NEW n \in 0 .. Len(s), n <= Len(t),
           \A i \in 1 .. n : t[i] = s[i]
    PROVE  SubSeq(t, 1, n) = SubSeq(s, 1, n)
<1>1. n \in 0 .. Len(t)
  OBVIOUS
<1> DEFINE p == SubSeq(s, 1, n)
           q == SubSeq(t, 1, n)
<1>2. p \in Seq(Events) /\ Len(p) = n /\ \A i \in 1 .. n : p[i] = s[i]
  BY Prefix
<1>3. q \in Seq(Events) /\ Len(q) = n /\ \A i \in 1 .. n : q[i] = t[i]
  BY <1>1, Prefix
<1> HIDE DEF p, q
<1>4. q = p
  BY <1>2, <1>3, SeqEqual
<1>5. QED
  BY <1>4 DEF p, q

LEMMA PrefixGrows ==
    ASSUME NEW s \in Seq(Events), NEW t \in Seq(Events), NEW n \in 0 .. Len(s), n + 1 <= Len(t),
           \A i \in 1 .. n : t[i] = s[i]
    PROVE  SubSeq(t, 1, n + 1) = Append(SubSeq(s, 1, n), t[n + 1])
<1>1. n \in Nat /\ Len(t) \in Nat /\ n + 1 \in 0 .. Len(t) /\ n + 1 \in 1 .. Len(t)
  OBVIOUS
<1>2. t[n + 1] \in Events
  BY <1>1, ElementOfSeq
<1> DEFINE p == SubSeq(s, 1, n)
           q == SubSeq(t, 1, n + 1)
           r == Append(p, t[n + 1])
<1>3. p \in Seq(Events) /\ Len(p) = n /\ \A i \in 1 .. n : p[i] = s[i]
  BY Prefix
<1>4. q \in Seq(Events) /\ Len(q) = n + 1 /\ \A i \in 1 .. n + 1 : q[i] = t[i]
  BY <1>1, Prefix
<1> HIDE DEF p, q
<1>5. /\ r \in Seq(Events) /\ Len(r) = n + 1 /\ r[n + 1] = t[n + 1]
      /\ \A i \in 1 .. n : r[i] = p[i]
  BY <1>2, <1>3, AppendProperties
<1> HIDE DEF r
<1>6. \A i \in 1 .. n + 1 : q[i] = r[i]
  <2> SUFFICES ASSUME NEW i \in 1 .. n + 1 PROVE q[i] = r[i]
    OBVIOUS
  <2>1. CASE i = n + 1
    BY <1>1, <1>4, <1>5, <2>1
  <2>2. CASE i \in 1 .. n
    BY <1>1, <1>3, <1>4, <1>5, <2>2
  <2>3. QED
    BY <1>1, <2>1, <2>2
<1>7. q = r
  BY <1>4, <1>5, <1>6, SeqEqual
<1>8. QED
  BY <1>7 DEF p, q, r

\* The snapshot is within the store.
LEMMA Within ==
    ASSUME SessionInv
    PROVE  /\ store \in Seq(Events) /\ snap.last \in 0 .. Len(store) /\ Len(store) \in Nat
           /\ TheLog = SubSeq(store, 1, snap.last)
<1>1. store \in Seq(Events) /\ Len(store) \in Nat /\ snap.last \in Nat
  BY DEF SessionInv, TypeOK, Snapshots
<1>2. CASE known
  BY <1>1, <1>2 DEF SessionInv, LogInv, TheLog
<1>3. CASE ~known
  <2>1. snap.last = 0
    BY <1>3 DEF SessionInv, LogInv, NoSnap
  <2>2. SubSeq(store, 1, 0) = <<>>
    BY SubSeqEmpty
  <2>3. QED
    BY <1>1, <1>3, <2>1, <2>2 DEF TheLog
<1>4. QED
  BY <1>2, <1>3

\* The same of the next state.
LEMMA WithinNext ==
    ASSUME SessionInv'
    PROVE  /\ store' \in Seq(Events) /\ snap'.last \in 0 .. Len(store') /\ Len(store') \in Nat
           /\ TheLog' = SubSeq(store', 1, snap'.last)
<1>1. store' \in Seq(Events) /\ Len(store') \in Nat /\ snap'.last \in Nat
  BY DEF SessionInv, TypeOK, Snapshots
<1>2. CASE known'
  BY <1>1, <1>2 DEF SessionInv, LogInv, TheLog
<1>3. CASE ~known'
  <2>1. snap'.last = 0
    BY <1>3 DEF SessionInv, LogInv, NoSnap
  <2>2. SubSeq(store', 1, 0) = <<>>
    BY SubSeqEmpty
  <2>3. QED
    BY <1>1, <1>3, <2>1, <2>2 DEF TheLog
<1>4. QED
  BY <1>2, <1>3

\* What the log holds.
LEMMA LogHolds ==
    ASSUME SessionInv
    PROVE  Len(TheLog) = snap.last /\ \A i \in 1 .. snap.last : TheLog[i] = store[i]
<1>1. /\ store \in Seq(Events) /\ snap.last \in 0 .. Len(store)
      /\ TheLog = SubSeq(store, 1, snap.last)
  BY Within
<1>2. QED
  BY <1>1, Prefix

\* A step that applies no event, and one that applies the next.
LEMMA LogKept ==
    ASSUME SessionInv, SessionInv', snap'.last = snap.last,
           \A i \in 1 .. snap.last : store'[i] = store[i]
    PROVE  TheLog' = TheLog
<1>1. /\ store \in Seq(Events) /\ snap.last \in 0 .. Len(store)
      /\ TheLog = SubSeq(store, 1, snap.last)
  BY Within
<1>2. /\ store' \in Seq(Events) /\ snap.last <= Len(store')
      /\ TheLog' = SubSeq(store', 1, snap.last)
  BY WithinNext
<1>3. QED
  BY <1>1, <1>2, PrefixKept

LEMMA LogGrows ==
    ASSUME SessionInv, SessionInv', snap'.last = snap.last + 1,
           \A i \in 1 .. snap.last : store'[i] = store[i]
    PROVE  TheLog' = Append(TheLog, store'[snap.last + 1])
<1>1. /\ store \in Seq(Events) /\ snap.last \in 0 .. Len(store)
      /\ TheLog = SubSeq(store, 1, snap.last)
  BY Within
<1>2. /\ store' \in Seq(Events) /\ snap.last + 1 <= Len(store')
      /\ TheLog' = SubSeq(store', 1, snap.last + 1)
  BY WithinNext
<1>3. QED
  BY <1>1, <1>2, PrefixGrows

-----------------------------------------------------------------------------
(* The two invariants, step by step                                        *)

\* The part of the store that the snapshot has applied does not change.
PrefixSame == \A i \in 1 .. snap.last : store'[i] = store[i]

\* A step that applies no event.
LEMMA OpenKept ==
    ASSUME SessionInv, OpenInv, PrefixSame, snap' = snap, execution' = execution,
           execution # None => receipts'[execution] = receipts[execution]
    PROVE  OpenInv'
<1>1. snap.last \in Nat
  BY DEF SessionInv, TypeOK, Snapshots
<1>2. \A i \in 1 .. snap.last : Opening(store', snap'.last, i) <=> Opening(store, snap.last, i)
  BY <1>1 DEF Opening, PrefixSame
<1>3. CASE execution = None
  BY <1>1, <1>2, <1>3 DEF OpenInv
<1>4. CASE execution # None
  <2>1. /\ receipts[execution] \in 1 .. snap.last /\ Opening(store, snap.last, receipts[execution])
        /\ receipts'[execution'] = receipts[execution]
    BY <1>4 DEF OpenInv
  <2>2. \A i \in 1 .. snap'.last : Opening(store', snap'.last, i) => execution' # None /\ i = receipts'[execution']
    BY <1>2, <1>4, <2>1 DEF OpenInv
  <2>3. receipts'[execution'] \in 1 .. snap'.last /\ Opening(store', snap'.last, receipts'[execution'])
    <3> DEFINE r == receipts[execution]
    <3>1. r \in 1 .. snap.last /\ Opening(store, snap.last, r)
      BY <2>1
    <3> HIDE DEF r
    <3>2. Opening(store', snap'.last, r)
      BY <1>2, <3>1
    <3>3. QED
      BY <2>1, <3>1, <3>2 DEF r, Opening
  <2>4. /\ store'[receipts'[execution']].turn = TurnOf[execution']
        /\ snap'.status[TurnOf[execution']] = "running" =>
                \A j \in receipts'[execution'] + 1 .. snap'.last :
                    store'[j].kind \notin {"cancel_requested", "stalled"}
    BY <1>1, <1>4, <2>1 DEF OpenInv, PrefixSame
  <2>5. QED
    BY <2>2, <2>3, <2>4 DEF OpenInv
<1>5. QED
  BY <1>3, <1>4

\* What the turns that were open become when an event is applied.
LEMMA OpeningGrows ==
    ASSUME SessionInv, PrefixSame, snap'.last = snap.last + 1
    PROVE  /\ \A i \in 1 .. snap.last :
                 Opening(store', snap'.last, i) <=> Opening(store, snap.last, i) /\ store'[snap.last + 1].kind \notin Terminal
           /\ Opening(store', snap'.last, snap.last + 1) <=> store'[snap.last + 1].kind = "started"
<1>1. snap.last \in Nat
  BY DEF SessionInv, TypeOK, Snapshots
<1>2. ASSUME NEW i \in 1 .. snap.last
      PROVE  Opening(store', snap'.last, i) <=> Opening(store, snap.last, i) /\ store'[snap.last + 1].kind \notin Terminal
  BY <1>1 DEF Opening, PrefixSame
<1>3. Opening(store', snap'.last, snap.last + 1) <=> store'[snap.last + 1].kind = "started"
  BY <1>1 DEF Opening
<1>4. QED
  BY <1>2, <1>3

\* The session is created.
LEMMA OpenCreated ==
    ASSUME SessionInv, snap.last = 0, snap'.last = 1, execution' = None,
           store'[1].kind = "created"
    PROVE  OpenInv'
<1>1. \A i \in 1 .. 1 : i = 1
  OBVIOUS
<1>2. QED
  BY <1>1 DEF OpenInv, Opening

\* A turn is started.
LEMMA OpenStarted ==
    ASSUME SessionInv, OpenInv, PrefixSame, snap'.last = snap.last + 1, NEW c \in Starts,
           c # None, execution = None, execution' = c, receipts'[c] = snap.last + 1,
           store'[snap.last + 1].kind = "started", store'[snap.last + 1].turn = TurnOf[c]
    PROVE  OpenInv'
<1>1. snap.last \in Nat
  BY DEF SessionInv, TypeOK, Snapshots
<1>2. \A i \in 1 .. snap'.last : Opening(store', snap'.last, i) => i = snap.last + 1
  BY <1>1, OpeningGrows DEF OpenInv
<1>3. Opening(store', snap'.last, snap.last + 1)
  BY OpeningGrows
<1>4. Opening(store', snap'.last, receipts'[execution'])
  BY <1>3 DEF Opening
<1>5. \A j \in receipts'[execution'] + 1 .. snap'.last : FALSE
  BY <1>1
<1>6. QED
  BY <1>1, <1>2, <1>4, <1>5 DEF OpenInv

\* The turn in progress goes on.
LEMMA OpenGoesOn ==
    ASSUME SessionInv, OpenInv, PrefixSame, snap'.last = snap.last + 1,
           execution # None, execution' = execution,
           receipts'[execution] = receipts[execution],
           store'[snap.last + 1].kind \notin Terminal \cup {"started"},
           snap'.status[TurnOf[execution]] = "running" =>
               /\ snap.status[TurnOf[execution]] = "running"
               /\ store'[snap.last + 1].kind \notin {"cancel_requested", "stalled"}
    PROVE  OpenInv'
<1> DEFINE r == receipts[execution]
<1>1. /\ snap.last \in Nat /\ r \in 1 .. snap.last /\ Opening(store, snap.last, r)
      /\ store[r].turn = TurnOf[execution]
  BY DEF SessionInv, TypeOK, Snapshots, OpenInv
<1>2. \A i \in 1 .. snap.last : Opening(store, snap.last, i) => i = r
  BY DEF OpenInv
<1>3. snap.status[TurnOf[execution]] = "running" =>
         \A j \in r + 1 .. snap.last : store[j].kind \notin {"cancel_requested", "stalled"}
  BY DEF OpenInv
<1>4. r = receipts'[execution']
  OBVIOUS
<1> HIDE DEF r
<1>5. Opening(store', snap'.last, r)
  BY <1>1, OpeningGrows
<1>6. \A i \in 1 .. snap'.last : Opening(store', snap'.last, i) => i = r
  BY <1>1, <1>2, OpeningGrows
<1>7. store'[r].turn = TurnOf[execution]
  BY <1>1 DEF PrefixSame
<1>8. snap'.status[TurnOf[execution]] = "running" =>
         \A j \in r + 1 .. snap'.last : store'[j].kind \notin {"cancel_requested", "stalled"}
  BY <1>1, <1>3 DEF PrefixSame
<1>9. Opening(store', snap'.last, receipts'[execution'])
  BY <1>4, <1>5 DEF Opening
<1>10. QED
  BY <1>1, <1>4, <1>6, <1>7, <1>8, <1>9 DEF OpenInv

\* The turn in progress ends.
LEMMA OpenEnded ==
    ASSUME SessionInv, PrefixSame, snap'.last = snap.last + 1, execution' = None,
           store'[snap.last + 1].kind \in Terminal
    PROVE  OpenInv'
<1>1. snap.last \in Nat
  BY DEF SessionInv, TypeOK, Snapshots
<1>2. \A i \in 1 .. snap'.last : ~ Opening(store', snap'.last, i)
  BY <1>1, OpeningGrows DEF Terminal
<1>3. QED
  BY <1>2 DEF OpenInv

\* A step after which every cancellation on its way, token and cancelled result
\* was there before, or is justified by the log.
LEMMA CancelKept ==
    ASSUME SessionInv, SessionInv', CancelInv, PrefixSame, snap'.last >= snap.last,
           \A c \in Starts : receipts[c] # 0 => receipts'[c] = receipts[c],
           \A k \in Calls : call'[k].pc = "cancel" =>
               \/ call'[k] = call[k]
               \/ /\ call'[k].out > receipts'[call'[k].cmd] /\ call'[k].out <= snap'.last
                  /\ store'[call'[k].out].kind = "cancel_requested"
                  /\ receipts'[call'[k].cmd] # 0,
           \A c \in Starts : token[c] => token'[c],
           \A c \in Starts : token'[c] => \/ token[c]
                                         \/ \E k \in Calls : call[k].pc = "cancel" /\ call[k].cmd = c,
           \A c \in Starts : task'[c].result = "cancelled" => task[c].result = "cancelled" \/ token[c]
    PROVE  CancelInv'
<1>1. /\ snap.last \in Nat /\ snap'.last \in Nat /\ receipts \in [Commands -> Nat]
      /\ call \in [Calls -> CallStates]
  BY DEF SessionInv, TypeOK, Snapshots
<1>2. ASSUME NEW k \in Calls, call[k].pc = "cancel"
      PROVE  /\ call[k].cmd \in Starts /\ receipts[call[k].cmd] # 0 /\ call[k].out \in Nat
             /\ receipts'[call[k].cmd] = receipts[call[k].cmd] /\ receipts[call[k].cmd] \in Nat
             /\ call[k].out \in receipts[call[k].cmd] + 1 .. snap.last
             /\ store'[call[k].out].kind = "cancel_requested"
  <2>1. /\ call[k].cmd \in Starts /\ call[k].cmd \in Commands
        /\ receipts[call[k].cmd] # 0 /\ call[k].out \in Nat
        /\ call[k].out > receipts[call[k].cmd] /\ call[k].out <= snap.last
        /\ store[call[k].out].kind = "cancel_requested"
    BY <1>1, <1>2 DEF SessionInv, CallInv, CallStates, CancelInv, Commands
  <2>2. QED
    BY <1>1, <2>1 DEF PrefixSame
<1>3. ASSUME NEW k \in Calls, call'[k].pc = "cancel"
      PROVE  /\ call'[k].out > receipts'[call'[k].cmd] /\ call'[k].out <= snap'.last
             /\ store'[call'[k].out].kind = "cancel_requested"
             /\ receipts'[call'[k].cmd] # 0
  <2>1. CASE call'[k] = call[k]
    BY <1>1, <1>2, <1>3, <2>1
  <2>2. CASE call'[k] # call[k]
    BY <1>3, <2>2
  <2>3. QED
    BY <2>1, <2>2
<1>4. ASSUME NEW c \in Starts, token'[c]
      PROVE  /\ receipts'[c] # 0
             /\ \E i \in receipts'[c] + 1 .. snap'.last : store'[i].kind = "cancel_requested"
  <2>1. CASE token[c]
    <3>1. receipts[c] # 0 /\ receipts[c] \in Nat /\ receipts'[c] = receipts[c]
      BY <1>1, <2>1 DEF CancelInv, Commands
    <3>2. PICK i \in receipts[c] + 1 .. snap.last : store[i].kind = "cancel_requested"
      BY <2>1 DEF CancelInv
    <3>3. i \in receipts'[c] + 1 .. snap'.last /\ store'[i].kind = "cancel_requested"
      BY <1>1, <3>1, <3>2 DEF PrefixSame
    <3>4. QED
      BY <3>1, <3>3
  <2>2. CASE \E k \in Calls : call[k].pc = "cancel" /\ call[k].cmd = c
    <3>1. PICK k \in Calls : call[k].pc = "cancel" /\ call[k].cmd = c
      BY <2>2
    <3>2. /\ receipts[c] # 0 /\ receipts'[c] = receipts[c] /\ receipts[c] \in Nat
          /\ call[k].out \in receipts[c] + 1 .. snap.last
          /\ store'[call[k].out].kind = "cancel_requested"
      BY <1>2, <3>1
    <3>3. call[k].out \in receipts'[c] + 1 .. snap'.last
      BY <1>1, <3>2
    <3>4. QED
      BY <3>2, <3>3
  <2>3. QED
    BY <1>4, <2>1, <2>2
<1>5. ASSUME NEW c \in Starts, task'[c].result = "cancelled"
      PROVE  token'[c]
  BY <1>5 DEF CancelInv
<1>6. QED
  BY <1>3, <1>4, <1>5 DEF CancelInv

-----------------------------------------------------------------------------
(* The log's view of the session                                           *)

\* The turn that the log has open is the active execution's.
LEMMA OpenedIs ==
    ASSUME RefineInv
    PROVE  Log!Opened(TheLog) = IF execution = None THEN 0 ELSE receipts[execution]
<1>1. /\ Len(TheLog) = snap.last /\ \A i \in 1 .. snap.last : TheLog[i] = store[i]
      /\ snap.last \in Nat
  BY LogHolds DEF RefineInv, SessionInv, TypeOK, Snapshots
<1>2. Log!Openings(TheLog) = {i \in 1 .. snap.last : Opening(store, snap.last, i)}
  <2>1. ASSUME NEW i \in 1 .. snap.last
        PROVE  Opening(store, snap.last, i) <=>
                  /\ TheLog[i].kind = "started"
                  /\ \A j \in i + 1 .. Len(TheLog) : TheLog[j].kind \notin Log!Terminal
    BY <1>1 DEF Opening, Terminal, Log!Terminal
  <2>2. QED
    BY <1>1, <2>1 DEF Log!Openings
<1>3. CASE execution = None
  <2>1. Log!Openings(TheLog) = {}
    BY <1>2, <1>3 DEF RefineInv, OpenInv
  <2>2. QED
    BY <1>3, <2>1 DEF Log!Opened
<1>4. CASE execution # None
  <2>1. Log!Openings(TheLog) = {receipts[execution]}
    BY <1>2, <1>4 DEF RefineInv, OpenInv
  <2>2. QED
    BY <1>4, <2>1 DEF Log!Opened
<1>5. QED
  BY <1>3, <1>4

\* The turn of that start.
LEMMA OpenedTurn ==
    ASSUME RefineInv, execution # None
    PROVE  /\ Log!Opened(TheLog) = receipts[execution] /\ Log!Opened(TheLog) # 0
           /\ TheLog[Log!Opened(TheLog)].turn = TurnOf[execution]
<1>1. /\ receipts[execution] \in 1 .. snap.last
      /\ store[receipts[execution]].turn = TurnOf[execution] /\ snap.last \in Nat
  BY DEF RefineInv, OpenInv, SessionInv, TypeOK, Snapshots
<1>2. Log!Opened(TheLog) = receipts[execution] /\ RefineInv
  BY OpenedIs
<1>3. TheLog[receipts[execution]] = store[receipts[execution]]
  BY <1>1, <1>2, LogHolds DEF RefineInv
<1>4. QED
  BY <1>1, <1>2, <1>3

\* A command without a receipt has no event in a log that is not blocked.
LEMMA FreshIs ==
    ASSUME SessionInv, ~Diverged, NEW c \in Commands, c # None, receipts[c] = 0
    PROVE  \A i \in 1 .. Len(TheLog) : TheLog[i].cause # c
<1>1. /\ Len(TheLog) = snap.last /\ \A i \in 1 .. snap.last : TheLog[i] = store[i]
      /\ snap.last \in Nat /\ snap.last = Len(store)
  BY LogHolds DEF SessionInv, TypeOK, Snapshots, Diverged
<1>2. \A i \in 1 .. Len(store) : store[i].cause # c
  BY DEF SessionInv, CauseInv
<1>3. QED
  BY <1>1, <1>2

\* Since the start of its turn, the log has what the store has.
LEMMA SinceIs ==
    ASSUME RefineInv, execution # None, NEW kinds
    PROVE  Log!Since(TheLog, kinds) <=>
              \E i \in receipts[execution] + 1 .. snap.last : store[i].kind \in kinds
<1>1. /\ Len(TheLog) = snap.last /\ \A i \in 1 .. snap.last : TheLog[i] = store[i]
      /\ snap.last \in Nat /\ receipts[execution] \in 1 .. snap.last
  BY LogHolds DEF RefineInv, OpenInv, SessionInv, TypeOK, Snapshots
<1>2. Log!Opened(TheLog) = receipts[execution]
  BY OpenedTurn
<1>3. QED
  BY <1>1, <1>2 DEF Log!Since

\* What a step does to the log.
LogStep == Log!Next \/ TheLog' = TheLog

\* The steps of SessionLog, with the session's log for its own.
LEMMA StepStart ==
    ASSUME TheLog # <<>>, Log!Opened(TheLog) = 0, NEW t \in Turns, NEW c \in Commands,
           \A i \in 1 .. Len(TheLog) : TheLog[i].cause # c,
           TheLog' = Append(TheLog, Event("started", t, c))
    PROVE  LogStep
<1>1. Log!Start(t, c)
  BY DEF Log!Start, Log!Fresh, TheLog, Event
<1>2. QED
  BY <1>1 DEF LogStep, Log!Next

LEMMA StepCancel ==
    ASSUME Log!Opened(TheLog) # 0, NEW c \in Commands,
           \A i \in 1 .. Len(TheLog) : TheLog[i].cause # c,
           ~ Log!Since(TheLog, {"cancel_requested", "stalled"}),
           TheLog' = Append(TheLog, Event("cancel_requested", TheLog[Log!Opened(TheLog)].turn, c))
    PROVE  LogStep
<1>1. Log!RequestCancel(c)
  BY DEF Log!RequestCancel, Log!Fresh, TheLog, Event
<1>2. QED
  BY <1>1 DEF LogStep, Log!Next

LEMMA StepAct ==
    ASSUME Log!Opened(TheLog) # 0, NEW kind \in Activity \cup {"stalled"},
           TheLog' = Append(TheLog, Event(kind, TheLog[Log!Opened(TheLog)].turn, None))
    PROVE  LogStep
<1>1. Log!Act(kind) /\ kind \in Log!Activity
  BY DEF Log!Act, Log!Activity, Activity, TheLog, Event
<1>2. QED
  BY <1>1 DEF LogStep, Log!Next

LEMMA StepEnd ==
    ASSUME Log!Opened(TheLog) # 0, NEW kind \in Terminal,
           kind = "cancelled" => Log!Since(TheLog, {"cancel_requested"}),
           TheLog' = Append(TheLog, Event(kind, TheLog[Log!Opened(TheLog)].turn, None))
    PROVE  LogStep
<1>1. Log!End(kind) /\ kind \in Log!Terminal
  BY DEF Log!End, Log!Terminal, Terminal, TheLog, Event
<1>2. QED
  BY <1>1 DEF LogStep, Log!Next

LEMMA StepCreate ==
    ASSUME TheLog = <<>>, NEW c \in Commands, TheLog' = <<Event("created", None, c)>>
    PROVE  LogStep
<1>1. Log!Create(c)
  BY DEF Log!Create, TheLog, Event
<1>2. QED
  BY <1>1 DEF LogStep, Log!Next

-----------------------------------------------------------------------------
(* Every step of the session is a step of the log, or none                 *)

\* A step that leaves the control state alone.
LEMMA QuietRefines ==
    ASSUME RefineInv, SessionInv', UNCHANGED control,
           \A k \in Calls : call'[k] = call[k] \/ call'[k].pc # "cancel",
           \A c \in Starts : token[c] => token'[c],
           \A c \in Starts : token'[c] => \/ token[c]
                                         \/ \E k \in Calls : call[k].pc = "cancel" /\ call[k].cmd = c,
           \A c \in Starts : task'[c].result = "cancelled" => task[c].result = "cancelled" \/ token[c]
    PROVE  RefineInv' /\ LogStep
<1>1. PrefixSame /\ snap' = snap /\ execution' = execution /\ receipts' = receipts
  BY DEF PrefixSame, control
<1>2. OpenInv'
  BY <1>1, OpenKept DEF RefineInv
<1>3. snap.last \in Nat
  BY DEF RefineInv, SessionInv, TypeOK, Snapshots
<1>4. CancelInv'
  BY <1>1, <1>3, CancelKept DEF RefineInv
<1>5. TheLog' = TheLog
  BY <1>1, LogKept DEF RefineInv, PrefixSame
<1>6. QED
  BY <1>2, <1>4, <1>5 DEF RefineInv, LogStep

\* record_event and record_terminal_event.
LEMMA RecordRefines ==
    ASSUME RefineInv, SessionInv', NEW c \in Starts, NEW kind \in TaskKinds,
           NEW after \in TaskStates, task[c].pc \notin {"none", "done"},
           after.result = task[c].result \/ token[c],
           Record(c, kind, after),
           kind = "cancelled" => token[c],
           kind \in Terminal => execution' = (IF Diverged THEN execution ELSE None),
           kind \notin Terminal => execution' = execution,
           UNCHANGED <<known, receipts, token, process, history, client, sub>>
    PROVE  RefineInv' /\ LogStep
<1> USE SessionAssumption DEF client
<1>1. /\ execution = c /\ snap.active = TurnOf[c] /\ TurnOf[c] \in Turns /\ known
      /\ snap.status[TurnOf[c]] \in Live /\ execution # None
      /\ snap \in Snapshots /\ task \in [Starts -> TaskStates]
  BY DEF RefineInv, SessionInv, TypeOK, TaskInv, ActiveInv, ExecutionIsActive, LogInv, Commands
<1>2. CASE Diverged
  <2>1. task' = [task EXCEPT ![c] = after] /\ UNCHANGED control
    BY <1>2 DEF Record, control
  <2>2. \A d \in Starts : task'[d].result = "cancelled" => task[d].result = "cancelled" \/ token[d]
    BY <1>1, <2>1
  <2>3. QED
    BY <2>1, <2>2, QuietRefines
<1>3. CASE ~Diverged
  <2> DEFINE e == Event(kind, TurnOf[c], None)
  <2>1. Legal(snap, e) /\ e \in Events /\ e.kind = kind
    BY <1>1, TaskEventLegal DEF Event, Events, TaskKinds
  <2>2. /\ store' = Append(store, e) /\ snap' = Reduced(snap, e)
        /\ task' = [task EXCEPT ![c] = [after EXCEPT !.out = Len(store) + 1]]
    BY <1>3, <2>1 DEF Record, AppendAndApply
  <2>3. /\ snap'.last = snap.last + 1
        /\ kind \notin Terminal /\ snap'.status[TurnOf[c]] = "running" =>
              snap.status[TurnOf[c]] = "running" /\ kind # "stalled"
    BY <1>1, <2>2, TaskEventReduced
  <2> HIDE DEF e
  <2>4. /\ snap.last \in Nat /\ Len(store) = snap.last /\ PrefixSame
        /\ store'[snap.last + 1] = e
    BY <1>1, <1>3, <2>1, <2>2 DEF Diverged, Snapshots, PrefixSame, RefineInv, SessionInv, TypeOK
  <2>5. OpenInv'
    <3>1. CASE kind \in Terminal
      BY <1>3, <2>1, <2>3, <2>4, <3>1, OpenEnded DEF RefineInv
    <3>2. CASE kind \notin Terminal
      <4>1. kind \notin {"started", "cancel_requested"}
        BY <3>2 DEF TaskKinds, Activity
      <4>2. QED
        BY <1>1, <2>1, <2>3, <2>4, <3>2, <4>1, OpenGoesOn DEF RefineInv
    <3>3. QED
      BY <3>1, <3>2
  <2>6. CancelInv'
    <3>1. \A d \in Starts : task'[d].result = "cancelled" => task[d].result = "cancelled" \/ token[d]
      BY <1>1, <2>2 DEF TaskStates
    <3>2. snap'.last >= snap.last
      BY <2>3, <2>4
    <3>3. QED
      BY <2>4, <3>1, <3>2, CancelKept DEF RefineInv
  <2>7. TheLog' = Append(TheLog, e)
    BY <2>3, <2>4, LogGrows DEF RefineInv, PrefixSame
  <2>8. /\ Log!Opened(TheLog) # 0
        /\ e = Event(kind, TheLog[Log!Opened(TheLog)].turn, None)
    BY <1>1, OpenedTurn DEF e
  <2>9. LogStep
    <3>1. CASE kind \in Terminal
      <4>1. ASSUME kind = "cancelled" PROVE Log!Since(TheLog, {"cancel_requested"})
        <5>1. \E i \in receipts[execution] + 1 .. snap.last : store[i].kind \in {"cancel_requested"}
          BY <1>1, <4>1 DEF RefineInv, CancelInv
        <5>2. QED
          BY <1>1, <5>1, SinceIs
      <4>2. QED
        BY <2>7, <2>8, <3>1, <4>1, StepEnd
    <3>2. CASE kind \notin Terminal
      BY <2>7, <2>8, <3>2, StepAct DEF TaskKinds
    <3>3. QED
      BY <3>1, <3>2
  <2>10. QED
    BY <2>5, <2>6, <2>9 DEF RefineInv
<1>4. QED
  BY <1>2, <1>3

\* The steps of a turn's task that record an event.
LEMMA TaskRecordRefines ==
    ASSUME RefineInv, SessionInv', NEW c \in Starts,
           \/ TextDelta(c) \/ ToolStart(c) \/ ToolEnd(c) \/ WaitTimeout(c)
           \/ (TaskCancelled(c) /\ task[c].pc = "call")
    PROVE  RefineInv' /\ LogStep
<1>1. /\ task[c] \in TaskStates /\ task[c].left \in Nat /\ task[c].out = 0
      /\ task[c].pc \notin {"none", "done"}
      /\ UNCHANGED <<known, receipts, execution, token, process, history, client, sub>>
  BY DEF RefineInv, SessionInv, TypeOK, TaskStates, TextDelta, ToolStart, ToolEnd, WaitTimeout,
         TaskCancelled, In
<1> USE DEF TaskKinds, Activity, Terminal
<1>2. CASE TextDelta(c)
  <2> DEFINE after == [task[c] EXCEPT !.left = task[c].left + 1]
  <2>1. Record(c, "delta", after) /\ after \in TaskStates /\ after.result = task[c].result
    BY <1>1, <1>2 DEF TextDelta, TaskStates
  <2> HIDE DEF after
  <2>2. QED
    BY <1>1, <2>1, RecordRefines
<1>3. CASE ToolStart(c)
  <2> DEFINE after == [task[c] EXCEPT !.pc = "call"]
  <2>1. Record(c, "tool_started", after) /\ after \in TaskStates /\ after.result = task[c].result
    BY <1>1, <1>3 DEF ToolStart, TaskStates
  <2> HIDE DEF after
  <2>2. QED
    BY <1>1, <2>1, RecordRefines
<1>4. CASE ToolEnd(c)
  <2> DEFINE after == [task[c] EXCEPT !.pc = "tool", !.left = task[c].left - 1]
  <2>1. task[c].left - 1 \in Nat
    BY <1>1, <1>4 DEF ToolEnd, In, RefineInv, SessionInv, TaskInv
  <2>2. Record(c, "tool_completed", after) /\ after \in TaskStates /\ after.result = task[c].result
    BY <1>1, <1>4, <2>1 DEF ToolEnd, TaskStates
  <2> HIDE DEF after
  <2>3. QED
    BY <1>1, <2>2, RecordRefines
<1>5. CASE WaitTimeout(c)
  <2> DEFINE after == [task[c] EXCEPT !.pc = "drain"]
  <2>1. Record(c, "stalled", after) /\ after \in TaskStates /\ after.result = task[c].result
    BY <1>1, <1>5 DEF WaitTimeout, TaskStates
  <2> HIDE DEF after
  <2>2. QED
    BY <1>1, <2>1, RecordRefines
<1>6. CASE TaskCancelled(c) /\ task[c].pc = "call"
  <2> DEFINE after == [task[c] EXCEPT !.pc = "cleanup", !.result = "cancelled"]
  <2>1. Record(c, "tool_cancelled", after) /\ after \in TaskStates /\ token[c]
    BY <1>1, <1>6 DEF TaskCancelled, TaskStates
  <2> HIDE DEF after
  <2>2. QED
    BY <1>1, <2>1, RecordRefines
<1>7. QED
  BY <1>2, <1>3, <1>4, <1>5, <1>6

\* The turn's end: it ends as cancelled only if its token is set.
LEMMA TurnEndRefines ==
    ASSUME RefineInv, SessionInv', NEW c \in Starts, TurnEnd(c)
    PROVE  RefineInv' /\ LogStep
<1> DEFINE after == [task[c] EXCEPT !.pc = "done"]
<1>1. /\ task[c] \in TaskStates /\ task[c].pc = "end" /\ Record(c, TurnKind(c), after)
      /\ UNCHANGED <<known, receipts, token, process, history, client, sub>>
  BY DEF RefineInv, SessionInv, TypeOK, TurnEnd, In
<1>2. task[c].result # "none" /\ execution = c /\ (task[c].result = "cancelled" => token[c])
  BY <1>1 DEF RefineInv, SessionInv, TaskInv, Early, CancelInv
<1>3. TurnKind(c) \in Terminal /\ (TurnKind(c) = "cancelled" => token[c])
  BY <1>1, <1>2 DEF TurnKind, TaskStates, Terminal
<1>4. after \in TaskStates /\ after.result = task[c].result
  BY <1>1 DEF TaskStates
<1>5. execution' = IF Diverged THEN execution ELSE None
  BY <1>2, SessionAssumption DEF TurnEnd, Commands
<1> HIDE DEF after
<1>6. QED
  BY <1>1, <1>2, <1>3, <1>4, <1>5, RecordRefines DEF TaskKinds

\* The steps of a turn's task that record nothing.
LEMMA TaskQuietRefines ==
    ASSUME RefineInv, SessionInv', NEW c \in Starts,
           \/ TaskSend(c) \/ TaskBegin(c) \/ MessageDone(c) \/ ModelFails(c) \/ ToolSpawn(c)
           \/ ToolsDone(c) \/ (TaskCancelled(c) /\ task[c].pc # "call")
           \/ Cleanup(c) \/ WaitIdle(c) \/ ProcessGone(c)
    PROVE  RefineInv' /\ LogStep
<1>1. task \in [Starts -> TaskStates]
  BY DEF RefineInv, SessionInv, TypeOK
<1>2. UNCHANGED <<control, token, call>>
  BY DEF TaskSend, TaskBegin, MessageDone, ModelFails, ToolSpawn, ToolsDone, TaskCancelled,
         Cleanup, WaitIdle, ProcessGone, control, client
<1>3. \A d \in Starts : task'[d].result = "cancelled" => task[d].result = "cancelled" \/ token[d]
  <2>1. CASE TaskSend(c) \/ ToolSpawn(c) \/ ProcessGone(c) \/ Cleanup(c) \/ WaitIdle(c)
    BY <1>1, <2>1 DEF TaskSend, ToolSpawn, ProcessGone, Cleanup, WaitIdle, TaskStates
  <2>2. CASE TaskBegin(c)
    <3>1. \/ token[c]
          \/ \E to \in {"cleanup", "model"} :
                task' = [task EXCEPT ![c] = [task[c] EXCEPT !.pc = to, !.result = "completed"]]
      BY <1>1, <2>2 DEF TaskBegin
    <3>2. \E to \in {"cleanup", "model"}, r \in {"cancelled", "completed"} :
                task' = [task EXCEPT ![c] = [task[c] EXCEPT !.pc = to, !.result = r]]
      BY <1>1, <2>2 DEF TaskBegin
    <3>3. QED
      BY <1>1, <3>1, <3>2 DEF TaskStates
  <2>3. CASE MessageDone(c)
    <3>1. PICK n \in 0 .. MaxTools[c] :
              task' = [task EXCEPT ![c] = [task[c] EXCEPT !.pc = IF n = 0 THEN "cleanup" ELSE "tool",
                                                          !.left = n]]
      BY <1>1, <2>3 DEF MessageDone
    <3>2. QED
      BY <1>1, <3>1 DEF TaskStates
  <2>4. CASE ModelFails(c) \/ ToolsDone(c)
    <3>1. CASE ModelFails(c)
      <4>1. task' = [task EXCEPT ![c] = [task[c] EXCEPT !.pc = "cleanup", !.result = "failed"]]
        BY <1>1, <3>1 DEF ModelFails
      <4>2. QED
        BY <1>1, <4>1 DEF TaskStates
    <3>2. CASE ToolsDone(c)
      <4>1. \E to \in {"cleanup", "model"} :
                task' = [task EXCEPT ![c] = [task[c] EXCEPT !.round = task[c].round + 1, !.pc = to]]
        BY <1>1, <3>2 DEF ToolsDone
      <4>2. QED
        BY <1>1, <4>1 DEF TaskStates
    <3>3. QED
      BY <2>4, <3>1, <3>2
  <2>5. CASE TaskCancelled(c) /\ task[c].pc # "call"
    BY <1>1, <2>5 DEF TaskCancelled, TaskStates
  <2>6. QED
    BY <2>1, <2>2, <2>3, <2>4, <2>5
<1>4. QED
  BY <1>2, <1>3, QuietRefines

\* The steps of a call that leave the control state alone.
LEMMA CallQuietRefines ==
    ASSUME RefineInv, SessionInv', NEW k \in Calls,
           \/ CreateFails(k) \/ (\E c \in Creates : CreateSession(k, c))
           \/ StartSpawn(k) \/ CancelExecution(k)
    PROVE  RefineInv' /\ LogStep
<1>1. /\ call \in [Calls -> CallStates] /\ task \in [Starts -> TaskStates]
      /\ token \in [Starts -> BOOLEAN]
  BY DEF RefineInv, SessionInv, TypeOK
<1>2. /\ UNCHANGED control
      /\ \A l \in Calls : call'[l] = call[l] \/ call'[l].pc # "cancel"
  <2>1. CASE \E c \in Creates : CreateSession(k, c)
    BY <1>1, <2>1 DEF CreateSession, Goto
  <2>2. CASE CreateFails(k) \/ StartSpawn(k) \/ CancelExecution(k)
    BY <1>1, <2>2 DEF CreateFails, StartSpawn, CancelExecution, Return, Idle
  <2>3. QED
    BY <2>1, <2>2
<1>3. \A c \in Starts : /\ token[c] => token'[c]
                        /\ token'[c] => \/ token[c]
                                        \/ \E l \in Calls : call[l].pc = "cancel" /\ call[l].cmd = c
  <2>1. CASE CancelExecution(k)
    <3>1. call[k].pc = "cancel" /\ token' = [token EXCEPT ![call[k].cmd] = TRUE]
      BY <2>1 DEF CancelExecution, At
    <3>2. QED
      BY <1>1, <3>1
  <2>2. CASE ~CancelExecution(k)
    BY <2>2 DEF CreateFails, CreateSession, StartSpawn, turn
  <2>3. QED
    BY <2>1, <2>2
<1>4. \A c \in Starts : task'[c].result = "cancelled" => task[c].result = "cancelled"
  <2>1. CASE StartSpawn(k)
    <3>1. call[k].cmd \in Starts
      BY <2>1 DEF StartSpawn, At, RefineInv, SessionInv, CallInv
    <3>2. QED
      BY <1>1, <2>1, <3>1 DEF StartSpawn, TaskStates
  <2>2. CASE ~StartSpawn(k)
    BY <2>2 DEF CreateFails, CreateSession, CancelExecution, turn
  <2>3. QED
    BY <2>1, <2>2
<1>5. QED
  BY <1>2, <1>3, <1>4, QuietRefines

\* The creation is in the store; clients do not see it yet.
LEMMA CreateAppendRefines ==
    ASSUME RefineInv, SessionInv', NEW k \in Calls, CreateAppend(k)
    PROVE  RefineInv' /\ LogStep
<1>1. /\ UNCHANGED <<known, snap, receipts, execution, task, token>> /\ store = <<>>
      /\ call' = [call EXCEPT ![k] = [cmd |-> call[k].cmd, pc |-> "insert", out |-> 0]]
  BY DEF CreateAppend, Goto, turn
<1>2. /\ snap.last \in Nat /\ snap.last <= Len(store) /\ Len(store) = 0
      /\ call \in [Calls -> CallStates]
  BY <1>1, Within DEF RefineInv, SessionInv, TypeOK, Snapshots
<1>3. PrefixSame /\ snap' = snap /\ snap'.last >= snap.last
  BY <1>1, <1>2 DEF PrefixSame
<1>4. OpenInv'
  BY <1>1, <1>3, OpenKept DEF RefineInv
<1>5. \A l \in Calls : call'[l].pc = "cancel" => call'[l] = call[l]
  BY <1>1, <1>2
<1>6. CancelInv'
  BY <1>1, <1>3, <1>5, CancelKept DEF RefineInv
<1>7. TheLog' = TheLog
  BY <1>3, LogKept DEF RefineInv, PrefixSame
<1>8. QED
  BY <1>4, <1>6, <1>7 DEF RefineInv, LogStep

\* The session is in the table: the log begins.
LEMMA CreateInsertRefines ==
    ASSUME RefineInv, SessionInv', NEW k \in Calls, CreateInsert(k)
    PROVE  RefineInv' /\ LogStep
<1> DEFINE c == call[k].cmd
           e == Event("created", None, c)
<1>1. /\ ~known /\ c \in Creates /\ c \in Commands /\ c \notin Starts /\ store[1] = e
      /\ Len(store) = 1
  BY SessionAssumption DEF CreateInsert, At, RefineInv, SessionInv, CallInv, Commands
<1>2. /\ snap' = Reduced(snap, store[1]) /\ receipts' = [receipts EXCEPT ![c] = 1]
      /\ call' = [call EXCEPT ![k] = Idle] /\ UNCHANGED <<store, execution, task, token>>
  BY <1>1 DEF CreateInsert, Return, turn
<1>3. e \in Events /\ e.kind = "created"
  BY <1>1 DEF Event, Events
<1> HIDE DEF c
<1>4. /\ snap = NoSnap /\ execution = None /\ receipts \in [Commands -> Nat]
      /\ call \in [Calls -> CallStates]
  BY <1>1 DEF RefineInv, SessionInv, LogInv, TypeOK
<1> HIDE DEF e
<1>5. snap.last = 0 /\ snap'.last = 1 /\ PrefixSame
  <2>1. snap'.last = 1
    BY <1>1, <1>2, <1>3, <1>4, CreateReduced
  <2>2. snap.last = 0
    BY <1>4 DEF NoSnap
  <2>3. QED
    BY <2>1, <2>2 DEF PrefixSame
<1>6. OpenInv'
  BY <1>1, <1>2, <1>3, <1>4, <1>5, OpenCreated DEF RefineInv
<1>7. CancelInv'
  <2>1. \A d \in Starts : receipts'[d] = receipts[d]
    BY <1>1, <1>2, <1>4, SessionAssumption DEF Commands
  <2>2. \A l \in Calls : call'[l].pc = "cancel" => call'[l] = call[l]
    BY <1>2, <1>4 DEF Idle
  <2>3. snap'.last >= snap.last
    BY <1>5
  <2>4. QED
    BY <1>2, <1>5, <2>1, <2>2, <2>3, CancelKept DEF RefineInv
<1>8. TheLog = <<>>
  BY <1>1 DEF TheLog
<1>9. TheLog' = Append(TheLog, store'[snap.last + 1])
  BY <1>5, LogGrows DEF RefineInv, PrefixSame
<1>10. TheLog' = <<e>>
  BY <1>1, <1>2, <1>5, <1>8, <1>9
<1>11. LogStep
  BY <1>1, <1>8, <1>10, StepCreate DEF e
<1>12. QED
  BY <1>6, <1>7, <1>11 DEF RefineInv

\* A turn is started.
LEMMA StartTurnRefines ==
    ASSUME RefineInv, SessionInv', NEW k \in Calls, NEW c \in Starts, StartTurn(k, c)
    PROVE  RefineInv' /\ LogStep
<1> DEFINE e == Event("started", TurnOf[c], c)
           x == [cmd |-> c, pc |-> "start", out |-> Len(store) + 1]
<1>1. /\ known /\ receipts[c] = 0 /\ snap.active = None /\ ~Diverged
      /\ c \in Commands /\ TurnOf[c] \in Turns /\ c # None /\ snap \in Snapshots
      /\ receipts \in [Commands -> Nat] /\ call \in [Calls -> CallStates] /\ store \in Seq(Events)
  BY SessionAssumption
  DEF StartTurn, CanStart, AppendAndApply, Commands, RefineInv, SessionInv, TypeOK
<1>2. Legal(snap, e)
  BY <1>1, StartReduced
<1>3. /\ store' = Append(store, e) /\ snap' = Reduced(snap, e) /\ execution' = c
      /\ receipts' = [receipts EXCEPT ![c] = Len(store) + 1]
      /\ call' = [call EXCEPT ![k] = x] /\ UNCHANGED <<task, token>>
  BY <1>2 DEF StartTurn, AppendAndApply, Goto, turn
<1>4. snap'.last = snap.last + 1
  BY <1>1, <1>3, StartReduced
<1>5. e \in Events /\ e.kind = "started" /\ e.turn = TurnOf[c] /\ x.pc = "start"
  BY <1>1 DEF Event, Events
<1> HIDE DEF e, x
<1>6. /\ snap.last \in Nat /\ Len(store) = snap.last /\ PrefixSame
      /\ store'[snap.last + 1] = e
  BY <1>1, <1>3, <1>5 DEF Diverged, Snapshots, PrefixSame
<1>7. execution = None
  BY <1>1, SessionAssumption DEF RefineInv, SessionInv, TypeOK, ActiveInv, ExecutionIsActive
<1>8. OpenInv'
  <2>1. receipts'[c] = snap.last + 1
    BY <1>1, <1>3, <1>6
  <2>2. QED
    BY <1>1, <1>3, <1>4, <1>5, <1>6, <1>7, <2>1, OpenStarted DEF RefineInv
<1>9. CancelInv'
  <2>1. \A d \in Starts : receipts[d] # 0 => receipts'[d] = receipts[d]
    BY <1>1, <1>3, SessionAssumption DEF Commands
  <2>2. \A l \in Calls : call'[l].pc = "cancel" => call'[l] = call[l]
    BY <1>1, <1>3, <1>5
  <2>3. snap'.last >= snap.last
    BY <1>4, <1>6
  <2>4. QED
    BY <1>3, <1>6, <2>1, <2>2, <2>3, CancelKept DEF RefineInv
<1>10. TheLog' = Append(TheLog, e)
  BY <1>4, <1>6, LogGrows DEF RefineInv, PrefixSame
<1>11. Log!Opened(TheLog) = 0
  BY <1>7, OpenedIs
<1>12. TheLog # <<>>
  <2>1. Len(TheLog) = snap.last /\ snap.last > 0
    BY <1>1, LogHolds DEF RefineInv, SessionInv, LogInv
  <2>2. QED
    BY <1>6, <2>1
<1>13. \A i \in 1 .. Len(TheLog) : TheLog[i].cause # c
  BY <1>1, FreshIs DEF RefineInv
<1>14. LogStep
  BY <1>1, <1>10, <1>11, <1>12, <1>13, StepStart DEF e
<1>15. QED
  BY <1>8, <1>9, <1>14 DEF RefineInv

\* A cancellation is accepted, or its event stays outside the log.
LEMMA CancelTurnRefines ==
    ASSUME RefineInv, SessionInv', NEW k \in Calls, NEW c \in Cancels, CancelTurn(k, c)
    PROVE  RefineInv' /\ LogStep
<1> DEFINE t == TurnOf[c]
           e == Event("cancel_requested", t, c)
           x == [cmd |-> execution, pc |-> "cancel", out |-> Len(store) + 1]
<1>1. /\ receipts[c] = 0 /\ ~Diverged /\ execution # None /\ c \in Commands /\ t \in Turns
      /\ c # None /\ snap \in Snapshots /\ TurnOf[execution] = t /\ execution \in Starts
      /\ c \notin Starts /\ store' = Append(store, e) /\ UNCHANGED <<execution, task, token>>
      /\ receipts \in [Commands -> Nat] /\ call \in [Calls -> CallStates] /\ store \in Seq(Events)
  BY SessionAssumption
  DEF CancelTurn, AppendAndApply, Commands, RefineInv, SessionInv, TypeOK, turn
<1>2. snap.active = t
  BY <1>1 DEF RefineInv, SessionInv, ActiveInv, ExecutionIsActive
<1>3. Legal(snap, e) <=> snap.status[t] = "running"
  BY <1>1, <1>2, CancelReduced
<1>4. /\ e \in Events /\ e.kind = "cancel_requested"
      /\ x.pc = "cancel" /\ x.cmd = execution /\ x.out = Len(store) + 1
  BY <1>1 DEF Event, Events
<1>5. /\ snap.last \in Nat /\ Len(store) = snap.last /\ PrefixSame
      /\ store'[snap.last + 1] = e
  BY <1>1, <1>4 DEF Diverged, Snapshots, PrefixSame
<1>6. CASE Legal(snap, e)
  <2>1. /\ snap' = Reduced(snap, e)
        /\ receipts' = [receipts EXCEPT ![c] = Len(store) + 1]
        /\ call' = [call EXCEPT ![k] = x]
    BY <1>6 DEF CancelTurn, AppendAndApply
  <2>2. snap'.last = snap.last + 1 /\ snap'.status[t] = "cancelling"
    BY <1>1, <1>2, <2>1, CancelReduced
  <2> HIDE DEF e, x, t
  <2>3. \A d \in Starts : receipts'[d] = receipts[d]
    BY <1>1, <2>1, SessionAssumption DEF Commands
  <2>4. OpenInv'
    BY <1>1, <1>4, <1>5, <2>2, <2>3, OpenGoesOn DEF RefineInv, Terminal
  <2>5. CancelInv'
    <3>1. receipts[execution] \in 1 .. snap.last
      BY <1>1 DEF RefineInv, OpenInv
    <3>2. ASSUME NEW l \in Calls, call'[l].pc = "cancel", call'[l] # call[l]
          PROVE  /\ call'[l].out > receipts'[call'[l].cmd] /\ call'[l].out <= snap'.last
                 /\ store'[call'[l].out].kind = "cancel_requested"
                 /\ receipts'[call'[l].cmd] # 0
      <4>1. call'[l] = x
        BY <1>1, <2>1, <3>2
      <4>2. /\ call'[l].out = snap.last + 1 /\ call'[l].cmd = execution
            /\ receipts'[execution] = receipts[execution]
        BY <1>1, <1>4, <1>5, <2>3, <4>1
      <4>3. QED
        BY <1>4, <1>5, <2>2, <3>1, <4>2
    <3>3. snap'.last >= snap.last
      BY <1>5, <2>2
    <3>4. QED
      BY <1>1, <1>5, <2>3, <3>2, <3>3, CancelKept DEF RefineInv
  <2>6. TheLog' = Append(TheLog, e)
    BY <1>5, <2>2, LogGrows DEF RefineInv, PrefixSame
  <2>7. /\ Log!Opened(TheLog) # 0
        /\ e = Event("cancel_requested", TheLog[Log!Opened(TheLog)].turn, c)
    BY <1>1, OpenedTurn DEF e
  <2>8. \A i \in 1 .. Len(TheLog) : TheLog[i].cause # c
    BY <1>1, FreshIs DEF RefineInv
  <2>9. ~ Log!Since(TheLog, {"cancel_requested", "stalled"})
    <3>1. snap.status[TurnOf[execution]] = "running"
      BY <1>1, <1>3, <1>6
    <3>2. \A j \in receipts[execution] + 1 .. snap.last :
              store[j].kind \notin {"cancel_requested", "stalled"}
      BY <1>1, <3>1 DEF RefineInv, OpenInv
    <3>3. QED
      BY <1>1, <3>2, SinceIs
  <2>10. LogStep
    BY <1>1, <2>6, <2>7, <2>8, <2>9, StepCancel
  <2>11. QED
    BY <2>4, <2>5, <2>10 DEF RefineInv
<1>7. CASE ~Legal(snap, e)
  <2>1. snap' = snap /\ receipts' = receipts /\ call' = call
    BY <1>7 DEF CancelTurn, AppendAndApply
  <2> HIDE DEF e, x, t
  <2>2. OpenInv'
    BY <1>1, <1>5, <2>1, OpenKept DEF RefineInv
  <2>3. CancelInv'
    <3>1. snap'.last >= snap.last
      BY <1>5, <2>1
    <3>2. QED
      BY <1>1, <1>5, <2>1, <3>1, CancelKept DEF RefineInv
  <2>4. TheLog' = TheLog
    BY <1>5, <2>1, LogKept DEF RefineInv, PrefixSame
  <2>5. QED
    BY <2>2, <2>3, <2>4 DEF RefineInv, LogStep
<1>8. QED
  BY <1>6, <1>7

-----------------------------------------------------------------------------
(* The theorem                                                             *)

LEMMA InitRefines == Init => RefineInv /\ Log!Init
<1> SUFFICES ASSUME Init PROVE RefineInv /\ Log!Init
  OBVIOUS
<1>1. SessionInv
  BY InitSound
<1>2. CancelInv /\ OpenInv
  BY DEF Init, CancelInv, OpenInv, Idle, NoTask
<1>3. Log!Init
  BY DEF Init, Log!Init
<1>4. QED
  BY <1>1, <1>2, <1>3 DEF RefineInv

\* Every step keeps the invariant and is a step of the log, or leaves it alone.
LEMMA NextRefines == RefineInv /\ [Next]_vars => RefineInv' /\ LogStep
<1> SUFFICES ASSUME RefineInv, [Next]_vars PROVE RefineInv' /\ LogStep
  OBVIOUS
<1>1. SessionInv'
  BY NextSound DEF RefineInv
<1>2. CASE \E k \in Calls, c \in Creates : CreateSession(k, c)
  BY <1>1, <1>2, CallQuietRefines
<1>3. CASE \E k \in Calls, c \in Starts : StartTurn(k, c)
  BY <1>1, <1>3, StartTurnRefines
<1>4. CASE \E k \in Calls, c \in Cancels : CancelTurn(k, c)
  BY <1>1, <1>4, CancelTurnRefines
<1>5. CASE \E k \in Calls : Continue(k)
  BY <1>1, <1>5, CallQuietRefines, CreateAppendRefines, CreateInsertRefines DEF Continue
<1>6. ASSUME NEW c \in Starts, TaskStep(c)
      PROVE  RefineInv' /\ LogStep
  BY <1>1, <1>6, TaskQuietRefines, TaskRecordRefines, TurnEndRefines DEF TaskStep
<1>7. ASSUME NEW c \in Starts,
             \/ TextDelta(c) \/ MessageDone(c) \/ ModelFails(c) \/ ToolSpawn(c) \/ ToolEnd(c)
             \/ WaitTimeout(c) \/ ProcessGone(c)
      PROVE  RefineInv' /\ LogStep
  BY <1>1, <1>7, TaskQuietRefines, TaskRecordRefines
<1>8. CASE (\E c \in Starts : Subscribe(c)) \/ SubscribeLoad \/ RecvLagged \/ UNCHANGED vars
  <2>1. UNCHANGED <<control, turn, client>>
    BY <1>8 DEF Subscribe, SubscribeLoad, RecvLagged, vars
  <2>2. UNCHANGED <<call, token, task>>
    BY <2>1 DEF turn, client
  <2>3. QED
    BY <1>1, <2>1, <2>2, QuietRefines
<1>9. QED
  BY <1>2, <1>3, <1>4, <1>5, <1>6, <1>7, <1>8 DEF Next

\* A Forge session implements the log it promises (service.rs, reducer.rs,
\* store.rs): turns do not overlap, a command has at most one effect, and only a
\* turn whose cancellation was accepted ends as cancelled.
THEOREM SessionImplementsLog == Spec => ImplementsLog
<1>1. RefineInv /\ [Next]_vars => [Log!Next]_(IF known THEN SubSeq(store, 1, snap.last) ELSE <<>>)
  BY NextRefines DEF LogStep, TheLog
<1>2. QED
  BY <1>1, InitRefines, NextRefines, PTL DEF Spec, ImplementsLog, Log!Spec

-----------------------------------------------------------------------------
(* The shell tools                                                         *)


ToolCalls ==
  [pc : {"idle", "ask", "allowed", "approved", "insert", "yield", "terminate", "output", "reap"},
   cmd : Cmds \cup {<<>>}, id : Exec!Ids \cup {0}, kind : {"exec", "shell", "write", "none"}]

ExecTypes ==
  /\ turnNo \in Nat \ {0} /\ toolCall \in ToolCalls
  /\ proc \in [Exec!Ids -> {"none", "running", "killed", "exited"}]
  /\ owner \in [Exec!Ids -> Nat]
  /\ stopper \in [Exec!Ids -> {"none", "spawned", "waiting"}]
  /\ guard \subseteq Exec!Ids /\ sessions \subseteq Exec!Ids /\ purge \subseteq Exec!Ids

\* A number was given to a process once one was started under it; whoever waits
\* for a process to end has killed it, so that releasing its guard is safe.
ExecInv ==
  /\ ExecTypes
  /\ \A i \in Exec!Ids : proc[i] = "none" => owner[i] = 0
  /\ \A i \in Exec!Ids : owner[i] = 0 => proc[i] = "none"
  /\ \A i \in Exec!Ids : stopper[i] = "waiting" => proc[i] \in {"killed", "exited"}
  /\ toolCall.pc \in {"insert", "yield", "terminate", "output", "reap"} =>
       toolCall.id \in Exec!Ids /\ owner[toolCall.id] # 0
  /\ toolCall.pc \in {"terminate", "reap"} => proc[toolCall.id] \in {"killed", "exited"}
  /\ \A i \in sessions : owner[i] # 0
  /\ Exec!NoStrayProcess
  /\ Exec!RunningIsGuarded

\* The next free number exists while there is room.
LEMMA FreshIsFree ==
  ASSUME MaxProcs \in Nat, ExecInv, Exec!Room
  PROVE  Exec!Fresh \in Exec!Ids /\ proc[Exec!Fresh] = "none" /\ owner[Exec!Fresh] = 0
<1>1. PICK S : S = {i \in Exec!Ids : owner[i] = 0}
  OBVIOUS
<1>2. S \subseteq Nat /\ S # {}
  BY <1>1 DEF Exec!Ids, Exec!Room, Exec!Nobody
<1>3. PICK m \in S : \A j \in S : ~(<<j, m>> \in OpToRel(<, Nat))
  BY <1>2, NatLessThanWellFounded, WFMin, Zenon
<1>4. \A j \in S : ~(j < m)
  BY <1>2, <1>3 DEF OpToRel
<1>5. m \in Exec!Ids /\ proc[m] = "none" /\ owner[m] = Exec!Nobody
  BY <1>1 DEF ExecInv, Exec!Nobody
<1>6. \A j \in 1..(m - 1) : owner[j] # Exec!Nobody
  BY <1>1, <1>4, <1>5 DEF Exec!Ids, Exec!Nobody
<1>7. \E i \in Exec!Ids : /\ proc[i] = "none" /\ owner[i] = Exec!Nobody
                          /\ \A j \in 1..(i - 1) : owner[j] # Exec!Nobody
  BY <1>5, <1>6
<1> QED
  BY <1>7 DEF Exec!Fresh, Exec!Nobody

\* A kill ends what runs and touches nothing else.
LEMMA KilledProcesses ==
  ASSUME ExecInv, NEW S, NEW q, q = Exec!Killed(S)
  PROVE  /\ q \in [Exec!Ids -> {"none", "running", "killed", "exited"}]
         /\ \A i \in Exec!Ids :
              /\ q[i] = "none" <=> proc[i] = "none"
              /\ q[i] = "running" => proc[i] = "running" /\ i \notin S
              /\ proc[i] \in {"killed", "exited"} => q[i] \in {"killed", "exited"}
              /\ i \in S /\ proc[i] # "none" => q[i] \in {"killed", "exited"}
BY DEF ExecInv, ExecTypes, Exec!Killed

LEMMA ExecStep ==
  ASSUME MaxProcs \in Nat, ExecInv, Exec!Next
  PROVE  ExecInv'
<1> USE DEF ExecInv, ExecTypes, Exec!NoStrayProcess, Exec!RunningIsGuarded, Exec!HeldByCall,
            Exec!Nobody, Exec!procs, Exec!tables, Exec!life, Exec!gate
<1>1. ASSUME NEW c \in Cmds, NEW kind \in {"exec", "shell"}, Exec!Ask(c, kind) PROVE ExecInv'
  <2>1. toolCall' \in ToolCalls /\ toolCall'.pc \in {"ask", "allowed"}
    <3>1. PICK pc \in {"ask", "allowed"} :
            toolCall' = [pc |-> pc, cmd |-> c, id |-> 0, kind |-> kind]
      BY <1>1 DEF Exec!Ask, Exec!NoCall
    <3> QED
      BY <3>1 DEF ToolCalls
  <2>2. toolCall.pc = "idle" /\ UNCHANGED <<turnNo, proc, owner, guard, sessions, stopper, purge>>
    BY <1>1 DEF Exec!Ask
  <2> QED
    BY <2>1, <2>2
<1>2. ASSUME NEW d \in {"approved", "for_session", "amendment", "denied"}, Exec!Answer(d) PROVE ExecInv'
  BY <1>2 DEF ToolCalls, Exec!NoCall, Exec!Answer
<1>3. CASE Exec!LaunchFails
  BY <1>3 DEF ToolCalls, Exec!NoCall, Exec!LaunchFails
<1>4. CASE Exec!ShellDone
  BY <1>4 DEF ToolCalls, Exec!NoCall, Exec!ShellDone
<1>5. CASE Exec!ShellKill
  <2>1. toolCall' \in ToolCalls /\ toolCall'.pc = "reap" /\ toolCall'.id = toolCall.id /\ toolCall.pc = "output"
    BY <1>5 DEF ToolCalls, Exec!NoCall, Exec!ShellKill
  <2> QED
    BY <1>5, <2>1, KilledProcesses DEF Exec!ShellKill
<1>6. CASE Exec!ShellReaped
  BY <1>6 DEF ToolCalls, Exec!NoCall, Exec!ShellReaped
<1>7. CASE Exec!Insert
  <2>1. toolCall' \in ToolCalls /\ toolCall'.pc = "yield" /\ toolCall'.id = toolCall.id /\ toolCall.pc = "insert"
    BY <1>7 DEF ToolCalls, Exec!NoCall, Exec!Insert
  <2> QED
    BY <1>7, <2>1 DEF Exec!Insert
<1>8. CASE Exec!YieldCancelled
  <2>1. CASE toolCall.id \in sessions
    <3>1. toolCall' \in ToolCalls /\ toolCall'.pc = "terminate" /\ toolCall'.id = toolCall.id
          /\ toolCall.pc = "yield"
      BY <1>8, <2>1 DEF ToolCalls, Exec!YieldCancelled
    <3> QED
      BY <1>8, <2>1, <3>1, KilledProcesses DEF Exec!YieldCancelled
  <2>2. CASE toolCall.id \notin sessions
    BY <1>8, <2>2 DEF ToolCalls, Exec!NoCall, Exec!YieldCancelled
  <2> QED
    BY <2>1, <2>2
<1>9. CASE Exec!Terminated
  BY <1>9 DEF ToolCalls, Exec!NoCall, Exec!Terminated
<1>10. CASE Exec!Poll
  BY <1>10 DEF ToolCalls, Exec!NoCall, Exec!Poll
<1>11. CASE Exec!StopAll
  BY <1>11 DEF ToolCalls, Exec!NoCall, Exec!StopAll
<1>12. CASE Exec!Dropped
  BY <1>12 DEF ToolCalls, Exec!NoCall, Exec!Dropped, Exec!Killed
<1>13. CASE Exec!Finish
  BY <1>13 DEF ToolCalls, Exec!NoCall, Exec!Finish, Exec!CancelAll
<1>14. CASE Exec!CancelTurn
  BY <1>14 DEF ToolCalls, Exec!NoCall, Exec!CancelTurn, Exec!CancelAll
<1>15. CASE Exec!NextTurn
  BY <1>15 DEF ToolCalls, Exec!NoCall, Exec!NextTurn, Exec!Held
<1>16. ASSUME NEW i \in Exec!Ids, Exec!Exit(i) PROVE ExecInv'
  BY <1>16 DEF ToolCalls, Exec!NoCall, Exec!Exit
<1>17. ASSUME NEW i \in Exec!Ids, Exec!WriteStdin(i) PROVE ExecInv'
  <2>1. toolCall' \in ToolCalls /\ toolCall'.pc = "yield" /\ toolCall'.id = i /\ toolCall.pc = "idle"
    BY <1>17 DEF ToolCalls, Exec!NoCall, Exec!WriteStdin
  <2> QED
    BY <1>17, <2>1 DEF Exec!WriteStdin, Exec!Killed
<1>18. ASSUME NEW i \in Exec!Ids, Exec!StopAllNext(i) PROVE ExecInv'
  BY <1>18, KilledProcesses DEF Exec!StopAllNext
<1>19. ASSUME NEW i \in Exec!Ids, Exec!Stop(i) PROVE ExecInv'
  BY <1>19, KilledProcesses DEF Exec!Stop
<1>20. ASSUME NEW i \in Exec!Ids, Exec!Stopped(i) PROVE ExecInv'
  BY <1>20 DEF ToolCalls, Exec!NoCall, Exec!Stopped
<1>21. CASE Exec!Launch
  <2>1. PICK f : f = Exec!Fresh
    OBVIOUS
  <2>2. f \in Exec!Ids /\ proc[f] = "none" /\ owner[f] = 0
    BY <1>21, <2>1, FreshIsFree DEF Exec!Launch
  <2> QED
    BY <1>21, <2>1, <2>2 DEF ToolCalls, Exec!NoCall, Exec!Launch
<1> QED
  BY <1>1, <1>2, <1>3, <1>4, <1>5, <1>6, <1>7, <1>8, <1>9, <1>10, <1>11, <1>12, <1>13, <1>14, <1>15, <1>16, <1>17, <1>18, <1>19, <1>20, <1>21 DEF Exec!Next, Exec!Progress

\* Whatever is started is accounted for: a process that runs and was not killed
\* is in the manager's table, with the call that started it, or about to be
\* terminated, and its turn's guard covers it (unified_exec.rs, shell_exec.rs,
\* turn.rs), for any number of processes, turns and commands.
THEOREM NoProcessIsLost == PackSpec => []ProcessesAccounted
<1>1. PackInit => ExecInv
  BY ExecAssumption DEF PackInit, Exec!Init, ExecInv, ExecTypes, ToolCalls, Exec!NoCall, Exec!Nobody,
     Exec!NoStrayProcess, Exec!RunningIsGuarded
<1>2. ExecInv /\ [PackNext]_<<part, vars, execVars>> => ExecInv'
  <2>1. ASSUME ExecInv, UNCHANGED execVars PROVE ExecInv'
    BY <2>1 DEF execVars, ExecInv, ExecTypes, Exec!NoStrayProcess, Exec!RunningIsGuarded, Exec!HeldByCall
  <2> QED
    BY <2>1, ExecStep, ExecAssumption DEF PackNext
<1>3. ExecInv => ProcessesAccounted
  BY DEF ExecInv, ProcessesAccounted
<1> QED
  BY <1>1, <1>2, <1>3, PTL DEF PackSpec

=============================================================================
