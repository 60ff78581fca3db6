------------------------- MODULE HeadBackendProofs -------------------------
(***************************************************************************)
(* Proofs about HeadBackend, for any number of workers, keys, callers,     *)
(* lost requests and head restarts.                                        *)
(***************************************************************************)
EXTENDS HeadBackend, TLAPS

-----------------------------------------------------------------------------
(* Heartbeats *)

\* The initial state: no worker has registered, so no heartbeat counts yet.
LEMMA HeartbeatInit == Init => HeartbeatInv
  BY HeadAssumption DEF Init, HeartbeatInv, Nodes, Absent

\* A step of a worker's tasks keeps the ages apart: only a registration, a
\* heartbeat and the end of a loop touch them.
LEMMA HeartbeatWorker ==
    ASSUME HeartbeatInv, NEW w \in Workers,
           \/ JoinTask(w) \/ SyncTask(w) \/ HeartbeatTask(w)
           \/ Shutdown(w) \/ Exit(w)
    PROVE  HeartbeatInv'
<1> USE HeadAssumption DEF Nodes, Absent
<1>1. CASE JoinRegister(w)
  BY <1>1 DEF HeartbeatInv, JoinRegister, HandleRegisterNode
<1>2. CASE JoinSync(w)
  BY <1>2 DEF HeartbeatInv, JoinSync, head
<1>3. CASE JoinFail(w)
  BY <1>3 DEF HeartbeatInv, JoinFail, head
<1>4. CASE SyncRequest(w)
  BY <1>4 DEF HeartbeatInv, SyncRequest, head, process
<1>5. CASE SyncApply(w)
  BY <1>5 DEF HeartbeatInv, SyncApply, head, process
<1>6. CASE SyncFail(w)
  BY <1>6 DEF HeartbeatInv, SyncFail, head
<1>7. ASSUME NEW l, LoopExit(w, l) PROVE HeartbeatInv'
  BY <1>7 DEF HeartbeatInv, LoopExit, head
<1>8. ASSUME NEW t, FlushStep(w, t) PROVE HeartbeatInv'
  BY <1>8 DEF HeartbeatInv, FlushStep, Take, Deliver, Reply, Lose, head, process
<1>9. CASE Heartbeat(w)
  BY <1>9 DEF HeartbeatInv, Heartbeat
<1>10. CASE HeartbeatUnknown(w)
  BY <1>10 DEF HeartbeatInv, HeartbeatUnknown, head
<1>11. CASE HeartbeatFail(w)
  BY <1>11 DEF HeartbeatInv, HeartbeatFail, head
<1>12. CASE Shutdown(w)
  BY <1>12 DEF HeartbeatInv, Shutdown, head
<1>13. CASE Exit(w)
  BY <1>13 DEF HeartbeatInv, Exit, head
<1> QED
  BY <1>1, <1>2, <1>3, <1>4, <1>5, <1>6, <1>7, <1>8, <1>9, <1>10, <1>11, <1>12, <1>13
     DEF JoinTask, SyncTask, HeartbeatTask

\* Every step does.  The clock ages both sides alike, and a record no older than a
\* heartbeat interval is not stale.
LEMMA HeartbeatStep == HeartbeatInv /\ [Next]_vars => HeartbeatInv'
<1> SUFFICES ASSUME HeartbeatInv, [Next]_vars PROVE HeartbeatInv'
  OBVIOUS
<1> USE HeadAssumption DEF Nodes, Absent
<1>1. ASSUME NEW w \in Workers,
             \/ JoinTask(w) \/ SyncTask(w) \/ HeartbeatTask(w) \/ Shutdown(w) \/ Exit(w)
      PROVE  HeartbeatInv'
  BY <1>1, HeartbeatWorker
<1>2. ASSUME NEW w \in Workers, NEW c, FlushStep(w, c) PROVE HeartbeatInv'
  BY <1>2 DEF HeartbeatInv, FlushStep, Take, Deliver, Reply, Lose, head, process
<1>3. ASSUME NEW w \in Workers, NEW c, NEW do, NEW k, Call(w, c, do, k)
      PROVE  HeartbeatInv'
  BY <1>3 DEF HeartbeatInv, Call, head, process
<1>4. ASSUME NEW do, NEW k, HeadCall(do, k) PROVE HeartbeatInv'
  BY <1>4 DEF HeartbeatInv, HeadCall, process
<1>5. CASE Tick
  BY <1>5 DEF HeartbeatInv, Tick, HeartbeatDue
<1>6. CASE RemoveStale
  BY <1>6 DEF HeartbeatInv, RemoveStale, Stale, process
<1>7. CASE HeadDown
  BY <1>7 DEF HeartbeatInv, HeadDown, process
<1>8. CASE HeadUp
  BY <1>8 DEF HeartbeatInv, HeadUp, process
<1>9. CASE UNCHANGED vars
  BY <1>9 DEF HeartbeatInv, vars, head, process
<1> QED
  BY <1>1, <1>2, <1>3, <1>4, <1>5, <1>6, <1>7, <1>8, <1>9 DEF Next

\* As long as a worker's heartbeats get through, no removal of stale nodes takes it
\* from the head it registered with (HeadNodeState::remove_stale_nodes), for every
\* heartbeat_interval <= heartbeat_timeout.
THEOREM LiveWorkersStay == Spec => []LiveWorkerStays
<1>1. HeartbeatInv => LiveWorkerStays
  BY DEF HeartbeatInv, LiveWorkerStays, Members, Nodes, Absent
<1> QED
  BY <1>1, HeartbeatInit, HeartbeatStep, PTL DEF Spec

-----------------------------------------------------------------------------
(* Operations *)

\* The operations of an extended queue, and of a batch without its first one.
LEMMA NumbersAppend ==
    ASSUME NEW s \in Seq(Operations), NEW o \in Operations
    PROVE  Numbers(Append(s, o)) = Numbers(s) \cup {o.number}
<1>1. /\ Len(Append(s, o)) = Len(s) + 1 /\ Len(s) \in Nat
      /\ Append(s, o)[Len(s) + 1] = o
      /\ \A i \in 1..Len(s) : Append(s, o)[i] = s[i]
  OBVIOUS
<1>2. 1..(Len(s) + 1) = (1..Len(s)) \cup {Len(s) + 1}
  BY <1>1
<1> QED
  BY <1>1, <1>2 DEF Numbers

LEMMA NumbersTail ==
    ASSUME NEW s \in Seq(Operations), s # <<>>
    PROVE  Numbers(s) = {Head(s).number} \cup Numbers(Tail(s))
<1>1. /\ Len(s) \in Nat \ {0} /\ Len(Tail(s)) = Len(s) - 1 /\ Head(s) = s[1]
      /\ \A i \in 1..Len(Tail(s)) : Tail(s)[i] = s[i + 1]
  OBVIOUS
<1>2. ASSUME NEW n \in Numbers(s) PROVE n \in {Head(s).number} \cup Numbers(Tail(s))
  <2>1. PICK i \in 1..Len(s) : n = s[i].number
    BY <1>2 DEF Numbers
  <2>2. CASE i = 1
    BY <2>1, <2>2, <1>1
  <2>3. CASE i # 1
    <3>1. i - 1 \in 1..Len(Tail(s)) /\ Tail(s)[i - 1] = s[i]
      BY <2>3, <1>1
    <3> QED
      BY <2>1, <3>1 DEF Numbers
  <2> QED
    BY <2>2, <2>3
<1>3. Numbers(Tail(s)) \subseteq Numbers(s)
  <2> SUFFICES ASSUME NEW i \in 1..Len(Tail(s)) PROVE Tail(s)[i].number \in Numbers(s)
    BY DEF Numbers
  <2>1. i + 1 \in 1..Len(s) /\ Tail(s)[i] = s[i + 1]
    BY <1>1
  <2> QED
    BY <2>1 DEF Numbers
<1>4. Head(s).number \in Numbers(s)
  BY <1>1 DEF Numbers
<1> QED
  BY <1>2, <1>3, <1>4

\* Nothing is queued in the initial state.
LEMMA FlushInit == Init => FlushInv
  BY HeadAssumption DEF Init, FlushInv, NoOpLost, Idle, Nodes

\* What a task sends next keeps its shape.
LEMMA SendingShape ==
    ASSUME NEW s \in Seq(Operations)
    PROVE  /\ Sending(s) \in [at : {"idle", "send"}, batch : Seq(Operations)]
           /\ Sending(s).batch = s
           /\ (Sending(s).batch = <<>>) <=> (Sending(s).at = "idle")
  BY DEF Sending, Idle

\* An update of a task's state, as an update of its whole record.
LEMMA FlushAt ==
    ASSUME FlushInv, NEW w \in Workers, NEW t \in Tasks,
           NEW a \in {"idle", "take", "send", "sent"}
    PROVE  LET g == [at |-> a, batch |-> flush[w][t].batch]
           IN  /\ [flush EXCEPT ![w][t].at = a] = [flush EXCEPT ![w][t] = g]
               /\ g \in [at : {"idle", "take", "send", "sent"}, batch : Seq(Operations)]
<1> DEFINE R == [at : {"idle", "take", "send", "sent"}, batch : Seq(Operations)]
           g == [at |-> a, batch |-> flush[w][t].batch]
<1>1. flush \in [Workers -> [Tasks -> R]] /\ flush[w] \in [Tasks -> R] /\ flush[w][t] \in R
  BY DEF FlushInv
<1>2. [flush[w][t] EXCEPT !.at = a] = g /\ g \in R
  BY <1>1
<1> QED
  BY <1>1, <1>2

\* The queues, point by point, after one record was replaced.
LEMMA FlushPoints ==
    ASSUME FlushInv, NEW w \in Workers, NEW t \in Tasks,
           NEW g \in [at : {"idle", "take", "send", "sent"}, batch : Seq(Operations)],
           flush' = [flush EXCEPT ![w][t] = g]
    PROVE  /\ \A v \in Workers, u \in Tasks :
                 flush'[v][u] = IF v = w /\ u = t THEN g ELSE flush[v][u]
           /\ flush' \in [Workers -> [Tasks -> [at : {"idle", "take", "send", "sent"},
                                               batch : Seq(Operations)]]]
  BY DEF FlushInv

\* A step that changes neither the queues nor the history keeps the invariant.
LEMMA FlushFrame ==
    ASSUME FlushInv, UNCHANGED <<alive, pending, flush, calls, applied>>,
           \/ UNCHANGED response
           \/ \E w \in Workers : response' = [response EXCEPT ![w] = <<>>]
    PROVE  FlushInv'
  BY DEF FlushInv, NoOpLost

\* A step of one task: what it had and what was queued is queued, still in its
\* batch, or handled.
LEMMA FlushOne ==
    ASSUME FlushInv, NEW w \in Workers, NEW t \in Tasks,
           NEW g \in [at : {"idle", "take", "send", "sent"}, batch : Seq(Operations)],
           NEW p \in Seq(Operations),
           flush' = [flush EXCEPT ![w][t] = g],
           pending' = [pending EXCEPT ![w] = p],
           UNCHANGED <<alive, calls, response>>,
           applied \subseteq applied',
           flush[w][t].at # "idle",
           (g.batch = <<>>) <=> (g.at \in {"idle", "take"}),
           g.at = "sent" => <<w, Head(g.batch).number>> \in applied',
           \A n \in Numbers(pending[w]) \cup Numbers(flush[w][t].batch) :
              n \in Numbers(p) \/ n \in Numbers(g.batch) \/ <<w, n>> \in applied'
    PROVE  FlushInv'
<1>1. \A v \in Workers, u \in Tasks :
         flush'[v][u] = IF v = w /\ u = t THEN g ELSE flush[v][u]
  BY DEF FlushInv
<1>2. \A v \in Workers : pending'[v] = IF v = w THEN p ELSE pending[v]
  BY DEF FlushInv
<1>3. /\ alive' \in [Workers -> BOOLEAN]
      /\ pending' \in [Workers -> Seq(Operations)]
      /\ flush' \in [Workers -> [Tasks -> [at : {"idle", "take", "send", "sent"},
                                          batch : Seq(Operations)]]]
      /\ calls' \in [Nodes -> Nat]
      /\ response' = [v \in Workers |-> response'[v]]
  BY DEF FlushInv
<1>4. ASSUME NEW v \in Workers PROVE response'[v] # <<>> => flush'[v]["sync"].at = "idle"
  BY <1>1 DEF FlushInv, Tasks
<1>5. ASSUME NEW v \in Workers, NEW u \in Tasks
      PROVE  /\ (flush'[v][u].batch = <<>>) <=> (flush'[v][u].at \in {"idle", "take"})
             /\ flush'[v][u].at = "sent" => <<v, Head(flush'[v][u].batch).number>> \in applied'
  <2>1. CASE v = w /\ u = t
    BY <1>1, <2>1
  <2>2. CASE ~(v = w /\ u = t)
    <3>1. flush'[v][u] = flush[v][u]
      BY <1>1, <2>2
    <3> QED
      BY <3>1 DEF FlushInv
  <2> QED
    BY <2>1, <2>2
<1>6. ASSUME NEW v \in Workers, alive'[v], NEW i \in 1..calls'[v]
      PROVE  \/ <<v, i>> \in applied'
             \/ i \in Numbers(pending'[v])
             \/ \E u \in Tasks : i \in Numbers(flush'[v][u].batch)
  <2>1. \/ <<v, i>> \in applied
        \/ i \in Numbers(pending[v])
        \/ \E u \in Tasks : i \in Numbers(flush[v][u].batch)
    BY <1>6 DEF FlushInv, NoOpLost
  <2>2. CASE <<v, i>> \in applied
    BY <2>2
  <2>3. CASE i \in Numbers(pending[v])
    <3>1. CASE v = w
      <4>1. i \in Numbers(p) \/ i \in Numbers(g.batch) \/ <<w, i>> \in applied'
        BY <2>3, <3>1
      <4>2. pending'[w] = p /\ flush'[w][t] = g
        BY <1>1, <1>2
      <4> QED
        BY <4>1, <4>2, <3>1
    <3>2. CASE v # w
      BY <2>3, <3>2, <1>2
    <3> QED
      BY <3>1, <3>2
  <2>4. ASSUME NEW u \in Tasks, i \in Numbers(flush[v][u].batch)
        PROVE  \/ <<v, i>> \in applied'
               \/ i \in Numbers(pending'[v])
               \/ \E y \in Tasks : i \in Numbers(flush'[v][y].batch)
    <3>1. CASE v = w /\ u = t
      <4>1. i \in Numbers(p) \/ i \in Numbers(g.batch) \/ <<w, i>> \in applied'
        BY <2>4, <3>1
      <4>2. pending'[w] = p /\ flush'[w][t] = g
        BY <1>1, <1>2
      <4> QED
        BY <4>1, <4>2, <3>1
    <3>2. CASE ~(v = w /\ u = t)
      <4>1. flush'[v][u] = flush[v][u]
        BY <1>1, <3>2
      <4> QED
        BY <2>4, <4>1
    <3> QED
      BY <3>1, <3>2
  <2> QED
    BY <2>1, <2>2, <2>3, <2>4
<1> QED
  BY <1>3, <1>4, <1>5, <1>6 DEF FlushInv, NoOpLost

\* A batch is taken, sent, handled and answered, or queued again.
LEMMA FlushWorker ==
    ASSUME FlushInv, NEW w \in Workers, NEW t \in Tasks, FlushStep(w, t)
    PROVE  FlushInv'
<1> DEFINE f == flush[w][t]
<1>0. /\ f \in [at : {"idle", "take", "send", "sent"}, batch : Seq(Operations)]
      /\ pending[w] \in Seq(Operations)
      /\ pending = [pending EXCEPT ![w] = pending[w]]
      /\ (f.batch = <<>>) <=> (f.at \in {"idle", "take"})
      /\ f.at = "sent" => <<w, Head(f.batch).number>> \in applied
  BY DEF FlushInv
<1>1. CASE Take(w, t)
  <2>1. /\ f.at = "take" /\ f.batch = <<>>
        /\ flush' = [flush EXCEPT ![w][t] = Sending(pending[w])]
        /\ pending' = [pending EXCEPT ![w] = <<>>]
        /\ UNCHANGED <<alive, calls, applied, response>>
    BY <1>0, <1>1 DEF Take, process, syncing
  <2>2. /\ Sending(pending[w]).batch = pending[w]
        /\ Sending(pending[w]) \in [at : {"idle", "send"}, batch : Seq(Operations)]
        /\ (Sending(pending[w]).batch = <<>>) <=> (Sending(pending[w]).at = "idle")
    BY <1>0, SendingShape
  <2>3. Numbers(f.batch) = {} /\ <<>> \in Seq(Operations)
    BY <2>1 DEF Numbers
  <2> HIDE DEF f
  <2> QED
    BY <1>0, <2>1, <2>2, <2>3, FlushOne DEF f
<1>2. CASE Deliver(w, t)
  <2> DEFINE g == [at |-> "sent", batch |-> f.batch]
  <2>1. /\ f.at = "send" /\ f.batch # <<>>
        /\ applied' = applied \cup {<<w, Head(f.batch).number>>}
        /\ UNCHANGED <<alive, calls, pending, response>>
    BY <1>0, <1>2 DEF Deliver, process, syncing
  <2>2. flush' = [flush EXCEPT ![w][t] = g]
    BY <1>2, FlushAt DEF Deliver
  <2>3. /\ g \in [at : {"idle", "take", "send", "sent"}, batch : Seq(Operations)]
        /\ g.batch = f.batch /\ g.at = "sent"
    BY <1>0
  <2> HIDE DEF g
  <2> QED
    BY <1>0, <2>1, <2>2, <2>3, FlushOne
<1>3. CASE Reply(w, t)
  <2> DEFINE g == Sending(Tail(f.batch))
  <2>1. /\ f.at = "sent" /\ f.batch # <<>> /\ Tail(f.batch) \in Seq(Operations)
        /\ flush' = [flush EXCEPT ![w][t] = g]
        /\ UNCHANGED <<alive, calls, pending, applied, response>>
    BY <1>0, <1>3 DEF Reply, process, syncing
  <2>2. /\ g.batch = Tail(f.batch)
        /\ g \in [at : {"idle", "send"}, batch : Seq(Operations)]
        /\ (g.batch = <<>>) <=> (g.at = "idle")
    BY <2>1, SendingShape
  <2>3. Numbers(f.batch) = {Head(f.batch).number} \cup Numbers(Tail(f.batch))
    BY <1>0, <2>1, NumbersTail
  <2> HIDE DEF g
  <2> QED
    BY <1>0, <2>1, <2>2, <2>3, FlushOne
<1>4. CASE Lose(w, t)
  <2> DEFINE g == Sending(Tail(f.batch))
             p == Append(pending[w], Head(f.batch))
  <2>1. /\ f.at \in {"send", "sent"} /\ f.batch # <<>> /\ Tail(f.batch) \in Seq(Operations)
        /\ Head(f.batch) \in Operations
        /\ flush' = [flush EXCEPT ![w][t] = g]
        /\ pending' = [pending EXCEPT ![w] = p]
        /\ UNCHANGED <<alive, calls, applied, response>>
    BY <1>0, <1>4 DEF Lose, process, syncing
  <2>2. /\ g.batch = Tail(f.batch)
        /\ g \in [at : {"idle", "send"}, batch : Seq(Operations)]
        /\ (g.batch = <<>>) <=> (g.at = "idle")
    BY <2>1, SendingShape
  <2>3. Numbers(f.batch) = {Head(f.batch).number} \cup Numbers(Tail(f.batch))
    BY <1>0, <2>1, NumbersTail
  <2>4. /\ Numbers(p) = Numbers(pending[w]) \cup {Head(f.batch).number}
        /\ p \in Seq(Operations)
    BY <1>0, <2>1, NumbersAppend
  <2> HIDE DEF g, p
  <2> QED
    BY <1>0, <2>1, <2>2, <2>3, <2>4, FlushOne
<1> QED
  BY <1>1, <1>2, <1>3, <1>4 DEF FlushStep

\* A call queues an operation under a new number.
LEMMA FlushCall ==
    ASSUME FlushInv, NEW w \in Workers, NEW c \in Callers, NEW k \in Keys,
           NEW do \in {"register", "unregister"}, Call(w, c, do, k)
    PROVE  FlushInv'
<1> DEFINE op == [do |-> do, key |-> k, number |-> calls[w] + 1]
           p  == Append(pending[w], op)
<1>1. /\ c \in Tasks /\ c # "sync" /\ w \in Nodes
  BY HeadAssumption DEF Tasks, Nodes
<1>2. /\ flush[w][c].at = "idle" /\ flush[w][c].batch = <<>>
      /\ calls[w] \in Nat /\ pending[w] \in Seq(Operations)
  BY <1>1 DEF FlushInv, Call
<1>3. op \in Operations /\ op.number = calls[w] + 1
  BY <1>2 DEF Operations
<1>4. /\ pending' = [pending EXCEPT ![w] = p]
      /\ calls' = [calls EXCEPT ![w] = @ + 1]
      /\ flush' = [flush EXCEPT ![w][c].at = "take"]
      /\ UNCHANGED <<alive, applied, response>>
  BY DEF Call, process
<1>5. /\ Numbers(p) = Numbers(pending[w]) \cup {calls[w] + 1}
      /\ p \in Seq(Operations)
  BY <1>2, <1>3, NumbersAppend
<1> HIDE DEF op, p
<1>6. /\ \A v \in Workers, u \in Tasks :
            /\ flush'[v][u].batch = flush[v][u].batch
            /\ flush'[v][u].at = IF v = w /\ u = c THEN "take" ELSE flush[v][u].at
      /\ flush' \in [Workers -> [Tasks -> [at : {"idle", "take", "send", "sent"},
                                          batch : Seq(Operations)]]]
  <2> DEFINE g == [at |-> "take", batch |-> flush[w][c].batch]
  <2>1. /\ flush' = [flush EXCEPT ![w][c] = g]
        /\ g \in [at : {"idle", "take", "send", "sent"}, batch : Seq(Operations)]
    BY <1>1, <1>4, FlushAt
  <2>2. g.at = "take" /\ g.batch = flush[w][c].batch
    OBVIOUS
  <2> HIDE DEF g
  <2> QED
    BY <1>1, <2>1, <2>2, FlushPoints
<1>7. /\ pending' \in [Workers -> Seq(Operations)]
      /\ \A v \in Workers : pending'[v] = IF v = w THEN p ELSE pending[v]
  BY <1>4, <1>5 DEF FlushInv
<1>8. /\ calls' \in [Nodes -> Nat]
      /\ \A v \in Workers : calls'[v] = IF v = w THEN calls[v] + 1 ELSE calls[v]
  BY <1>1, <1>2, <1>4 DEF FlushInv, Nodes
<1>9. NoOpLost'
  <2> SUFFICES ASSUME NEW v \in Workers, alive[v], NEW i \in 1..calls'[v]
               PROVE  \/ <<v, i>> \in applied
                      \/ i \in Numbers(pending'[v])
                      \/ \E u \in Tasks : i \in Numbers(flush[v][u].batch)
    BY <1>4, <1>6 DEF NoOpLost
  <2>1. CASE v = w /\ i = calls[w] + 1
    BY <2>1, <1>5, <1>7
  <2>2. CASE ~(v = w /\ i = calls[w] + 1)
    <3>1. i \in 1..calls[v]
      BY <2>2, <1>2, <1>8
    <3>2. Numbers(pending[v]) \subseteq Numbers(pending'[v])
      BY <1>5, <1>7
    <3> QED
      BY <3>1, <3>2 DEF FlushInv, NoOpLost
  <2> QED
    BY <2>1, <2>2
<1>10. ASSUME NEW v \in Workers, NEW u \in Tasks
       PROVE  /\ (flush'[v][u].batch = <<>>) <=> (flush'[v][u].at \in {"idle", "take"})
              /\ flush'[v][u].at = "sent" => <<v, Head(flush'[v][u].batch).number>> \in applied'
  BY <1>1, <1>2, <1>4, <1>6 DEF FlushInv
<1>11. ASSUME NEW v \in Workers PROVE response'[v] # <<>> => flush'[v]["sync"].at = "idle"
  BY <1>1, <1>4, <1>6 DEF FlushInv, Tasks
<1> QED
  BY <1>4, <1>6, <1>7, <1>8, <1>9, <1>10, <1>11 DEF FlushInv

\* A process that ends takes its queues with it.
LEMMA FlushExit ==
    ASSUME FlushInv, NEW w \in Workers, Exit(w)
    PROVE  FlushInv'
<1>1. /\ \A v \in Workers : pending'[v] = IF v = w THEN <<>> ELSE pending[v]
      /\ pending' \in [Workers -> Seq(Operations)]
      /\ UNCHANGED <<calls, applied>>
  BY DEF Exit, FlushInv
<1>2. /\ \A v \in Workers : response'[v] = IF v = w THEN <<>> ELSE response[v]
      /\ response' = [v \in Workers |-> response'[v]]
  <2>1. response' = [response EXCEPT ![w] = <<>>]
    BY DEF Exit
  <2>2. response = [v \in Workers |-> response[v]]
    BY DEF FlushInv
  <2> QED
    BY <2>1, <2>2
<1>3. \A v \in Workers : flush'[v] = IF v = w THEN [t \in Tasks |-> Idle] ELSE flush[v]
  BY DEF Exit, FlushInv
<1>4. /\ \A v \in Workers : alive'[v] => v # w /\ alive[v]
      /\ alive' \in [Workers -> BOOLEAN]
  <2>1. alive' = [alive EXCEPT ![w] = FALSE] /\ alive \in [Workers -> BOOLEAN]
    BY DEF Exit, FlushInv
  <2> QED
    BY <2>1
<1>5. Idle \in [at : {"idle", "take", "send", "sent"}, batch : Seq(Operations)]
  BY DEF Idle
<1>6. flush' \in [Workers -> [Tasks -> [at : {"idle", "take", "send", "sent"},
                                       batch : Seq(Operations)]]]
  BY <1>5 DEF Exit, FlushInv
<1>7. NoOpLost'
  BY <1>1, <1>3, <1>4 DEF FlushInv, NoOpLost
<1>8. ASSUME NEW v \in Workers, NEW t \in Tasks
      PROVE  /\ (flush'[v][t].batch = <<>>) <=> (flush'[v][t].at \in {"idle", "take"})
             /\ flush'[v][t].at = "sent" => <<v, Head(flush'[v][t].batch).number>> \in applied'
  <2>1. CASE v = w
    <3>1. flush'[v][t] = Idle
      BY <1>3, <2>1
    <3> QED
      BY <3>1 DEF Idle
  <2>2. CASE v # w
    BY <1>1, <1>3, <2>2 DEF FlushInv
  <2> QED
    BY <2>1, <2>2
<1>9. ASSUME NEW v \in Workers PROVE response'[v] # <<>> => flush'[v]["sync"].at = "idle"
  BY <1>2, <1>3 DEF FlushInv
<1> QED
  BY <1>1, <1>2, <1>4, <1>6, <1>7, <1>8, <1>9 DEF FlushInv

\* The sync loop turns to the pending operations.
LEMMA FlushSync ==
    ASSUME FlushInv, NEW w \in Workers, SyncApply(w)
    PROVE  FlushInv'
<1>1. "sync" \in Tasks
  BY DEF Tasks
<1>2. flush[w]["sync"].at = "idle" /\ flush[w]["sync"].batch = <<>>
  BY <1>1 DEF FlushInv, SyncApply
<1>3. /\ \A v \in Workers, u \in Tasks :
            /\ flush'[v][u].batch = flush[v][u].batch
            /\ flush'[v][u].at = IF v = w /\ u = "sync" THEN "take" ELSE flush[v][u].at
      /\ flush' \in [Workers -> [Tasks -> [at : {"idle", "take", "send", "sent"},
                                          batch : Seq(Operations)]]]
  <2> DEFINE g == [at |-> "take", batch |-> flush[w]["sync"].batch]
  <2>1. /\ flush' = [flush EXCEPT ![w]["sync"] = g]
        /\ g \in [at : {"idle", "take", "send", "sent"}, batch : Seq(Operations)]
    BY <1>1, FlushAt DEF SyncApply
  <2>2. g.at = "take" /\ g.batch = flush[w]["sync"].batch
    OBVIOUS
  <2> HIDE DEF g
  <2> QED
    BY <1>1, <2>1, <2>2, FlushPoints
<1>4. /\ response' = [v \in Workers |-> response'[v]]
      /\ \A v \in Workers : response'[v] = IF v = w THEN <<>> ELSE response[v]
      /\ UNCHANGED <<alive, pending, calls, applied>>
  BY DEF FlushInv, SyncApply, process
<1>5. NoOpLost'
  BY <1>3, <1>4 DEF FlushInv, NoOpLost
<1>6. ASSUME NEW v \in Workers, NEW u \in Tasks
      PROVE  /\ (flush'[v][u].batch = <<>>) <=> (flush'[v][u].at \in {"idle", "take"})
             /\ flush'[v][u].at = "sent" => <<v, Head(flush'[v][u].batch).number>> \in applied'
  <2>1. CASE v = w /\ u = "sync"
    BY <1>2, <1>3, <2>1
  <2>2. CASE ~(v = w /\ u = "sync")
    <3>1. flush'[v][u].batch = flush[v][u].batch /\ flush'[v][u].at = flush[v][u].at
      BY <1>3, <2>2
    <3> QED
      BY <3>1, <1>4 DEF FlushInv
  <2> QED
    BY <2>1, <2>2
<1>7. ASSUME NEW v \in Workers PROVE response'[v] # <<>> => flush'[v]["sync"].at = "idle"
  BY <1>1, <1>3, <1>4 DEF FlushInv
<1> QED
  BY <1>3, <1>4, <1>5, <1>6, <1>7 DEF FlushInv

\* A request is only sent by an idle loop.
LEMMA FlushRequest ==
    ASSUME FlushInv, NEW w \in Workers, SyncRequest(w)
    PROVE  FlushInv'
<1>1. /\ flush[w]["sync"].at = "idle"
      /\ response' = [response EXCEPT ![w] = <<View>>]
      /\ UNCHANGED <<alive, pending, flush, calls, applied>>
  BY DEF SyncRequest, SyncIdle, process, ops
<1> QED
  BY <1>1 DEF FlushInv, NoOpLost

LEMMA FlushNext == FlushInv /\ [Next]_vars => FlushInv'
<1> SUFFICES ASSUME FlushInv, [Next]_vars PROVE FlushInv'
  OBVIOUS
<1>1. ASSUME NEW w \in Workers, JoinTask(w) PROVE FlushInv'
  BY <1>1, FlushFrame DEF JoinTask, JoinRegister, JoinSync, JoinFail, ops, syncing
<1>2. ASSUME NEW w \in Workers, SyncTask(w) PROVE FlushInv'
  <2>1. CASE FlushStep(w, "sync")
    BY <2>1, FlushWorker DEF Tasks
  <2>2. CASE SyncApply(w)
    BY <2>2, FlushSync
  <2>3. CASE SyncRequest(w)
    BY <2>3, FlushRequest
  <2>4. CASE SyncFail(w) \/ LoopExit(w, "sync")
    BY <2>4, FlushFrame DEF SyncFail, LoopExit, ops, syncing
  <2> QED
    BY <1>2, <2>1, <2>2, <2>3, <2>4 DEF SyncTask
<1>3. ASSUME NEW w \in Workers, HeartbeatTask(w) \/ Shutdown(w) PROVE FlushInv'
  BY <1>3, FlushFrame
     DEF HeartbeatTask, Heartbeat, HeartbeatUnknown, HeartbeatFail, LoopExit, Shutdown, ops,
         syncing
<1>4. ASSUME NEW w \in Workers, NEW c \in Callers, FlushStep(w, c) PROVE FlushInv'
  BY <1>4, FlushWorker DEF Tasks
<1>5. ASSUME NEW w \in Workers, NEW c \in Callers, NEW k \in Keys,
             NEW do \in {"register", "unregister"}, Call(w, c, do, k)
      PROVE  FlushInv'
  BY <1>5, FlushCall
<1>6. ASSUME NEW w \in Workers, Exit(w) PROVE FlushInv'
  BY <1>6, FlushExit
<1>7. ASSUME NEW do, NEW k, HeadCall(do, k) PROVE FlushInv'
  BY <1>7, HeadAssumption DEF HeadCall, FlushInv, NoOpLost, ops, process, syncing,
         Nodes
<1>8. CASE Tick \/ RemoveStale \/ HeadDown \/ HeadUp
  BY <1>8, FlushFrame DEF Tick, RemoveStale, HeadDown, HeadUp, ops, process, syncing
<1>9. CASE UNCHANGED vars
  BY <1>9, FlushFrame DEF vars, ops, process, syncing
<1> QED
  BY <1>1, <1>2, <1>3, <1>4, <1>5, <1>6, <1>7, <1>8, <1>9 DEF Next

\* No operation of a running worker is lost, whatever fails and however many tasks
\* flush at the same time (HeadNodeBackend::process_pending_sync).
THEOREM NoOperationLost == Spec => []NoOpLost
<1>1. FlushInv => NoOpLost
  BY DEF FlushInv
<1> QED
  BY <1>1, FlushInit, FlushNext, PTL DEF Spec
=============================================================================
