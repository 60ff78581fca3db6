-------------------------- MODULE TransportProofs ---------------------------
(***************************************************************************)
(* Proofs about the transport between nodes: the connection pool of one    *)
(* host (ConnectionPool), and what a caller of a remote actor relies on    *)
(* (MCRemote: the circuit breaker and the message streams).  They hold for *)
(* any number of tasks, connections, callers and messages, any             *)
(* configuration of the pool and any thresholds, capacity and window.      *)
(*                                                                         *)
(* LentOnce and PermitsAccounted are not inductive.  Lending a connection  *)
(* once rests on the Active mark, closing it once on where it is referred  *)
(* to: a task that has yet to push its connection is its only owner        *)
(* (HeldOK), and while the cleanup removes connections from the vector     *)
(* nobody scans it (SweepOK).  The permits add up because every close      *)
(* takes exactly one live connection away.                                 *)
(*                                                                         *)
(* ClosedBelowThreshold is not inductive: the step that brings the counter *)
(* to its threshold and the step that opens the breaker are two, with the  *)
(* other callers, resets and forced openings in between.  BreakerInv says  *)
(* who is on the way: a caller whose fetch_add returned the threshold and  *)
(* has yet to judge it, or one that is about to open the breaker.          *)
(*                                                                         *)
(* StreamIsComplete speaks of the two ends of a stream only.  StreamInv    *)
(* follows the messages through every stage between them: what the         *)
(* consumer has, its queue, the parsed frames, the bytes that are not      *)
(* parsed, the channel, and the frame the writer holds each hold the next  *)
(* interval of the message numbers, in order (Stages).                     *)
(***************************************************************************)
EXTENDS ConnectionPool, MCRemote, FiniteSetTheorems, SequenceTheorems,
        NaturalsInduction, WellFoundedInduction, TLAPS

-----------------------------------------------------------------------------
(* The connection pool                                                     *)

\* A task that has not pushed its connection yet is the only one to know it; a
\* scan looks at connections of the vector, and only a scan remembers any.
HeldOK ==
  \A t \in Tasks :
    /\ pc[t] \in {"record", "push"} => held[t] \notin pooled
    /\ pc[t] = "check" => held[t] \in pooled
    /\ pc[t] \notin {"scan", "check"} => seen[t] = {}

\* The cleanup holds the write lock: it visits what is in the vector, and
\* no scan is under way.
SweepOK == Sweeping => sweep \subseteq pooled /\ Scanning = {}

CapOK == cap <= MaxPermits

ShapeInv == TypeOK /\ LentOnce /\ HeldOK /\ SweepOK /\ CapOK

\* Only finitely many connections and connecting tasks exist at any time.
CountInv == IsFiniteSet(live) /\ IsFiniteSet(Connecting) /\ PermitsAccounted

PoolInv == ShapeInv /\ CountInv

-----------------------------------------------------------------------------
(* Facts about the operators                                               *)

\* HostPool::new and HostPool::expand stay within the semaphore's limit, and
\* an expansion never shrinks the pool.
LEMMA CapBounds ==
  /\ NewCap \in Nat /\ NewCap <= MaxPermits
  /\ cap \in Nat /\ cap <= MaxPermits =>
       Doubled \in Nat /\ Doubled <= MaxPermits /\ Doubled >= cap
  BY PermitsAssumption DEF NewCap, Doubled

\* Moving a task changes the set of connecting tasks by that task at most.
LEMMA ConnectingGo ==
  ASSUME TypeOK, NEW t \in Tasks, NEW s \in Steps, Go(t, s)
  PROVE  Connecting' = IF s = "connect" THEN Connecting \cup {t} ELSE Connecting \ {t}
  BY DEF TypeOK, Go, Connecting

\* Closing one live connection: it is gone, and its permit is back.
LEMMA CloseOne ==
  ASSUME PoolInv, NEW c \in live, Close({c})
  PROVE  /\ live' = live \ {c} /\ permits' = permits + 1
         /\ active' = active \ {c} /\ unfit' = unfit \ {c} /\ uses' \in [Conns -> Nat]
         /\ IsFiniteSet(live') /\ Cardinality(live') = Cardinality(live) - 1
<1>1. Cardinality({c}) = 1
  BY FS_Singleton
<1>2. IsFiniteSet(live \ {c}) /\ Cardinality(live \ {c}) = Cardinality(live) - 1
  BY FS_RemoveElement DEF PoolInv, CountInv
<1>3. uses' \in [Conns -> Nat]
  BY DEF PoolInv, ShapeInv, TypeOK, Close
<1>4. QED
  BY <1>1, <1>2, <1>3 DEF Close

\* The two terms of the sum that are cardinalities are natural numbers.
LEMMA CountTypes ==
  ASSUME PoolInv
  PROVE  Cardinality(live) \in Nat /\ Cardinality(Connecting) \in Nat
  BY FS_CardinalityType DEF PoolInv, CountInv

\* A step that moves a task neither to nor from "connect" and leaves the pool's
\* numbers alone keeps the account.
LEMMA CountKept ==
  ASSUME PoolInv, UNCHANGED <<cap, permits, live>>,
         \/ UNCHANGED pc
         \/ \E t \in Tasks, s \in Steps \ {"connect"} : pc[t] # "connect" /\ Go(t, s)
  PROVE  CountInv'
<1>1. Connecting' = Connecting
  <2>1. CASE UNCHANGED pc
    BY <2>1 DEF Connecting
  <2>2. CASE \E t \in Tasks, s \in Steps \ {"connect"} : pc[t] # "connect" /\ Go(t, s)
    BY <2>2, ConnectingGo DEF PoolInv, ShapeInv, Connecting
  <2>3. QED
    BY <2>1, <2>2
<1>2. QED
  BY <1>1 DEF PoolInv, CountInv, PermitsAccounted

\* Where a task has no connection.
Outside == {"idle", "scan", "backoff", "ensure", "acquire", "expand", "wait", "connect",
            "refused"}

\* Moving a task among those places disturbs neither the loans nor the sweep.
LEMMA OutsideMove ==
  ASSUME ShapeInv, NEW t \in Tasks, NEW s \in Outside, pc[t] \in Outside, Go(t, s),
         UNCHANGED <<live, pooled, active, held, sweep>>,
         \/ seen' = [seen EXCEPT ![t] = {}]
         \/ UNCHANGED seen /\ pc[t] # "scan"
  PROVE  LentOnce' /\ HeldOK' /\ SweepOK'
<1> USE DEF ShapeInv, TypeOK, Outside, Go, Guarding
<1>1. LentOnce'
  BY DEF LentOnce
<1>2. HeldOK'
  BY DEF HeldOK
<1>3. SweepOK'
  BY DEF SweepOK, Sweeping, Scanning, HeldOK
<1>4. QED
  BY <1>1, <1>2, <1>3

-----------------------------------------------------------------------------
(* Scanning the vector                                                     *)

LEMMA ScanPreserves ==
  ASSUME PoolInv, NEW t \in Tasks,
         \/ get_connection(t) \/ ScanTry(t) \/ ScanCheck(t) \/ ScanEnd(t) \/ CheckBackoff(t)
  PROVE  PoolInv'
<1> USE NamesAssumption DEF PoolInv, ShapeInv, Steps, Guarding, Go, poolVars, connVars
<1>1. CASE get_connection(t)
  <2>1. CountInv'
    BY <1>1, CountKept DEF get_connection
  <2>2. TypeOK' /\ CapOK'
    BY <1>1 DEF get_connection, TypeOK, CapOK
  <2>3. LentOnce' /\ HeldOK' /\ SweepOK'
    BY <1>1, OutsideMove DEF get_connection, Outside
  <2>4. QED
    BY <2>1, <2>2, <2>3
<1>2. CASE ScanTry(t)
  <2>1. ~Sweeping
    BY <1>2 DEF ScanTry, ReadLock, SweepOK, Scanning
  <2>2. PICK c \in pooled \ seen[t] :
          /\ seen' = [seen EXCEPT ![t] = @ \cup {c}]
          /\ IF locked[c] = NoOne
               THEN /\ locked' = [locked EXCEPT ![c] = t]
                    /\ held' = [held EXCEPT ![t] = c]
                    /\ Go(t, "check")
               ELSE UNCHANGED <<locked, held, pc>>
    BY <1>2 DEF ScanTry
  <2>3. pc[t] = "scan" /\ UNCHANGED <<poolVars, connVars, sweep>> /\ c \in Conns
    BY <1>2 DEF ScanTry, TypeOK
  <2>4. TypeOK'
    BY <2>2, <2>3 DEF TypeOK
  <2>5. LentOnce' /\ HeldOK'
    BY <2>2, <2>3 DEF TypeOK, LentOnce, HeldOK
  <2>6. SweepOK' /\ CapOK'
    BY <2>1, <2>3 DEF SweepOK, Sweeping, CapOK
  <2>7. CountInv'
    BY <2>2, <2>3, CountKept
  <2>8. QED
    BY <2>4, <2>5, <2>6, <2>7
<1>3. CASE ScanCheck(t)
  <2>1. pc[t] = "check" /\ held[t] \in pooled /\ held[t] \in live /\ held[t] \in Conns
    BY <1>3 DEF ScanCheck, HeldOK, TypeOK
  <2>2. TypeOK'
    BY <1>3, <2>1 DEF ScanCheck, TypeOK
  <2>3. LentOnce'
    BY <1>3, <2>1 DEF ScanCheck, TypeOK, LentOnce
  <2>4. HeldOK'
    BY <1>3, <2>1 DEF ScanCheck, TypeOK, HeldOK
  <2>5. SweepOK' /\ CapOK'
    BY <1>3, <2>1 DEF ScanCheck, SweepOK, Sweeping, Scanning, CapOK
  <2>6. CountInv'
    BY <1>3, <2>1, CountKept DEF ScanCheck
  <2>7. QED
    BY <2>2, <2>3, <2>4, <2>5, <2>6
<1>4. CASE ScanEnd(t) \/ CheckBackoff(t)
  <2>1. CountInv'
    BY <1>4, CountKept DEF ScanEnd, CheckBackoff
  <2>2. TypeOK' /\ CapOK'
    BY <1>4 DEF ScanEnd, CheckBackoff, TypeOK, CapOK
  <2>3. LentOnce' /\ HeldOK' /\ SweepOK'
    BY <1>4, OutsideMove DEF ScanEnd, CheckBackoff, Outside
  <2>4. QED
    BY <2>1, <2>2, <2>3
<1>5. QED
  BY <1>1, <1>2, <1>3, <1>4

-----------------------------------------------------------------------------
(* Permits and connects                                                    *)

\* A step that moves one task among the places where it owns no connection,
\* and changes at most the numbers of the pool and the back-off.
LEMMA PermitPreserves ==
  ASSUME PoolInv, NEW t \in Tasks,
         \/ EnsurePool(t) \/ TryAcquire(t) \/ Expand(t) \/ Acquire(t) \/ AcquireTimeout(t)
         \/ ConnectFails(t) \/ record_error(t)
  PROVE  PoolInv'
<1> USE DEF PoolInv, ShapeInv, Steps
<1>1. LentOnce' /\ HeldOK' /\ SweepOK'
  BY OutsideMove
  DEF EnsurePool, TryAcquire, Expand, Acquire, AcquireTimeout, ConnectFails, record_error,
      Outside, poolVars, connVars
<1>2. Cardinality(live) \in Nat /\ Cardinality(Connecting) \in Nat
  BY CountTypes
<1>3. /\ IsFiniteSet(Connecting \cup {t}) /\ IsFiniteSet(Connecting \ {t})
      /\ Cardinality(Connecting \cup {t}) =
           IF t \in Connecting THEN Cardinality(Connecting) ELSE Cardinality(Connecting) + 1
      /\ Cardinality(Connecting \ {t}) =
           IF t \in Connecting THEN Cardinality(Connecting) - 1 ELSE Cardinality(Connecting)
  BY FS_AddElement, FS_RemoveElement DEF CountInv
<1>4. t \in Connecting <=> pc[t] = "connect"
  BY DEF Connecting
<1>5. CASE EnsurePool(t)
  <2>1. Connecting' = Connecting
    BY <1>5, <1>4, ConnectingGo DEF EnsurePool
  <2>2. TypeOK' /\ CapOK'
    BY <1>5, CapBounds DEF EnsurePool, TypeOK, CapOK, connVars, Go
  <2>3. CountInv'
    BY <1>2, <1>5, <2>1, CapBounds DEF EnsurePool, CountInv, PermitsAccounted, TypeOK
  <2>4. QED
    BY <1>1, <2>2, <2>3
<1>6. CASE TryAcquire(t)
  <2>1. CASE permits > 0
    <3>1. Connecting' = Connecting \cup {t}
      BY <1>6, <2>1, ConnectingGo DEF TryAcquire
    <3>2. TypeOK' /\ CapOK'
      BY <1>6, <2>1 DEF TryAcquire, TypeOK, CapOK, connVars, Go
    <3>3. CountInv'
      BY <1>2, <1>3, <1>4, <1>6, <2>1, <3>1 DEF TryAcquire, CountInv, PermitsAccounted, TypeOK
    <3>4. QED
      BY <1>1, <3>2, <3>3
  <2>2. CASE ~(permits > 0)
    <3>1. TypeOK' /\ CapOK'
      BY <1>6, <2>2 DEF TryAcquire, TypeOK, CapOK, connVars, Go
    <3>2. CountInv'
      BY <1>6, <2>2, CountKept DEF TryAcquire
    <3>3. QED
      BY <1>1, <3>1, <3>2
  <2>3. QED
    BY <2>1, <2>2
<1>7. CASE Expand(t)
  <2>1. PICK s \in {"idle", "wait"} : Go(t, s)
    BY <1>7 DEF Expand
  <2>2. Connecting' = Connecting
    BY <1>4, <1>7, <2>1, ConnectingGo DEF Expand
  <2>3. /\ cap' \in Nat /\ permits' \in Nat /\ cap' <= MaxPermits
        /\ permits' - permits = cap' - cap
    BY <1>7, CapBounds, PermitsAssumption DEF Expand, TypeOK, CapOK
  <2>4. TypeOK' /\ CapOK'
    BY <1>7, <2>1, <2>3 DEF Expand, TypeOK, CapOK, connVars, Go
  <2>5. CountInv'
    BY <1>2, <1>7, <2>2, <2>3 DEF Expand, CountInv, PermitsAccounted, TypeOK
  <2>6. QED
    BY <1>1, <2>4, <2>5
<1>8. CASE Acquire(t)
  <2>1. Connecting' = Connecting \cup {t}
    BY <1>8, ConnectingGo DEF Acquire
  <2>2. TypeOK' /\ CapOK'
    BY <1>8 DEF Acquire, TypeOK, CapOK, connVars, Go
  <2>3. CountInv'
    BY <1>2, <1>3, <1>4, <1>8, <2>1 DEF Acquire, CountInv, PermitsAccounted, TypeOK
  <2>4. QED
    BY <1>1, <2>2, <2>3
<1>9. CASE ConnectFails(t)
  <2>1. Connecting' = Connecting \ {t}
    BY <1>9, ConnectingGo DEF ConnectFails
  <2>2. TypeOK' /\ CapOK'
    BY <1>9 DEF ConnectFails, TypeOK, CapOK, connVars, Go
  <2>3. CountInv'
    BY <1>2, <1>3, <1>4, <1>9, <2>1 DEF ConnectFails, CountInv, PermitsAccounted, TypeOK
  <2>4. QED
    BY <1>1, <2>2, <2>3
<1>10. CASE AcquireTimeout(t) \/ record_error(t)
  <2>1. TypeOK' /\ CapOK'
    BY <1>10 DEF AcquireTimeout, record_error, TypeOK, CapOK, poolVars, connVars, Go
  <2>2. CountInv'
    BY <1>10, CountKept DEF AcquireTimeout, record_error, poolVars
  <2>3. QED
    BY <1>1, <2>1, <2>2
<1>11. QED
  BY <1>5, <1>6, <1>7, <1>8, <1>9, <1>10

-----------------------------------------------------------------------------
(* A connection and its guard                                              *)

\* A new connection takes over the permit; it is nobody else's.
LEMMA ConnectPreserves ==
  ASSUME PoolInv, NEW t \in Tasks, Connect(t)
  PROVE  PoolInv'
<1> USE DEF PoolInv, ShapeInv, Steps, Guarding
<1>1. PICK c \in Conns \ live :
        /\ live' = live \cup {c} /\ active' = active \cup {c}
        /\ uses' = [uses EXCEPT ![c] = 1] /\ held' = [held EXCEPT ![t] = c]
  BY DEF Connect
<1>2. /\ pc[t] = "connect" /\ Go(t, "record")
      /\ UNCHANGED <<cap, permits, pooled, backoff, unfit, locked, seen, sweep>>
  BY DEF Connect
<1>3. TypeOK' /\ CapOK'
  BY <1>1, <1>2 DEF TypeOK, CapOK, Go
<1>4. LentOnce'
  BY <1>1, <1>2 DEF TypeOK, LentOnce, Go
<1>5. HeldOK'
  BY <1>1, <1>2 DEF TypeOK, HeldOK, Go
<1>6. SweepOK'
  BY <1>1, <1>2 DEF TypeOK, SweepOK, Sweeping, Scanning, Go
<1>7. CountInv'
  <2>1. IsFiniteSet(live') /\ Cardinality(live') = Cardinality(live) + 1
    BY <1>1, FS_AddElement DEF CountInv
  <2>2. Connecting' = Connecting \ {t} /\ t \in Connecting
    BY <1>2, ConnectingGo DEF Connecting
  <2>3. IsFiniteSet(Connecting') /\ Cardinality(Connecting') = Cardinality(Connecting) - 1
    BY <2>2, FS_RemoveElement DEF CountInv
  <2>4. QED
    BY <1>2, <2>1, <2>3, CountTypes DEF CountInv, PermitsAccounted, TypeOK
<1>8. QED
  BY <1>3, <1>4, <1>5, <1>6, <1>7

\* The steps of a task that has a connection, up to the end of its request.
LEMMA UsePreserves ==
  ASSUME PoolInv, NEW t \in Tasks,
         record_success(t) \/ AddToPool(t) \/ LockConnection(t) \/ RequestEnds(t)
  PROVE  PoolInv'
<1> USE DEF PoolInv, ShapeInv, Steps, Guarding
<1>1. /\ pc[t] \in {"record", "push", "use", "send"}
      /\ \E s \in {"push", "use", "send", "drop"} : Go(t, s) /\ (s = "push" => pc[t] = "record")
      /\ UNCHANGED <<cap, permits, live, backoff, connVars, held, seen, sweep>>
      /\ \/ UNCHANGED pooled
         \/ pc[t] = "push" /\ pooled' = pooled \cup {held[t]} /\ WriteLock /\ Go(t, "use")
      /\ locked' \in [Conns -> Tasks \cup {Cleaner, NoOne}]
  <2>1. CASE AddToPool(t)
    BY <2>1 DEF AddToPool, TypeOK
  <2>2. CASE record_success(t)
    BY <2>2 DEF record_success, poolVars, TypeOK
  <2>3. CASE LockConnection(t) \/ RequestEnds(t)
    BY <2>3 DEF LockConnection, RequestEnds, poolVars, TypeOK
  <2>4. QED
    BY <2>1, <2>2, <2>3
<1>2. held[t] \in live /\ held[t] \in Conns
  BY <1>1 DEF LentOnce, TypeOK
<1>3. TypeOK' /\ CapOK'
  BY <1>1, <1>2 DEF TypeOK, CapOK, Go, connVars
<1>4. LentOnce'
  BY <1>1 DEF TypeOK, LentOnce, Go, connVars
<1>5. HeldOK'
  BY <1>1 DEF TypeOK, HeldOK, LentOnce, Go
<1>6. SweepOK'
  BY <1>1 DEF TypeOK, SweepOK, Sweeping, Scanning, WriteLock, Go
<1>7. CountInv'
  BY <1>1, CountKept
<1>8. QED
  BY <1>3, <1>4, <1>5, <1>6, <1>7

\* The end of a loan: the last owner closes the connection, of which nobody
\* else knows; a pooled one stays, at most marked Idle.
LEMMA ReleasePreserves ==
  ASSUME PoolInv, NEW t \in Tasks, held' = [held EXCEPT ![t] = NoOne], Go(t, "idle"),
         pc[t] \in {"record", "push", "drop"},
         UNCHANGED <<cap, pooled, backoff, locked, seen, sweep>>,
         \/ held[t] \notin pooled /\ Close({held[t]})
         \/ /\ active' \in {active, active \ {held[t]}}
            /\ UNCHANGED <<live, permits, unfit, uses>>
  PROVE  PoolInv'
<1> USE DEF PoolInv, ShapeInv, Steps, Guarding
<1>1. held[t] \in live /\ held[t] \in Conns
  BY DEF LentOnce, TypeOK
<1>2. Connecting' = Connecting
  BY ConnectingGo DEF Connecting
<1>3. /\ live' \in {live, live \ {held[t]}} /\ pooled \subseteq live'
      /\ live' = live => permits' = permits
      /\ live' # live => /\ permits' = permits + 1
                        /\ Cardinality(live') = Cardinality(live) - 1
      /\ IsFiniteSet(live')
      /\ active' \in {active, active \ {held[t]}} /\ active' \subseteq live'
      /\ unfit' \subseteq live' /\ uses' \in [Conns -> Nat] /\ permits' \in Nat
  <2>1. CASE held[t] \notin pooled /\ Close({held[t]})
    BY <1>1, <2>1, CloseOne DEF TypeOK
  <2>2. CASE /\ active' \in {active, active \ {held[t]}}
             /\ UNCHANGED <<live, permits, unfit, uses>>
    BY <2>2 DEF TypeOK, CountInv
  <2>3. QED
    BY <2>1, <2>2
<1>4. TypeOK' /\ CapOK'
  BY <1>3 DEF TypeOK, CapOK, Go
<1>5. LentOnce'
  BY <1>3 DEF TypeOK, LentOnce, Go
<1>6. HeldOK' /\ SweepOK'
  BY DEF TypeOK, HeldOK, SweepOK, Sweeping, Scanning, Go
<1>7. CountInv'
  BY <1>2, <1>3, CountTypes DEF CountInv, PermitsAccounted, TypeOK
<1>8. QED
  BY <1>4, <1>5, <1>6, <1>7

LEMMA DropPreserves ==
  ASSUME PoolInv, NEW t \in Tasks, DropGuard(t)
  PROVE  PoolInv'
  BY ReleasePreserves DEF DropGuard

\* A future dropped at an await gives back what its task owns at that point.
LEMMA CancelPreserves ==
  ASSUME PoolInv, NEW t \in Tasks, Cancel(t)
  PROVE  PoolInv'
<1> USE DEF PoolInv, ShapeInv, Steps, Guarding
<1>1. CASE /\ pc[t] \in {"backoff", "ensure", "expand", "wait", "refused"}
           /\ Go(t, "idle")
           /\ UNCHANGED <<live, permits, connVars, locked, held>>
  <2>1. LentOnce' /\ HeldOK' /\ SweepOK'
    BY <1>1, OutsideMove DEF Cancel, connVars, Outside
  <2>2. CountInv'
    BY <1>1, CountKept DEF Cancel
  <2>3. TypeOK' /\ CapOK'
    BY <1>1 DEF Cancel, TypeOK, CapOK, connVars, Go
  <2>4. QED
    BY <2>1, <2>2, <2>3
<1>2. CASE /\ pc[t] = "connect" /\ permits' = permits + 1 /\ Go(t, "idle")
           /\ UNCHANGED <<live, connVars, locked, held>>
  <2>1. LentOnce' /\ HeldOK' /\ SweepOK'
    BY <1>2, OutsideMove DEF Cancel, connVars, Outside
  <2>2. Connecting' = Connecting \ {t} /\ t \in Connecting
    BY <1>2, ConnectingGo DEF Connecting
  <2>3. IsFiniteSet(Connecting') /\ Cardinality(Connecting') = Cardinality(Connecting) - 1
    BY <2>2, FS_RemoveElement DEF CountInv
  <2>4. CountInv'
    BY <1>2, <2>3, CountTypes DEF Cancel, CountInv, PermitsAccounted, TypeOK
  <2>5. TypeOK' /\ CapOK'
    BY <1>2 DEF Cancel, TypeOK, CapOK, connVars, Go
  <2>6. QED
    BY <2>1, <2>4, <2>5
<1>3. CASE /\ pc[t] \in {"record", "push"} /\ Close({held[t]})
           /\ held' = [held EXCEPT ![t] = NoOne] /\ Go(t, "idle")
           /\ UNCHANGED locked
  <2>1. held[t] \notin pooled
    BY <1>3 DEF HeldOK
  <2>2. QED
    BY <1>3, <2>1, ReleasePreserves DEF Cancel
<1>4. CASE /\ pc[t] = "use" /\ Go(t, "drop")
           /\ UNCHANGED <<live, permits, connVars, locked, held>>
  <2>1. CountInv'
    BY <1>4, CountKept DEF Cancel
  <2>2. QED
    BY <1>4, <2>1
    DEF Cancel, TypeOK, CapOK, LentOnce, HeldOK, SweepOK, Sweeping, Scanning, connVars, Go
<1>5. QED
  BY <1>1, <1>2, <1>3, <1>4 DEF Cancel

-----------------------------------------------------------------------------
(* The cleanup                                                             *)

LEMMA CleanupPreserves ==
  ASSUME PoolInv, cleanup
  PROVE  PoolInv'
<1> USE NamesAssumption DEF PoolInv, ShapeInv
<1>1. CASE CleanupTick \/ CleanupStart \/ CleanupEnd
  <2>1. CountInv'
    BY <1>1, CountKept DEF CleanupTick, CleanupStart, CleanupEnd, poolVars
  <2>2. TypeOK'
    <3>1. sweep' \in (SUBSET Conns) \cup {NoOne, Cleaner}
      BY <1>1, Zenon DEF CleanupTick, CleanupStart, CleanupEnd, TypeOK
    <3>2. UNCHANGED <<poolVars, connVars, locked, pc, held, seen>>
      BY <1>1 DEF CleanupTick, CleanupStart, CleanupEnd
    <3>3. QED
      BY <3>1, <3>2 DEF poolVars, connVars, TypeOK
  <2>3. SweepOK'
    BY <1>1 DEF CleanupTick, CleanupStart, CleanupEnd, poolVars, SweepOK, Sweeping, Scanning,
                WriteLock
  <2>4. CapOK' /\ LentOnce' /\ HeldOK'
    BY <1>1
    DEF CleanupTick, CleanupStart, CleanupEnd, poolVars, connVars, CapOK, LentOnce, HeldOK
  <2>5. QED
    BY <2>1, <2>2, <2>3, <2>4
<1>2. CASE CleanupTry
  <2>1. CountInv'
    BY <1>2, CountKept DEF CleanupTry, poolVars
  <2>2. QED
    BY <1>2, <2>1
    DEF CleanupTry, poolVars, connVars, TypeOK, CapOK, LentOnce, HeldOK, SweepOK, Sweeping, Scanning
<1>3. CASE CleanupCheck
  <2>1. PICK c \in sweep :
          /\ locked' = [locked EXCEPT ![c] = NoOne] /\ sweep' = sweep \ {c}
          /\ \/ UNCHANGED <<pooled, live, permits, connVars>>
             \/ /\ pooled' = pooled \ {c}
                /\ \/ Users(c) = {} /\ Close({c})
                   \/ UNCHANGED <<live, permits, connVars>>
    BY <1>3 DEF CleanupCheck
  <2>2. Sweeping /\ UNCHANGED <<cap, backoff, pc, held, seen>>
    BY <1>3 DEF CleanupCheck
  <2>3. c \in pooled /\ c \in live /\ c \in Conns /\ Scanning = {} /\ sweep \subseteq pooled
    BY <2>1, <2>2 DEF SweepOK, TypeOK
  <2>4. sweep' \subseteq pooled' /\ pooled' \subseteq pooled /\ pooled' \in {pooled, pooled \ {c}}
    BY <2>1, <2>3
  <2>5. HeldOK' /\ SweepOK'
    BY <2>2, <2>3, <2>4 DEF HeldOK, SweepOK, Sweeping, Scanning
  <2>6. sweep' \in (SUBSET Conns) \cup {NoOne, Cleaner} /\ locked' \in [Conns -> Tasks \cup {Cleaner, NoOne}]
    BY <2>1, <2>3, <2>4 DEF TypeOK
  <2>7. CASE UNCHANGED <<live, permits, connVars>>
    <3>1. CountInv'
      BY <2>2, <2>7, CountKept
    <3>2. QED
      BY <2>2, <2>4, <2>5, <2>6, <2>7, <3>1 DEF connVars, TypeOK, CapOK, LentOnce
  <2>8. CASE pooled' = pooled \ {c} /\ Users(c) = {} /\ Close({c})
    <3>1. /\ live' = live \ {c} /\ permits' = permits + 1
          /\ active' = active \ {c} /\ unfit' = unfit \ {c} /\ uses' \in [Conns -> Nat]
          /\ IsFiniteSet(live') /\ Cardinality(live') = Cardinality(live) - 1
      BY <2>3, <2>8, CloseOne
    <3>2. TypeOK' /\ CapOK'
      BY <2>2, <2>6, <2>8, <3>1 DEF TypeOK, CapOK
    <3>3. LentOnce'
      BY <2>2, <2>8, <3>1 DEF LentOnce, Users
    <3>4. Connecting' = Connecting
      BY <2>2 DEF Connecting
    <3>5. CountInv'
      BY <2>2, <3>1, <3>4, CountTypes DEF CountInv, PermitsAccounted, TypeOK
    <3>6. QED
      BY <2>5, <3>2, <3>3, <3>5
  <2>9. QED
    BY <2>1, <2>7, <2>8
<1>4. QED
  BY <1>1, <1>2, <1>3 DEF cleanup

-----------------------------------------------------------------------------

\* PoolInv is an invariant of the pool.
THEOREM PoolCorrect == Spec => []PoolInv
<1>1. Init => PoolInv
  <2> SUFFICES ASSUME Init PROVE PoolInv
    OBVIOUS
  <2>1. IsFiniteSet({}) /\ Cardinality({}) = 0
    BY FS_EmptySet
  <2>2. live = {} /\ Connecting = {} /\ permits = 0 /\ cap = 0
    BY DEF Init, Connecting
  <2>3. CountInv
    BY <2>1, <2>2 DEF CountInv, PermitsAccounted
  <2>4. TypeOK
    <3>1. backoff \in BOOLEAN /\ sweep \in (SUBSET Conns) \cup {NoOne, Cleaner}
      BY DEF Init
    <3>2. QED
      BY <3>1 DEF Init, TypeOK, Steps
  <2>5. LentOnce /\ HeldOK /\ SweepOK /\ CapOK
    BY PermitsAssumption DEF Init, LentOnce, HeldOK, SweepOK, CapOK, Sweeping, Guarding
  <2>6. QED
    BY <2>3, <2>4, <2>5 DEF PoolInv, ShapeInv
<1>2. PoolInv /\ [Next]_vars => PoolInv'
  <2> SUFFICES ASSUME PoolInv, [Next]_vars PROVE PoolInv'
    OBVIOUS
  <2>1. CASE \E t \in Tasks : get_connection(t) \/ Step(t) \/ Cancel(t)
    BY <2>1, ScanPreserves, PermitPreserves, ConnectPreserves, UsePreserves, DropPreserves,
       CancelPreserves DEF Step
  <2>2. CASE cleanup
    BY <2>2, CleanupPreserves
  <2>3. CASE (\E c \in Conns : Expire(c)) \/ BackoffEnds \/ UNCHANGED vars
    <3>1. CountInv'
      BY <2>3, CountKept DEF Expire, BackoffEnds, vars, poolVars
    <3>2. TypeOK' /\ CapOK'
      BY <2>3
      DEF Expire, BackoffEnds, vars, poolVars, connVars, PoolInv, ShapeInv, TypeOK, CapOK
    <3>3. LentOnce' /\ HeldOK' /\ SweepOK'
      BY <2>3 DEF Expire, BackoffEnds, vars, poolVars, connVars, PoolInv, ShapeInv, LentOnce,
                  HeldOK, SweepOK, Sweeping, Scanning
    <3>4. QED
      BY <3>1, <3>2, <3>3 DEF PoolInv, ShapeInv
  <2>4. QED
    BY <2>1, <2>2, <2>3 DEF Next
<1>3. QED
  BY <1>1, <1>2, PTL DEF Spec

\* Every field of the pool, of its connections and of the tasks keeps its type.
THEOREM PoolTypes == Spec => []TypeOK
  BY PoolCorrect, PTL DEF PoolInv, ShapeInv

\* No permit leaks and none is released twice: available permits, live
\* connections and tasks that are connecting always add up to the cap.
THEOREM PermitsAddUp == Spec => []PermitsAccounted
  BY PoolCorrect, PTL DEF PoolInv, CountInv

\* A connection is lent to one request at a time and stays open for it.
THEOREM LoansAreExclusive == Spec => []LentOnce
  BY PoolCorrect, PTL DEF PoolInv, ShapeInv

\* "permit was acquired above, so cap always has room": a task about to push
\* its connection finds the vector shorter than the cap.
THEOREM PushHasRoom == Spec => []PoolHasRoom
<1>1. PoolInv => PoolHasRoom
  <2> SUFFICES ASSUME PoolInv, NEW t \in Tasks, pc[t] = "push"
               PROVE  Cardinality(pooled) < cap
    BY DEF PoolHasRoom
  <2>1. held[t] \in live /\ held[t] \notin pooled /\ pooled \subseteq live
    BY DEF PoolInv, ShapeInv, LentOnce, HeldOK, TypeOK, Guarding
  <2>2. /\ Cardinality(pooled) <= Cardinality(live)
        /\ Cardinality(live) = Cardinality(pooled) => live = pooled
        /\ IsFiniteSet(pooled)
    BY <2>1, FS_Subset DEF PoolInv, CountInv
  <2>3. Cardinality(pooled) \in Nat /\ Cardinality(live) \in Nat /\ Cardinality(Connecting) \in Nat
    BY <2>2, CountTypes, FS_CardinalityType
  <2>4. Cardinality(pooled) < Cardinality(live)
    BY <2>1, <2>2, <2>3
  <2>5. QED
    BY <2>3, <2>4 DEF PoolInv, ShapeInv, CountInv, PermitsAccounted, TypeOK
<1>2. QED
  BY PoolCorrect, <1>1, PTL

-----------------------------------------------------------------------------
(* The circuit breaker                                                     *)

\* The caller counted the failure that reaches the threshold, or opens already.
WillOpen(c) ==
  \/ step[c] = "judge_failed" /\ count[c] >= FailureThreshold
  \/ step[c] = "open"

\* A closed breaker at its threshold is about to be opened by somebody.
OpenerExists ==
  state = "Closed" /\ failures >= FailureThreshold => \E c \in Callers : WillOpen(c)

BreakerInv == Breaker!TypeOK /\ OpenerExists

\* What transition_to does to the four fields, whatever state it starts from.
LEMMA TransitionType ==
  ASSUME Breaker!TypeOK, NEW new \in Breaker!CircuitState, Breaker!transition_to(new)
  PROVE  /\ state' = new /\ expired' \in BOOLEAN
         /\ failures' \in 0 .. FailureThreshold /\ successes' \in 0 .. SuccessThreshold
         /\ new = "Closed" => (state = "Closed" /\ failures' = failures) \/ failures' = 0
<1> USE DEF Breaker!TypeOK, Breaker!transition_to, Breaker!breakerVars, Breaker!CircuitState
<1>1. state' = new
  OBVIOUS
<1>2. expired' \in BOOLEAN
  OBVIOUS
<1>3. failures' \in 0 .. FailureThreshold
  BY ThresholdAssumption
<1>4. successes' \in 0 .. SuccessThreshold
  BY ThresholdAssumption
<1>5. new = "Closed" => (state = "Closed" /\ failures' = failures) \/ failures' = 0
  OBVIOUS
<1>6. QED
  BY <1>1, <1>2, <1>3, <1>4, <1>5

\* Begin, the looks, the gate and the outcome of a request leave the fields alone.
LEMMA LookPreserves ==
  ASSUME BreakerInv, NEW c \in Callers,
         \/ Breaker!Begin(c) \/ Breaker!check_and_update_state(c) \/ Breaker!can_execute(c) \/ Breaker!record_outcome(c)
  PROVE  BreakerInv'
<1>1. /\ UNCHANGED <<Breaker!breakerVars, count, healed>>
      /\ ~WillOpen(c)
      /\ \E s \in Breaker!Steps : Breaker!Go(c, s)
  BY
  DEF Breaker!Begin, Breaker!check_and_update_state, Breaker!can_execute,
      Breaker!record_outcome, Breaker!Steps, WillOpen
<1>2. Breaker!TypeOK'
  BY <1>1 DEF BreakerInv, Breaker!TypeOK, Breaker!Go, Breaker!breakerVars
<1>3. OpenerExists'
  BY <1>1
  DEF BreakerInv, Breaker!TypeOK, OpenerExists, WillOpen, Breaker!Go, Breaker!breakerVars
<1>4. QED
  BY <1>2, <1>3 DEF BreakerInv

\* A transition by a caller whose next step it is, or by force_open.
LEMMA TransitionPreserves ==
  ASSUME BreakerInv, NEW c \in Callers,
         Breaker!ToHalfOpen(c) \/ Breaker!ToClosed(c) \/ Breaker!ToOpen(c)
  PROVE  BreakerInv'
<1>1. CASE Breaker!ToHalfOpen(c)
  BY <1>1, TransitionType
  DEF Breaker!ToHalfOpen, BreakerInv, Breaker!TypeOK, OpenerExists, Breaker!Go, Breaker!Steps,
      Breaker!CircuitState
<1>2. CASE Breaker!ToClosed(c)
  <2>1. /\ step[c] = "close" /\ Breaker!Go(c, "idle")
        /\ Breaker!transition_to("Closed") /\ UNCHANGED <<count, healed>>
    BY <1>2 DEF Breaker!ToClosed
  <2>2. /\ state' = "Closed" /\ expired' \in BOOLEAN
        /\ failures' \in 0 .. FailureThreshold /\ successes' \in 0 .. SuccessThreshold
        /\ (state = "Closed" /\ failures' = failures) \/ failures' = 0
    BY <2>1, TransitionType DEF BreakerInv, Breaker!CircuitState
  <2>3. Breaker!TypeOK'
    BY <2>1, <2>2
    DEF BreakerInv, Breaker!TypeOK, Breaker!Go, Breaker!Steps, Breaker!CircuitState
  <2>4. OpenerExists'
    BY <2>1, <2>2, ThresholdAssumption
    DEF BreakerInv, Breaker!TypeOK, OpenerExists, WillOpen, Breaker!Go
  <2>5. QED
    BY <2>3, <2>4 DEF BreakerInv
<1>3. CASE Breaker!ToOpen(c)
  BY <1>3, TransitionType
  DEF Breaker!ToOpen, BreakerInv, Breaker!TypeOK, OpenerExists, Breaker!Go, Breaker!Steps,
      Breaker!CircuitState
<1>4. QED
  BY <1>1, <1>2, <1>3

\* record_success: the failures are cleared, the successes counted and judged.
LEMMA SuccessPreserves ==
  ASSUME BreakerInv, NEW c \in Callers,
         Breaker!StoreNoFailures(c) \/ Breaker!CountSuccess(c) \/ Breaker!JudgeSuccess(c)
  PROVE  BreakerInv'
<1>1. CASE Breaker!StoreNoFailures(c)
  BY <1>1, ThresholdAssumption
  DEF Breaker!StoreNoFailures, BreakerInv, Breaker!TypeOK, OpenerExists, Breaker!Go,
      Breaker!Steps
<1>2. CASE Breaker!CountSuccess(c)
  BY <1>2, ThresholdAssumption
  DEF Breaker!CountSuccess, BreakerInv, Breaker!TypeOK, OpenerExists, WillOpen, Breaker!Go, Breaker!Steps
<1>3. CASE Breaker!JudgeSuccess(c)
  BY <1>3
  DEF Breaker!JudgeSuccess, BreakerInv, Breaker!TypeOK, OpenerExists, WillOpen, Breaker!Go,
      Breaker!Steps, Breaker!breakerVars
<1>4. QED
  BY <1>1, <1>2, <1>3

\* record_failure: whoever counts the threshold judges it and opens.
LEMMA FailurePreserves ==
  ASSUME BreakerInv, NEW c \in Callers,
         Breaker!StoreNoSuccesses(c) \/ Breaker!CountFailure(c) \/ Breaker!JudgeFailure(c)
  PROVE  BreakerInv'
<1>1. CASE Breaker!StoreNoSuccesses(c)
  BY <1>1, ThresholdAssumption
  DEF Breaker!StoreNoSuccesses, BreakerInv, Breaker!TypeOK, OpenerExists, WillOpen, Breaker!Go, Breaker!Steps
<1>2. CASE Breaker!CountFailure(c)
  <2>1. Breaker!TypeOK'
    BY <1>2, ThresholdAssumption
    DEF Breaker!CountFailure, BreakerInv, Breaker!TypeOK, Breaker!Go, Breaker!Steps
  <2>2. failures' >= FailureThreshold => WillOpen(c)'
    BY <1>2, ThresholdAssumption
    DEF Breaker!CountFailure, BreakerInv, Breaker!TypeOK, WillOpen, Breaker!Go
  <2>3. QED
    BY <2>1, <2>2 DEF BreakerInv, OpenerExists
<1>3. CASE Breaker!JudgeFailure(c)
  <2>1. Breaker!TypeOK'
    BY <1>3
    DEF Breaker!JudgeFailure, BreakerInv, Breaker!TypeOK, Breaker!Go, Breaker!Steps,
        Breaker!breakerVars
  <2>2. UNCHANGED <<state, failures>>
    BY <1>3 DEF Breaker!JudgeFailure, Breaker!breakerVars
  <2>3. ASSUME state = "Closed", NEW d \in Callers, WillOpen(d) PROVE WillOpen(d)'
    BY <1>3, <2>3 DEF Breaker!JudgeFailure, BreakerInv, Breaker!TypeOK, WillOpen, Breaker!Go
  <2>4. QED
    BY <2>1, <2>2, <2>3 DEF BreakerInv, OpenerExists
<1>4. QED
  BY <1>1, <1>2, <1>3

\* A fresh breaker.
LEMMA BreakerInit == Breaker!Init => BreakerInv
<1> SUFFICES ASSUME Breaker!Init PROVE BreakerInv
  OBVIOUS
<1>1. 0 \in 0 .. FailureThreshold /\ 0 \in 0 .. SuccessThreshold /\ ~(0 >= FailureThreshold)
  BY ThresholdAssumption
<1>2. Breaker!TypeOK
  BY <1>1 DEF Breaker!Init, Breaker!TypeOK, Breaker!CircuitState, Breaker!Steps
<1>3. QED
  BY <1>1, <1>2 DEF Breaker!Init, BreakerInv, OpenerExists

\* Every step of the callers, of time, and of who overrides the breaker.
LEMMA BreakerStep == ASSUME BreakerInv, Breaker!Next \/ UNCHANGED Breaker!vars PROVE BreakerInv'
<1>1. CASE \E c \in Callers : Breaker!Begin(c) \/ Breaker!CallerStep(c)
  BY <1>1, LookPreserves, TransitionPreserves, SuccessPreserves, FailurePreserves
  DEF Breaker!CallerStep
<1>2. CASE Breaker!force_open
  BY <1>2, TransitionType
  DEF Breaker!force_open, BreakerInv, Breaker!TypeOK, OpenerExists, Breaker!CircuitState
<1>3. CASE Breaker!reset
  <2>1. 0 \in 0 .. FailureThreshold /\ 0 \in 0 .. SuccessThreshold /\ ~(0 >= FailureThreshold)
    BY ThresholdAssumption
  <2>2. Breaker!TypeOK'
    BY <1>3, <2>1 DEF Breaker!reset, BreakerInv, Breaker!TypeOK, Breaker!CircuitState
  <2>3. QED
    BY <1>3, <2>1, <2>2 DEF Breaker!reset, BreakerInv, OpenerExists
<1>4. CASE Breaker!Timeout \/ Breaker!Heal \/ UNCHANGED Breaker!vars
  BY <1>4
  DEF Breaker!Timeout, Breaker!Heal, Breaker!vars, Breaker!breakerVars, BreakerInv,
      Breaker!TypeOK, OpenerExists, WillOpen
<1>5. QED
  BY <1>1, <1>2, <1>3, <1>4 DEF Breaker!Next

-----------------------------------------------------------------------------
(* Message streams                                                         *)

\* s holds the messages of S in lo + 1 .. hi, in their order, and maybe frames
\* that are no message.
Holds(s, S, lo, hi) ==
  /\ \A i \in 1 .. Len(s) : s[i] \in 1 .. MaxItems => s[i] \in S /\ lo < s[i] /\ s[i] <= hi
  /\ \A i, j \in 1 .. Len(s) :
       i < j /\ s[i] \in 1 .. MaxItems /\ s[j] \in 1 .. MaxItems => s[i] < s[j]
  /\ \A k \in S : lo < k /\ k <= hi => \E i \in 1 .. Len(s) : s[i] = k

Frame == 0 .. MaxItems + 1
Byte == {"length", "rest"} \X Frame

\* The frames of the bytes that have not been parsed.
Decoded(bytes) == [i \in 1 .. Len(bytes) \div 2 |-> bytes[2 * i][2]]
Unparsed == Decoded(buffer \o body)

StreamTypes ==
  /\ side \in {"response", "request"}
  /\ made \in Seq(1 .. MaxItems + 2) /\ Len(made) <= MaxItems
  /\ \A k \in 1 .. Len(made) : made[k] \in {k, Stream!Error, Stream!Nested}
  /\ writer \in [at : {"next", "send", "done"}, frame : Frame]
  /\ chan \in [rx : BOOLEAN, items : Seq(Frame)]
  /\ body \in Seq(Byte) /\ link \in {"up", "reset", "lost"}
  /\ buffer \in Seq(Byte) /\ Len(buffer) <= 1
  /\ frames \in Seq(Frame) /\ reader \in {"reading", "failed", "done"}
  /\ queue \in Seq(Frame) /\ got \in Seq(Frame)
  /\ consumer \in {"open", "ended", "dropped"} /\ timedOut \in BOOLEAN

LinkInv ==
  /\ link = "up" <=> chan.rx
  /\ link = "up" => (Len(buffer) + Len(body)) % 2 = 0
  /\ side = "response" => queue = <<>> /\ (consumer # "open" => reader = "done")
  /\ side = "response" /\ reader = "done" => consumer # "open"
  /\ reader = "failed" => frames = <<>> /\ Stream!Error \in Stream!Items(got) /\ link # "up"

Pending(e) ==
  IF writer.at = "send" /\ writer.frame \in 1 .. MaxItems
    THEN /\ writer.frame \in Stream!Sent /\ e < writer.frame
         /\ \A k \in Stream!Sent : k <= e \/ k = writer.frame
    ELSE \A k \in Stream!Sent : k <= e

Stages(a, b, c, d, e) ==
  /\ a <= b /\ b <= c /\ c <= d /\ d <= e
  /\ Holds(got, Stream!Sent, 0, a)
  /\ consumer = "open" =>
       /\ Holds(queue, Stream!Sent, a, b)
       /\ reader # "done" =>
            /\ Holds(frames, Stream!Sent, b, c) /\ Holds(Unparsed, Stream!Sent, c, d)
            /\ link = "up" => Holds(chan.items, Stream!Sent, d, e) /\ Pending(e)

Ordered == \E a, b, c, d, e \in 0 .. Len(made) : Stages(a, b, c, d, e)

\* an error of a response is on its way
ErrorOnWay ==
  side = "response" /\ consumer = "open" /\ link = "up" /\ Stream!Sent # DOMAIN made =>
    \/ Stream!Error \in Stream!Items(got) \cup Stream!Items(frames) \cup Stream!Items(Unparsed) \cup Stream!Items(chan.items)
    \/ writer.at = "send" /\ writer.frame = Stream!Error

EndInv ==
  /\ side = "request" /\ reader = "done" /\ consumer = "open" =>
       \/ Stream!Error \in Stream!Items(got) \cup Stream!Items(queue)
       \/ writer.at = "done" /\ Stream!Sent \subseteq Stream!Items(got) \cup Stream!Items(queue)
  /\ consumer = "ended" /\ Stream!Error \notin Stream!Items(got) =>
       \/ timedOut
       \/ /\ writer.at = "done" /\ Stream!Sent \subseteq Stream!Items(got)
          /\ side = "response" => Stream!Sent = DOMAIN made

StreamInv == StreamTypes /\ LinkInv /\ Ordered /\ ErrorOnWay /\ EndInv
\* A list of stages can be cut anywhere.
LEMMA HoldsSplit ==
  ASSUME NEW S \in SUBSET (1 .. MaxItems), NEW lo \in Nat, NEW hi \in Nat, lo <= hi,
         NEW s \in Seq(Frame), NEW p \in Seq(Frame), NEW q \in Seq(Frame),
         Len(s) = Len(p) + Len(q),
         \A i \in 1 .. Len(p) : p[i] = s[i],
         \A i \in 1 .. Len(q) : q[i] = s[Len(p) + i],
         Holds(s, S, lo, hi)
  PROVE  \E mid \in lo .. hi : Holds(p, S, lo, mid) /\ Holds(q, S, mid, hi)
<1>0. PICK m \in Nat, n \in Nat : m = Len(p) /\ n = Len(q)
  BY LenProperties
<1>1. Len(s) = m + n
  BY <1>0
<1>2. \A i \in 1 .. m + n : s[i] \in 1 .. MaxItems => s[i] \in S /\ lo < s[i] /\ s[i] <= hi
  BY <1>1 DEF Holds
<1>3. \A i, j \in 1 .. m + n :
         i < j /\ s[i] \in 1 .. MaxItems /\ s[j] \in 1 .. MaxItems => s[i] < s[j]
  BY <1>1 DEF Holds
<1>4. \A k \in S : lo < k /\ k <= hi => \E i \in 1 .. m + n : s[i] = k
  BY <1>1 DEF Holds
<1>5. (\A i \in 1 .. m : p[i] = s[i]) /\ (\A i \in 1 .. n : q[i] = s[m + i])
  BY <1>0
<1> DEFINE Later == {k \in S : lo < k /\ k <= hi /\ \A i \in 1 .. m : p[i] # k}
<1>6. \A i \in 1 .. m + n : s[i] \in 1 .. MaxItems \/ s[i] \in {0, MaxItems + 1}
  <2>1. \A i \in 1 .. m + n : s[i] \in Frame
    BY <1>1, ElementOfSeq
  <2>2. \A x \in Frame : x \in 1 .. MaxItems \/ x \in {0, MaxItems + 1}
    BY ItemsAssumption DEF Frame
  <2>3. QED
    BY <2>1, <2>2
<1>7. CASE Later = {}
  <2>1. Holds(p, S, lo, hi)
    <3>1. \A i \in 1 .. m : p[i] \in 1 .. MaxItems => p[i] \in S /\ lo < p[i] /\ p[i] <= hi
      BY <1>2, <1>5
    <3>2. \A i, j \in 1 .. m :
             i < j /\ p[i] \in 1 .. MaxItems /\ p[j] \in 1 .. MaxItems => p[i] < p[j]
      BY <1>3, <1>5
    <3>3. \A k \in S : lo < k /\ k <= hi => \E i \in 1 .. m : p[i] = k
      BY <1>7
    <3>4. QED
      BY <1>0, <3>1, <3>2, <3>3 DEF Holds
  <2>2. ASSUME NEW i \in 1 .. n, q[i] \in 1 .. MaxItems PROVE FALSE
    <3>1. m + i \in 1 .. m + n /\ s[m + i] = q[i]
      BY <1>5
    <3>2. q[i] \in S /\ lo < q[i] /\ q[i] <= hi
      BY <1>2, <2>2, <3>1
    <3>3. PICK j \in 1 .. m : p[j] = q[i]
      BY <1>7, <3>2
    <3>4. s[j] = q[i] /\ j \in 1 .. m + n /\ j < m + i
      BY <1>5, <3>3
    <3>5. s[j] < s[m + i]
      BY <1>3, <2>2, <3>1, <3>4
    <3>6. QED
      BY <3>1, <3>4, <3>5, <2>2, ItemsAssumption
  <2>3. Holds(q, S, hi, hi)
    BY <1>0, <2>2 DEF Holds
  <2>4. hi \in lo .. hi
    OBVIOUS
  <2>5. QED
    BY <2>1, <2>3, <2>4
<1>8. CASE Later # {}
  <2>1. PICK k0 \in Later : \A k \in Later : ~(k < k0)
    <3>0. 1 .. MaxItems \subseteq Nat
      BY ItemsAssumption
    <3>1. Later \in SUBSET Nat
      BY <3>0
    <3> HIDE DEF Later
    <3>2. PICK k0 \in Later : \A k \in Later : <<k, k0>> \notin OpToRel(<, Nat)
      BY <1>8, <3>1, WFMin, NatLessThanWellFounded, Zenon
    <3>3. QED
      BY <3>1, <3>2 DEF OpToRel
  <2>1a. S \subseteq Nat
    BY ItemsAssumption
  <2>2. k0 \in S /\ k0 \in Nat /\ lo < k0 /\ k0 <= hi /\ \A i \in 1 .. m : p[i] # k0
    BY <2>1, <2>1a
  <2> DEFINE mid == k0 - 1
  <2>3. mid \in lo .. hi /\ mid \in Nat /\ \A k \in Nat : k <= mid <=> k < k0
    BY <2>2
  <2>4. \A k \in S : lo < k /\ k < k0 => \E i \in 1 .. m : p[i] = k
    <3> SUFFICES ASSUME NEW k \in S, lo < k, k < k0 PROVE \E i \in 1 .. m : p[i] = k
      OBVIOUS
    <3>1. k \notin Later
      BY <2>1
    <3>2. k <= hi
      BY <2>1a, <2>2
    <3>3. QED
      BY <3>1, <3>2
  <2>5. PICK j0 \in 1 .. m + n : s[j0] = k0
    BY <1>4, <2>2
  <2>6. m < j0
    BY <1>5, <2>2, <2>5
  <2>6a. k0 \in 1 .. MaxItems
    BY <2>2
  <2>7. ASSUME NEW i \in 1 .. m, p[i] \in 1 .. MaxItems PROVE p[i] \in S /\ lo < p[i] /\ p[i] <= mid
    <3>1. s[i] = p[i] /\ i \in 1 .. m + n /\ i < j0
      BY <1>5, <2>6
    <3>2. s[i] < s[j0]
      BY <1>3, <2>5, <2>6a, <2>7, <3>1
    <3>3. p[i] < k0
      BY <2>5, <3>1, <3>2
    <3>4. p[i] <= mid
      BY <3>3, <2>7, <2>2, ItemsAssumption
    <3>5. QED
      BY <1>2, <2>7, <3>1, <3>4
  <2>8. ASSUME NEW i \in 1 .. n, q[i] \in 1 .. MaxItems PROVE q[i] \in S /\ mid < q[i] /\ q[i] <= hi
    <3>1. m + i \in 1 .. m + n /\ s[m + i] = q[i]
      BY <1>5
    <3>2. q[i] \in S /\ lo < q[i] /\ q[i] <= hi
      BY <1>2, <2>8, <3>1
    <3>3. ASSUME q[i] < k0 PROVE FALSE
      <4>1. PICK j \in 1 .. m : p[j] = q[i]
        BY <2>4, <3>2, <3>3
      <4>2. s[j] = q[i] /\ j \in 1 .. m + n /\ j < m + i
        BY <1>5, <4>1
      <4>3. s[j] < s[m + i]
        BY <1>3, <2>8, <3>1, <4>2
      <4>4. QED
        BY <3>1, <4>2, <4>3, <2>8, ItemsAssumption
    <3>4. mid < q[i]
      BY <3>3, <2>8, <2>2, ItemsAssumption
    <3>5. QED
      BY <3>2, <3>4
  <2>9. Holds(p, S, lo, mid)
    <3>1. \A i, j \in 1 .. m :
             i < j /\ p[i] \in 1 .. MaxItems /\ p[j] \in 1 .. MaxItems => p[i] < p[j]
      BY <1>3, <1>5
    <3>2. \A k \in S : lo < k /\ k <= mid => \E i \in 1 .. m : p[i] = k
      BY <2>3, <2>4
    <3>3. QED
      BY <1>0, <2>7, <3>1, <3>2 DEF Holds
  <2>10. Holds(q, S, mid, hi)
    <3>1. \A i, j \in 1 .. n :
             i < j /\ q[i] \in 1 .. MaxItems /\ q[j] \in 1 .. MaxItems => q[i] < q[j]
      <4> SUFFICES ASSUME NEW i \in 1 .. n, NEW j \in 1 .. n, i < j,
                          q[i] \in 1 .. MaxItems, q[j] \in 1 .. MaxItems
                   PROVE  q[i] < q[j]
        OBVIOUS
      <4>1. m + i \in 1 .. m + n /\ m + j \in 1 .. m + n /\ m + i < m + j
        OBVIOUS
      <4>2. s[m + i] = q[i] /\ s[m + j] = q[j]
        BY <1>5
      <4>3. QED
        BY <1>3, <4>1, <4>2
    <3>2. ASSUME NEW k \in S, mid < k, k <= hi PROVE \E i \in 1 .. n : q[i] = k
      <4>1. lo < k /\ k0 <= k
        BY <2>1a, <2>2, <3>2
      <4>2. PICK j \in 1 .. m + n : s[j] = k
        BY <1>4, <3>2, <4>1
      <4>2a. k \in 1 .. MaxItems
        OBVIOUS
      <4>3. ASSUME j <= m PROVE FALSE
        <5>1. p[j] = k /\ j < j0 /\ j \in 1 .. m
          BY <1>5, <2>6, <4>2, <4>3
        <5>2. s[j] < s[j0]
          BY <1>3, <2>5, <2>6a, <4>2, <4>2a, <5>1
        <5>3. QED
          BY <2>5, <4>1, <4>2, <5>2, <2>2
      <4>4. j - m \in 1 .. n /\ m + (j - m) = j
        BY <4>2, <4>3
      <4>5. q[j - m] = k
        BY <1>5, <4>2, <4>4
      <4>6. QED
        BY <4>4, <4>5
    <3>3. QED
      BY <1>0, <2>8, <3>1, <3>2 DEF Holds
  <2>11. QED
    BY <2>3, <2>9, <2>10
<1>9. QED
  BY <1>7, <1>8

\* Two neighbouring stages make one.
LEMMA HoldsCat ==
  ASSUME NEW S \in SUBSET (1 .. MaxItems), NEW lo \in Nat, NEW mid \in Nat, NEW hi \in Nat,
         lo <= mid, mid <= hi,
         NEW p \in Seq(Frame), NEW q \in Seq(Frame),
         Holds(p, S, lo, mid), Holds(q, S, mid, hi)
  PROVE  Holds(p \o q, S, lo, hi)
<1>1. PICK s \in Seq(Frame) : s = p \o q
  BY ConcatProperties
<1>2. PICK m \in Nat, n \in Nat : m = Len(p) /\ n = Len(q)
  BY LenProperties
<1>3. Len(s) = m + n
  BY <1>1, <1>2
<1>4. \A i \in 1 .. m + n : IF i <= m THEN i \in 1 .. m /\ s[i] = p[i]
                           ELSE i - m \in 1 .. n /\ s[i] = q[i - m]
  BY <1>1, <1>2
<1>5. \A i \in 1 .. m : p[i] \in 1 .. MaxItems => p[i] \in S /\ lo < p[i] /\ p[i] <= mid
  BY <1>2 DEF Holds
<1>6. \A i \in 1 .. n : q[i] \in 1 .. MaxItems => q[i] \in S /\ mid < q[i] /\ q[i] <= hi
  BY <1>2 DEF Holds
<1>7. 1 .. MaxItems \subseteq Nat
  BY ItemsAssumption
<1>8. \A i \in 1 .. m + n : s[i] \in 1 .. MaxItems => s[i] \in S /\ lo < s[i] /\ s[i] <= hi
  BY <1>4, <1>5, <1>6, <1>7
<1>9. \A i, j \in 1 .. m + n :
         i < j /\ s[i] \in 1 .. MaxItems /\ s[j] \in 1 .. MaxItems => s[i] < s[j]
  <2> SUFFICES ASSUME NEW i \in 1 .. m + n, NEW j \in 1 .. m + n, i < j,
                      s[i] \in 1 .. MaxItems, s[j] \in 1 .. MaxItems
               PROVE  s[i] < s[j]
    OBVIOUS
  <2>1. CASE j <= m
    <3>1. i \in 1 .. m /\ j \in 1 .. m /\ s[i] = p[i] /\ s[j] = p[j]
      BY <1>4, <2>1
    <3>2. QED
      BY <3>1, <1>2 DEF Holds
  <2>2. CASE i <= m /\ ~(j <= m)
    <3>1. s[i] <= mid
      BY <1>4, <1>5, <2>2
    <3>2. mid < s[j]
      BY <1>4, <1>6, <2>2
    <3>3. QED
      BY <1>7, <3>1, <3>2
  <2>3. CASE ~(i <= m)
    <3>1. i - m \in 1 .. n /\ j - m \in 1 .. n /\ i - m < j - m /\ s[i] = q[i - m] /\ s[j] = q[j - m]
      BY <1>4, <2>3
    <3>2. QED
      BY <3>1, <1>2 DEF Holds
  <2>4. QED
    BY <2>1, <2>2, <2>3
<1>10. ASSUME NEW k \in S, lo < k, k <= hi PROVE \E i \in 1 .. m + n : s[i] = k
  <2>1. CASE k <= mid
    <3>1. PICK i \in 1 .. m : p[i] = k
      BY <1>2, <1>10, <2>1 DEF Holds
    <3>2. i \in 1 .. m + n /\ s[i] = k
      BY <1>4, <3>1
    <3>3. QED
      BY <3>2
  <2>2. CASE ~(k <= mid)
    <3>0. mid < k
      BY <1>7, <2>2
    <3>1. PICK i \in 1 .. n : q[i] = k
      BY <1>2, <1>10, <3>0 DEF Holds
    <3>2. m + i \in 1 .. m + n /\ ~(m + i <= m) /\ (m + i) - m = i
      OBVIOUS
    <3>3. s[m + i] = k
      BY <1>4, <3>1, <3>2
    <3>4. QED
      BY <3>2, <3>3
  <2>3. QED
    BY <2>1, <2>2
<1>11. Holds(s, S, lo, hi)
  BY <1>3, <1>8, <1>9, <1>10 DEF Holds
<1>12. QED
  BY <1>1, <1>11

\* One message, and frames that are none.
LEMMA HoldsOne ==
  ASSUME NEW S \in SUBSET (1 .. MaxItems), NEW lo \in Nat, NEW x \in Frame
  PROVE  /\ x \in S /\ lo < x /\ (\A k \in S : k <= lo \/ k = x \/ x < k)
             => Holds(<<x>>, S, lo, x)
         /\ x \notin 1 .. MaxItems => Holds(<<x>>, S, lo, lo)
         /\ Holds(<<>>, S, lo, lo)
<1>1. 1 .. MaxItems \subseteq Nat
  BY ItemsAssumption
<1>2. PICK s \in Seq(Frame) : s = <<x>> /\ Len(s) = 1 /\ s[1] = x
  <2>1. <<x>> \in Seq(Frame) /\ Len(<<x>>) = 1 /\ <<x>>[1] = x
    OBVIOUS
  <2>2. QED
    BY <2>1, Zenon
<1>3. ASSUME x \in S, lo < x, \A k \in S : k <= lo \/ k = x \/ x < k PROVE Holds(s, S, lo, x)
  BY <1>1, <1>2, <1>3 DEF Holds
<1>4. ASSUME x \notin 1 .. MaxItems PROVE Holds(s, S, lo, lo)
  BY <1>1, <1>2, <1>4 DEF Holds
<1>5. Holds(<<>>, S, lo, lo)
  BY <1>1 DEF Holds
<1>6. QED
  BY <1>2, <1>3, <1>4, <1>5

\* The head of a stage goes to the end of the one before, or nowhere if it is
\* no message.
LEMMA HoldsMove ==
  ASSUME NEW S \in SUBSET (1 .. MaxItems), NEW lo \in Nat, NEW mid \in Nat, NEW hi \in Nat,
         lo <= mid, mid <= hi,
         NEW p \in Seq(Frame), NEW q \in Seq(Frame), q # <<>>,
         Holds(p, S, lo, mid), Holds(q, S, mid, hi)
  PROVE  \E new \in mid .. hi :
           /\ Holds(Append(p, Head(q)), S, lo, new) /\ Holds(Tail(q), S, new, hi)
           /\ Head(q) \notin 1 .. MaxItems => Holds(p, S, lo, new)
<1>1. PICK x \in Frame : x = Head(q)
  BY HeadTailProperties
<1>2. PICK t \in Seq(Frame) : t = Tail(q)
  BY HeadTailProperties
<1>3. PICK one \in Seq(Frame) : one = <<x>> /\ Len(one) = 1 /\ one[1] = x
  <2>1. <<x>> \in Seq(Frame) /\ Len(<<x>>) = 1 /\ <<x>>[1] = x
    OBVIOUS
  <2>2. QED
    BY <2>1, Zenon
<1>4. Len(q) = Len(one) + Len(t) /\ q[1] = x /\ \A i \in 1 .. Len(t) : t[i] = q[1 + i]
  <2>1. Len(t) = Len(q) - 1 /\ Len(q) \in Nat
    BY <1>2, HeadTailProperties, LenProperties
  <2>2. q[1] = x
    BY <1>1
  <2>3. \A i \in 1 .. Len(t) : t[i] = q[1 + i]
    BY <1>2, <2>1, HeadTailProperties
  <2>4. QED
    BY <1>3, <2>1, <2>2, <2>3
<1>5. PICK new \in mid .. hi : Holds(one, S, mid, new) /\ Holds(t, S, new, hi)
  <2>1. \A i \in 1 .. Len(one) : one[i] = q[i]
    BY <1>3, <1>4
  <2>2. \A i \in 1 .. Len(t) : t[i] = q[Len(one) + i]
    BY <1>3, <1>4
  <2>3. QED
    BY <1>4, <2>1, <2>2, HoldsSplit
<1>6. Holds(p \o one, S, lo, new)
  BY <1>5, HoldsCat
<1>7. p \o one = Append(p, x)
  BY <1>3
<1>8. ASSUME x \notin 1 .. MaxItems PROVE Holds(p, S, lo, new)
  <2>1. \A k \in S : ~(mid < k /\ k <= new)
    <3> SUFFICES ASSUME NEW k \in S, mid < k, k <= new PROVE FALSE
      OBVIOUS
    <3>1. PICK i \in 1 .. Len(one) : one[i] = k
      BY <1>5 DEF Holds
    <3>2. QED
      BY <1>3, <1>8, <3>1
  <2>2. 1 .. MaxItems \subseteq Nat
    BY ItemsAssumption
  <2>3. \A k \in S : lo < k /\ k <= new => k <= mid
    BY <2>1, <2>2
  <2>4. \A k \in 1 .. MaxItems : k <= mid => k <= new
    BY <2>2
  <2>5. QED
    BY <2>3, <2>4 DEF Holds
<1>9. QED
  BY <1>1, <1>2, <1>5, <1>6, <1>7, <1>8

\* A new message is after all of them.
LEMMA HoldsMore ==
  ASSUME NEW S \in SUBSET (1 .. MaxItems), NEW T \in SUBSET (1 .. MaxItems),
         NEW lo \in Nat, NEW hi \in Nat, NEW s \in Seq(Frame),
         S \subseteq T, \A k \in T : k \in S \/ hi < k,
         Holds(s, S, lo, hi)
  PROVE  Holds(s, T, lo, hi)
<1>1. 1 .. MaxItems \subseteq Nat
  BY ItemsAssumption
<1>2. QED
  BY <1>1 DEF Holds

\* What a stage that begins at 0 says of the order in it.
LEMMA HoldsOrder ==
  ASSUME NEW S \in SUBSET (1 .. MaxItems), NEW hi \in Nat, NEW s \in Seq(Frame),
         Holds(s, S, 0, hi),
         NEW i \in 1 .. Len(s), s[i] \in 1 .. MaxItems
  PROVE  s[i] \in S /\ \A k \in S : k < s[i] <=> \E j \in 1 .. i - 1 : s[j] = k
<1>1. 1 .. MaxItems \subseteq Nat
  BY ItemsAssumption
<1>2. s[i] \in S /\ s[i] <= hi
  BY DEF Holds
<1>3. ASSUME NEW k \in S, k < s[i] PROVE \E j \in 1 .. i - 1 : s[j] = k
  <2>1. 0 < k /\ k <= hi
    BY <1>1, <1>2, <1>3
  <2>2. PICK j \in 1 .. Len(s) : s[j] = k
    BY <2>1 DEF Holds
  <2>3. ~(i < j)
    <3>1. i < j => s[i] < s[j]
      BY <2>2 DEF Holds
    <3>2. QED
      BY <1>1, <1>3, <2>2, <3>1
  <2>4. j # i
    BY <1>1, <1>3, <2>2
  <2>5. QED
    BY <2>2, <2>3, <2>4
<1>4. ASSUME NEW k \in S, NEW j \in 1 .. i - 1, s[j] = k PROVE k < s[i]
  BY <1>4 DEF Holds
<1>5. QED
  BY <1>2, <1>3, <1>4

\* The first n elements, and the others.
LEMMA CutSeq ==
  ASSUME NEW T, NEW s \in Seq(T), NEW n \in Nat, n <= Len(s)
  PROVE  /\ SubSeq(s, 1, n) \in Seq(T) /\ Len(SubSeq(s, 1, n)) = n
         /\ \A i \in 1 .. n : SubSeq(s, 1, n)[i] = s[i]
         /\ SubSeq(s, n + 1, Len(s)) \in Seq(T) /\ Len(SubSeq(s, n + 1, Len(s))) = Len(s) - n
         /\ \A i \in 1 .. Len(s) - n : SubSeq(s, n + 1, Len(s))[i] = s[n + i]
<1>1. PICK m \in Nat : m = Len(s)
  BY LenProperties
<1>2. \A i \in 1 .. m : s[i] \in T
  BY <1>1, ElementOfSeq
<1>3. (\A i \in 1 .. n : s[i] \in T) /\ (\A i \in n + 1 .. m : s[i] \in T)
  BY <1>1, <1>2
<1>4. 1 \in Int /\ n \in Int /\ m \in Int /\ n + 1 \in Int /\ n - 1 + 1 = n /\ m - (n + 1) + 1 = m - n
  OBVIOUS
<1>5. /\ SubSeq(s, 1, n) \in Seq(T) /\ Len(SubSeq(s, 1, n)) = IF 1 <= n THEN n - 1 + 1 ELSE 0
      /\ \A i \in 1 .. n - 1 + 1 : SubSeq(s, 1, n)[i] = s[1 + i - 1]
  BY <1>3, <1>4, SubSeqProperties
<1>6. /\ SubSeq(s, n + 1, m) \in Seq(T)
      /\ Len(SubSeq(s, n + 1, m)) = IF n + 1 <= m THEN m - (n + 1) + 1 ELSE 0
      /\ \A i \in 1 .. m - (n + 1) + 1 : SubSeq(s, n + 1, m)[i] = s[n + 1 + i - 1]
  BY <1>3, <1>4, SubSeqProperties
<1>7. Len(SubSeq(s, 1, n)) = n /\ \A i \in 1 .. n : SubSeq(s, 1, n)[i] = s[i]
  BY <1>4, <1>5
<1>8. Len(SubSeq(s, n + 1, m)) = m - n /\ \A i \in 1 .. m - n : SubSeq(s, n + 1, m)[i] = s[n + i]
  BY <1>1, <1>4, <1>6
<1>9. QED
  BY <1>1, <1>5, <1>6, <1>7, <1>8

\* Decoded: a frame for every two bytes.
LEMMA DecodedType ==
  ASSUME NEW bytes \in Seq(Byte)
  PROVE  /\ Decoded(bytes) \in Seq(Frame) /\ Len(Decoded(bytes)) = Len(bytes) \div 2
         /\ Len(bytes) \div 2 \in Nat
         /\ \A i \in 1 .. Len(bytes) \div 2 : Decoded(bytes)[i] = bytes[2 * i][2]
<1>1. PICK n \in Nat : n = Len(bytes)
  BY LenProperties
<1>2. n \div 2 \in Nat /\ \A i \in 1 .. n \div 2 : 2 * i \in 1 .. n
  OBVIOUS
<1>3. \A j \in 1 .. n : bytes[j][2] \in Frame
  BY <1>1, ElementOfSeq DEF Byte
<1>4. [i \in 1 .. n \div 2 |-> bytes[2 * i][2]] \in [1 .. n \div 2 -> Frame]
  BY <1>2, <1>3
<1>5. Decoded(bytes) \in Seq(Frame) /\ Len(Decoded(bytes)) = n \div 2
  BY <1>1, <1>2, <1>4 DEF Decoded
<1>6. \A i \in 1 .. n \div 2 : Decoded(bytes)[i] = bytes[2 * i][2]
  BY <1>1 DEF Decoded
<1>7. QED
  BY <1>1, <1>2, <1>5, <1>6

\* The same with the number of frames given a name.
LEMMA DecodedAs ==
  ASSUME NEW bytes \in Seq(Byte), NEW k \in Nat, Len(bytes) \div 2 = k
  PROVE  \E d \in Seq(Frame) : d = Decoded(bytes) /\ Len(d) = k /\ \A i \in 1 .. k : d[i] = bytes[2 * i][2]
<1>1. PICK d \in Seq(Frame) : d = Decoded(bytes)
  BY DecodedType
<1>2. Len(d) = k /\ \A i \in 1 .. k : d[i] = bytes[2 * i][2]
  BY <1>1, DecodedType
<1>3. QED
  BY <1>1, <1>2

\* Transmit: a whole frame behind whole frames.
LEMMA DecodedSend ==
  ASSUME NEW bytes \in Seq(Byte), Len(bytes) % 2 = 0, NEW f \in Frame
  PROVE  /\ bytes \o Stream!to_binary(f) \in Seq(Byte) /\ Len(bytes \o Stream!to_binary(f)) = Len(bytes) + 2
         /\ Decoded(bytes \o Stream!to_binary(f)) = Append(Decoded(bytes), f)
<1>1. PICK n \in Nat : n = Len(bytes)
  BY LenProperties
<1>2. PICK two \in Seq(Byte) : two = Stream!to_binary(f) /\ Len(two) = 2 /\ two[2][2] = f
  <2>1. Stream!to_binary(f) \in Seq(Byte) /\ Len(Stream!to_binary(f)) = 2 /\ Stream!to_binary(f)[2][2] = f
    BY DEF Stream!to_binary, Byte
  <2>2. QED
    BY <2>1, Zenon
<1>3. PICK all \in Seq(Byte) : all = bytes \o two
  BY ConcatProperties
<1>4. Len(all) = n + 2 /\ all[n + 2] = two[2] /\ \A j \in 1 .. n : all[j] = bytes[j]
  <2>1. Len(all) = Len(bytes) + Len(two)
    BY <1>3, ConcatProperties
  <2>2. \A i \in 1 .. Len(bytes) + Len(two) :
          all[i] = IF i <= Len(bytes) THEN bytes[i] ELSE two[i - Len(bytes)]
    BY <1>3, ConcatProperties
  <2>3. \A i \in 1 .. n + 2 : all[i] = IF i <= n THEN bytes[i] ELSE two[i - n]
    BY <1>1, <1>2, <2>2
  <2>4. n + 2 \in 1 .. n + 2 /\ ~(n + 2 <= n) /\ (n + 2) - n = 2 /\ 1 .. n \subseteq 1 .. n + 2
    OBVIOUS
  <2>5. QED
    BY <1>1, <1>2, <2>1, <2>3, <2>4
<1>5. (n + 2) \div 2 = n \div 2 + 1 /\ 2 * (n \div 2 + 1) = n + 2 /\ n \div 2 \in Nat
  BY <1>1
<1>6. PICK d \in Seq(Frame) : d = Decoded(bytes) /\ Len(d) = n \div 2
                              /\ \A i \in 1 .. n \div 2 : d[i] = bytes[2 * i][2]
  BY <1>1, DecodedType
<1>7. PICK g \in Seq(Frame) : g = Decoded(all) /\ Len(g) = n \div 2 + 1
                              /\ \A i \in 1 .. n \div 2 + 1 : g[i] = all[2 * i][2]
  <2>1. Len(all) \div 2 = n \div 2 + 1
    BY <1>4, <1>5
  <2>2. QED
    BY <2>1, DecodedType
<1>8. PICK h \in Seq(Frame) : h = Append(d, f) /\ Len(h) = n \div 2 + 1 /\ h[n \div 2 + 1] = f
                              /\ \A i \in 1 .. n \div 2 : h[i] = d[i]
  <2>1. /\ Append(d, f) \in Seq(Frame) /\ Len(Append(d, f)) = Len(d) + 1
        /\ Append(d, f)[Len(d) + 1] = f /\ \A i \in 1 .. Len(d) : Append(d, f)[i] = d[i]
    BY AppendProperties
  <2>2. QED
    BY <1>6, <2>1
<1>9. \A i \in 1 .. n \div 2 + 1 : g[i] = h[i]
  <2> SUFFICES ASSUME NEW i \in 1 .. n \div 2 + 1 PROVE g[i] = h[i]
    OBVIOUS
  <2>1. CASE i = n \div 2 + 1
    <3>1. g[i] = all[2 * i][2] /\ 2 * i = n + 2
      BY <1>5, <1>7, <2>1
    <3>2. g[i] = two[2][2]
      BY <1>4, <3>1
    <3>3. QED
      BY <1>2, <1>8, <2>1, <3>2
  <2>2. CASE i # n \div 2 + 1
    <3>1. i \in 1 .. n \div 2 /\ 2 * i \in 1 .. n
      BY <1>5, <2>2
    <3>2. g[i] = all[2 * i][2] /\ all[2 * i] = bytes[2 * i]
      BY <1>4, <1>7, <3>1
    <3>3. h[i] = d[i] /\ d[i] = bytes[2 * i][2]
      BY <1>6, <1>8, <3>1
    <3>4. QED
      BY <3>2, <3>3
  <2>3. QED
    BY <2>1, <2>2
<1>10. g = h
  BY <1>7, <1>8, <1>9, SeqEqual
<1>11. QED
  BY <1>1, <1>2, <1>3, <1>4, <1>6, <1>7, <1>8, <1>10

\* What is left of the body after a cut holds the first of its frames.
LEMMA DecodedCut ==
  ASSUME NEW old \in Seq(Byte), NEW bytes \in Seq(Byte), NEW n \in 0 .. Len(bytes)
  PROVE  LET short == SubSeq(bytes, 1, n)
             d == Decoded(old \o bytes)
             e == Decoded(old \o short)
         IN  /\ short \in Seq(Byte)
             /\ Len(e) <= Len(d) /\ \A i \in 1 .. Len(e) : e[i] = d[i]
<1>1. PICK m \in Nat, w \in Nat : m = Len(bytes) /\ w = Len(old)
  BY LenProperties
<1>2. PICK short \in Seq(Byte) : short = SubSeq(bytes, 1, n) /\ Len(short) = n
                                 /\ \A i \in 1 .. n : short[i] = bytes[i]
  <2>1. n \in Nat /\ n <= Len(bytes)
    BY <1>1
  <2>2. /\ SubSeq(bytes, 1, n) \in Seq(Byte) /\ Len(SubSeq(bytes, 1, n)) = n
        /\ \A i \in 1 .. n : SubSeq(bytes, 1, n)[i] = bytes[i]
    BY <2>1, CutSeq
  <2>3. QED
    BY <2>2, Zenon
<1>3. PICK f \in Seq(Byte) : f = old \o bytes
  BY ConcatProperties
<1>4. Len(f) = w + m /\ \A j \in 1 .. w + m : f[j] = IF j <= w THEN old[j] ELSE bytes[j - w]
  BY <1>1, <1>3
<1>5. PICK g \in Seq(Byte) : g = old \o short
  BY ConcatProperties
<1>6. Len(g) = w + n /\ \A j \in 1 .. w + n : g[j] = IF j <= w THEN old[j] ELSE short[j - w]
  BY <1>1, <1>2, <1>5
<1>7. \A j \in 1 .. w + n : j \in 1 .. w + m /\ f[j] = g[j]
  <2> SUFFICES ASSUME NEW j \in 1 .. w + n PROVE j \in 1 .. w + m /\ f[j] = g[j]
    OBVIOUS
  <2>1. n \in Nat /\ n <= m
    BY <1>1
  <2>2. j \in 1 .. w + m
    BY <2>1
  <2>3. CASE j <= w
    BY <1>4, <1>6, <2>2, <2>3
  <2>4. CASE ~(j <= w)
    <3>1. j - w \in 1 .. n
      BY <2>1, <2>4
    <3>2. QED
      BY <1>2, <1>4, <1>6, <2>2, <2>4, <3>1
  <2>5. QED
    BY <2>2, <2>3, <2>4
<1>8. PICK d \in Seq(Frame) : d = Decoded(f) /\ Len(d) = (w + m) \div 2
                              /\ \A i \in 1 .. (w + m) \div 2 : d[i] = f[2 * i][2]
  BY <1>4, DecodedType
<1>9. PICK e \in Seq(Frame) : e = Decoded(g) /\ Len(e) = (w + n) \div 2
                              /\ \A i \in 1 .. (w + n) \div 2 : e[i] = g[2 * i][2]
  BY <1>6, DecodedType
<1>10. (w + n) \div 2 <= (w + m) \div 2 /\ (w + n) \div 2 \in Nat
       /\ \A i \in 1 .. (w + n) \div 2 : 2 * i \in 1 .. w + n /\ i \in 1 .. (w + m) \div 2
  BY <1>1
<1>11. Len(e) <= Len(d) /\ \A i \in 1 .. Len(e) : e[i] = d[i]
  <2>1. ASSUME NEW i \in 1 .. (w + n) \div 2 PROVE e[i] = d[i]
    <3>1. 2 * i \in 1 .. w + n /\ i \in 1 .. (w + m) \div 2
      BY <1>10
    <3>2. f[2 * i] = g[2 * i]
      BY <1>7, <3>1
    <3>3. QED
      BY <1>8, <1>9, <3>1, <3>2
  <2>2. QED
    BY <1>8, <1>9, <1>10, <2>1
<1>12. QED
  BY <1>2, <1>3, <1>5, <1>8, <1>9, <1>11

\* parse_all of a chunk: the frames it completes, then those of the bytes that
\* are left, are the frames of all the bytes.
LEMMA ParseChunk ==
  ASSUME NEW old \in Seq(Byte), NEW bytes \in Seq(Byte), NEW n \in 1 .. Len(bytes)
  PROVE  LET parsed == Stream!parse_all(old \o SubSeq(bytes, 1, n))
             rest == SubSeq(bytes, n + 1, Len(bytes))
             d == Decoded(old \o bytes)
             e == Decoded(parsed.left \o rest)
         IN  /\ parsed.left \in Seq(Byte) /\ Len(parsed.left) <= 1
             /\ parsed.frames \in Seq(Frame) /\ rest \in Seq(Byte)
             /\ (Len(parsed.left) + Len(rest)) % 2 = (Len(old) + Len(bytes)) % 2
             /\ d \in Seq(Frame) /\ e \in Seq(Frame)
             /\ Len(d) = Len(parsed.frames) + Len(e)
             /\ \A i \in 1 .. Len(parsed.frames) : parsed.frames[i] = d[i]
             /\ \A i \in 1 .. Len(e) : e[i] = d[Len(parsed.frames) + i]
<1>1. PICK m \in Nat, w \in Nat : m = Len(bytes) /\ w = Len(old)
  BY LenProperties
<1>1a. n \in Nat /\ n >= 1 /\ n <= m
  BY <1>1
<1>2. PICK short \in Seq(Byte) : short = SubSeq(bytes, 1, n) /\ Len(short) = n
                                 /\ \A i \in 1 .. n : short[i] = bytes[i]
  <2>1. n \in Nat /\ n <= Len(bytes)
    BY <1>1
  <2>2. /\ SubSeq(bytes, 1, n) \in Seq(Byte) /\ Len(SubSeq(bytes, 1, n)) = n
        /\ \A i \in 1 .. n : SubSeq(bytes, 1, n)[i] = bytes[i]
    BY <2>1, CutSeq
  <2>3. QED
    BY <2>2, Zenon
<1>3. PICK rest \in Seq(Byte) : rest = SubSeq(bytes, n + 1, Len(bytes)) /\ Len(rest) = m - n
                                /\ \A i \in 1 .. m - n : rest[i] = bytes[n + i]
  <2>1. /\ SubSeq(bytes, n + 1, Len(bytes)) \in Seq(Byte)
        /\ Len(SubSeq(bytes, n + 1, Len(bytes))) = Len(bytes) - n
        /\ \A i \in 1 .. Len(bytes) - n : SubSeq(bytes, n + 1, Len(bytes))[i] = bytes[n + i]
    BY <1>1, <1>1a, CutSeq
  <2>2. QED
    BY <1>1, <2>1, Zenon
<1>4. PICK f \in Seq(Byte) : f = old \o bytes
  BY ConcatProperties
<1>5. Len(f) = w + m /\ \A j \in 1 .. w + m : f[j] = IF j <= w THEN old[j] ELSE bytes[j - w]
  BY <1>1, <1>4
<1>6. PICK g \in Seq(Byte) : g = old \o short
  BY ConcatProperties
<1>7. Len(g) = w + n /\ \A j \in 1 .. w + n : g[j] = IF j <= w THEN old[j] ELSE short[j - w]
  BY <1>1, <1>2, <1>6
<1>8. \A j \in 1 .. w + n : j \in 1 .. w + m /\ f[j] = g[j]
  <2> SUFFICES ASSUME NEW j \in 1 .. w + n PROVE j \in 1 .. w + m /\ f[j] = g[j]
    OBVIOUS
  <2>2. j \in 1 .. w + m
    BY <1>1a
  <2>3. CASE j <= w
    BY <1>5, <1>7, <2>2, <2>3
  <2>4. CASE ~(j <= w)
    <3>1. j - w \in 1 .. n
      BY <1>1a, <2>4
    <3>2. QED
      BY <1>2, <1>5, <1>7, <2>2, <2>4, <3>1
  <2>5. QED
    BY <2>2, <2>3, <2>4
<1>9. PICK p \in Nat : p = (w + n) \div 2 /\ (2 * p = w + n \/ 2 * p + 1 = w + n) /\ ((w + n) % 2 = 0 <=> 2 * p = w + n)
  BY <1>1a
<1>10. PICK left \in Seq(Byte) : left = Stream!parse_all(g).left
                                 /\ (2 * p = w + n => Len(left) = 0)
                                 /\ (2 * p + 1 = w + n => Len(left) = 1 /\ left[1] = g[w + n])
  <2>1. w + n \in 1 .. Len(g) /\ g[w + n] \in Byte
    BY <1>1a, <1>7, ElementOfSeq
  <2>2. CASE (w + n) % 2 = 0
    <3>1. Stream!parse_all(g).left = <<>>
      BY <1>7, <2>2 DEF Stream!parse_all
    <3>2. 2 * p + 1 # w + n
      BY <1>9, <2>2
    <3>3. <<>> \in Seq(Byte) /\ Len(<<>>) = 0
      OBVIOUS
    <3>4. QED
      BY <3>1, <3>2, <3>3
  <2>3. CASE (w + n) % 2 # 0
    <3>1. Stream!parse_all(g).left = <<g[w + n]>>
      BY <1>7, <2>3 DEF Stream!parse_all
    <3>2. 2 * p # w + n
      BY <1>9, <2>3
    <3>3. <<g[w + n]>> \in Seq(Byte) /\ Len(<<g[w + n]>>) = 1 /\ <<g[w + n]>>[1] = g[w + n]
      BY <2>1
    <3>4. QED
      BY <3>1, <3>2, <3>3
  <2>4. QED
    BY <2>2, <2>3
<1>11. PICK fr \in Seq(Frame) : fr = Stream!parse_all(g).frames /\ Len(fr) = p
                                /\ \A i \in 1 .. p : fr[i] = g[2 * i][2]
  <2>1. Stream!parse_all(g).frames = Decoded(g)
    BY DEF Stream!parse_all, Decoded
  <2>2. QED
    <3>1. Len(g) \div 2 = p
      BY <1>7, <1>9
    <3>2. \E y \in Seq(Frame) : y = Decoded(g) /\ Len(y) = p /\ \A i \in 1 .. p : y[i] = g[2 * i][2]
      BY <3>1, DecodedAs
    <3>3. QED
      BY <2>1, <3>2
<1>12. Len(left) <= 1 /\ Len(left) \in Nat /\ Len(left) = w + n - 2 * p
  <2>1. PICK l \in Nat : l = Len(left)
    BY LenProperties
  <2>2. (2 * p = w + n => l = 0) /\ (2 * p + 1 = w + n => l = 1)
    BY <1>10, <2>1
  <2>3. l <= 1 /\ l = w + n - 2 * p
    BY <1>1a, <1>9, <2>2
  <2>4. QED
    BY <2>1, <2>3
<1>13. PICK h \in Seq(Byte) : h = left \o rest
  BY ConcatProperties
<1>14. Len(h) = w + m - 2 * p
       /\ \A j \in 1 .. w + m - 2 * p : h[j] = IF j <= Len(left) THEN left[j] ELSE rest[j - Len(left)]
  <2>1. PICK l \in Nat : l = Len(left) /\ l = w + n - 2 * p
    BY <1>12
  <2>2. Len(h) = l + (m - n)
    <3>1. Len(h) = Len(left) + Len(rest)
      BY <1>13, ConcatProperties
    <3>2. QED
      BY <1>3, <2>1, <3>1
  <2>3. \A j \in 1 .. l + (m - n) : h[j] = IF j <= l THEN left[j] ELSE rest[j - l]
    <3>1. \A j \in 1 .. Len(left) + Len(rest) :
            h[j] = IF j <= Len(left) THEN left[j] ELSE rest[j - Len(left)]
      BY <1>13, ConcatProperties
    <3>2. QED
      BY <1>3, <2>1, <3>1, Zenon
  <2>4. l + (m - n) = w + m - 2 * p
    BY <1>1a, <2>1
  <2>5. Len(h) = w + m - 2 * p
    BY <2>2, <2>4
  <2>6. \A j \in 1 .. w + m - 2 * p : h[j] = IF j <= l THEN left[j] ELSE rest[j - l]
    BY <2>3, <2>4
  <2>7. QED
    BY <2>1, <2>5, <2>6, Zenon
<1>15. \A j \in 1 .. w + m - 2 * p : h[j] = f[2 * p + j]
  <2> SUFFICES ASSUME NEW j \in 1 .. w + m - 2 * p PROVE h[j] = f[2 * p + j]
    OBVIOUS
  <2>1. 2 * p + j \in 1 .. w + m
    BY <1>1a, <1>9
  <2>2. CASE j <= Len(left)
    <3>1. j = 1 /\ 2 * p + 1 = w + n
      <4>1. PICK l \in Nat : l = Len(left) /\ l <= 1 /\ l = w + n - 2 * p
        BY <1>12
      <4>2. j <= l
        BY <2>2, <4>1
      <4>3. QED
        BY <1>1a, <1>9, <4>1, <4>2
    <3>2. h[j] = left[j] /\ left[1] = g[w + n]
      BY <1>10, <1>14, <2>2, <3>1
    <3>3. f[w + n] = g[w + n]
      <4>1. PICK x \in 1 .. w + n : x = w + n
        BY <1>1a
      <4>2. f[x] = g[x]
        BY <1>8
      <4>3. QED
        BY <4>1, <4>2
    <3>4. QED
      BY <3>1, <3>2, <3>3
  <2>3. CASE ~(j <= Len(left))
    <3>1. PICK l \in Nat : l = Len(left) /\ l = w + n - 2 * p
      BY <1>12
    <3>2. j - l \in 1 .. m - n /\ n + (j - l) = 2 * p + j - w /\ ~(2 * p + j <= w)
      BY <1>1a, <1>9, <2>3, <3>1
    <3>3. h[j] = rest[j - l]
      BY <1>14, <2>3, <3>1
    <3>4. rest[j - l] = bytes[n + (j - l)]
      BY <1>3, <3>2
    <3>5. h[j] = bytes[2 * p + j - w]
      BY <3>2, <3>3, <3>4
    <3>6. f[2 * p + j] = bytes[2 * p + j - w]
      BY <1>5, <2>1, <3>2
    <3>7. QED
      BY <3>5, <3>6
  <2>4. QED
    BY <2>2, <2>3
<1>16. PICK d \in Seq(Frame) : d = Decoded(f) /\ Len(d) = (w + m) \div 2
                              /\ \A i \in 1 .. (w + m) \div 2 : d[i] = f[2 * i][2]
  <2>1. PICK k \in Nat : k = (w + m) \div 2 /\ Len(f) \div 2 = k
    <3>1. (w + m) \div 2 \in Nat
      BY <1>1a
    <3>2. Len(f) = w + m
      BY <1>5
    <3>3. QED
      BY <3>1, <3>2
  <2>2. \E y \in Seq(Frame) : y = Decoded(f) /\ Len(y) = k /\ \A i \in 1 .. k : y[i] = f[2 * i][2]
    BY <2>1, DecodedAs
  <2>3. QED
    BY <2>1, <2>2
<1>17. PICK e \in Seq(Frame) : e = Decoded(h) /\ Len(e) = (w + m - 2 * p) \div 2
                              /\ \A i \in 1 .. (w + m - 2 * p) \div 2 : e[i] = h[2 * i][2]
  <2>1. PICK k \in Nat : k = (w + m - 2 * p) \div 2 /\ Len(h) \div 2 = k
    <3>1. (w + m - 2 * p) \div 2 \in Nat
      BY <1>1a, <1>9
    <3>2. Len(h) = w + m - 2 * p
      BY <1>14
    <3>3. QED
      BY <3>1, <3>2
  <2>2. \E y \in Seq(Frame) : y = Decoded(h) /\ Len(y) = k /\ \A i \in 1 .. k : y[i] = h[2 * i][2]
    BY <2>1, DecodedAs
  <2>3. QED
    BY <2>1, <2>2
<1>18. (w + m - 2 * p) \div 2 = (w + m) \div 2 - p /\ p <= (w + m) \div 2
       /\ (w + m) \div 2 \in Nat /\ (w + m - 2 * p) % 2 = (w + m) % 2
  BY <1>1a, <1>9
<1>19. Len(d) = Len(fr) + Len(e)
  BY <1>11, <1>16, <1>17, <1>18
<1>20. \A i \in 1 .. Len(fr) : fr[i] = d[i]
  <2> SUFFICES ASSUME NEW i \in 1 .. p PROVE fr[i] = d[i]
    BY <1>11
  <2>1. i \in 1 .. (w + m) \div 2 /\ 2 * i \in 1 .. w + n
    BY <1>9, <1>18
  <2>2. QED
    BY <1>8, <1>11, <1>16, <2>1
<1>21. \A i \in 1 .. Len(e) : e[i] = d[Len(fr) + i]
  <2> SUFFICES ASSUME NEW i \in 1 .. (w + m) \div 2 - p PROVE e[i] = d[p + i]
    BY <1>11, <1>17, <1>18
  <2>1. p + i \in 1 .. (w + m) \div 2 /\ 2 * i \in 1 .. w + m - 2 * p /\ 2 * (p + i) = 2 * p + 2 * i
    BY <1>9, <1>18
  <2>2. d[p + i] = f[2 * p + 2 * i][2]
    BY <1>16, <2>1
  <2>3. e[i] = h[2 * i][2]
    BY <1>17, <1>18
  <2>4. QED
    BY <1>15, <2>1, <2>2, <2>3
<1>22. Len(left) + Len(rest) = w + m - 2 * p
  <2>1. PICK l \in Nat : l = Len(left) /\ l = w + n - 2 * p
    BY <1>12
  <2>2. l + (m - n) = w + m - 2 * p
    BY <1>1a, <2>1
  <2>3. QED
    BY <1>3, <2>1, <2>2
<1>23. (Len(left) + Len(rest)) % 2 = (w + m) % 2
  BY <1>18, <1>22
<1>24. QED
  BY <1>1, <1>2, <1>3, <1>4, <1>6, <1>10, <1>11, <1>12, <1>13, <1>16, <1>17, <1>19, <1>20,
     <1>21, <1>23

\* What an appended frame adds.
LEMMA ItemsAppend ==
  ASSUME NEW s \in Seq(Frame), NEW x \in Frame
  PROVE  Stream!Items(Append(s, x)) = Stream!Items(s) \cup {x}
<1>1. PICK n \in Nat : n = Len(s)
  BY LenProperties
<1>2. PICK t \in Seq(Frame) : t = Append(s, x)
  BY AppendProperties
<1>3. Len(t) = n + 1 /\ t[n + 1] = x /\ \A i \in 1 .. n : t[i] = s[i]
  BY <1>1, <1>2, AppendProperties
<1>4. DOMAIN t = 1 .. n + 1 /\ DOMAIN s = 1 .. n
  BY <1>1, <1>3, LenProperties
<1>5. 1 .. n + 1 = (1 .. n) \cup {n + 1}
  OBVIOUS
<1>6. QED
  BY <1>2, <1>3, <1>4, <1>5 DEF Stream!Items

\* A sequence has the frames of its two parts.
LEMMA ItemsSplit ==
  ASSUME NEW s \in Seq(Frame), NEW p \in Seq(Frame), NEW q \in Seq(Frame),
         Len(s) = Len(p) + Len(q),
         \A i \in 1 .. Len(p) : p[i] = s[i],
         \A i \in 1 .. Len(q) : q[i] = s[Len(p) + i]
  PROVE  \A x : x \in Stream!Items(s) <=> x \in Stream!Items(p) \/ x \in Stream!Items(q)
<1>1. PICK m \in Nat, n \in Nat : m = Len(p) /\ n = Len(q)
  BY LenProperties
<1>2. DOMAIN p = 1 .. m /\ DOMAIN q = 1 .. n /\ DOMAIN s = 1 .. m + n
  BY <1>1, LenProperties
<1>3. \A i \in 1 .. m : p[i] = s[i] /\ i \in 1 .. m + n
  BY <1>1
<1>4. \A i \in 1 .. n : q[i] = s[m + i] /\ m + i \in 1 .. m + n
  BY <1>1
<1>5. \A i \in 1 .. m + n : i \in 1 .. m \/ (i - m \in 1 .. n /\ m + (i - m) = i)
  OBVIOUS
<1>6. ASSUME NEW i \in 1 .. m + n PROVE s[i] \in Stream!Items(p) \cup Stream!Items(q)
  <2>1. CASE i \in 1 .. m
    BY <1>2, <1>3, <2>1 DEF Stream!Items
  <2>2. CASE i - m \in 1 .. n /\ m + (i - m) = i
    BY <1>2, <1>4, <2>2 DEF Stream!Items
  <2>3. QED
    BY <1>5, <2>1, <2>2
<1>7. \A i \in 1 .. m : p[i] \in Stream!Items(s)
  BY <1>2, <1>3 DEF Stream!Items
<1>8. \A i \in 1 .. n : q[i] \in Stream!Items(s)
  BY <1>2, <1>4 DEF Stream!Items
<1>9. QED
  BY <1>2, <1>6, <1>7, <1>8 DEF Stream!Items

\* The first frame and the others.
LEMMA ItemsHead ==
  ASSUME NEW s \in Seq(Frame), s # <<>>
  PROVE  Stream!Items(s) = {Head(s)} \cup Stream!Items(Tail(s)) /\ Head(s) \in Frame /\ Tail(s) \in Seq(Frame)
<1>1. PICK t \in Seq(Frame) : t = Tail(s)
  BY HeadTailProperties
<1>2. PICK x \in Frame : x = Head(s)
  BY HeadTailProperties
<1>3. PICK one \in Seq(Frame) : one = <<x>> /\ Len(one) = 1 /\ one[1] = x
  <2>1. <<x>> \in Seq(Frame) /\ Len(<<x>>) = 1 /\ <<x>>[1] = x
    OBVIOUS
  <2>2. QED
    BY <2>1, Zenon
<1>4. Len(t) = Len(s) - 1 /\ Len(s) \in Nat /\ s[1] = x /\ \A i \in 1 .. Len(t) : t[i] = s[1 + i]
  <2>1. Len(t) = Len(s) - 1 /\ Len(s) \in Nat
    BY <1>1, HeadTailProperties, LenProperties
  <2>2. s[1] = x
    BY <1>2
  <2>3. \A i \in 1 .. Len(t) : t[i] = s[1 + i]
    BY <1>1, <2>1, HeadTailProperties
  <2>4. QED
    BY <2>1, <2>2, <2>3
<1>5. Stream!Items(s) = Stream!Items(one) \cup Stream!Items(t)
  <2>1. Len(s) = Len(one) + Len(t)
    BY <1>3, <1>4
  <2>2. \A i \in 1 .. Len(one) : one[i] = s[i]
    BY <1>3, <1>4
  <2>3. \A i \in 1 .. Len(t) : t[i] = s[Len(one) + i]
    BY <1>3, <1>4
  <2>4. QED
    <3>1. \A x1 : x1 \in Stream!Items(s) <=> x1 \in Stream!Items(one) \/ x1 \in Stream!Items(t)
      BY <2>1, <2>2, <2>3, ItemsSplit
    <3>2. QED
      BY <3>1
<1>6. Stream!Items(one) = {x}
  BY <1>3, LenProperties DEF Stream!Items
<1>7. QED
  BY <1>1, <1>2, <1>5, <1>6

\* No frame in an empty sequence.
LEMMA ItemsEmpty == Stream!Items(<<>>) = {}
  BY DEF Stream!Items

\* The messages are numbers within the bound.
LEMMA SentType ==
  ASSUME StreamTypes
  PROVE  /\ Stream!Sent \in SUBSET (1 .. MaxItems) /\ Stream!Sent \subseteq 1 .. Len(made)
         /\ DOMAIN made = 1 .. Len(made) /\ Len(made) \in Nat
         /\ 0 .. Len(made) \subseteq Nat /\ 1 .. MaxItems \subseteq Nat
<1>1. PICK n \in Nat : n = Len(made)
  BY LenProperties DEF StreamTypes
<1>2. DOMAIN made = 1 .. n /\ n <= MaxItems
  BY <1>1, LenProperties DEF StreamTypes
<1>3. 1 .. n \subseteq 1 .. MaxItems
  BY <1>2, ItemsAssumption
<1>4. QED
  BY <1>1, <1>2, <1>3, ItemsAssumption DEF Stream!Sent

\* Where frames are, in what order, as long as the stream is read.
LEMMA UnparsedType ==
  ASSUME StreamTypes
  PROVE  buffer \o body \in Seq(Byte) /\ Unparsed \in Seq(Frame)
         /\ Len(buffer \o body) = Len(buffer) + Len(body)
<1>1. buffer \in Seq(Byte) /\ body \in Seq(Byte)
  BY DEF StreamTypes
<1>2. buffer \o body \in Seq(Byte) /\ Len(buffer \o body) = Len(buffer) + Len(body)
  BY <1>1, ConcatProperties
<1>3. Decoded(buffer \o body) \in Seq(Frame)
  BY <1>2, DecodedType
<1>4. QED
  BY <1>2, <1>3 DEF Unparsed

-----------------------------------------------------------------------------
(* The writer *)

\* The message stream gives a result: a new message is after all the others.
LEMMA TakePreserves == ASSUME StreamInv, Stream!Take PROVE StreamInv'
<1> USE DEF StreamInv
<1>1. PICK n \in Nat : n = Len(made)
  BY LenProperties DEF StreamTypes
<1>2. PICK result \in {n + 1, Stream!Error, Stream!Nested} :
        made' = Append(made, result) /\ writer' = [at |-> "send", frame |-> Stream!from_message(result)]
  BY <1>1 DEF Stream!Take
<1>3. /\ writer.at = "next" /\ n < MaxItems
      /\ UNCHANGED <<side, chan, body, link, buffer, frames, reader, queue, got, consumer, timedOut>>
  BY <1>1 DEF Stream!Take, Stream!reading, Stream!using
<1>4. /\ made \in Seq(1 .. MaxItems + 2) /\ result \in 1 .. MaxItems + 2
      /\ Stream!Error \in Frame /\ Stream!Error \notin 1 .. MaxItems /\ Stream!Nested \notin 1 .. MaxItems
      /\ Stream!Error # n + 1 /\ Stream!Nested # n + 1
  BY <1>2, <1>3, ItemsAssumption DEF StreamTypes, Stream!Error, Stream!Nested, Frame
<1>5. /\ made' \in Seq(1 .. MaxItems + 2) /\ Len(made') = n + 1 /\ made'[n + 1] = result
      /\ \A k \in 1 .. n : made'[k] = made[k]
  BY <1>1, <1>2, <1>4, AppendProperties
<1>6. PICK f \in Frame : f = Stream!from_message(result) /\ (result = n + 1 => f = n + 1)
                         /\ (result # n + 1 => f = Stream!Error)
  BY <1>2, <1>3, <1>4, ItemsAssumption DEF Stream!from_message, Frame
<1>7. writer' = [at |-> "send", frame |-> f]
  BY <1>2, <1>6
<1>8. StreamTypes'
  <2>1. \A k \in 1 .. n + 1 : made'[k] \in {k, Stream!Error, Stream!Nested}
    <3>1. \A k \in 1 .. n : made[k] \in {k, Stream!Error, Stream!Nested}
      BY <1>1 DEF StreamTypes
    <3>2. QED
      BY <1>2, <1>5, <3>1
  <2>2. writer' \in [at : {"next", "send", "done"}, frame : Frame]
    BY <1>7
  <2>3. Len(made') <= MaxItems /\ \A k \in 1 .. Len(made') : made'[k] \in {k, Stream!Error, Stream!Nested}
    BY <1>3, <1>5, <2>1, ItemsAssumption
  <2>4. QED
    BY <1>3, <1>5, <2>2, <2>3 DEF StreamTypes, Stream!Error, Stream!Nested
<1>9. DOMAIN made = 1 .. n /\ DOMAIN made' = 1 .. n + 1 /\ 1 .. n + 1 = (1 .. n) \cup {n + 1}
  BY <1>1, <1>4, <1>5, LenProperties
<1>10. /\ result = n + 1 => Stream!Sent' = Stream!Sent \cup {n + 1}
       /\ result # n + 1 => Stream!Sent' = Stream!Sent
       /\ n + 1 \notin Stream!Sent
  <2>1. Stream!Sent' = {k \in (1 .. n) \cup {n + 1} : made'[k] = k}
    BY <1>9 DEF Stream!Sent
  <2>2. Stream!Sent = {k \in 1 .. n : made[k] = k}
    BY <1>9 DEF Stream!Sent
  <2>3. n + 1 \notin 1 .. n
    OBVIOUS
  <2>4. \A k \in 1 .. n : made'[k] = k <=> made[k] = k
    BY <1>5
  <2>5. made'[n + 1] = n + 1 <=> result = n + 1
    BY <1>5
  <2>6. QED
    BY <2>1, <2>2, <2>3, <2>4, <2>5
<1>11. Stream!Sent \in SUBSET (1 .. MaxItems) /\ Stream!Sent' \in SUBSET (1 .. MaxItems) /\ Stream!Sent \subseteq 1 .. n
  <2>1. Stream!Sent \in SUBSET (1 .. MaxItems) /\ Stream!Sent \subseteq 1 .. n
    BY <1>1, SentType
  <2>2. n + 1 \in 1 .. MaxItems
    BY <1>3, ItemsAssumption
  <2>3. QED
    BY <1>10, <2>1, <2>2
<1>12. Unparsed' = Unparsed
  BY <1>3 DEF Unparsed
<1>13. LinkInv'
  BY <1>3 DEF LinkInv, Stream!Items
<1>14. Ordered'
  <2>1. PICK a \in 0 .. n, b \in 0 .. n, c \in 0 .. n, d \in 0 .. n, e \in 0 .. n :
          Stages(a, b, c, d, e)
    BY <1>1 DEF Ordered
  <2>2. ASSUME NEW s \in Seq(Frame), NEW lo \in Nat, NEW hi \in 0 .. n, Holds(s, Stream!Sent, lo, hi)
        PROVE  Holds(s, Stream!Sent', lo, hi)
    <3>1. Stream!Sent \subseteq Stream!Sent' /\ \A k \in Stream!Sent' : k \in Stream!Sent \/ hi < k
      BY <1>10
    <3>2. QED
      BY <1>11, <2>2, <3>1, HoldsMore
  <2>3. 0 \in Nat /\ a \in Nat /\ b \in Nat /\ c \in Nat /\ d \in Nat /\ e \in Nat
    OBVIOUS
  <2>4. /\ got \in Seq(Frame) /\ queue \in Seq(Frame) /\ frames \in Seq(Frame)
        /\ chan.items \in Seq(Frame) /\ Unparsed \in Seq(Frame)
    BY UnparsedType DEF StreamTypes
  <2>5. ASSUME Pending(e) PROVE Pending(e)'
    <3>1. \A k \in Stream!Sent : k <= e
      BY <1>3, <2>5 DEF Pending
    <3>2. writer'.at = "send" /\ writer'.frame = f
      BY <1>7
    <3>3. CASE result = n + 1
      <4>1. f \in Stream!Sent' /\ e < f /\ \A k \in Stream!Sent' : k <= e \/ k = f
        BY <1>6, <1>10, <3>1, <3>3
      <4>2. f \in 1 .. MaxItems
        BY <1>11, <4>1
      <4>3. QED
        BY <3>2, <4>1, <4>2 DEF Pending
    <3>4. CASE result # n + 1
      BY <1>4, <1>6, <1>10, <3>1, <3>2, <3>4 DEF Pending
    <3>5. QED
      BY <3>3, <3>4
  <2>6. Stages(a, b, c, d, e)'
    BY <1>3, <1>12, <2>1, <2>2, <2>3, <2>4, <2>5 DEF Stages
  <2>7. \A x \in 0 .. n : x \in 0 .. n + 1
    OBVIOUS
  <2>8. QED
    BY <1>5, <2>1, <2>6, <2>7 DEF Ordered
<1>15. ErrorOnWay'
  <2>1. CASE result # n + 1
    BY <1>6, <1>7, <2>1 DEF ErrorOnWay
  <2>2. CASE result = n + 1
    <3>1. Stream!Sent' # DOMAIN made' => Stream!Sent # DOMAIN made
      BY <1>9, <1>10, <2>2
    <3>2. QED
      BY <1>3, <1>12, <3>1 DEF ErrorOnWay, Stream!Items
  <2>3. QED
    BY <2>1, <2>2
<1>16. EndInv'
  BY <1>3 DEF EndInv, Stream!Items
<1>17. QED
  BY <1>8, <1>13, <1>14, <1>15, <1>16

\* The message stream ends, or the receiver is gone: no message is on its way to the channel.
LEMMA TakeEndPreserves == ASSUME StreamInv, Stream!TakeEnd \/ Stream!SendFails PROVE StreamInv'
<1> USE DEF StreamInv
<1>1. UNCHANGED <<side, made, chan, body, link, buffer, frames, reader, queue, got, consumer, timedOut>>
  BY DEF Stream!TakeEnd, Stream!SendFails, Stream!reading, Stream!using
<1>2. /\ writer' \in [at : {"next", "send", "done"}, frame : Frame]
      /\ link = "up" => writer.at = "next" /\ writer'.at = "send" /\ writer'.frame = Stream!End
      /\ writer.at # "done"
  <2>1. Stream!End \in Frame
    BY ItemsAssumption DEF Stream!End, Frame
  <2>2. writer \in [at : {"next", "send", "done"}, frame : Frame]
    BY DEF StreamTypes
  <2>3. CASE Stream!TakeEnd
    BY <2>1, <2>2, <2>3 DEF Stream!TakeEnd
  <2>4. CASE Stream!SendFails
    BY <2>2, <2>4 DEF Stream!SendFails, LinkInv
  <2>5. QED
    BY <2>3, <2>4
<1>3. Stream!Sent' = Stream!Sent /\ Unparsed' = Unparsed
  BY <1>1 DEF Stream!Sent, Unparsed
<1>4. StreamTypes'
  BY <1>1, <1>2 DEF StreamTypes, Stream!Error, Stream!Nested
<1>5. LinkInv'
  BY <1>1 DEF LinkInv, Stream!Items
<1>6. Ordered'
  <2>1. PICK a \in 0 .. Len(made), b \in 0 .. Len(made), c \in 0 .. Len(made),
             d \in 0 .. Len(made), e \in 0 .. Len(made) : Stages(a, b, c, d, e)
    BY DEF Ordered
  <2>2. link = "up" /\ Pending(e) => Pending(e)'
    BY <1>2, <1>3, ItemsAssumption DEF Pending, Stream!End
  <2>3. Stages(a, b, c, d, e)'
    BY <1>1, <1>3, <2>1, <2>2 DEF Stages
  <2>4. QED
    BY <1>1, <2>3 DEF Ordered
<1>7. ErrorOnWay'
  BY <1>1, <1>2, <1>3 DEF ErrorOnWay, Stream!Items
<1>8. EndInv'
  BY <1>1, <1>2, <1>3 DEF EndInv, Stream!Items
<1>9. QED
  BY <1>4, <1>5, <1>6, <1>7, <1>8

\* The writer hands its frame to the channel, behind the others.
LEMMA SendPreserves == ASSUME StreamInv, Stream!Send PROVE StreamInv'
<1> USE DEF StreamInv
<1>1. UNCHANGED <<side, made, body, link, buffer, frames, reader, queue, got, consumer, timedOut>>
  BY DEF Stream!Send, Stream!reading, Stream!using
<1>2. PICK f \in Frame : f = writer.frame
  BY DEF StreamTypes
<1>3. PICK items \in Seq(Frame) : items = chan.items
  BY DEF StreamTypes
<1>4. /\ writer.at = "send" /\ writer.frame = f
      /\ writer'.at \in {"next", "done"} /\ writer'.frame = f
      /\ writer' \in [at : {"next", "send", "done"}, frame : Frame]
      /\ chan'.items = Append(items, f) /\ chan'.rx = chan.rx
      /\ chan' \in [rx : BOOLEAN, items : Seq(Frame)]
  BY <1>2, <1>3, AppendProperties DEF Stream!Send, StreamTypes
<1>5. Stream!Sent' = Stream!Sent /\ Unparsed' = Unparsed
  BY <1>1 DEF Stream!Sent, Unparsed
<1>6. StreamTypes'
  BY <1>1, <1>4 DEF StreamTypes, Stream!Error, Stream!Nested
<1>7. LinkInv'
  BY <1>1, <1>4 DEF LinkInv, Stream!Items
<1>8. Ordered'
  <2>1. PICK a \in 0 .. Len(made), b \in 0 .. Len(made), c \in 0 .. Len(made),
             d \in 0 .. Len(made), e \in 0 .. Len(made) : Stages(a, b, c, d, e)
    BY DEF Ordered
  <2>2. /\ a \in Nat /\ b \in Nat /\ c \in Nat /\ d \in Nat /\ e \in Nat
        /\ Stream!Sent \in SUBSET (1 .. MaxItems) /\ Stream!Sent \subseteq 1 .. Len(made) /\ 1 .. MaxItems \subseteq Nat
        /\ Len(made) \in Nat
    BY SentType
  <2>3. CASE ~(consumer = "open" /\ reader # "done" /\ link = "up")
    <3>1. Stages(a, b, c, d, e)'
      BY <1>1, <1>5, <2>1, <2>3 DEF Stages
    <3>2. QED
      BY <1>1, <3>1 DEF Ordered
  <2>4. CASE consumer = "open" /\ reader # "done" /\ link = "up"
    <3>1. Holds(items, Stream!Sent, d, e) /\ d <= e /\ Pending(e)
      BY <1>3, <2>1, <2>4 DEF Stages
    <3>2. <<f>> \in Seq(Frame) /\ Append(items, f) = items \o <<f>>
      BY AppendIsConcat
    <3>3. CASE f \in 1 .. MaxItems
      <4>1. f \in Stream!Sent /\ e < f /\ \A k \in Stream!Sent : k <= e \/ k = f
        BY <1>4, <3>1, <3>3 DEF Pending
      <4>2. Holds(<<f>>, Stream!Sent, e, f)
        BY <2>2, <4>1, HoldsOne
      <4>3. f \in Nat /\ e <= f /\ f \in 0 .. Len(made)
        BY <2>2, <4>1
      <4>4. Holds(items \o <<f>>, Stream!Sent, d, f)
        BY <2>2, <3>1, <3>2, <4>2, <4>3, HoldsCat
      <4>5. \A k \in Stream!Sent : k <= f
        BY <2>2, <4>1
      <4>6. Pending(f)'
        BY <1>4, <1>5, <4>5 DEF Pending
      <4>7. d <= f
        BY <2>2, <3>1, <4>3
      <4>8. Stages(a, b, c, d, f)'
        BY <1>1, <1>4, <1>5, <2>1, <3>2, <4>4, <4>6, <4>7 DEF Stages
      <4>9. QED
        BY <1>1, <4>3, <4>8 DEF Ordered
    <3>4. CASE f \notin 1 .. MaxItems
      <4>1. \A k \in Stream!Sent : k <= e
        BY <1>4, <3>1, <3>4 DEF Pending
      <4>2. Holds(<<f>>, Stream!Sent, e, e)
        BY <2>2, <3>4, HoldsOne
      <4>3. e <= e
        BY <2>2
      <4>4. Holds(items \o <<f>>, Stream!Sent, d, e)
        BY <2>2, <3>1, <3>2, <4>2, <4>3, HoldsCat
      <4>6. Pending(e)'
        BY <1>4, <1>5, <4>1 DEF Pending
      <4>8. Stages(a, b, c, d, e)'
        BY <1>1, <1>4, <1>5, <2>1, <3>2, <4>4, <4>6 DEF Stages
      <4>9. QED
        BY <1>1, <4>8 DEF Ordered
    <3>5. QED
      BY <3>3, <3>4
  <2>5. QED
    BY <2>3, <2>4
<1>9. ErrorOnWay'
  <2>1. Stream!Items(chan'.items) = Stream!Items(chan.items) \cup {f}
    BY <1>3, <1>4, ItemsAppend
  <2>2. QED
    BY <1>1, <1>4, <1>5, <2>1 DEF ErrorOnWay
<1>10. EndInv'
  BY <1>1, <1>4, <1>5 DEF EndInv, Stream!Items
<1>11. QED
  BY <1>6, <1>7, <1>8, <1>9, <1>10

\* What follows the bytes on the way follows them all.
LEMMA BytesAssociative ==
  ASSUME NEW r \in Seq(Byte), NEW s \in Seq(Byte), NEW t \in Seq(Byte)
  PROVE  (r \o s) \o t = r \o (s \o t)
  BY ConcatAssociative

\* A frame goes from the channel into the body, behind the bytes on the way.
LEMMA TransmitPreserves == ASSUME StreamInv, Stream!Transmit PROVE StreamInv'
<1> USE DEF StreamInv
<1>1. UNCHANGED <<side, made, writer, link, buffer, frames, reader, queue, got, consumer, timedOut>>
  BY DEF Stream!Transmit, Stream!reading, Stream!using
<1>2. PICK items \in Seq(Frame) : items = chan.items
  BY DEF StreamTypes
<1>3. PICK old \in Seq(Byte) : old = buffer
  BY DEF StreamTypes
<1>3a. PICK bytes \in Seq(Byte) : bytes = body
  BY DEF StreamTypes
<1>4. items # <<>> /\ chan.rx /\ link = "up"
  BY <1>2 DEF Stream!Transmit, LinkInv
<1>5. PICK f \in Frame : f = Head(items)
  BY <1>4, HeadTailProperties
<1>6. /\ body' = bytes \o Stream!to_binary(f)
      /\ chan'.items = Tail(items) /\ chan'.rx = chan.rx /\ Tail(items) \in Seq(Frame)
      /\ chan' \in [rx : BOOLEAN, items : Seq(Frame)]
  BY <1>2, <1>3a, <1>4, <1>5, HeadTailProperties DEF Stream!Transmit, StreamTypes
<1>7. Stream!to_binary(f) \in Seq(Byte) /\ Len(Stream!to_binary(f)) = 2
  BY DEF Stream!to_binary, Byte
<1>8. PICK all \in Seq(Byte) : all = old \o bytes
  BY ConcatProperties
<1>9. body' \in Seq(Byte) /\ Len(body') = Len(bytes) + 2 /\ buffer' \o body' = all \o Stream!to_binary(f)
  <2>1. (old \o bytes) \o Stream!to_binary(f) = old \o (bytes \o Stream!to_binary(f))
    <3>1. PICK two \in Seq(Byte) : two = Stream!to_binary(f)
      BY <1>7
    <3>2. (old \o bytes) \o two = old \o (bytes \o two)
      BY BytesAssociative
    <3>3. QED
      BY <3>1, <3>2
  <2>2. bytes \o Stream!to_binary(f) \in Seq(Byte) /\ Len(bytes \o Stream!to_binary(f)) = Len(bytes) + 2
    <3>1. PICK two \in Seq(Byte) : two = Stream!to_binary(f)
      BY <1>7
    <3>2. bytes \o two \in Seq(Byte) /\ Len(bytes \o two) = Len(bytes) + Len(two)
      BY ConcatProperties
    <3>3. QED
      BY <1>7, <3>1, <3>2
  <2>3. buffer' \o body' = old \o (bytes \o Stream!to_binary(f))
    BY <1>1, <1>3, <1>6
  <2>4. QED
    BY <1>6, <1>8, <2>1, <2>2, <2>3
<1>10. Len(all) % 2 = 0 /\ Len(all) = Len(old) + Len(bytes) /\ Len(old) \in Nat /\ Len(bytes) \in Nat
  BY <1>3, <1>3a, <1>4, <1>8, ConcatProperties, LenProperties DEF LinkInv
<1>11. Stream!Sent' = Stream!Sent /\ Unparsed' = Append(Unparsed, f)
  <2>1. Decoded(all \o Stream!to_binary(f)) = Append(Decoded(all), f)
    BY <1>10, DecodedSend
  <2>2. QED
    BY <1>1, <1>3, <1>3a, <1>8, <1>9, <2>1 DEF Stream!Sent, Unparsed
<1>12. StreamTypes'
  BY <1>1, <1>6, <1>9 DEF StreamTypes, Stream!Error, Stream!Nested
<1>13. LinkInv'
  <2>1. (Len(buffer') + Len(body')) % 2 = 0
    <3>1. PICK x \in Nat, y \in Nat : x = Len(old) /\ y = Len(bytes)
      BY <1>10
    <3>2. (x + y) % 2 = 0 => (x + (y + 2)) % 2 = 0
      OBVIOUS
    <3>3. QED
      BY <1>1, <1>3, <1>9, <1>10, <3>1, <3>2
  <2>2. QED
    BY <1>1, <1>6, <2>1 DEF LinkInv, Stream!Items
<1>14. Ordered'
  <2>1. PICK a \in 0 .. Len(made), b \in 0 .. Len(made), c \in 0 .. Len(made),
             d \in 0 .. Len(made), e \in 0 .. Len(made) : Stages(a, b, c, d, e)
    BY DEF Ordered
  <2>2. /\ a \in Nat /\ b \in Nat /\ c \in Nat /\ d \in Nat /\ e \in Nat
        /\ Stream!Sent \in SUBSET (1 .. MaxItems) /\ Len(made) \in Nat
    BY SentType
  <2>3. CASE ~(consumer = "open" /\ reader # "done")
    <3>1. Stages(a, b, c, d, e)'
      BY <1>1, <1>11, <2>1, <2>3 DEF Stages
    <3>2. QED
      BY <1>1, <3>1 DEF Ordered
  <2>4. CASE consumer = "open" /\ reader # "done"
    <3>1. /\ c <= d /\ d <= e /\ Holds(Unparsed, Stream!Sent, c, d) /\ Holds(items, Stream!Sent, d, e) /\ Pending(e)
          /\ a <= b /\ b <= c
      BY <1>2, <1>4, <2>1, <2>4 DEF Stages
    <3>2. PICK u \in Seq(Frame) : u = Unparsed
      BY UnparsedType
    <3>3. PICK new \in d .. e : Holds(Append(u, Head(items)), Stream!Sent, c, new) /\ Holds(Tail(items), Stream!Sent, new, e)
      BY <1>4, <2>2, <3>1, <3>2, HoldsMove
    <3>4. new \in 0 .. Len(made) /\ c <= new /\ new <= e
      BY <2>2, <3>1, <3>3
    <3>5. Holds(Unparsed, Stream!Sent, c, new)'
      BY <1>5, <1>11, <3>2, <3>3
    <3>6. Holds(chan.items, Stream!Sent, new, e)'
      BY <1>6, <1>11, <3>3
    <3>7. Pending(e)'
      BY <1>1, <1>11, <3>1 DEF Pending
    <3>8. Stages(a, b, c, new, e)'
      BY <1>1, <1>11, <2>1, <2>4, <3>1, <3>4, <3>5, <3>6, <3>7 DEF Stages
    <3>9. QED
      BY <1>1, <3>4, <3>8 DEF Ordered
  <2>5. QED
    BY <2>3, <2>4
<1>15. ErrorOnWay'
  <2>0. Unparsed \in Seq(Frame)
    BY UnparsedType
  <2>1. Stream!Items(Unparsed') = Stream!Items(Unparsed) \cup {f}
    BY <1>11, <2>0, ItemsAppend
  <2>2. Stream!Items(chan.items) = {f} \cup Stream!Items(chan'.items)
    BY <1>2, <1>4, <1>5, <1>6, ItemsHead
  <2>3. QED
    BY <1>1, <1>11, <2>1, <2>2 DEF ErrorOnWay
<1>16. EndInv'
  BY <1>1, <1>11 DEF EndInv, Stream!Items
<1>17. QED
  BY <1>12, <1>13, <1>14, <1>15, <1>16

\* However the body is cut, a chunk yields the next of its frames and keeps the rest.
LEMMA ChunkPreserves ==
  ASSUME StreamInv, NEW n \in 1 .. Len(body), Stream!Chunk(n), frames = <<>>, reader = "reading",
         UNCHANGED <<side, made, writer, chan, link, reader, queue, got, consumer, timedOut>>
  PROVE  StreamInv'
<1> USE DEF StreamInv
<1>1. PICK old \in Seq(Byte) : old = buffer
  BY DEF StreamTypes
<1>2. PICK bytes \in Seq(Byte) : bytes = body
  BY DEF StreamTypes
<1>3. n \in 1 .. Len(bytes)
  BY <1>2
<1> DEFINE parsed == Stream!parse_all(old \o SubSeq(bytes, 1, n))
           rest == SubSeq(bytes, n + 1, Len(bytes))
           d1 == Decoded(old \o bytes)
           d2 == Decoded(parsed.left \o rest)
<1>4. /\ parsed.left \in Seq(Byte) /\ Len(parsed.left) <= 1
      /\ parsed.frames \in Seq(Frame) /\ rest \in Seq(Byte)
      /\ (Len(parsed.left) + Len(rest)) % 2 = (Len(old) + Len(bytes)) % 2
      /\ d1 \in Seq(Frame) /\ d2 \in Seq(Frame)
      /\ Len(d1) = Len(parsed.frames) + Len(d2)
      /\ \A i \in 1 .. Len(parsed.frames) : parsed.frames[i] = d1[i]
      /\ \A i \in 1 .. Len(d2) : d2[i] = d1[Len(parsed.frames) + i]
  BY <1>3, ParseChunk
<1>5. buffer' = parsed.left /\ frames' = parsed.frames /\ body' = rest
  BY <1>1, <1>2 DEF Stream!Chunk
<1>6. Unparsed = d1 /\ Unparsed' = d2
  BY <1>1, <1>2, <1>5 DEF Unparsed
<1> HIDE DEF parsed, rest, d1, d2
<1>7. Stream!Sent' = Stream!Sent
  BY DEF Stream!Sent
<1>8. PICK p \in Seq(Frame), q \in Seq(Frame), s \in Seq(Frame) :
        p = parsed.frames /\ q = d2 /\ s = d1
  BY <1>4
<1>9. /\ Len(s) = Len(p) + Len(q)
      /\ \A i \in 1 .. Len(p) : p[i] = s[i]
      /\ \A i \in 1 .. Len(q) : q[i] = s[Len(p) + i]
  BY <1>4, <1>8
<1>10. StreamTypes'
  BY <1>4, <1>5 DEF StreamTypes, Stream!Error, Stream!Nested
<1>11. LinkInv'
  BY <1>1, <1>2, <1>4, <1>5 DEF LinkInv
<1>12. Ordered'
  <2>1. PICK a \in 0 .. Len(made), b \in 0 .. Len(made), c \in 0 .. Len(made),
             d \in 0 .. Len(made), e \in 0 .. Len(made) : Stages(a, b, c, d, e)
    BY DEF Ordered
  <2>2. /\ a \in Nat /\ b \in Nat /\ c \in Nat /\ d \in Nat /\ e \in Nat
        /\ Stream!Sent \in SUBSET (1 .. MaxItems) /\ Len(made) \in Nat
    BY SentType
  <2>3. CASE consumer # "open"
    <3>1. Stages(a, b, c, d, e)'
      BY <1>7, <2>1, <2>3 DEF Stages
    <3>2. QED
      BY <3>1 DEF Ordered
  <2>4. CASE consumer = "open"
    <3>1. /\ a <= b /\ b <= c /\ c <= d /\ d <= e
          /\ Holds(<<>>, Stream!Sent, b, c) /\ Holds(s, Stream!Sent, c, d)
      BY <1>6, <1>8, <2>1, <2>4 DEF Stages
    <3>2. Holds(<<>> \o s, Stream!Sent, b, d)
      <4>1. <<>> \in Seq(Frame)
        OBVIOUS
      <4>2. QED
        BY <2>2, <3>1, <4>1, HoldsCat
    <3>3. <<>> \o s = s
      BY ConcatEmptySeq
    <3>4. b <= d /\ Holds(s, Stream!Sent, b, d)
      BY <2>2, <3>1, <3>2, <3>3
    <3>5. PICK mid \in b .. d : Holds(p, Stream!Sent, b, mid) /\ Holds(q, Stream!Sent, mid, d)
      BY <1>9, <2>2, <3>4, HoldsSplit
    <3>6. mid \in 0 .. Len(made) /\ b <= mid /\ mid <= d
      BY <2>2, <3>5
    <3>7. Holds(frames, Stream!Sent, b, mid)' /\ Holds(Unparsed, Stream!Sent, mid, d)'
      BY <1>5, <1>6, <1>7, <1>8, <3>5
    <3>8. Pending(e) => Pending(e)'
      BY <1>7 DEF Pending
    <3>9. Stages(a, b, mid, d, e)'
      BY <1>7, <2>1, <2>4, <3>1, <3>6, <3>7, <3>8 DEF Stages
    <3>10. QED
      BY <3>6, <3>9 DEF Ordered
  <2>5. QED
    BY <2>3, <2>4
<1>13. \A x : x \in Stream!Items(s) <=> x \in Stream!Items(p) \/ x \in Stream!Items(q)
  BY <1>9, ItemsSplit
<1>14. ErrorOnWay'
  <2>1. Stream!Items(frames) = {}
    BY ItemsEmpty
  <2>2. Stream!Items(frames') = Stream!Items(p) /\ Stream!Items(Unparsed) = Stream!Items(s) /\ Stream!Items(Unparsed') = Stream!Items(q)
    BY <1>5, <1>6, <1>8
  <2>3. QED
    BY <1>7, <1>13, <2>1, <2>2 DEF ErrorOnWay
<1>15. EndInv'
  BY <1>7 DEF EndInv
<1>16. QED
  BY <1>10, <1>11, <1>12, <1>14, <1>15

\* The connection breaks: a prefix of the bytes still arrives.
LEMMA LosePreserves == ASSUME StreamInv, Stream!Lose PROVE StreamInv'
<1> USE DEF StreamInv
<1>1. UNCHANGED <<side, made, writer, buffer, frames, reader, queue, got, consumer, timedOut>>
  BY DEF Stream!Lose, Stream!reading, Stream!using
<1>2. PICK old \in Seq(Byte) : old = buffer
  BY DEF StreamTypes
<1>3. PICK bytes \in Seq(Byte) : bytes = body
  BY DEF StreamTypes
<1>4. PICK n \in 0 .. Len(bytes) : body' = SubSeq(bytes, 1, n)
  BY <1>3 DEF Stream!Lose
<1>5. link' = "lost" /\ chan' = [rx |-> FALSE, items |-> <<>>] /\ reader = "reading"
  BY DEF Stream!Lose
<1>6. /\ body' \in Seq(Byte)
      /\ Unparsed \in Seq(Frame) /\ Unparsed' \in Seq(Frame)
      /\ Len(Unparsed') <= Len(Unparsed) /\ \A i \in 1 .. Len(Unparsed') : Unparsed'[i] = Unparsed[i]
  <2>1. PICK short \in Seq(Byte) : short = SubSeq(bytes, 1, n)
    BY DecodedCut
  <2>2. /\ Len(Decoded(old \o short)) <= Len(Decoded(old \o bytes))
        /\ \A i \in 1 .. Len(Decoded(old \o short)) : Decoded(old \o short)[i] = Decoded(old \o bytes)[i]
    BY <2>1, DecodedCut
  <2>3. old \o short \in Seq(Byte) /\ old \o bytes \in Seq(Byte)
    BY ConcatProperties
  <2>4. Decoded(old \o short) \in Seq(Frame) /\ Decoded(old \o bytes) \in Seq(Frame)
    BY <2>3, DecodedType
  <2>5. Unparsed' = Decoded(old \o short) /\ Unparsed = Decoded(old \o bytes)
    BY <1>1, <1>2, <1>3, <1>4, <2>1 DEF Unparsed
  <2>6. QED
    BY <1>4, <2>1, <2>2, <2>4, <2>5
<1>7. Stream!Sent' = Stream!Sent
  BY <1>1 DEF Stream!Sent
<1>8. StreamTypes'
  BY <1>1, <1>5, <1>6 DEF StreamTypes, Stream!Error, Stream!Nested
<1>9. LinkInv'
  BY <1>1, <1>5 DEF LinkInv
<1>10. Ordered'
  <2>1. PICK a \in 0 .. Len(made), b \in 0 .. Len(made), c \in 0 .. Len(made),
             d \in 0 .. Len(made), e \in 0 .. Len(made) : Stages(a, b, c, d, e)
    BY DEF Ordered
  <2>2. /\ a \in Nat /\ b \in Nat /\ c \in Nat /\ d \in Nat /\ e \in Nat
        /\ Stream!Sent \in SUBSET (1 .. MaxItems) /\ Len(made) \in Nat
    BY SentType
  <2>3. CASE consumer # "open"
    <3>1. Stages(a, b, c, d, e)'
      BY <1>1, <1>7, <2>1, <2>3 DEF Stages
    <3>2. QED
      BY <1>1, <3>1 DEF Ordered
  <2>4. CASE consumer = "open"
    <3>1. PICK s \in Seq(Frame), p \in Seq(Frame) : s = Unparsed /\ p = Unparsed'
      BY <1>6
    <3>2. PICK m \in Nat : m = Len(p) /\ m <= Len(s) /\ Len(s) \in Nat
      BY <1>6, <3>1, LenProperties
    <3>3. PICK q \in Seq(Frame) : q = SubSeq(s, m + 1, Len(s))
      BY <3>2, CutSeq
    <3>4. /\ Len(s) = Len(p) + Len(q)
          /\ \A i \in 1 .. Len(p) : p[i] = s[i]
          /\ \A i \in 1 .. Len(q) : q[i] = s[Len(p) + i]
      <4>1. Len(q) = Len(s) - m /\ \A i \in 1 .. Len(s) - m : q[i] = s[m + i]
        BY <3>2, <3>3, CutSeq
      <4>2. QED
        BY <1>6, <3>1, <3>2, <4>1
    <3>5. /\ a <= b /\ b <= c /\ c <= d /\ d <= e /\ Holds(s, Stream!Sent, c, d)
      BY <1>5, <2>1, <2>4, <3>1 DEF Stages
    <3>6. PICK mid \in c .. d : Holds(p, Stream!Sent, c, mid)
      BY <2>2, <3>4, <3>5, HoldsSplit
    <3>7. mid \in 0 .. Len(made) /\ c <= mid /\ mid <= e
      BY <2>2, <3>5, <3>6
    <3>8. Holds(Unparsed, Stream!Sent, c, mid)'
      BY <1>7, <3>1, <3>6
    <3>9. Stages(a, b, c, mid, e)'
      BY <1>1, <1>5, <1>7, <2>1, <2>4, <3>5, <3>7, <3>8 DEF Stages
    <3>10. QED
      BY <1>1, <3>7, <3>9 DEF Ordered
  <2>5. QED
    BY <2>3, <2>4
<1>11. ErrorOnWay'
  BY <1>5 DEF ErrorOnWay
<1>12. EndInv'
  BY <1>1, <1>7 DEF EndInv
<1>13. QED
  BY <1>8, <1>9, <1>10, <1>11, <1>12

\* Once nothing is read any more only what is queued matters.
LEMMA ResetPreserves == ASSUME StreamInv, Stream!Reset PROVE StreamInv'
<1> USE DEF StreamInv
<1>1. UNCHANGED <<side, made, writer, buffer, frames, reader, queue, got, consumer, timedOut>>
  BY DEF Stream!Reset, Stream!reading, Stream!using
<1>2. link' = "reset" /\ chan' = [rx |-> FALSE, items |-> <<>>] /\ body' = <<>> /\ reader = "done"
  BY DEF Stream!Reset
<1>3. Stream!Sent' = Stream!Sent
  BY <1>1 DEF Stream!Sent
<1>4. StreamTypes'
  BY <1>1, <1>2 DEF StreamTypes, Stream!Error, Stream!Nested
<1>5. LinkInv'
  BY <1>1, <1>2 DEF LinkInv
<1>6. Ordered'
  <2>1. PICK a \in 0 .. Len(made), b \in 0 .. Len(made), c \in 0 .. Len(made),
             d \in 0 .. Len(made), e \in 0 .. Len(made) : Stages(a, b, c, d, e)
    BY DEF Ordered
  <2>2. Stages(a, b, c, d, e)'
    BY <1>1, <1>2, <1>3, <2>1 DEF Stages
  <2>3. QED
    BY <1>1, <2>2 DEF Ordered
<1>7. ErrorOnWay'
  BY <1>2 DEF ErrorOnWay
<1>8. EndInv'
  BY <1>1, <1>3 DEF EndInv
<1>9. QED
  BY <1>4, <1>5, <1>6, <1>7, <1>8

\* The body has ended and all of it has been read: every message is with the
\* consumer or in its queue, and no error is on the way.
LEMMA EndedIsComplete ==
  ASSUME StreamInv, consumer = "open", reader # "done", frames = <<>>, Stream!BodyEnded
  PROVE  /\ Stream!Sent \subseteq Stream!Items(got) \cup Stream!Items(queue)
         /\ Stream!Items(Unparsed) = {} /\ Stream!Items(chan.items) = {}
<1> USE DEF StreamInv
<1>1. /\ link = "up" /\ writer.at = "done" /\ chan.items = <<>> /\ body = <<>>
  BY DEF Stream!BodyEnded
<1>2. PICK l \in Nat : l = Len(buffer) /\ l <= 1
  BY LenProperties DEF StreamTypes
<1>3. Unparsed = <<>>
  <2>1. (l + 0) % 2 = 0
    BY <1>1, <1>2 DEF LinkInv
  <2>2. l = 0
    BY <1>2, <2>1
  <2>3. buffer \in Seq(Byte) /\ body \in Seq(Byte)
    BY DEF StreamTypes
  <2>4. PICK bytes \in Seq(Byte) : bytes = buffer \o body /\ Len(bytes) = 0
    <3>1. buffer = <<>>
      BY <1>2, <2>2, <2>3, EmptySeq
    <3>2. <<>> \o <<>> = <<>> /\ <<>> \in Seq(Byte) /\ Len(<<>>) = 0
      BY ConcatEmptySeq
    <3>3. QED
      BY <1>1, <3>1, <3>2
  <2>5. Unparsed \in Seq(Frame) /\ Len(Unparsed) = 0
    <3>1. Decoded(bytes) \in Seq(Frame) /\ Len(Decoded(bytes)) = Len(bytes) \div 2
      BY DecodedType
    <3>2. 0 \div 2 = 0
      OBVIOUS
    <3>3. QED
      BY <2>4, <3>1, <3>2 DEF Unparsed
  <2>6. QED
    BY <2>5, EmptySeq
<1>4. PICK a \in 0 .. Len(made), b \in 0 .. Len(made), c \in 0 .. Len(made),
           d \in 0 .. Len(made), e \in 0 .. Len(made) : Stages(a, b, c, d, e)
  BY DEF Ordered
<1>5. /\ a \in Nat /\ b \in Nat /\ c \in Nat /\ d \in Nat /\ e \in Nat
      /\ Stream!Sent \in SUBSET (1 .. MaxItems) /\ 1 .. MaxItems \subseteq Nat
  BY SentType
<1>6. /\ Holds(got, Stream!Sent, 0, a) /\ Holds(queue, Stream!Sent, a, b)
      /\ Holds(<<>>, Stream!Sent, b, c) /\ Holds(<<>>, Stream!Sent, c, d) /\ Holds(<<>>, Stream!Sent, d, e)
      /\ \A k \in Stream!Sent : k <= e
  BY <1>1, <1>3, <1>4 DEF Stages, Pending
<1>7. \A lo \in Nat, hi \in Nat : Holds(<<>>, Stream!Sent, lo, hi) => \A k \in Stream!Sent : k <= hi => k <= lo
  BY <1>5 DEF Holds
<1>8. \A k \in Stream!Sent : k <= b
  BY <1>5, <1>6, <1>7
<1>9. ASSUME NEW k \in Stream!Sent PROVE k \in Stream!Items(got) \cup Stream!Items(queue)
  <2>1. 0 < k /\ k \in Nat /\ k <= b
    BY <1>5, <1>8
  <2>2. CASE k <= a
    <3>1. PICK i \in 1 .. Len(got) : got[i] = k
      BY <1>6, <2>1, <2>2 DEF Holds
    <3>2. QED
      BY <3>1, LenProperties DEF Stream!Items, StreamTypes
  <2>3. CASE ~(k <= a)
    <3>0. a < k
      BY <1>5, <2>1, <2>3
    <3>1. PICK i \in 1 .. Len(queue) : queue[i] = k
      BY <1>6, <2>1, <3>0 DEF Holds
    <3>2. QED
      BY <3>1, LenProperties DEF Stream!Items, StreamTypes
  <2>4. QED
    BY <2>2, <2>3
<1>10. QED
  BY <1>1, <1>3, <1>9, ItemsEmpty

\* The consumer of a response takes the next frame, or passes over the end frame.
LEMMA PollFramePreserves == ASSUME StreamInv, Stream!PollFrame PROVE StreamInv'
<1> USE DEF StreamInv
<1>1. UNCHANGED <<side, made, writer, chan, body, link, buffer, reader, queue, consumer, timedOut>>
  BY DEF Stream!PollFrame, Stream!sending
<1>2. PICK p \in Seq(Frame) : p = got
  BY DEF StreamTypes
<1>3. PICK q \in Seq(Frame) : q = frames
  BY DEF StreamTypes
<1>4. side = "response" /\ consumer = "open" /\ q # <<>> /\ queue = <<>> /\ reader # "done" /\ reader # "failed"
  BY <1>3 DEF Stream!PollFrame, Stream!Polls, LinkInv
<1>5. PICK x \in Frame : x = Head(q)
  BY <1>4, HeadTailProperties
<1>6. PICK t \in Seq(Frame) : t = Tail(q)
  BY <1>4, HeadTailProperties
<1>7. /\ got' = (IF x = Stream!End THEN p ELSE Append(p, x)) /\ frames' = t
      /\ got' \in Seq(Frame)
  BY <1>2, <1>3, <1>5, <1>6, AppendProperties DEF Stream!PollFrame
<1>8. Stream!Sent' = Stream!Sent /\ Unparsed' = Unparsed
  BY <1>1 DEF Stream!Sent, Unparsed
<1>9. StreamTypes'
  BY <1>1, <1>7 DEF StreamTypes, Stream!Error, Stream!Nested
<1>10. LinkInv'
  BY <1>1, <1>4, <1>7 DEF LinkInv
<1>11. Ordered'
  <2>1. PICK a \in 0 .. Len(made), b \in 0 .. Len(made), c \in 0 .. Len(made),
             d \in 0 .. Len(made), e \in 0 .. Len(made) : Stages(a, b, c, d, e)
    BY DEF Ordered
  <2>2. /\ a \in Nat /\ b \in Nat /\ c \in Nat /\ d \in Nat /\ e \in Nat
        /\ Stream!Sent \in SUBSET (1 .. MaxItems) /\ Len(made) \in Nat
    BY SentType
  <2>3. /\ a <= b /\ b <= c /\ c <= d /\ d <= e
        /\ Holds(p, Stream!Sent, 0, a) /\ Holds(<<>>, Stream!Sent, a, b) /\ Holds(q, Stream!Sent, b, c)
    BY <1>2, <1>3, <1>4, <2>1 DEF Stages
  <2>4. Holds(p, Stream!Sent, 0, b)
    <3>1. <<>> \in Seq(Frame) /\ p \o <<>> = p /\ 0 <= a
      BY <2>2, ConcatEmptySeq
    <3>2. QED
      BY <2>2, <2>3, <3>1, HoldsCat
  <2>5. 0 <= b
    BY <2>2
  <2>6. PICK new \in b .. c :
          /\ Holds(Append(p, Head(q)), Stream!Sent, 0, new) /\ Holds(Tail(q), Stream!Sent, new, c)
          /\ Head(q) \notin 1 .. MaxItems => Holds(p, Stream!Sent, 0, new)
    BY <1>4, <2>2, <2>3, <2>4, <2>5, HoldsMove
  <2>7. new \in 0 .. Len(made) /\ new <= new /\ new <= c /\ new \in Nat
    BY <2>2, <2>6
  <2>8. Holds(got, Stream!Sent, 0, new)'
    <3>1. Stream!End \notin 1 .. MaxItems
      BY ItemsAssumption DEF Stream!End
    <3>2. Holds(got', Stream!Sent, 0, new)
      BY <1>5, <1>7, <2>6, <3>1
    <3>3. QED
      BY <1>8, <3>2
  <2>9. Holds(<<>>, Stream!Sent, new, new)
    BY <1>5, <2>2, <2>7, HoldsOne
  <2>10. Holds(frames, Stream!Sent, new, c)'
    BY <1>6, <1>7, <1>8, <2>6
  <2>11. Pending(e) => Pending(e)'
    BY <1>1, <1>8 DEF Pending
  <2>12. Stages(new, new, c, d, e)'
    BY <1>1, <1>4, <1>8, <2>1, <2>3, <2>7, <2>8, <2>9, <2>10, <2>11 DEF Stages
  <2>13. QED
    BY <1>1, <2>7, <2>12 DEF Ordered
<1>12. Stream!Items(q) = {x} \cup Stream!Items(t) /\ (x # Stream!End => Stream!Items(got') = Stream!Items(p) \cup {x})
       /\ (x = Stream!End => Stream!Items(got') = Stream!Items(p))
  BY <1>4, <1>5, <1>6, <1>7, ItemsHead, ItemsAppend
<1>13. ErrorOnWay'
  <2>1. Stream!End # Stream!Error
    BY ItemsAssumption DEF Stream!End, Stream!Error
  <2>2. QED
    BY <1>1, <1>2, <1>3, <1>7, <1>8, <1>12, <2>1 DEF ErrorOnWay
<1>14. EndInv'
  BY <1>1, <1>4 DEF EndInv
<1>15. QED
  BY <1>9, <1>10, <1>11, <1>13, <1>14

\* The consumer of a response takes a chunk, or sees the end since the time is over.
LEMMA PollChunkPreserves == ASSUME StreamInv, Stream!PollChunk PROVE StreamInv'
<1> USE DEF StreamInv
<1>1. CASE ~timedOut
  <2>1. PICK n \in 1 .. Len(body) : Stream!Chunk(n)
    BY <1>1 DEF Stream!PollChunk
  <2>2. frames = <<>> /\ reader = "reading"
    BY DEF Stream!PollChunk
  <2>3. UNCHANGED <<side, made, writer, chan, link, reader, queue, got, consumer, timedOut>>
    BY <1>1 DEF Stream!PollChunk, Stream!sending, Stream!using
  <2>4. QED
    BY <2>1, <2>2, <2>3, ChunkPreserves
<1>2. CASE timedOut
  <2>1. /\ UNCHANGED <<side, made, writer, chan, link, queue, got, timedOut, body, buffer>>
        /\ consumer' = "ended" /\ reader' = "done" /\ frames' = <<>> /\ side = "response"
    BY <1>2 DEF Stream!PollChunk, Stream!Polls, Stream!Ends, Stream!sending
  <2>2. Stream!Sent' = Stream!Sent /\ Unparsed' = Unparsed
    BY <2>1 DEF Stream!Sent, Unparsed
  <2>3. StreamTypes'
    BY <2>1 DEF StreamTypes, Stream!Error, Stream!Nested
  <2>4. LinkInv'
    BY <2>1 DEF LinkInv
  <2>5. Ordered'
    <3>1. PICK a \in 0 .. Len(made), b \in 0 .. Len(made), c \in 0 .. Len(made),
               d \in 0 .. Len(made), e \in 0 .. Len(made) : Stages(a, b, c, d, e)
      BY DEF Ordered
    <3>2. Stages(a, b, c, d, e)'
      BY <2>1, <2>2, <3>1 DEF Stages
    <3>3. QED
      BY <2>1, <3>2 DEF Ordered
  <2>6. ErrorOnWay'
    BY <2>1 DEF ErrorOnWay
  <2>7. EndInv'
    BY <1>2, <2>1 DEF EndInv
  <2>8. QED
    BY <2>3, <2>4, <2>5, <2>6, <2>7
<1>3. QED
  BY <1>1, <1>2

\* The body of a response fails or ends.
LEMMA PollBodyEndPreserves == ASSUME StreamInv, Stream!PollBodyEnd PROVE StreamInv'
<1> USE DEF StreamInv
<1>1. /\ UNCHANGED <<side, made, writer, chan, link, queue, body, buffer>>
      /\ frames = <<>> /\ side = "response" /\ consumer = "open" /\ queue = <<>>
  BY DEF Stream!PollBodyEnd, Stream!Polls, Stream!sending, LinkInv
<1>2. Stream!Sent' = Stream!Sent /\ Unparsed' = Unparsed
  BY <1>1 DEF Stream!Sent, Unparsed
<1>3. PICK a \in 0 .. Len(made), b \in 0 .. Len(made), c \in 0 .. Len(made),
           d \in 0 .. Len(made), e \in 0 .. Len(made) : Stages(a, b, c, d, e)
  BY DEF Ordered
<1>4. CASE Stream!BodyFailed /\ reader = "reading" /\ reader' = "failed" /\ got' = Append(got, Stream!Error)
           /\ UNCHANGED <<frames, consumer, timedOut>>
  <2>1. Stream!Error \in Frame /\ Stream!Error \notin 1 .. MaxItems
    BY ItemsAssumption DEF Stream!Error, Frame
  <2>2. got \in Seq(Frame)
    BY DEF StreamTypes
  <2>3. got' \in Seq(Frame) /\ Stream!Items(got') = Stream!Items(got) \cup {Stream!Error}
    BY <1>4, <2>1, <2>2, AppendProperties, ItemsAppend
  <2>4. StreamTypes'
    BY <1>1, <1>4, <2>3 DEF StreamTypes, Stream!Error, Stream!Nested
  <2>5. link = "lost"
    BY <1>4 DEF Stream!BodyFailed
  <2>6. LinkInv'
    BY <1>1, <1>4, <2>3, <2>5 DEF LinkInv
  <2>7. Ordered'
    <3>1. a \in Nat /\ b \in Nat /\ Stream!Sent \in SUBSET (1 .. MaxItems) /\ 0 <= a /\ a <= a
      BY SentType
    <3>2. Holds(<<Stream!Error>>, Stream!Sent, a, a) /\ <<Stream!Error>> \in Seq(Frame)
      BY <2>1, <3>1, HoldsOne
    <3>3. Holds(got \o <<Stream!Error>>, Stream!Sent, 0, a)
      <4>1. Holds(got, Stream!Sent, 0, a)
        BY <1>3 DEF Stages
      <4>2. PICK s \in Seq(Frame) : s = got
        BY <2>2
      <4>3. Holds(s \o <<Stream!Error>>, Stream!Sent, 0, a)
        BY <3>1, <3>2, <4>1, <4>2, HoldsCat
      <4>4. QED
        BY <4>2, <4>3
    <3>4. got' = got \o <<Stream!Error>>
      BY <1>4, <2>1, <2>2, AppendIsConcat
    <3>5. Holds(got, Stream!Sent, 0, a)'
      BY <1>2, <3>3, <3>4
    <3>6. Stages(a, b, c, d, e)'
      BY <1>1, <1>2, <1>3, <1>4, <2>5, <3>5 DEF Stages
    <3>7. QED
      BY <1>1, <3>6 DEF Ordered
  <2>8. ErrorOnWay'
    BY <1>1, <2>5 DEF ErrorOnWay
  <2>9. EndInv'
    BY <1>1, <1>4 DEF EndInv
  <2>10. QED
    BY <2>4, <2>6, <2>7, <2>8, <2>9
<1>5. CASE (reader = "failed" \/ Stream!BodyEnded) /\ Stream!Ends("ended")
  <2>1. /\ UNCHANGED <<got, timedOut>>
        /\ consumer' = "ended" /\ reader' = "done" /\ frames' = <<>> /\ reader # "done"
    BY <1>1, <1>5 DEF Stream!Ends, LinkInv
  <2>2. StreamTypes'
    BY <1>1, <2>1 DEF StreamTypes, Stream!Error, Stream!Nested
  <2>3. LinkInv'
    BY <1>1, <2>1 DEF LinkInv
  <2>4. Ordered'
    <3>1. Stages(a, b, c, d, e)'
      BY <1>2, <1>3, <2>1 DEF Stages
    <3>2. QED
      BY <1>1, <3>1 DEF Ordered
  <2>5. ErrorOnWay'
    BY <2>1 DEF ErrorOnWay
  <2>6. EndInv'
    <3>1. CASE reader = "failed"
      BY <1>1, <2>1, <3>1 DEF EndInv, LinkInv
    <3>2. CASE Stream!BodyEnded
      <4>1. Stream!Sent \subseteq Stream!Items(got) /\ Stream!Items(Unparsed) = {} /\ Stream!Items(chan.items) = {} /\ Stream!Items(frames) = {}
        BY <1>1, <2>1, <3>2, EndedIsComplete, ItemsEmpty
      <4>2. writer.at = "done" /\ link = "up"
        BY <3>2 DEF Stream!BodyEnded
      <4>3. Stream!Error \notin Stream!Items(got) => Stream!Sent = DOMAIN made
        BY <1>1, <4>1, <4>2 DEF ErrorOnWay
      <4>4. QED
        BY <1>1, <1>2, <2>1, <4>1, <4>2, <4>3 DEF EndInv
    <3>3. QED
      BY <1>5, <3>1, <3>2
  <2>7. QED
    BY <2>2, <2>3, <2>4, <2>5, <2>6
<1>6. QED
  BY <1>4, <1>5 DEF Stream!PollBodyEnd

\* The server's task hands a message of a request to the actor, or passes over a frame.
LEMMA PassOnPreserves == ASSUME StreamInv, Stream!PassOn PROVE StreamInv'
<1> USE DEF StreamInv
<1>1. /\ UNCHANGED <<side, made, writer, chan, body, link, buffer, got, consumer, timedOut>>
      /\ side = "request" /\ reader = "reading"
  BY DEF Stream!PassOn, Stream!sending, Stream!using
<1>2. PICK p \in Seq(Frame) : p = queue
  BY DEF StreamTypes
<1>3. PICK q \in Seq(Frame) : q = frames /\ q # <<>>
  BY DEF StreamTypes, Stream!PassOn
<1>4. PICK x \in Frame : x = Head(q)
  BY <1>3, HeadTailProperties
<1>5. PICK t \in Seq(Frame) : t = Tail(q)
  BY <1>3, HeadTailProperties
<1>6. Stream!Sent' = Stream!Sent /\ Unparsed' = Unparsed
  BY <1>1 DEF Stream!Sent, Unparsed
<1>7. PICK a \in 0 .. Len(made), b \in 0 .. Len(made), c \in 0 .. Len(made),
           d \in 0 .. Len(made), e \in 0 .. Len(made) : Stages(a, b, c, d, e)
  BY DEF Ordered
<1>8. /\ a \in Nat /\ b \in Nat /\ c \in Nat /\ d \in Nat /\ e \in Nat
      /\ Stream!Sent \in SUBSET (1 .. MaxItems) /\ Len(made) \in Nat
  BY SentType
<1>9. ErrorOnWay'
  BY <1>1 DEF ErrorOnWay
<1>10. CASE /\ reader' = reader /\ frames' = t
            /\ \/ Stream!IsEnd(x) /\ queue' = p
               \/ ~Stream!IsEnd(x) /\ consumer = "open" /\ queue' = Append(p, x)
  <2>1. queue' \in Seq(Frame)
    <3>1. Append(p, x) \in Seq(Frame)
      BY AppendProperties
    <3>2. queue' = p \/ queue' = Append(p, x)
      BY <1>10
    <3>3. QED
      BY <3>1, <3>2
  <2>2. StreamTypes'
    BY <1>1, <1>10, <2>1 DEF StreamTypes, Stream!Error, Stream!Nested
  <2>3. LinkInv'
    BY <1>1, <1>10 DEF LinkInv
  <2>4. Ordered'
    <3>1. CASE consumer # "open"
      <4>1. Stages(a, b, c, d, e)'
        BY <1>1, <1>6, <1>7, <3>1 DEF Stages
      <4>2. QED
        BY <1>1, <4>1 DEF Ordered
    <3>2. CASE consumer = "open"
      <4>1. /\ a <= b /\ b <= c /\ c <= d /\ d <= e
            /\ Holds(p, Stream!Sent, a, b) /\ Holds(q, Stream!Sent, b, c)
        BY <1>1, <1>2, <1>3, <1>7, <3>2 DEF Stages
      <4>2. PICK new \in b .. c :
              /\ Holds(Append(p, Head(q)), Stream!Sent, a, new) /\ Holds(Tail(q), Stream!Sent, new, c)
              /\ Head(q) \notin 1 .. MaxItems => Holds(p, Stream!Sent, a, new)
        BY <1>3, <1>8, <4>1, HoldsMove
      <4>3. new \in 0 .. Len(made) /\ a <= new /\ new <= c
        BY <1>8, <4>1, <4>2
      <4>4. Stream!IsEnd(x) => x \notin 1 .. MaxItems
        BY ItemsAssumption DEF Stream!IsEnd, Stream!End, Stream!Error
      <4>5. Holds(queue, Stream!Sent, a, new)'
        <5>1. Holds(queue', Stream!Sent, a, new)
          BY <1>4, <1>10, <4>2, <4>4
        <5>2. QED
          BY <1>6, <5>1
      <4>6. Holds(frames, Stream!Sent, new, c)'
        BY <1>5, <1>6, <1>10, <4>2
      <4>7. Pending(e) => Pending(e)'
        BY <1>1, <1>6 DEF Pending
      <4>8. Stages(a, new, c, d, e)'
        BY <1>1, <1>6, <1>7, <1>10, <3>2, <4>1, <4>3, <4>5, <4>6, <4>7 DEF Stages
      <4>9. QED
        BY <1>1, <4>3, <4>8 DEF Ordered
    <3>3. QED
      BY <3>1, <3>2
  <2>5. EndInv'
    BY <1>1, <1>6, <1>10 DEF EndInv
  <2>6. QED
    BY <1>9, <2>2, <2>3, <2>4, <2>5
<1>11. CASE consumer # "open" /\ reader' = "done" /\ frames' = <<>> /\ queue' = p
  <2>1. StreamTypes'
    BY <1>1, <1>11 DEF StreamTypes, Stream!Error, Stream!Nested
  <2>2. LinkInv'
    BY <1>1, <1>11 DEF LinkInv
  <2>3. Ordered'
    <3>1. Stages(a, b, c, d, e)'
      BY <1>1, <1>6, <1>7, <1>11 DEF Stages
    <3>2. QED
      BY <1>1, <3>1 DEF Ordered
  <2>4. EndInv'
    BY <1>1, <1>6, <1>11 DEF EndInv
  <2>5. QED
    BY <1>9, <2>1, <2>2, <2>3, <2>4
<1>12. QED
  BY <1>2, <1>3, <1>4, <1>5, <1>10, <1>11 DEF Stream!PassOn

\* The body of a request fails or ends.
LEMMA ReadBodyEndPreserves == ASSUME StreamInv, Stream!ReadBodyEnd PROVE StreamInv'
<1> USE DEF StreamInv
<1>1. /\ UNCHANGED <<side, made, writer, chan, body, link, buffer, frames, got, consumer, timedOut>>
      /\ side = "request" /\ reader = "reading" /\ frames = <<>> /\ reader' = "done"
  BY DEF Stream!ReadBodyEnd, Stream!sending, Stream!using
<1>2. Stream!Sent' = Stream!Sent
  BY <1>1 DEF Stream!Sent
<1>3. PICK a \in 0 .. Len(made), b \in 0 .. Len(made), c \in 0 .. Len(made),
           d \in 0 .. Len(made), e \in 0 .. Len(made) : Stages(a, b, c, d, e)
  BY DEF Ordered
<1>4. ErrorOnWay'
  BY <1>1 DEF ErrorOnWay
<1>5. CASE queue' = queue /\ (Stream!BodyEnded \/ consumer # "open")
  <2>1. StreamTypes'
    BY <1>1, <1>5 DEF StreamTypes, Stream!Error, Stream!Nested
  <2>2. LinkInv'
    BY <1>1, <1>5 DEF LinkInv
  <2>3. Ordered'
    <3>1. Stages(a, b, c, d, e)'
      BY <1>1, <1>2, <1>3, <1>5 DEF Stages
    <3>2. QED
      BY <1>1, <3>1 DEF Ordered
  <2>4. EndInv'
    <3>1. CASE consumer = "open"
      <4>1. Stream!Sent \subseteq Stream!Items(got) \cup Stream!Items(queue) /\ writer.at = "done"
        BY <1>1, <1>5, <3>1, EndedIsComplete DEF Stream!BodyEnded
      <4>2. QED
        BY <1>1, <1>2, <1>5, <3>1, <4>1 DEF EndInv
    <3>2. CASE consumer # "open"
      BY <1>1, <1>2, <1>5, <3>2 DEF EndInv
    <3>3. QED
      BY <3>1, <3>2
  <2>5. QED
    BY <1>4, <2>1, <2>2, <2>3, <2>4
<1>6. CASE queue' = Append(queue, Stream!Error) /\ consumer = "open"
  <2>1. Stream!Error \in Frame /\ Stream!Error \notin 1 .. MaxItems
    BY ItemsAssumption DEF Stream!Error, Frame
  <2>2. queue \in Seq(Frame)
    BY DEF StreamTypes
  <2>3. queue' \in Seq(Frame) /\ Stream!Items(queue') = Stream!Items(queue) \cup {Stream!Error}
    BY <1>6, <2>1, <2>2, AppendProperties, ItemsAppend
  <2>4. StreamTypes'
    BY <1>1, <2>3 DEF StreamTypes, Stream!Error, Stream!Nested
  <2>5. LinkInv'
    BY <1>1 DEF LinkInv
  <2>6. Ordered'
    <3>1. a \in Nat /\ b \in Nat /\ Stream!Sent \in SUBSET (1 .. MaxItems) /\ a <= b /\ b <= b
      BY <1>3, SentType DEF Stages
    <3>2. Holds(<<Stream!Error>>, Stream!Sent, b, b) /\ <<Stream!Error>> \in Seq(Frame)
      BY <2>1, <3>1, HoldsOne
    <3>3. Holds(queue \o <<Stream!Error>>, Stream!Sent, a, b)
      <4>1. Holds(queue, Stream!Sent, a, b)
        BY <1>3, <1>6 DEF Stages
      <4>2. PICK s \in Seq(Frame) : s = queue
        BY <2>2
      <4>3. Holds(s \o <<Stream!Error>>, Stream!Sent, a, b)
        BY <3>1, <3>2, <4>1, <4>2, HoldsCat
      <4>4. QED
        BY <4>2, <4>3
    <3>4. queue' = queue \o <<Stream!Error>>
      BY <1>6, <2>1, <2>2, AppendIsConcat
    <3>5. Holds(queue, Stream!Sent, a, b)'
      BY <1>2, <3>3, <3>4
    <3>6. Stages(a, b, c, d, e)'
      BY <1>1, <1>2, <1>3, <3>5 DEF Stages
    <3>7. QED
      BY <1>1, <3>6 DEF Ordered
  <2>7. EndInv'
    BY <1>1, <1>6, <2>3 DEF EndInv
  <2>8. QED
    BY <1>4, <2>4, <2>5, <2>6, <2>7
<1>7. QED
  BY <1>5, <1>6 DEF Stream!ReadBodyEnd

\* The actor takes a message of a request, or sees the end of it.
LEMMA ReceivePreserves == ASSUME StreamInv, Stream!Receive PROVE StreamInv'
<1> USE DEF StreamInv
<1>1. /\ UNCHANGED <<side, made, writer, chan, body, link, buffer, frames, reader, timedOut>>
      /\ side = "request" /\ consumer = "open"
  BY DEF Stream!Receive, Stream!sending
<1>2. PICK p \in Seq(Frame) : p = got
  BY DEF StreamTypes
<1>3. PICK q \in Seq(Frame) : q = queue
  BY DEF StreamTypes
<1>4. Stream!Sent' = Stream!Sent /\ Unparsed' = Unparsed
  BY <1>1 DEF Stream!Sent, Unparsed
<1>5. PICK a \in 0 .. Len(made), b \in 0 .. Len(made), c \in 0 .. Len(made),
           d \in 0 .. Len(made), e \in 0 .. Len(made) : Stages(a, b, c, d, e)
  BY DEF Ordered
<1>6. /\ a \in Nat /\ b \in Nat /\ c \in Nat /\ d \in Nat /\ e \in Nat
      /\ Stream!Sent \in SUBSET (1 .. MaxItems) /\ Len(made) \in Nat
  BY SentType
<1>7. ErrorOnWay'
  BY <1>1 DEF ErrorOnWay
<1>8. CASE q # <<>> /\ got' = Append(p, Head(q)) /\ queue' = Tail(q) /\ consumer' = consumer
  <2>1. PICK x \in Frame : x = Head(q)
    BY <1>8, HeadTailProperties
  <2>2. PICK t \in Seq(Frame) : t = Tail(q)
    BY <1>8, HeadTailProperties
  <2>3. /\ got' \in Seq(Frame) /\ Stream!Items(got') = Stream!Items(p) \cup {x}
        /\ Stream!Items(q) = {x} \cup Stream!Items(queue')
    BY <1>8, <2>1, <2>2, AppendProperties, ItemsAppend, ItemsHead
  <2>4. StreamTypes'
    BY <1>1, <1>8, <2>2, <2>3 DEF StreamTypes, Stream!Error, Stream!Nested
  <2>5. LinkInv'
    BY <1>1, <1>2, <1>8, <2>3 DEF LinkInv
  <2>6. Ordered'
    <3>1. /\ a <= b /\ b <= c /\ c <= d /\ d <= e /\ 0 <= a
          /\ Holds(p, Stream!Sent, 0, a) /\ Holds(q, Stream!Sent, a, b)
      BY <1>1, <1>2, <1>3, <1>5, <1>6 DEF Stages
    <3>2. PICK new \in a .. b :
            Holds(Append(p, Head(q)), Stream!Sent, 0, new) /\ Holds(Tail(q), Stream!Sent, new, b)
      BY <1>6, <1>8, <3>1, HoldsMove
    <3>3. new \in 0 .. Len(made) /\ new <= b
      BY <1>6, <3>1, <3>2
    <3>4. Holds(got, Stream!Sent, 0, new)' /\ Holds(queue, Stream!Sent, new, b)'
      BY <1>4, <1>8, <3>2
    <3>5. Pending(e) => Pending(e)'
      BY <1>1, <1>4 DEF Pending
    <3>6. Stages(new, b, c, d, e)'
      BY <1>1, <1>4, <1>5, <1>8, <3>1, <3>3, <3>4, <3>5 DEF Stages
    <3>7. QED
      BY <1>1, <3>3, <3>6 DEF Ordered
  <2>7. EndInv'
    <3>1. Stream!Items(got') \cup Stream!Items(queue') = Stream!Items(got) \cup Stream!Items(queue)
      BY <1>2, <1>3, <2>3
    <3>2. QED
      BY <1>1, <1>4, <1>8, <3>1 DEF EndInv
  <2>8. QED
    BY <1>7, <2>4, <2>5, <2>6, <2>7
<1>9. CASE q = <<>> /\ reader = "done" /\ consumer' = "ended" /\ UNCHANGED <<got, queue>>
  <2>1. StreamTypes'
    BY <1>1, <1>9 DEF StreamTypes, Stream!Error, Stream!Nested
  <2>2. LinkInv'
    BY <1>1, <1>9 DEF LinkInv
  <2>3. Ordered'
    <3>1. Stages(a, b, c, d, e)'
      BY <1>1, <1>4, <1>5, <1>9 DEF Stages
    <3>2. QED
      BY <1>1, <3>1 DEF Ordered
  <2>4. EndInv'
    <3>1. Stream!Items(queue) = {}
      BY <1>3, <1>9, ItemsEmpty
    <3>2. QED
      BY <1>1, <1>4, <1>9, <3>1 DEF EndInv
  <2>5. QED
    BY <1>7, <2>1, <2>2, <2>3, <2>4
<1>10. QED
  BY <1>2, <1>3, <1>8, <1>9 DEF Stream!Receive

\* The consumer drops the stream, its time is over, or nothing happens.
LEMMA LeavePreserves == ASSUME StreamInv, Stream!Drop \/ Stream!Expire \/ UNCHANGED Stream!vars PROVE StreamInv'
<1> USE DEF StreamInv
<1>1. UNCHANGED <<side, made, writer, chan, body, link, buffer, got>>
  BY DEF Stream!Drop, Stream!Expire, Stream!vars, Stream!sending, Stream!reading, Stream!using
<1>2. Stream!Sent' = Stream!Sent /\ Unparsed' = Unparsed
  BY <1>1 DEF Stream!Sent, Unparsed
<1>3. PICK a \in 0 .. Len(made), b \in 0 .. Len(made), c \in 0 .. Len(made),
           d \in 0 .. Len(made), e \in 0 .. Len(made) : Stages(a, b, c, d, e)
  BY DEF Ordered
<1>4. CASE Stream!Drop
  <2>1. /\ consumer = "open" /\ consumer' = "dropped" /\ timedOut' = timedOut
        /\ reader' \in {reader, "done"} /\ frames' \in {frames, <<>>} /\ queue' \in {queue, <<>>}
        /\ side = "response" => reader' = "done" /\ queue' = queue
        /\ side = "request" => reader' = reader /\ frames' = frames
    BY <1>4 DEF Stream!Drop, StreamTypes
  <2>2. StreamTypes'
    <3>1. <<>> \in Seq(Frame)
      OBVIOUS
    <3>2. frames' \in Seq(Frame) /\ queue' \in Seq(Frame)
      BY <2>1, <3>1 DEF StreamTypes
    <3>3. reader' \in {"reading", "failed", "done"}
      BY <2>1 DEF StreamTypes
    <3>4. QED
      BY <1>1, <2>1, <3>2, <3>3 DEF StreamTypes, Stream!Error, Stream!Nested
  <2>3. LinkInv'
    BY <1>1, <2>1 DEF LinkInv, StreamTypes
  <2>4. Ordered'
    <3>1. Stages(a, b, c, d, e)'
      BY <1>1, <1>2, <1>3, <2>1 DEF Stages
    <3>2. QED
      BY <1>1, <3>1 DEF Ordered
  <2>5. ErrorOnWay' /\ EndInv'
    BY <2>1 DEF ErrorOnWay, EndInv
  <2>6. QED
    BY <2>2, <2>3, <2>4, <2>5
<1>5. CASE Stream!Expire \/ UNCHANGED Stream!vars
  <2>1. /\ UNCHANGED <<consumer, reader, frames, queue>>
        /\ timedOut' \in BOOLEAN /\ (timedOut => timedOut')
    BY <1>5 DEF Stream!Expire, Stream!vars, Stream!reading, Stream!using, StreamTypes
  <2>2. StreamTypes'
    BY <1>1, <2>1 DEF StreamTypes, Stream!Error, Stream!Nested
  <2>3. LinkInv'
    BY <1>1, <2>1 DEF LinkInv
  <2>4. Ordered'
    <3>1. Pending(e) => Pending(e)'
      BY <1>1, <1>2 DEF Pending
    <3>2. Stages(a, b, c, d, e)'
      BY <1>1, <1>2, <1>3, <2>1, <3>1 DEF Stages
    <3>3. QED
      BY <1>1, <3>2 DEF Ordered
  <2>5. ErrorOnWay'
    BY <1>1, <1>2, <2>1 DEF ErrorOnWay
  <2>6. EndInv'
    BY <1>1, <1>2, <2>1 DEF EndInv
  <2>7. QED
    BY <2>2, <2>3, <2>4, <2>5, <2>6
<1>6. QED
  BY <1>4, <1>5

\* The server's task takes a chunk.
LEMMA ReadChunkPreserves == ASSUME StreamInv, Stream!ReadChunk PROVE StreamInv'
<1>1. PICK n \in 1 .. Len(body) : Stream!Chunk(n)
  BY DEF Stream!ReadChunk
<1>2. frames = <<>> /\ reader = "reading"
  BY DEF Stream!ReadChunk
<1>3. UNCHANGED <<side, made, writer, chan, link, reader, queue, got, consumer, timedOut>>
  BY DEF Stream!ReadChunk, Stream!sending, Stream!using
<1>4. QED
  BY <1>1, <1>2, <1>3, ChunkPreserves

\* A stream that has just begun.
LEMMA StreamInit == Stream!Init => StreamInv
<1> SUFFICES ASSUME Stream!Init PROVE StreamInv
  OBVIOUS
<1>1. StreamTypes
  <2>1. <<>> \in Seq(Frame) /\ <<>> \in Seq(Byte) /\ <<>> \in Seq(1 .. MaxItems + 2) /\ Len(<<>>) = 0
    OBVIOUS
  <2>2. writer \in [at : {"next", "send", "done"}, frame : Frame]
    BY ItemsAssumption DEF Stream!Init, Stream!End, Frame
  <2>3. chan \in [rx : BOOLEAN, items : Seq(Frame)]
    BY <2>1 DEF Stream!Init
  <2>4. /\ made \in Seq(1 .. MaxItems + 2) /\ body \in Seq(Byte) /\ buffer \in Seq(Byte)
        /\ frames \in Seq(Frame) /\ queue \in Seq(Frame) /\ got \in Seq(Frame)
        /\ Len(buffer) = 0 /\ Len(made) = 0
    BY <2>1 DEF Stream!Init
  <2>5. Len(made) <= MaxItems /\ Len(buffer) <= 1 /\ \A k \in 1 .. Len(made) : FALSE
    BY <2>4, ItemsAssumption
  <2>6. /\ side \in {"response", "request"} /\ link \in {"up", "reset", "lost"}
        /\ reader \in {"reading", "failed", "done"} /\ consumer \in {"open", "ended", "dropped"}
        /\ timedOut \in BOOLEAN
    BY DEF Stream!Init
  <2>7. QED
    BY <2>2, <2>3, <2>4, <2>5, <2>6, Zenon DEF StreamTypes
<1>2. LinkInv
  BY DEF Stream!Init, LinkInv
<1>3. Stream!Sent = {} /\ Unparsed = <<>> /\ Len(made) = 0 /\ DOMAIN made = {}
  <2>1. Stream!Sent = {} /\ Len(made) = 0 /\ DOMAIN made = {}
    BY DEF Stream!Init, Stream!Sent
  <2>2. Len(<<>>) \div 2 = 0
    OBVIOUS
  <2>3. buffer \o body = <<>>
    BY ConcatEmptySeq DEF Stream!Init
  <2>4. Unparsed = <<>>
    BY <2>2, <2>3 DEF Unparsed, Decoded
  <2>5. QED
    BY <2>1, <2>4
<1>4. Ordered
  <2>1. Holds(<<>>, {}, 0, 0)
    BY DEF Holds
  <2>2. Stages(0, 0, 0, 0, 0)
    BY <1>3, <2>1 DEF Stream!Init, Stages, Pending
  <2>3. 0 \in 0 .. Len(made)
    BY <1>3
  <2>4. QED
    BY <2>2, <2>3 DEF Ordered
<1>5. ErrorOnWay
  BY <1>3 DEF ErrorOnWay
<1>6. EndInv
  BY DEF Stream!Init, EndInv
<1>7. QED
  BY <1>1, <1>2, <1>4, <1>5, <1>6 DEF StreamInv

\* Every step of the stream.
LEMMA StreamStep == ASSUME StreamInv, Stream!Next \/ UNCHANGED Stream!vars PROVE StreamInv'
<1>1. CASE Stream!Write
  BY <1>1, TakePreserves, TakeEndPreserves, SendPreserves DEF Stream!Write
<1>2. CASE Stream!Transmit \/ Stream!Lose \/ Stream!Reset
  BY <1>2, TransmitPreserves, LosePreserves, ResetPreserves
<1>3. CASE Stream!Read
  BY <1>3, PollFramePreserves, PollChunkPreserves, PollBodyEndPreserves, ReadChunkPreserves,
     PassOnPreserves, ReadBodyEndPreserves, ReceivePreserves DEF Stream!Read
<1>4. CASE Stream!Drop \/ Stream!Expire \/ Stream!Finished \/ UNCHANGED Stream!vars
  BY <1>4, LeavePreserves DEF Stream!Finished
<1>5. QED
  BY <1>1, <1>2, <1>3, <1>4 DEF Stream!Next

Clean == Stream!End \notin Stream!Items(got) \cup Stream!Items(queue)

\* No end frame reaches the consumer or its queue.
LEMMA CleanStep == ASSUME StreamTypes, Clean, Stream!Next \/ UNCHANGED Stream!vars PROVE Clean'
<1>1. PICK p \in Seq(Frame) : p = got
  BY DEF StreamTypes
<1>2. PICK q \in Seq(Frame) : q = queue
  BY DEF StreamTypes
<1>3. PICK f \in Seq(Frame) : f = frames
  BY DEF StreamTypes
<1>4. Stream!Error \in Frame /\ Stream!Error # Stream!End /\ Stream!End \in Frame
  BY ItemsAssumption DEF Stream!Error, Stream!End, Frame
<1>5. Stream!End \notin Stream!Items(p) /\ Stream!End \notin Stream!Items(q)
  BY <1>1, <1>2 DEF Clean
<1>6. CASE UNCHANGED <<got, queue>>
  BY <1>6 DEF Clean
<1>7. CASE queue' = queue /\ f # <<>> /\ Head(f) # Stream!End /\ got' = Append(p, Head(f))
  <2>1. Head(f) \in Frame
    BY <1>3, <1>7, HeadTailProperties
  <2>2. Stream!Items(got') = Stream!Items(p) \cup {Head(f)}
    BY <1>7, <2>1, ItemsAppend
  <2>3. Stream!End \notin Stream!Items(got') /\ Stream!End \notin Stream!Items(queue')
    BY <1>2, <1>5, <1>7, <2>2
  <2>4. QED
    BY <2>3 DEF Clean
<1>8. CASE queue' = queue /\ got' = Append(p, Stream!Error)
  <2>1. Stream!Items(got') = Stream!Items(p) \cup {Stream!Error}
    BY <1>4, <1>8, ItemsAppend
  <2>2. Stream!End \notin Stream!Items(got') /\ Stream!End \notin Stream!Items(queue')
    BY <1>2, <1>4, <1>5, <1>8, <2>1
  <2>3. QED
    BY <2>2 DEF Clean
<1>9. CASE got' = got /\ f # <<>> /\ Head(f) # Stream!End /\ queue' = Append(q, Head(f))
  <2>1. Head(f) \in Frame
    BY <1>3, <1>9, HeadTailProperties
  <2>2. Stream!Items(queue') = Stream!Items(q) \cup {Head(f)}
    BY <1>9, <2>1, ItemsAppend
  <2>3. Stream!End \notin Stream!Items(got') /\ Stream!End \notin Stream!Items(queue')
    BY <1>1, <1>5, <1>9, <2>2
  <2>4. QED
    BY <2>3 DEF Clean
<1>10. CASE got' = got /\ queue' = Append(q, Stream!Error)
  <2>1. Stream!Items(queue') = Stream!Items(q) \cup {Stream!Error}
    BY <1>4, <1>10, ItemsAppend
  <2>2. Stream!End \notin Stream!Items(got') /\ Stream!End \notin Stream!Items(queue')
    BY <1>1, <1>4, <1>5, <1>10, <2>1
  <2>3. QED
    BY <2>2 DEF Clean
<1>11. CASE q # <<>> /\ got' = Append(p, Head(q)) /\ queue' = Tail(q)
  <2>1. Head(q) \in Frame
    BY <1>2, <1>11, HeadTailProperties
  <2>2. Stream!Items(got') = Stream!Items(p) \cup {Head(q)} /\ Stream!Items(q) = {Head(q)} \cup Stream!Items(queue')
    BY <1>11, <2>1, ItemsAppend, ItemsHead
  <2>3. Stream!End \notin Stream!Items(got') /\ Stream!End \notin Stream!Items(queue')
    BY <1>5, <2>2
  <2>4. QED
    BY <2>3 DEF Clean
<1>12. CASE got' = got /\ queue' = <<>>
  <2>1. Stream!Items(queue') = {}
    BY <1>12, ItemsEmpty
  <2>2. QED
    BY <1>1, <1>5, <1>12, <2>1 DEF Clean
<1>13. CASE Stream!Write \/ Stream!Transmit \/ Stream!Lose \/ Stream!Reset \/ Stream!Expire \/ Stream!Finished \/ UNCHANGED Stream!vars
  <2>1. UNCHANGED <<got, queue>>
    BY <1>13
    DEF Stream!Write, Stream!Take, Stream!TakeEnd, Stream!Send, Stream!SendFails,
        Stream!Transmit, Stream!Lose, Stream!Reset, Stream!Expire, Stream!Finished,
       Stream!vars, Stream!reading, Stream!using
  <2>2. QED
    BY <1>6, <2>1
<1>14. CASE Stream!PollFrame \/ Stream!PollChunk \/ Stream!PollBodyEnd
  <2>1. CASE Stream!PollFrame
    BY <1>1, <1>3, <1>6, <1>7, <2>1 DEF Stream!PollFrame
  <2>2. CASE Stream!PollChunk
    BY <1>6, <2>2 DEF Stream!PollChunk, Stream!Ends, Stream!using
  <2>3. CASE Stream!PollBodyEnd
    BY <1>1, <1>6, <1>8, <2>3 DEF Stream!PollBodyEnd, Stream!Ends
  <2>4. QED
    BY <1>14, <2>1, <2>2, <2>3
<1>15. CASE Stream!ReadChunk \/ Stream!PassOn \/ Stream!ReadBodyEnd \/ Stream!Receive
  <2>1. CASE Stream!ReadChunk
    BY <1>6, <2>1 DEF Stream!ReadChunk, Stream!using
  <2>2. CASE Stream!PassOn
    BY <1>2, <1>3, <1>6, <1>9, <2>2 DEF Stream!PassOn, Stream!IsEnd, Stream!using
  <2>3. CASE Stream!ReadBodyEnd
    BY <1>2, <1>6, <1>10, <2>3 DEF Stream!ReadBodyEnd, Stream!using
  <2>4. CASE Stream!Receive
    BY <1>1, <1>2, <1>6, <1>11, <2>4 DEF Stream!Receive
  <2>5. QED
    BY <1>15, <2>1, <2>2, <2>3, <2>4
<1>16. CASE Stream!Drop
  BY <1>6, <1>12, <1>16 DEF Stream!Drop
<1>17. QED
  BY <1>13, <1>14, <1>15, <1>16 DEF Stream!Next, Stream!Read

\* What the invariant says of the consumer.
LEMMA StreamImplies == StreamInv /\ Clean => Stream!InOrder /\ Stream!EndIsComplete
<1> SUFFICES ASSUME StreamInv, Clean PROVE Stream!InOrder /\ Stream!EndIsComplete
  OBVIOUS
<1>1. StreamTypes /\ got \in Seq(Frame)
  BY DEF StreamInv, StreamTypes
<1>2. PICK a \in 0 .. Len(made), b \in 0 .. Len(made), c \in 0 .. Len(made),
           d \in 0 .. Len(made), e \in 0 .. Len(made) : Stages(a, b, c, d, e)
  BY DEF StreamInv, Ordered
<1>3. a \in Nat /\ Stream!Sent \in SUBSET (1 .. MaxItems) /\ Holds(got, Stream!Sent, 0, a)
  BY <1>1, <1>2, SentType DEF Stages
<1>4. Stream!InOrder
  <2> SUFFICES ASSUME NEW i \in 1 .. Len(got), got[i] # Stream!Error
               PROVE  got[i] \in Stream!Sent /\ \A k \in Stream!Sent : k < got[i] <=> \E j \in 1 .. i - 1 : got[j] = k
    BY <1>1, LenProperties DEF Stream!InOrder
  <2>1. PICK s \in Seq(Frame) : s = got
    BY <1>1
  <2>2. got[i] \in 1 .. MaxItems
    <3>1. got[i] \in Frame /\ got[i] \in Stream!Items(got)
      BY <1>1, LenProperties DEF Stream!Items
    <3>2. got[i] # Stream!End
      BY <3>1 DEF Clean
    <3>3. QED
      BY <3>1, <3>2, ItemsAssumption DEF Frame, Stream!End, Stream!Error
  <2>3. Holds(s, Stream!Sent, 0, a) /\ i \in 1 .. Len(s) /\ s[i] \in 1 .. MaxItems
    BY <1>3, <2>1, <2>2
  <2>4. s[i] \in Stream!Sent /\ \A k \in Stream!Sent : k < s[i] <=> \E j \in 1 .. i - 1 : s[j] = k
    BY <1>3, <2>3, HoldsOrder
  <2>5. QED
    BY <2>1, <2>4
<1>5. Stream!EndIsComplete
  BY DEF StreamInv, EndInv, Stream!EndIsComplete
<1>6. QED
  BY <1>4, <1>5

-----------------------------------------------------------------------------
(* What a caller relies on                                                 *)

PackInv == BreakerInv /\ StreamInv /\ Clean

\* The invariants of the breaker and of the stream hold of every reachable state:
\* a part steps as its own specification says, and the other rests.
THEOREM PackCorrect == PackSpec => []PackInv
<1>1. PackInit => PackInv
  <2> SUFFICES ASSUME PackInit PROVE PackInv
    OBVIOUS
  <2>1. Breaker!Init /\ Stream!Init
    BY DEF PackInit
  <2>2. Clean
    <3>1. got = <<>> /\ queue = <<>>
      BY <2>1 DEF Stream!Init
    <3>2. QED
      BY <3>1, ItemsEmpty DEF Clean
  <2>3. QED
    BY <2>1, <2>2, BreakerInit, StreamInit DEF PackInv
<1>2. PackInv /\ [PackNext]_<<part, callerVars, streamVars>> => PackInv'
  <2> SUFFICES ASSUME PackInv, [PackNext]_<<part, callerVars, streamVars>> PROVE PackInv'
    OBVIOUS
  <2>1. Breaker!Next \/ UNCHANGED Breaker!vars
    BY DEF PackNext, callerVars, Breaker!vars, Breaker!breakerVars
  <2>2. Stream!Next \/ UNCHANGED Stream!vars
    BY DEF PackNext, streamVars, Stream!vars, Stream!sending, Stream!reading, Stream!using
  <2>3. BreakerInv'
    BY <2>1, BreakerStep DEF PackInv
  <2>4. StreamInv' /\ Clean'
    BY <2>2, StreamStep, CleanStep DEF PackInv, StreamInv
  <2>5. QED
    BY <2>3, <2>4 DEF PackInv
<1>3. QED
  BY <1>1, <1>2, PTL DEF PackSpec

\* Every field, counter and caller of the breaker keeps its type; the counters stay
\* within their thresholds.
THEOREM BreakerTypes == PackSpec => []Breaker!TypeOK
<1>1. PackInv => Breaker!TypeOK
  BY DEF PackInv, BreakerInv
<1>2. QED
  BY PackCorrect, <1>1, PTL

\* Once no failure is being judged, a closed breaker is below its threshold.
THEOREM ClosedIsBelow == PackSpec => []ClosedBelowThreshold
<1>1. PackInv => ClosedBelowThreshold
  BY ThresholdAssumption
  DEF PackInv, BreakerInv, Breaker!TypeOK, OpenerExists, WillOpen, ClosedBelowThreshold,
      Breaker!ClosedBelowThreshold
<1>2. QED
  BY PackCorrect, <1>1, PTL

\* The consumer of a stream gets its messages in their order, none twice and none
\* left out, and one that saw the end and no error got all of them, for a stream of
\* any length, any capacity of the channels and any way the body is cut.
THEOREM StreamDelivers == PackSpec => []StreamIsComplete
<1>1. PackInv => StreamIsComplete
  BY StreamImplies DEF PackInv, StreamIsComplete
<1>2. QED
  BY PackCorrect, <1>1, PTL
=============================================================================
