--------------------------- MODULE ConnectionPool ---------------------------
(***************************************************************************)
(* The HTTP/2 connection pool of one host (transport/http2/pool.rs): the   *)
(* vector of pooled connections, the semaphore whose permits live as long  *)
(* as the connections, its expansion, the back-off after a failed connect, *)
(* the guards that lend a connection to a request and the cleanup task.    *)
(*                                                                         *)
(* Requests are tasks on a multi-threaded runtime.  What one task does     *)
(* between two awaits is not atomic for the others: a scan takes each      *)
(* connection's lock with try_lock, looks, and releases it, while another  *)
(* thread drops its guard, which also only tries to lock.  The read-write  *)
(* lock around the hosts' map is respected: nobody scans during a sweep    *)
(* and nobody changes the vector during a scan.                            *)
(*                                                                         *)
(* Abstractions: the order of the vector (a scan may visit it in any       *)
(* order), the queue of the semaphore (any waiter may take a released      *)
(* permit) and the clock (a back-off, an age and a timeout end when they   *)
(* end).                                                                   *)
(***************************************************************************)
EXTENDS Naturals, FiniteSets

CONSTANTS
  Tasks,                   \* requests that share the pool
  Conns,                   \* identities of connections; reused once closed
  MaxConnectionsPerHost,   \* PoolConfig::max_connections_per_host
  MaxPermits,              \* Semaphore::MAX_PERMITS
  MaxRequests,             \* PoolConfig::max_requests_per_connection
  Cleaner,                 \* the cleanup task, as the owner of a lock
  NoOne                    \* no owner; no connection

ASSUME PermitsAssumption ==
  /\ MaxConnectionsPerHost \in Nat
  /\ MaxPermits \in Nat \ {0}
  /\ MaxRequests \in Nat \ {0}

ASSUME NamesAssumption ==
  /\ NoOne \notin Tasks \cup Conns \cup {Cleaner}
  /\ Cleaner \notin Tasks

VARIABLES
  cap,       \* current_cap; 0 while the host has no pool
  permits,   \* available permits of the semaphore
  live,      \* connections that exist, each with its permit
  pooled,    \* the vector of the host pool
  active,    \* connections in state Active (the others are Idle)
  unfit,     \* connections whose sender is not ready any more, or that are
             \* past max_connection_age or max_idle_time
  uses,      \* request_count
  locked,    \* who holds the connection's mutex
  backoff,   \* should_backoff()
  pc,        \* where each task is
  held,      \* the connection a task made or was lent
  seen,      \* what a scan has looked at
  sweep      \* what the running cleanup has yet to visit; NoOne while
             \* there is none, Cleaner while it waits for the lock

poolVars == <<cap, permits, live, pooled, backoff>>
connVars == <<active, unfit, uses>>
vars == <<poolVars, connVars, locked, pc, held, seen, sweep>>

-----------------------------------------------------------------------------

Steps == {"idle", "scan", "check", "backoff", "ensure", "acquire", "expand",
          "wait", "connect", "refused", "record", "push", "use", "send", "drop"}

\* ConnectionGuard: the connection is lent to the task until it is dropped.
Guarding == {"use", "send", "drop"}

\* The read-write lock around the hosts' map.  A scan holds it for reading,
\* a sweep for writing; it is a fair queue, so behind readers that hold it a
\* waiting writer comes before every new reader.
Scanning == {t \in Tasks : pc[t] = "check" \/ (pc[t] = "scan" /\ seen[t] # {})}
Writers == {t \in Tasks : pc[t] \in {"ensure", "expand", "refused", "record", "push"}}
Sweeping == sweep \notin {NoOne, Cleaner}
ReadLock == ~Sweeping /\ (Scanning = {} \/ (Writers = {} /\ sweep = NoOne))
WriteLock == ~Sweeping /\ Scanning = {}

Go(t, step) == pc' = [pc EXCEPT ![t] = step]

is_healthy(c) == c \notin unfit /\ uses[c] < MaxRequests

Init ==
  /\ cap = 0 /\ permits = 0 /\ live = {} /\ pooled = {} /\ backoff = FALSE
  /\ active = {} /\ unfit = {}
  /\ uses = [c \in Conns |-> 0]
  /\ locked = [c \in Conns |-> NoOne]
  /\ pc = [t \in Tasks |-> "idle"]
  /\ held = [t \in Tasks |-> NoOne]
  /\ seen = [t \in Tasks |-> {}]
  /\ sweep = NoOne

-----------------------------------------------------------------------------
(* get_connection: try_get_existing, then create_new_connection            *)

get_connection(t) ==
  /\ pc[t] = "idle"
  /\ Go(t, "scan")
  /\ UNCHANGED <<poolVars, connVars, locked, held, seen, sweep>>

\* The scan tries the lock of the next connection of the vector.
ScanTry(t) ==
  /\ pc[t] = "scan" /\ (seen[t] # {} \/ ReadLock)
  /\ \E c \in pooled \ seen[t] :
       /\ seen' = [seen EXCEPT ![t] = @ \cup {c}]
       /\ IF locked[c] = NoOne
            THEN /\ locked' = [locked EXCEPT ![c] = t]
                 /\ held' = [held EXCEPT ![t] = c]
                 /\ Go(t, "check")
            ELSE UNCHANGED <<locked, held, pc>>
  /\ UNCHANGED <<poolVars, connVars, sweep>>

\* Mutant of ScanCheck: the state of the connection is not looked at.
ScanAnyState(t) ==
  /\ pc[t] = "check"
  /\ locked' = [locked EXCEPT ![held[t]] = NoOne]
  /\ IF is_healthy(held[t])
       THEN /\ active' = active \cup {held[t]}
            /\ uses' = [uses EXCEPT ![held[t]] = @ + 1]
            /\ seen' = [seen EXCEPT ![t] = {}]
            /\ Go(t, "use")
            /\ UNCHANGED held
       ELSE /\ held' = [held EXCEPT ![t] = NoOne]
            /\ Go(t, "scan")
            /\ UNCHANGED <<active, uses, seen>>
  /\ UNCHANGED <<poolVars, unfit, sweep>>

\* Idle and healthy: mark_used and return the guard.  Otherwise look further.
ScanCheck(t) ==
  /\ pc[t] = "check"
  /\ locked' = [locked EXCEPT ![held[t]] = NoOne]
  /\ IF held[t] \notin active /\ is_healthy(held[t])
       THEN /\ active' = active \cup {held[t]}
            /\ uses' = [uses EXCEPT ![held[t]] = @ + 1]
            /\ seen' = [seen EXCEPT ![t] = {}]
            /\ Go(t, "use")
            /\ UNCHANGED held
       ELSE /\ held' = [held EXCEPT ![t] = NoOne]
            /\ Go(t, "scan")
            /\ UNCHANGED <<active, uses, seen>>
  /\ UNCHANGED <<poolVars, unfit, sweep>>

\* Nothing to reuse: the read lock is released.
ScanEnd(t) ==
  /\ pc[t] = "scan" /\ (seen[t] # {} \/ ReadLock) /\ pooled \subseteq seen[t]
  /\ seen' = [seen EXCEPT ![t] = {}]
  /\ Go(t, "backoff")
  /\ UNCHANGED <<poolVars, connVars, locked, held, sweep>>

\* A recent connect error turns the request away.
CheckBackoff(t) ==
  /\ pc[t] = "backoff" /\ ReadLock
  /\ Go(t, IF cap # 0 /\ backoff THEN "idle" ELSE "ensure")
  /\ UNCHANGED <<poolVars, connVars, locked, held, seen, sweep>>

\* HostPool::new
NewCap ==
  IF MaxConnectionsPerHost = 0 THEN 1
  ELSE IF MaxConnectionsPerHost > MaxPermits THEN MaxPermits
  ELSE MaxConnectionsPerHost

EnsurePool(t) ==
  /\ pc[t] = "ensure" /\ WriteLock
  /\ IF cap = 0 THEN cap' = NewCap /\ permits' = NewCap
                ELSE UNCHANGED <<cap, permits>>
  /\ Go(t, "acquire")
  /\ UNCHANGED <<live, pooled, backoff, connVars, locked, held, seen, sweep>>

\* try_acquire_owned
TryAcquire(t) ==
  /\ pc[t] = "acquire"
  /\ IF permits > 0 THEN permits' = permits - 1 /\ Go(t, "connect")
                    ELSE UNCHANGED permits /\ Go(t, "expand")
  /\ UNCHANGED <<cap, live, pooled, backoff, connVars, locked, held, seen, sweep>>

\* HostPool::expand
Doubled == IF 2 * cap > MaxPermits THEN MaxPermits ELSE 2 * cap

\* expand_and_acquire, under the write lock: double the cap unless a permit
\* has become available meanwhile; at the semaphore's limit the request fails.
Expand(t) ==
  /\ pc[t] = "expand" /\ WriteLock
  /\ IF permits = 0
       THEN IF Doubled = cap
              THEN Go(t, "idle") /\ UNCHANGED <<cap, permits>>
              ELSE /\ cap' = Doubled
                   /\ permits' = permits + (Doubled - cap)
                   /\ Go(t, "wait")
       ELSE Go(t, "wait") /\ UNCHANGED <<cap, permits>>
  /\ UNCHANGED <<live, pooled, backoff, connVars, locked, held, seen, sweep>>

\* acquire_owned, and its timeout.
Acquire(t) ==
  /\ pc[t] = "wait" /\ permits > 0
  /\ permits' = permits - 1
  /\ Go(t, "connect")
  /\ UNCHANGED <<cap, live, pooled, backoff, connVars, locked, held, seen, sweep>>

AcquireTimeout(t) ==
  /\ pc[t] = "wait"
  /\ Go(t, "idle")
  /\ UNCHANGED <<poolVars, connVars, locked, held, seen, sweep>>

\* create_connection_inner: PooledConnection::new, then mark_used.
Connect(t) ==
  /\ pc[t] = "connect"
  /\ \E c \in Conns \ live :
       /\ live' = live \cup {c}
       /\ active' = active \cup {c}
       /\ uses' = [uses EXCEPT ![c] = 1]
       /\ held' = [held EXCEPT ![t] = c]
  /\ Go(t, "record")
  /\ UNCHANGED <<cap, permits, pooled, backoff, unfit, locked, seen, sweep>>

\* Mutant of ConnectFails: the permit of a failed connect is not returned.
ConnectFailsLeaking(t) ==
  /\ pc[t] = "connect"
  /\ Go(t, "refused")
  /\ UNCHANGED <<poolVars, connVars, locked, held, seen, sweep>>

\* The connect or the handshake fails or times out: the permit is dropped.
ConnectFails(t) ==
  /\ pc[t] = "connect"
  /\ permits' = permits + 1
  /\ Go(t, "refused")
  /\ UNCHANGED <<cap, live, pooled, backoff, connVars, locked, held, seen, sweep>>

record_error(t) ==
  /\ pc[t] = "refused" /\ WriteLock
  /\ backoff' = TRUE
  /\ Go(t, "idle")
  /\ UNCHANGED <<cap, permits, live, pooled, connVars, locked, held, seen, sweep>>

\* error_count goes back to 0; last_error stays, so a back-off may go on.
record_success(t) ==
  /\ pc[t] = "record" /\ WriteLock
  /\ Go(t, "push")
  /\ UNCHANGED <<poolVars, connVars, locked, held, seen, sweep>>

AddToPool(t) ==
  /\ pc[t] = "push" /\ WriteLock
  /\ pooled' = IF Cardinality(pooled) < cap THEN pooled \cup {held[t]} ELSE pooled
  /\ Go(t, "use")
  /\ UNCHANGED <<cap, permits, live, backoff, connVars, locked, held, seen, sweep>>

-----------------------------------------------------------------------------
(* The request on the connection, and the end of its guard                 *)

\* The last reference to a connection is gone: it is closed and its permit
\* returned.
Close(C) ==
  /\ live' = live \ C
  /\ permits' = permits + Cardinality(C)
  /\ active' = active \ C
  /\ unfit' = unfit \ C
  /\ uses' = [c \in Conns |-> IF c \in C THEN 0 ELSE uses[c]]

Users(c) == {t \in Tasks : held[t] = c /\ pc[t] \in {"record", "push"} \cup Guarding}

\* ConnectionGuard::get: the mutex is fair, a scan holds it for an instant.
LockConnection(t) ==
  /\ pc[t] = "use" /\ locked[held[t]] = NoOne
  /\ locked' = [locked EXCEPT ![held[t]] = t]
  /\ Go(t, "send")
  /\ UNCHANGED <<poolVars, connVars, held, seen, sweep>>

\* Http2Client::send_request is over: answered, failed, or timed out.  The
\* lock is dropped before the guard.
RequestEnds(t) ==
  /\ pc[t] = "send"
  /\ locked' = [locked EXCEPT ![held[t]] = NoOne]
  /\ Go(t, "drop")
  /\ UNCHANGED <<poolVars, connVars, held, seen, sweep>>

\* ConnectionGuard::drop: mark_idle only if the lock is free at that moment.
DropGuard(t) ==
  LET c == held[t] IN
  /\ pc[t] = "drop"
  /\ IF c \notin pooled
       THEN Close({c})
       ELSE /\ active' = IF locked[c] = NoOne THEN active \ {c} ELSE active
            /\ UNCHANGED <<live, permits, unfit, uses>>
  /\ held' = [held EXCEPT ![t] = NoOne]
  /\ Go(t, "idle")
  /\ UNCHANGED <<cap, pooled, backoff, locked, seen, sweep>>

\* The caller gives up and the future is dropped at an await: what the task
\* owns at that point is dropped with it.
Cancel(t) ==
  /\ \/ /\ pc[t] \in {"backoff", "ensure", "expand", "wait", "refused"}
        /\ Go(t, "idle")
        /\ UNCHANGED <<live, permits, connVars, locked, held>>
     \/ /\ pc[t] = "connect"
        /\ permits' = permits + 1
        /\ Go(t, "idle")
        /\ UNCHANGED <<live, connVars, locked, held>>
     \/ /\ pc[t] \in {"record", "push"}
        /\ Close({held[t]})
        /\ held' = [held EXCEPT ![t] = NoOne]
        /\ Go(t, "idle")
        /\ UNCHANGED locked
     \/ /\ pc[t] = "use"
        /\ Go(t, "drop")
        /\ UNCHANGED <<live, permits, connVars, locked, held>>
  /\ UNCHANGED <<cap, pooled, backoff, seen, sweep>>

-----------------------------------------------------------------------------
(* cleanup, every cleanup_interval, under the write lock                   *)

CleanupTick ==
  /\ sweep = NoOne
  /\ sweep' = Cleaner
  /\ UNCHANGED <<poolVars, connVars, locked, pc, held, seen>>

CleanupStart ==
  /\ sweep = Cleaner /\ WriteLock
  /\ sweep' = pooled
  /\ UNCHANGED <<poolVars, connVars, locked, pc, held, seen>>

\* retain: a connection that is locked is in use and stays.
CleanupTry ==
  /\ Sweeping
  /\ \A c \in Conns : locked[c] # Cleaner
  /\ \E c \in sweep :
       IF locked[c] = NoOne
         THEN locked' = [locked EXCEPT ![c] = Cleaner] /\ UNCHANGED sweep
         ELSE sweep' = sweep \ {c} /\ UNCHANGED locked
  /\ UNCHANGED <<poolVars, connVars, pc, held, seen>>

\* Mutant of CleanupCheck: a connection marked Active is taken to be in use.
CleanupSparesActive ==
  /\ Sweeping
  /\ \E c \in sweep :
       /\ locked[c] = Cleaner
       /\ locked' = [locked EXCEPT ![c] = NoOne]
       /\ sweep' = sweep \ {c}
       /\ IF is_healthy(c) \/ c \in active
            THEN UNCHANGED <<pooled, live, permits, connVars>>
            ELSE pooled' = pooled \ {c} /\ Close({c})
  /\ UNCHANGED <<cap, backoff, pc, held, seen>>

\* An unhealthy one leaves the vector, whatever its state; it is closed
\* unless a guard still holds it.
CleanupCheck ==
  /\ Sweeping
  /\ \E c \in sweep :
       /\ locked[c] = Cleaner
       /\ locked' = [locked EXCEPT ![c] = NoOne]
       /\ sweep' = sweep \ {c}
       /\ IF is_healthy(c)
            THEN UNCHANGED <<pooled, live, permits, connVars>>
            ELSE /\ pooled' = pooled \ {c}
                 /\ IF Users(c) = {} THEN Close({c})
                                     ELSE UNCHANGED <<live, permits, connVars>>
  /\ UNCHANGED <<cap, backoff, pc, held, seen>>

CleanupEnd ==
  /\ Sweeping /\ sweep = {}
  /\ sweep' = NoOne
  /\ UNCHANGED <<poolVars, connVars, locked, pc, held, seen>>

-----------------------------------------------------------------------------
(* The environment                                                         *)

\* The peer closes a connection, or its age or its idle time runs out.
Expire(c) ==
  /\ c \in live \ unfit
  /\ unfit' = unfit \cup {c}
  /\ UNCHANGED <<poolVars, active, uses, locked, pc, held, seen, sweep>>

BackoffEnds ==
  /\ backoff /\ backoff' = FALSE
  /\ UNCHANGED <<cap, permits, live, pooled, connVars, locked, pc, held, seen, sweep>>

-----------------------------------------------------------------------------

Step(t) ==
  \/ ScanTry(t) \/ ScanCheck(t) \/ ScanEnd(t) \/ CheckBackoff(t) \/ EnsurePool(t)
  \/ TryAcquire(t) \/ Expand(t) \/ Acquire(t) \/ AcquireTimeout(t)
  \/ Connect(t) \/ ConnectFails(t) \/ record_error(t) \/ record_success(t)
  \/ AddToPool(t) \/ LockConnection(t) \/ RequestEnds(t) \/ DropGuard(t)

cleanup == CleanupTick \/ CleanupStart \/ CleanupTry \/ CleanupCheck \/ CleanupEnd

Next ==
  \/ \E t \in Tasks : get_connection(t) \/ Step(t) \/ Cancel(t)
  \/ cleanup
  \/ \E c \in Conns : Expire(c)
  \/ BackoffEnds

\* The locks are fair queues (tokio), the cleanup runs on an interval and
\* connections age: a task that can go on again and again does.
Spec ==
  /\ Init /\ [][Next]_vars
  /\ \A t \in Tasks : SF_vars(Step(t))
  /\ SF_vars(CleanupStart) /\ WF_vars(CleanupTick \/ CleanupTry \/ CleanupCheck \/ CleanupEnd)
  /\ \A c \in Conns : WF_vars(Expire(c))

-----------------------------------------------------------------------------

TypeOK ==
  /\ cap \in Nat /\ permits \in Nat
  /\ live \subseteq Conns /\ pooled \subseteq live
  /\ active \subseteq live /\ unfit \subseteq live
  /\ backoff \in BOOLEAN
  /\ uses \in [Conns -> Nat]
  /\ locked \in [Conns -> Tasks \cup {Cleaner, NoOne}]
  /\ pc \in [Tasks -> Steps]
  /\ held \in [Tasks -> Conns \cup {NoOne}]
  /\ seen \in [Tasks -> SUBSET Conns]
  /\ sweep \in (SUBSET Conns) \cup {NoOne, Cleaner}

\* "permit was acquired above, so cap always has room" (pool.rs:363): when a
\* task is about to add its connection, the vector is shorter than the cap,
\* whatever expansions, cleanups and cancellations happened since.
PoolHasRoom == \A t \in Tasks : pc[t] = "push" => Cardinality(pooled) < cap

Connecting == {t \in Tasks : pc[t] = "connect"}

\* Every permit is either available, with a task that is connecting, or with
\* one live connection: none leaks and none is released twice.
PermitsAccounted ==
  permits + Cardinality(live) + Cardinality(Connecting) = cap

\* A connection is lent to one request at a time, and a request that has a
\* guard has a connection that is still open.
LentOnce ==
  \A t \in Tasks : pc[t] \in {"record", "push"} \cup Guarding =>
    /\ held[t] \in live \cap active
    /\ \A u \in Tasks \ {t} :
         pc[u] \in {"record", "push"} \cup Guarding => held[u] # held[t]

\* A guard dropped while a scan or the cleanup has the lock leaves its
\* connection Active for ever, and no request will use it again.  The cleanup
\* takes it out of the vector once it is too old, and the permit comes back.
Stuck(c) == c \in pooled /\ c \in active /\ Users(c) = {}
StuckIsReclaimed == \A c \in Conns : Stuck(c) ~> ~Stuck(c)

=============================================================================
