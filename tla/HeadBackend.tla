---------------------------- MODULE HeadBackend ----------------------------
(***************************************************************************)
(* The naming backend with a head node (HeadNodeBackend of crates/         *)
(* pulsing-actor/src/cluster/backends/head.rs): the head's tables, the     *)
(* workers' caches and pending operations, their join, sync and heartbeat  *)
(* tasks, and the head's removal of stale nodes.                           *)
(*                                                                         *)
(* A request is one or two steps: the head handles it, and the worker gets *)
(* the answer.  It may fail before or after it was handled (MaxLosses      *)
(* times, and always while the head is down).  A key is a named actor's    *)
(* path or an actor's id, and its value the nodes registered under it: an  *)
(* id is only ever registered by the node that spawned the actor, so that  *)
(* replacing its owner, removing it by its owner and removing it outright  *)
(* are what adding and removing the node are for a path.                   *)
(*                                                                         *)
(* Time is a Tick.  It does not pass while a heartbeat is due: delays are  *)
(* short against heartbeat_timeout.                                        *)
(***************************************************************************)
EXTENDS Integers, Sequences, FiniteSets

CONSTANTS
    Workers, HeadNode,
    Keys,
    Callers,       \* tasks of a worker that spawn and stop actors
    Interval,      \* heartbeat_interval, in ticks
    Timeout,       \* heartbeat_timeout, in ticks
    MaxCalls,      \* node -> registrations and unregistrations it makes
    MaxLosses,     \* requests that fail although the head is up
    MaxHeads       \* head processes, one after the other

Nodes == Workers \cup {HeadNode}
Tasks == Callers \cup {"sync"}    \* what may run process_pending_sync

ASSUME HeadAssumption ==
    /\ HeadNode \notin Workers
    /\ "sync" \notin Callers
    /\ Interval \in Nat \ {0} /\ Timeout \in Nat /\ Interval <= Timeout
    /\ MaxCalls \in [Nodes -> Nat] /\ MaxLosses \in Nat /\ MaxHeads \in Nat \ {0}

VARIABLES
    nodes,        \* node -> age of its last heartbeat, or Absent
    registry,     \* key -> nodes registered under it
    up, heads,    \* the head runs; the number of head processes so far
    alive,        \* worker -> its process runs
    join,         \* worker -> how far join() is
    home,         \* worker -> the head process it registered with
    cancelled,    \* worker -> the node's token is cancelled
    loops,        \* worker -> its running background loops
    due,          \* worker -> ticks since the last heartbeat
    cache,        \* worker -> cached members and registry
    response,     \* worker -> <<view>> on its way to the sync loop
    pending,      \* worker -> pending_sync
    flush,        \* worker -> task -> state of its process_pending_sync
    own,          \* node -> keys of the actors it runs
    calls,        \* node -> registry calls made
    losses,
    applied       \* history: <<worker, number>> of the operations handled

head    == <<nodes, registry, up, heads>>
process == <<alive, join, home, cancelled, loops, due>>
syncing == <<cache, response>>
ops     == <<pending, flush>>
vars    == <<head, process, syncing, ops, own, calls, losses, applied>>

Absent == -1
Idle   == [at |-> "idle", batch |-> <<>>]
Nobody == [k \in Keys |-> {}]
Members == {n \in Nodes : nodes[n] # Absent}

\* handle_sync: all members, all named actors, all actors.
View == [members |-> Members, registry |-> registry]

Views == [members : SUBSET Nodes, registry : [Keys -> SUBSET Nodes]]
Operations == [do : {"register", "unregister"}, key : Keys, number : Nat]

\* The one type invariant.
TypeOK ==
    /\ nodes \in [Nodes -> (0..(Timeout + 1)) \cup {Absent}]
    /\ registry \in [Keys -> SUBSET Nodes]
    /\ up \in BOOLEAN /\ heads \in 1..MaxHeads
    /\ alive \in [Workers -> BOOLEAN]
    /\ join \in [Workers -> {"register", "sync", "joined", "failed"}]
    /\ home \in [Workers -> 0..MaxHeads]
    /\ cancelled \in [Workers -> BOOLEAN]
    /\ loops \in [Workers -> SUBSET {"sync", "heartbeat"}]
    /\ due \in [Workers -> 0..Interval]
    /\ \A w \in Workers : cache[w] \in Views
    /\ \A w \in Workers : response[w] = <<>> \/ response[w][1] \in Views
    /\ \A w \in Workers : pending[w] \in Seq(Operations)
    /\ \A w \in Workers, t \in Tasks :
          /\ flush[w][t].at \in {"idle", "take", "send", "sent"}
          /\ flush[w][t].batch \in Seq(Operations)
          /\ (flush[w][t].batch = <<>>) <=> (flush[w][t].at \in {"idle", "take"})
    /\ own \in [Nodes -> SUBSET Keys]
    /\ \A n \in Nodes : calls[n] \in 0..MaxCalls[n]
    /\ losses \in 0..MaxLosses
    /\ \A o \in applied : o[1] \in Workers /\ o[2] \in 1..calls[o[1]]

\* The head has joined: it registered itself.  The workers' loops are started
\* before they join, with the first heartbeat due at once.
Init ==
    /\ nodes = [n \in Nodes |-> IF n = HeadNode THEN 0 ELSE Absent]
    /\ registry = Nobody
    /\ up = TRUE /\ heads = 1
    /\ alive = [w \in Workers |-> TRUE]
    /\ join = [w \in Workers |-> "register"]
    /\ home = [w \in Workers |-> 0]
    /\ cancelled = [w \in Workers |-> FALSE]
    /\ loops = [w \in Workers |-> {"sync", "heartbeat"}]
    /\ due = [w \in Workers |-> Interval]
    /\ cache = [w \in Workers |-> [members |-> {}, registry |-> Nobody]]
    /\ response = [w \in Workers |-> <<>>]
    /\ pending = [w \in Workers |-> <<>>]
    /\ flush = [w \in Workers |-> [t \in Tasks |-> Idle]]
    /\ own = [n \in Nodes |-> {}]
    /\ calls = [n \in Nodes |-> 0]
    /\ losses = 0
    /\ applied = {}

-----------------------------------------------------------------------------
(* The tables *)

\* A registration or unregistration by node n, in the head's tables and in a
\* worker's cache alike.
Performed(table, do, k, n) ==
    [table EXCEPT ![k] = IF do = "register" THEN @ \cup {n} ELSE @ \ {n}]

\* handle_register_node.
HandleRegisterNode(w) == [nodes EXCEPT ![w] = 0]

\* The queries a node answers, the head from its tables, a worker from its cache.
AllMembers(n) == IF n = HeadNode THEN Members ELSE cache[n].members
LookupNamedActor(n, k) == IF n = HeadNode THEN registry[k] ELSE cache[n].registry[k]

\* A request fails: it is lost or refused, or nobody listens.
Fails ==
    /\ up => losses < MaxLosses
    /\ losses' = IF up THEN losses + 1 ELSE losses

-----------------------------------------------------------------------------
(* join() *)

JoinRegister(w) ==
    /\ alive[w] /\ up
    /\ join[w] = "register"
    /\ nodes' = HandleRegisterNode(w)
    /\ join' = [join EXCEPT ![w] = "sync"]
    /\ home' = [home EXCEPT ![w] = heads]
    /\ UNCHANGED <<registry, up, heads, alive, cancelled, loops, due, syncing, ops, own,
                   calls, losses, applied>>

\* The initial sync.  The node has no actors yet that its answer could miss.
JoinSync(w) ==
    /\ alive[w] /\ up
    /\ join[w] = "sync"
    /\ cache' = [cache EXCEPT ![w] = View]
    /\ join' = [join EXCEPT ![w] = "joined"]
    /\ UNCHANGED <<head, alive, home, cancelled, loops, due, response, ops, own, calls,
                   losses, applied>>

\* ActorSystem::new cleans up and returns the error.
JoinFail(w) ==
    /\ alive[w]
    /\ join[w] \in {"register", "sync"}
    /\ Fails
    /\ join' = [join EXCEPT ![w] = "failed"]
    /\ cancelled' = [cancelled EXCEPT ![w] = TRUE]
    /\ UNCHANGED <<head, alive, home, loops, due, syncing, ops, own, calls, applied>>

-----------------------------------------------------------------------------
(* Registering and unregistering: process_pending_sync *)

\* An operation of the local registry: queued and applied to the cache under one
\* lock.  A worker that registers a key does not run it yet, one that unregisters
\* it does.
Call(w, c, do, k) ==
    /\ alive[w]
    /\ join[w] = "joined"
    /\ flush[w][c].at = "idle"
    /\ calls[w] < MaxCalls[w]
    /\ (do = "register") <=> (k \notin own[w])
    /\ LET op == [do |-> do, key |-> k, number |-> calls[w] + 1] IN
          /\ pending' = [pending EXCEPT ![w] = Append(@, op)]
          /\ cache' = [cache EXCEPT ![w].registry = Performed(@, do, k, w)]
    /\ own' = [own EXCEPT ![w] = IF do = "register" THEN @ \cup {k} ELSE @ \ {k}]
    /\ calls' = [calls EXCEPT ![w] = @ + 1]
    /\ flush' = [flush EXCEPT ![w][c].at = "take"]
    /\ UNCHANGED <<head, process, response, losses, applied>>

\* The head's own actors go to its tables at once.
HeadCall(do, k) ==
    /\ up
    /\ calls[HeadNode] < MaxCalls[HeadNode]
    /\ (do = "register") <=> (k \notin own[HeadNode])
    /\ registry' = Performed(registry, do, k, HeadNode)
    /\ own' = [own EXCEPT ![HeadNode] = IF do = "register" THEN @ \cup {k} ELSE @ \ {k}]
    /\ calls' = [calls EXCEPT ![HeadNode] = @ + 1]
    /\ UNCHANGED <<nodes, up, heads, process, syncing, ops, losses, applied>>

\* The state of a task with these operations left to send.
Sending(batch) == IF batch = <<>> THEN Idle ELSE [at |-> "send", batch |-> batch]

\* take_pending_sync: whoever comes first takes everything.
Take(w, t) ==
    /\ flush[w][t].at = "take"
    /\ flush' = [flush EXCEPT ![w][t] = Sending(pending[w])]
    /\ pending' = [pending EXCEPT ![w] = <<>>]
    /\ UNCHANGED <<head, process, syncing, own, calls, losses, applied>>

\* The head handles the request; it does not ask whether the node is registered.
Deliver(w, t) ==
    /\ up
    /\ flush[w][t].at = "send"
    /\ LET op == Head(flush[w][t].batch) IN
          /\ registry' = Performed(registry, op.do, op.key, w)
          /\ applied' = applied \cup {<<w, op.number>>}
    /\ flush' = [flush EXCEPT ![w][t].at = "sent"]
    /\ UNCHANGED <<nodes, up, heads, process, syncing, pending, own, calls, losses>>

Reply(w, t) ==
    /\ flush[w][t].at = "sent"
    /\ flush' = [flush EXCEPT ![w][t] = Sending(Tail(flush[w][t].batch))]
    /\ UNCHANGED <<head, process, syncing, pending, own, calls, losses, applied>>

\* Mutant of Lose: the operation is logged and forgotten.
LoseForgets(w, t) ==
    /\ flush[w][t].at \in {"send", "sent"}
    /\ Fails
    /\ flush' = [flush EXCEPT ![w][t] = Sending(Tail(flush[w][t].batch))]
    /\ UNCHANGED <<head, process, syncing, pending, own, calls, applied>>

\* The request fails, handled or not: the operation is queued again, behind what
\* was queued in the meantime.
Lose(w, t) ==
    /\ flush[w][t].at \in {"send", "sent"}
    /\ Fails
    /\ pending' = [pending EXCEPT ![w] = Append(@, Head(flush[w][t].batch))]
    /\ flush' = [flush EXCEPT ![w][t] = Sending(Tail(flush[w][t].batch))]
    /\ UNCHANGED <<head, process, syncing, own, calls, applied>>

-----------------------------------------------------------------------------
(* The background loops *)

SyncIdle(w) ==
    /\ "sync" \in loops[w]
    /\ flush[w]["sync"].at = "idle"

SyncRequest(w) ==
    /\ SyncIdle(w) /\ up
    /\ response[w] = <<>>
    /\ response' = [response EXCEPT ![w] = <<View>>]
    /\ UNCHANGED <<head, process, cache, ops, own, calls, losses, applied>>

\* Mutant of Synced: the cache is not cleared first.
SyncedMerging(old, new) ==
    [members  |-> old.members \cup new.members,
     registry |-> [k \in Keys |-> old.registry[k] \cup new.registry[k]]]

\* update_from_sync: every cache is cleared and filled with the answer.
Synced(old, new) == [members |-> new.members, registry |-> new.registry]

\* The answer, however old, replaces the cache; then the pending operations.
SyncApply(w) ==
    /\ response[w] # <<>>
    /\ cache' = [cache EXCEPT ![w] = Synced(@, response[w][1])]
    /\ response' = [response EXCEPT ![w] = <<>>]
    /\ flush' = [flush EXCEPT ![w]["sync"].at = "take"]
    /\ UNCHANGED <<head, process, pending, own, calls, losses, applied>>

\* A failed sync cancels the token of the whole node.
SyncFail(w) ==
    /\ SyncIdle(w)
    /\ Fails
    /\ cancelled' = [cancelled EXCEPT ![w] = TRUE]
    /\ loops' = [loops EXCEPT ![w] = @ \ {"sync"}]
    /\ response' = [response EXCEPT ![w] = <<>>]
    /\ UNCHANGED <<head, alive, join, home, due, cache, ops, own, calls, applied>>

HeartbeatDue(w) ==
    /\ "heartbeat" \in loops[w]
    /\ due[w] = Interval

\* Mutant of Heartbeat: the timestamp is not renewed.
HeartbeatIgnored(w) ==
    /\ HeartbeatDue(w) /\ up
    /\ nodes[w] # Absent
    /\ due' = [due EXCEPT ![w] = 0]
    /\ UNCHANGED <<head, alive, join, home, cancelled, loops, syncing, ops, own, calls,
                   losses, applied>>

Heartbeat(w) ==
    /\ HeartbeatDue(w) /\ up
    /\ nodes[w] # Absent
    /\ nodes' = [nodes EXCEPT ![w] = 0]
    /\ due' = [due EXCEPT ![w] = 0]
    /\ UNCHANGED <<registry, up, heads, alive, join, home, cancelled, loops, syncing, ops,
                   own, calls, losses, applied>>

\* Mutant of HeartbeatUnknown: the head does not answer with an error.
HeartbeatUnknownOk(w) ==
    /\ HeartbeatDue(w) /\ up
    /\ nodes[w] = Absent
    /\ due' = [due EXCEPT ![w] = 0]
    /\ UNCHANGED <<head, alive, join, home, cancelled, loops, syncing, ops, own, calls,
                   losses, applied>>

\* The head does not know the node: the error cancels the node's token.
HeartbeatUnknown(w) ==
    /\ HeartbeatDue(w) /\ up
    /\ nodes[w] = Absent
    /\ cancelled' = [cancelled EXCEPT ![w] = TRUE]
    /\ loops' = [loops EXCEPT ![w] = @ \ {"heartbeat"}]
    /\ UNCHANGED <<head, alive, join, home, due, syncing, ops, own, calls, losses,
                   applied>>

HeartbeatFail(w) ==
    /\ HeartbeatDue(w)
    /\ Fails
    /\ cancelled' = [cancelled EXCEPT ![w] = TRUE]
    /\ loops' = [loops EXCEPT ![w] = @ \ {"heartbeat"}]
    /\ UNCHANGED <<head, alive, join, home, due, syncing, ops, own, calls, applied>>

\* A loop sees the cancelled token between two rounds.
LoopExit(w, l) ==
    /\ cancelled[w]
    /\ l \in loops[w]
    /\ l = "sync" => SyncIdle(w) /\ response[w] = <<>>
    /\ loops' = [loops EXCEPT ![w] = @ \ {l}]
    /\ UNCHANGED <<head, alive, join, home, cancelled, due, syncing, ops, own, calls,
                   losses, applied>>

-----------------------------------------------------------------------------
(* The head's timeout, and the ends of processes *)

Tick ==
    /\ \A w \in Workers : ~HeartbeatDue(w)
    /\ nodes' = [n \in Nodes |->
                    IF nodes[n] \in {Absent, Timeout + 1} THEN nodes[n] ELSE nodes[n] + 1]
    /\ due' = [w \in Workers |->
                  IF "heartbeat" \in loops[w] THEN due[w] + 1 ELSE due[w]]
    /\ UNCHANGED <<registry, up, heads, alive, join, home, cancelled, loops, syncing, ops,
                   own, calls, losses, applied>>

Stale == {n \in Nodes : nodes[n] > Timeout}

\* Mutant of Purged: only the members are looked at.
PurgedNothing(removed) == registry

Purged(removed) == [k \in Keys |-> registry[k] \ removed]

\* remove_stale_nodes, for every node: the head never sends itself a heartbeat.
RemoveStale ==
    /\ up
    /\ Stale # {}
    /\ nodes' = [n \in Nodes |-> IF n \in Stale THEN Absent ELSE nodes[n]]
    /\ registry' = Purged(Stale)
    /\ UNCHANGED <<up, heads, process, syncing, ops, own, calls, losses, applied>>

\* The head leaves or dies: its tables were in memory only.
HeadDown ==
    /\ up
    /\ up' = FALSE
    /\ nodes' = [n \in Nodes |-> Absent]
    /\ registry' = Nobody
    /\ own' = [own EXCEPT ![HeadNode] = {}]
    /\ UNCHANGED <<heads, process, syncing, ops, calls, losses, applied>>

HeadUp ==
    /\ ~up
    /\ heads < MaxHeads
    /\ up' = TRUE
    /\ heads' = heads + 1
    /\ nodes' = [nodes EXCEPT ![HeadNode] = 0]
    /\ UNCHANGED <<registry, process, syncing, ops, own, calls, losses, applied>>

\* shutdown() cancels the token; a worker's leave() tells the head nothing.
Shutdown(w) ==
    /\ alive[w]
    /\ join[w] = "joined"
    /\ ~cancelled[w]
    /\ cancelled' = [cancelled EXCEPT ![w] = TRUE]
    /\ UNCHANGED <<head, alive, join, home, loops, due, syncing, ops, own, calls,
                   losses, applied>>

\* The worker's process ends, with everything it had queued.
Exit(w) ==
    /\ alive[w]
    /\ alive' = [alive EXCEPT ![w] = FALSE]
    /\ loops' = [loops EXCEPT ![w] = {}]
    /\ response' = [response EXCEPT ![w] = <<>>]
    /\ pending' = [pending EXCEPT ![w] = <<>>]
    /\ flush' = [flush EXCEPT ![w] = [t \in Tasks |-> Idle]]
    /\ own' = [own EXCEPT ![w] = {}]
    /\ cache' = [cache EXCEPT ![w] = [members |-> {}, registry |-> Nobody]]
    /\ due' = [due EXCEPT ![w] = 0]
    /\ UNCHANGED <<head, join, home, cancelled, calls, losses, applied>>

-----------------------------------------------------------------------------
FlushStep(w, t) == Take(w, t) \/ Deliver(w, t) \/ Reply(w, t) \/ Lose(w, t)

\* The tasks of a worker: ActorSystem::new, the two loops, and the callers.
JoinTask(w)      == JoinRegister(w) \/ JoinSync(w) \/ JoinFail(w)
SyncTask(w)      == \/ SyncRequest(w) \/ SyncApply(w) \/ SyncFail(w)
                    \/ LoopExit(w, "sync") \/ FlushStep(w, "sync")
HeartbeatTask(w) == \/ Heartbeat(w) \/ HeartbeatUnknown(w) \/ HeartbeatFail(w)
                    \/ LoopExit(w, "heartbeat")

Next ==
    \/ \E w \in Workers :
          \/ JoinTask(w) \/ SyncTask(w) \/ HeartbeatTask(w)
          \/ \E c \in Callers :
                \/ \E do \in {"register", "unregister"}, k \in Keys : Call(w, c, do, k)
                \/ FlushStep(w, c)
          \/ Shutdown(w) \/ Exit(w)
    \/ \E do \in {"register", "unregister"}, k \in Keys : HeadCall(do, k)
    \/ Tick \/ RemoveStale
    \/ HeadDown \/ HeadUp

Spec == Init /\ [][Next]_vars

\* The runtimes poll every task, requests are answered or fail, time passes.  Each
\* task is fair on its own: none waits for another.
FairSpec ==
    /\ Spec
    /\ \A w \in Workers :
          /\ WF_vars(JoinTask(w)) /\ WF_vars(SyncTask(w)) /\ WF_vars(HeartbeatTask(w))
          /\ \A c \in Callers : WF_vars(FlushStep(w, c))
    /\ WF_vars(Tick) /\ WF_vars(RemoveStale)

-----------------------------------------------------------------------------
(* Properties *)

\* Operations in a sequence of them.
Numbers(seq) == {seq[i].number : i \in 1..Len(seq)}

\* Every operation a running worker issued was handled by a head, or is still
\* queued or being sent: a failed request is never the end of an operation, and two
\* tasks that flush at the same time drop nothing between them.
NoOpLost ==
    \A w \in Workers : alive[w] =>
        \A i \in 1..calls[w] :
            \/ <<w, i>> \in applied
            \/ i \in Numbers(pending[w])
            \/ \E t \in Tasks : i \in Numbers(flush[w][t].batch)

\* As long as its heartbeats get through, a worker stays a member of the head it
\* registered with, through every removal of stale nodes.
LiveWorkerStays ==
    \A w \in Workers :
        up /\ home[w] = heads /\ "heartbeat" \in loops[w] => w \in Members

\* A member whose process ended is forgotten: the head removes it together with
\* everything it registered.
DeadIsForgotten ==
    \A w \in Workers :
        (~alive[w] /\ w \in Members)
            ~> (w \notin Members /\ \A k \in Keys : w \notin registry[k])

\* A worker the head does not know (any more) finds out and stops: it does not run
\* on invisibly.
UnknownStops ==
    \A w \in Workers :
        (alive[w] /\ join[w] = "joined" /\ up /\ w \notin Members)
            ~> (~alive[w] \/ cancelled[w])

\* "Workers get the updated view on the next sync": once the calls have ended, every
\* worker that still runs comes to answer queries as the head does and goes on doing
\* so, however the answers and the worker's own updates overtook each other.
ViewsConverge ==
    \A w \in Workers :
        <>[](\/ ~alive[w] \/ cancelled[w]
             \/ /\ AllMembers(w) = AllMembers(HeadNode)
                /\ \A k \in Keys : LookupNamedActor(w, k) = LookupNamedActor(HeadNode, k))

-----------------------------------------------------------------------------
(* Why LiveWorkerStays and NoOpLost hold *)

\* The head's record of a live worker is never older than the worker's own last
\* heartbeat, and no worker has registered with a head yet to come.
HeartbeatInv ==
    /\ nodes \in [Nodes -> Int]
    /\ due \in [Workers -> 0..Interval]
    /\ heads \in Nat /\ home \in [Workers -> Nat]
    /\ loops \in [Workers -> SUBSET {"sync", "heartbeat"}]
    /\ \A w \in Workers :
          /\ home[w] <= heads
          /\ up /\ home[w] = heads /\ "heartbeat" \in loops[w] => nodes[w] \in 0..due[w]

\* What process_pending_sync keeps: a task with a batch is sending, the operation
\* whose answer is awaited has been handled, and the sync loop that waits for the
\* head's view is not flushing.
FlushInv ==
    /\ alive \in [Workers -> BOOLEAN]
    /\ pending \in [Workers -> Seq(Operations)]
    /\ flush \in [Workers -> [Tasks -> [at : {"idle", "take", "send", "sent"},
                                       batch : Seq(Operations)]]]
    /\ calls \in [Nodes -> Nat]
    /\ response = [w \in Workers |-> response[w]]
    /\ \A w \in Workers : response[w] # <<>> => flush[w]["sync"].at = "idle"
    /\ \A w \in Workers, t \in Tasks :
          /\ (flush[w][t].batch = <<>>) <=> (flush[w][t].at \in {"idle", "take"})
          /\ flush[w][t].at = "sent" => <<w, Head(flush[w][t].batch).number>> \in applied
    /\ NoOpLost

=============================================================================
