----------------------------- MODULE Resolution -----------------------------
(***************************************************************************)
(* How a name becomes a reference on one node: the direct and the lazy     *)
(* resolution of a named actor (resolve.rs, actor/reference.rs).  How a    *)
(* policy chooses among the instances is in Routing.                       *)
(*                                                                         *)
(* Instances of the actor come and go on the nodes; the naming backend's   *)
(* view of them is late.  A lazy reference is shared by its callers and    *)
(* caches what it resolved for five seconds.                               *)
(***************************************************************************)
EXTENDS Naturals, FiniteSets

CONSTANTS
  LastNode,   \* the nodes are 0 .. LastNode; 0 is this one
  Callers,    \* tasks that use the name
  MaxMoves    \* bound: starts, stops and suspicions of instances

VARIABLES
  running,   \* the nodes an instance runs on
  named,     \* the nodes the naming backend names for the path
  suspect,   \* the members that are not Alive there
  moves,     \* starts and stops so far
  settled,   \* instances stay where they are, and nobody is suspected
  cache,     \* LazyActorRef::cache: a node and whether it is within the TTL
  lock,      \* LazyActorRef::refresh_lock: who holds it
  caller     \* the callers

worldVars == <<running, named, suspect, moves, settled>>
vars == <<worldVars, cache, lock, caller>>

-----------------------------------------------------------------------------

Nodes == 0 .. LastNode
Self == 0
NoNode == LastNode + 1
NoCaller == "nobody"

\* how: through the lazy reference, or directly with ResolveOptions (a node_id,
\* filter_alive); seen: the instances to choose from, and up: those that were
\* Alive; ref: where the resolved reference points.
Idle == [step |-> "idle", how |-> "lazy", only |-> NoNode, alive |-> TRUE,
         seen |-> {}, up |-> {}, ref |-> NoNode]

Steps == {"idle", "cache", "lock", "recheck", "instances", "select", "store", "send"}

Init ==
  /\ running \in SUBSET Nodes
  /\ named = running /\ suspect = {}
  /\ moves = 0 /\ settled = FALSE
  /\ cache = [node |-> NoNode, fresh |-> FALSE] /\ lock = NoCaller
  /\ caller = [c \in Callers |-> Idle]

At(c, step) == caller[c].step = step
Go(c, step) == caller' = [caller EXCEPT ![c].step = step]
Returns(c) == caller' = [caller EXCEPT ![c] = Idle]

Begin(c) ==
  /\ At(c, "idle")
  /\ \/ caller' = [caller EXCEPT ![c] = [Idle EXCEPT !.step = "cache"]]
     \/ \E only \in Nodes \cup {NoNode}, alive \in BOOLEAN :
          caller' = [caller EXCEPT ![c] = [Idle EXCEPT !.step = "instances", !.how = "direct",
                                                       !.only = only, !.alive = alive]]
  /\ UNCHANGED <<worldVars, cache, lock>>

-----------------------------------------------------------------------------
(* LazyActorRef                                                            *)

\* get: a reference within its TTL is used.
get(c) ==
  /\ At(c, "cache")
  /\ IF cache.fresh
       THEN caller' = [caller EXCEPT ![c].step = "send", ![c].ref = cache.node]
       ELSE Go(c, "lock")
  /\ UNCHANGED <<worldVars, cache, lock>>

TakeRefreshLock(c) ==
  /\ At(c, "lock") /\ lock = NoCaller
  /\ lock' = c /\ Go(c, "recheck")
  /\ UNCHANGED <<worldVars, cache>>

\* Another caller may have refreshed it meanwhile.
Recheck(c) ==
  /\ At(c, "recheck")
  /\ IF cache.fresh
       THEN /\ caller' = [caller EXCEPT ![c].step = "send", ![c].ref = cache.node]
            /\ lock' = NoCaller
       ELSE Go(c, "instances") /\ UNCHANGED lock
  /\ UNCHANGED <<worldVars, cache>>

\* The resolved reference is cached, with the time of caching.
Store(c) ==
  /\ At(c, "store")
  /\ cache' = [node |-> caller[c].ref, fresh |-> TRUE]
  /\ lock' = NoCaller /\ Go(c, "send")
  /\ UNCHANGED <<worldVars>>

invalidate ==
  /\ cache.node # NoNode
  /\ cache' = [node |-> NoNode, fresh |-> FALSE]
  /\ UNCHANGED <<worldVars, lock, caller>>

\* Mutant of Expire: the TTL of a cached reference never ends.
NeverExpire ==
  FALSE /\ UNCHANGED vars

\* CACHE_TTL passes.
Expire ==
  /\ cache.fresh /\ cache' = [cache EXCEPT !.fresh = FALSE]
  /\ UNCHANGED <<worldVars, lock, caller>>

-----------------------------------------------------------------------------
(* resolve_named_with_options                                              *)

\* The refresh lock is released with the guard, also when resolving fails.
Release(c) == IF lock = c THEN lock' = NoCaller ELSE UNCHANGED lock

Resolved(c, n) ==
  caller' = [caller EXCEPT ![c].ref = n, ![c].seen = {}, ![c].up = {},
                           ![c].step = IF caller[c].how = "lazy" THEN "store" ELSE "send"]

\* The instances the backend names.  A path it does not know yet is looked for
\* on the node the caller names, if that is another one.
GetInstances(c) ==
  LET only == caller[c].only
      list == IF caller[c].alive THEN named \ suspect ELSE named
      guess == /\ named = {} /\ only \in Nodes \ {Self}
               /\ caller[c].alive => only \notin suspect
  IN /\ At(c, "instances")
     /\ \/ guess /\ Resolved(c, only) /\ UNCHANGED lock
        \/ /\ ~guess /\ (list = {} \/ only \in Nodes \ list)
           /\ Returns(c) /\ Release(c)
        \/ /\ list # {} /\ only \in list \cup {NoNode}
           /\ caller' = [caller EXCEPT ![c].step = "select", ![c].seen = list,
                                       ![c].up = list \ suspect]
           /\ UNCHANGED lock
     /\ UNCHANGED <<worldVars, cache>>

\* A target on this node is looked up in the registry, and may be gone.
Target(c, n) ==
  IF n = Self /\ Self \notin running
    THEN Returns(c) /\ Release(c)
    ELSE Resolved(c, n) /\ UNCHANGED lock

\* The caller named the node: no policy, no load.
PickNamed(c) ==
  /\ At(c, "select") /\ caller[c].only # NoNode
  /\ Target(c, caller[c].only)
  /\ UNCHANGED <<worldVars, cache>>

-----------------------------------------------------------------------------
(* select_instance                                                         *)

\* The policy picks a healthy worker; if it finds none, the first instance is
\* taken as it is.
select_instance(c) ==
  /\ At(c, "select") /\ caller[c].only = NoNode
  /\ \E n \in IF caller[c].up # {} THEN caller[c].up ELSE caller[c].seen : Target(c, n)
  /\ UNCHANGED <<worldVars, cache>>

\* The request goes to the node the reference points at; it fails if the
\* instance is gone from there.
Send(c) ==
  /\ At(c, "send")
  /\ Returns(c)
  /\ UNCHANGED <<worldVars, cache, lock>>

-----------------------------------------------------------------------------
(* Instances and the backend's view of them                                *)

Start(n) ==
  /\ ~settled /\ moves < MaxMoves /\ n \notin running
  /\ running' = running \cup {n} /\ moves' = moves + 1
  /\ UNCHANGED <<named, suspect, settled, cache, lock, caller>>

Stop(n) ==
  /\ ~settled /\ moves < MaxMoves /\ n \in running
  /\ running' = running \ {n} /\ moves' = moves + 1
  /\ UNCHANGED <<named, suspect, settled, cache, lock, caller>>

Suspect(n) ==
  /\ ~settled /\ moves < MaxMoves /\ n \notin suspect \cup {Self}
  /\ suspect' = suspect \cup {n} /\ moves' = moves + 1
  /\ UNCHANGED <<running, named, settled, cache, lock, caller>>

\* The backend catches up with one node.
Hear(n) ==
  /\ n \in suspect \/ (n \in named) # (n \in running)
  /\ named' = IF n \in running THEN named \cup {n} ELSE named \ {n}
  /\ suspect' = suspect \ {n}
  /\ UNCHANGED <<running, moves, settled, cache, lock, caller>>

Settle ==
  /\ ~settled /\ running # {} /\ settled' = TRUE
  /\ UNCHANGED <<running, named, suspect, moves, cache, lock, caller>>

-----------------------------------------------------------------------------

CallerStep(c) ==
  \/ get(c) \/ TakeRefreshLock(c) \/ Recheck(c) \/ Store(c)
  \/ GetInstances(c) \/ PickNamed(c) \/ select_instance(c) \/ Send(c)

Next ==
  \/ \E c \in Callers : Begin(c) \/ CallerStep(c)
  \/ invalidate \/ Expire \/ Settle
  \/ \E n \in Nodes : Start(n) \/ Stop(n) \/ Suspect(n) \/ Hear(n)

\* Callers go on once they have begun; time passes; the backend's view converges.
Fairness ==
  /\ \A c \in Callers : WF_vars(CallerStep(c))
  /\ WF_vars(Expire) /\ \A n \in Nodes : WF_vars(Hear(n))

Spec == Init /\ [][Next]_vars /\ Fairness

-----------------------------------------------------------------------------

\* "Even if the actor migrates, this ref will find it after cache expires"
\* (resolve.rs:90): once the instances stay where they are, calls through the
\* lazy reference stop failing, whatever was cached or being resolved.
LazyFindsActor ==
  settled ~> [](\A c \in Callers :
    At(c, "send") /\ caller[c].how = "lazy" => caller[c].ref \in running)
=============================================================================
