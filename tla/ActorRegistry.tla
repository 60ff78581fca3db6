--------------------------- MODULE ActorRegistry ---------------------------
(***************************************************************************)
(* The local actor registry of one Pulsing node and the calls that change  *)
(* it: spawn, stop, stop_named, shutdown, watch and unwatch                *)
(* (crates/pulsing-actor/src/system/{spawn,lifecycle,registry}.rs and      *)
(* watch.rs).                                                              *)
(*                                                                         *)
(* A call is a process of Calls.  The registry's tables are DashMaps and   *)
(* RwLocks taken one at a time, so a call is a sequence of atomic steps    *)
(* and other calls run between any two of them: pc[c] is the step the call *)
(* takes next, key[c], act[c], ... are its local variables.                *)
(*                                                                         *)
(* An actor's task (its supervision loop, detailed in module Supervision)  *)
(* is reduced to whether it is live or has ended.                          *)
(***************************************************************************)
EXTENDS Naturals, FiniteSets

CONSTANTS
    Actors,        \* the ActorIds a run can generate; each one is used once
    Names,         \* paths of named actors ("namespace/name")
    WithMetadata,  \* the actors spawned with a non-empty metadata map
    Calls,         \* concurrent callers of the ActorSystem API
    Closers,       \* the callers that may call shutdown
    Watchers,      \* the actors that may call watch
    NoActor, NoName

ASSUME RegistryAssumption ==
    /\ WithMetadata \subseteq Actors
    /\ Closers \subseteq Calls
    /\ Watchers \subseteq Actors
    /\ Actors \cap Names = {}
    /\ NoActor \notin Actors
    /\ NoName \notin Actors \cup Names

VARIABLES
    local_actors,       \* actors with a LocalActorHandle
    named_path,         \* the handle's named_path, NoName if anonymous
    actor_names,        \* name (or id string) -> ActorId
    named_actor_paths,  \* paths with an entry in the path table
    instance_nodes,     \* paths this node is listed for in the naming backend
    instances,          \* path -> ActorId of this node's detailed instance
    cluster_actors,     \* ActorIds the backend's actor index maps to this node
    watchers,           \* target -> set of watchers
    inbox,              \* watcher -> targets whose termination it was sent
    monitor,            \* the system actor's list and the dashboard's table:
                        \* name (or id string) -> ActorId
    task,               \* "unborn", "live" or "ended"
    cancelled,          \* the actor's cancellation token
    root_cancelled,     \* the system's token, parent of every actor's
    node_state,         \* NodeLifecycle, from Ready on
    pc, op, key, act, inst, pend, todo    \* the calls

tables   == <<local_actors, named_path, actor_names, named_actor_paths>>
cluster  == <<instance_nodes, instances, cluster_actors>>
watching == <<watchers, inbox, monitor>>
tasks    == <<task, cancelled, root_cancelled>>
locals   == <<op, key, act, inst, pend, todo>>
vars     == <<tables, cluster, watching, tasks, node_state, pc, locals>>

\* An anonymous actor is registered under its id as a string.
Keys == Names \cup Actors

KeyOf(a) == IF named_path[a] = NoName THEN a ELSE named_path[a]

Steps == {"idle", "name", "path", "publish", "index",            \* spawn
          "byname", "handle", "wait", "paths", "lookup",         \* stop
          "unregister", "unindex", "unlist", "take", "notify",
          "watch",                                               \* watch
          "collect", "drain", "clear", "leave"}                  \* shutdown

\* The one type invariant: what each table and each local variable may hold.
TypeOK ==
    /\ local_actors \subseteq Actors
    /\ named_path \in [Actors -> Names \cup {NoName}]
    /\ actor_names \in [Keys -> Actors \cup {NoActor}]
    /\ named_actor_paths \subseteq Names
    /\ instance_nodes \subseteq Names
    /\ instances \in [Names -> Actors \cup {NoActor}]
    /\ cluster_actors \subseteq Actors
    /\ watchers \in [Actors -> SUBSET Actors]
    /\ inbox \in [Actors -> SUBSET Actors]
    /\ monitor \in [Keys -> Actors \cup {NoActor}]
    /\ task \in [Actors -> {"unborn", "live", "ended"}]
    /\ cancelled \in [Actors -> BOOLEAN]
    /\ root_cancelled \in BOOLEAN
    /\ node_state \in {"Ready", "Draining", "Stopped"}
    /\ pc \in [Calls -> Steps]
    /\ op \in [Calls -> {"none", "spawn", "stop", "watch", "shutdown"}]
    /\ key \in [Calls -> Keys \cup {NoName}]
    /\ act \in [Calls -> Actors \cup {NoActor}]
    /\ inst \in [Calls -> Actors \cup {NoActor}]
    /\ pend \in [Calls -> SUBSET Actors]
    /\ todo \in [Calls -> SUBSET (Actors \X Keys)]

Init ==
    /\ local_actors = {}
    /\ named_path = [a \in Actors |-> NoName]
    /\ actor_names = [k \in Keys |-> NoActor]
    /\ named_actor_paths = {}
    /\ instance_nodes = {}
    /\ instances = [n \in Names |-> NoActor]
    /\ cluster_actors = {}
    /\ watchers = [a \in Actors |-> {}]
    /\ inbox = [a \in Actors |-> {}]
    /\ monitor = [k \in Keys |-> NoActor]
    /\ task = [a \in Actors |-> "unborn"]
    /\ cancelled = [a \in Actors |-> FALSE]
    /\ root_cancelled = FALSE
    /\ node_state = "Ready"
    /\ pc = [c \in Calls |-> "idle"]
    /\ op = [c \in Calls |-> "none"]
    /\ key = [c \in Calls |-> NoName]
    /\ act = [c \in Calls |-> NoActor]
    /\ inst = [c \in Calls |-> NoActor]
    /\ pend = [c \in Calls |-> {}]
    /\ todo = [c \in Calls |-> {}]

Goto(c, from, to) ==
    /\ pc[c] = from
    /\ pc' = [pc EXCEPT ![c] = to]

\* The end of a call: the caller's locals go out of scope.
Return(c, from) ==
    /\ Goto(c, from, "idle")
    /\ op' = [op EXCEPT ![c] = "none"]
    /\ key' = [key EXCEPT ![c] = NoName]
    /\ act' = [act EXCEPT ![c] = NoActor]
    /\ inst' = [inst EXCEPT ![c] = NoActor]
    /\ pend' = [pend EXCEPT ![c] = {}]
    /\ todo' = [todo EXCEPT ![c] = {}]

\* notify_monitor_actor_spawned, the last thing a spawn does, and
\* notify_monitor_actor_stopped, the last thing a stop does: by name.
NotifySpawned(c) == monitor' = [monitor EXCEPT ![key[c]] = act[c]]
NotifyStopped(c) == monitor' = [monitor EXCEPT ![key[c]] = NoActor]

-----------------------------------------------------------------------------
(* spawn_internal *)

\* Mutant of Spawn: the actor's token is a new one, not a child of the system's.
SpawnFreshToken(c, a, n) ==
    /\ Goto(c, "idle", "name")
    /\ task[a] = "unborn"
    /\ task' = [task EXCEPT ![a] = "live"]
    /\ local_actors' = local_actors \cup {a}
    /\ named_path' = [named_path EXCEPT ![a] = n]
    /\ op' = [op EXCEPT ![c] = "spawn"]
    /\ act' = [act EXCEPT ![c] = a]
    /\ key' = [key EXCEPT ![c] = IF n = NoName THEN a ELSE n]
    /\ UNCHANGED <<actor_names, named_actor_paths, cluster, watching, cancelled,
                   root_cancelled, node_state, inst, pend, todo>>

\* Generate an id, start the task and insert the handle.  The actor's token is
\* a child of the system's: after a shutdown it is cancelled from the start.
\* Nothing but the new task itself can tell the task's start from the insert.
Spawn(c, a, n) ==
    /\ Goto(c, "idle", "name")
    /\ task[a] = "unborn"
    /\ task' = [task EXCEPT ![a] = "live"]
    /\ cancelled' = [cancelled EXCEPT ![a] = root_cancelled]
    /\ local_actors' = local_actors \cup {a}
    /\ named_path' = [named_path EXCEPT ![a] = n]
    /\ op' = [op EXCEPT ![c] = "spawn"]
    /\ act' = [act EXCEPT ![c] = a]
    /\ key' = [key EXCEPT ![c] = IF n = NoName THEN a ELSE n]
    /\ UNCHANGED <<actor_names, named_actor_paths, cluster, watching,
                   root_cancelled, node_state, inst, pend, todo>>

\* Mutant of SpawnRefused: the dropped handle is not cancelled.
SpawnRefusedDetached(c) ==
    /\ Return(c, "name")
    /\ named_path[act[c]] # NoName
    /\ actor_names[key[c]] # NoActor
    /\ local_actors' = local_actors \ {act[c]}
    /\ UNCHANGED <<named_path, actor_names, named_actor_paths, cluster,
                   watching, tasks, node_state>>

\* The atomic entry() on the name table finds the name taken: the handle is
\* removed again, and cancelled if it was still there.
SpawnRefused(c) ==
    /\ Return(c, "name")
    /\ named_path[act[c]] # NoName
    /\ actor_names[key[c]] # NoActor
    /\ local_actors' = local_actors \ {act[c]}
    /\ cancelled' = IF act[c] \in local_actors
                    THEN [cancelled EXCEPT ![act[c]] = TRUE]
                    ELSE cancelled
    /\ UNCHANGED <<named_path, actor_names, named_actor_paths, cluster,
                   watching, task, root_cancelled, node_state>>

\* The entry is vacant: the name now belongs to the new actor.
SpawnNamed(c) ==
    /\ Goto(c, "name", "path")
    /\ named_path[act[c]] # NoName
    /\ actor_names[key[c]] = NoActor
    /\ actor_names' = [actor_names EXCEPT ![key[c]] = act[c]]
    /\ UNCHANGED <<local_actors, named_path, named_actor_paths, cluster,
                   watching, tasks, node_state, locals>>

\* An anonymous actor is inserted under its own id, and the call returns.
SpawnAnonymous(c) ==
    /\ Return(c, "name")
    /\ named_path[act[c]] = NoName
    /\ actor_names' = [actor_names EXCEPT ![key[c]] = act[c]]
    /\ NotifySpawned(c)
    /\ UNCHANGED <<local_actors, named_path, named_actor_paths, cluster,
                   watchers, inbox, tasks, node_state>>

SpawnPath(c) ==
    /\ Goto(c, "path", "publish")
    /\ named_actor_paths' = named_actor_paths \cup {key[c]}
    /\ UNCHANGED <<local_actors, named_path, actor_names, cluster, watching,
                   tasks, node_state, locals>>

\* register_named_actor, or register_named_actor_full with metadata: the
\* former lists the node for the path and leaves any detailed instance alone.
SpawnPublish(c) ==
    /\ Goto(c, "publish", "index")
    /\ instance_nodes' = instance_nodes \cup {key[c]}
    /\ instances' = IF act[c] \in WithMetadata
                    THEN [instances EXCEPT ![key[c]] = act[c]]
                    ELSE instances
    /\ UNCHANGED <<tables, cluster_actors, watching, tasks, node_state, locals>>

\* register_actor, and spawn returns the reference.
SpawnIndex(c) ==
    /\ Return(c, "index")
    /\ cluster_actors' = cluster_actors \cup {act[c]}
    /\ NotifySpawned(c)
    /\ UNCHANGED <<tables, instance_nodes, instances, watchers, inbox, tasks,
                   node_state>>

-----------------------------------------------------------------------------
(* stop_with_reason, stop_named_with_reason and stop_local_actor *)

\* Mutant of Stop: the name is looked up and not removed.
StopKeepsName(c, k) ==
    /\ Goto(c, "idle", "handle")
    /\ actor_names[k] # NoActor
    /\ op' = [op EXCEPT ![c] = "stop"]
    /\ key' = [key EXCEPT ![c] = k]
    /\ act' = [act EXCEPT ![c] = actor_names[k]]
    /\ UNCHANGED <<tables, cluster, watching, tasks, node_state, inst, pend,
                   todo>>

\* remove_by_name as the first step of stop(name).  A name without an entry
\* makes the call return at once, which changes nothing.
Stop(c, k) ==
    /\ Goto(c, "idle", "handle")
    /\ actor_names[k] # NoActor
    /\ op' = [op EXCEPT ![c] = "stop"]
    /\ key' = [key EXCEPT ![c] = k]
    /\ act' = [act EXCEPT ![c] = actor_names[k]]
    /\ actor_names' = [actor_names EXCEPT ![k] = NoActor]
    /\ UNCHANGED <<local_actors, named_path, named_actor_paths, cluster,
                   watching, tasks, node_state, inst, pend, todo>>

\* stop_named(path) looks the path up first: the table maps it to itself.
StopNamed(c, n) ==
    /\ Goto(c, "idle", "byname")
    /\ n \in named_actor_paths
    /\ op' = [op EXCEPT ![c] = "stop"]
    /\ key' = [key EXCEPT ![c] = n]
    /\ UNCHANGED <<tables, cluster, watching, tasks, node_state, act, inst,
                   pend, todo>>

StopByName(c) ==
    /\ Goto(c, "byname", "handle")
    /\ actor_names[key[c]] # NoActor
    /\ act' = [act EXCEPT ![c] = actor_names[key[c]]]
    /\ actor_names' = [actor_names EXCEPT ![key[c]] = NoActor]
    /\ UNCHANGED <<local_actors, named_path, named_actor_paths, cluster,
                   watching, tasks, node_state, op, key, inst, pend, todo>>

StopByNameMissing(c) ==
    /\ Return(c, "byname")
    /\ actor_names[key[c]] = NoActor
    /\ UNCHANGED <<tables, cluster, watching, tasks, node_state>>

\* Back to the caller: the end of the call, or the next entry of a shutdown.
StopReturn(c, from) ==
    \/ /\ op[c] # "shutdown"
       /\ Return(c, from)
    \/ /\ op[c] = "shutdown"
       /\ Goto(c, from, "drain")
       /\ UNCHANGED <<op, key, act, inst, pend, todo>>

\* Mutant of StopHandle: the handle is borrowed and stays in the table.
StopBorrowsHandle(c) ==
    /\ Goto(c, "handle", "wait")
    /\ act[c] \in local_actors
    /\ cancelled' = [cancelled EXCEPT ![act[c]] = TRUE]
    /\ UNCHANGED <<tables, cluster, watching, task, root_cancelled, node_state,
                   locals>>

\* remove_handle, and the first step of stop_local_actor: cancel the token.
StopHandle(c) ==
    /\ Goto(c, "handle", "wait")
    /\ act[c] \in local_actors
    /\ local_actors' = local_actors \ {act[c]}
    /\ cancelled' = [cancelled EXCEPT ![act[c]] = TRUE]
    /\ UNCHANGED <<named_path, actor_names, named_actor_paths, cluster,
                   watching, task, root_cancelled, node_state, locals>>

\* Somebody else (a shutdown) removed the handle.
StopHandleMissing(c) ==
    /\ pc[c] = "handle"
    /\ act[c] \notin local_actors
    /\ StopReturn(c, "handle")
    /\ UNCHANGED <<tables, cluster, watching, tasks, node_state>>

\* The join handle resolves: the task has ended.
StopJoined(c) ==
    /\ Goto(c, "wait", "paths")
    /\ task[act[c]] = "ended"
    /\ UNCHANGED <<tables, cluster, watching, tasks, node_state, locals>>

\* The timeout fires first.  The join handle is dropped, which detaches the
\* task and does not abort it.
StopTimedOut(c) ==
    /\ Goto(c, "wait", "paths")
    /\ task[act[c]] # "ended"
    /\ UNCHANGED <<tables, cluster, watching, tasks, node_state, locals>>

\* cleanup_and_broadcast: the path table, by path and not by actor.
StopPaths(c) ==
    /\ Goto(c, "paths", IF named_path[act[c]] = NoName THEN "unlist" ELSE "lookup")
    /\ named_actor_paths' = named_actor_paths \ {named_path[act[c]]}
    /\ UNCHANGED <<local_actors, named_path, actor_names, cluster, watching,
                   tasks, node_state, locals>>

\* unregister_named_actor reads this node's instance of the path ...
StopLookup(c) ==
    /\ Goto(c, "lookup", "unregister")
    /\ inst' = [inst EXCEPT ![c] = instances[named_path[act[c]]]]
    /\ UNCHANGED <<tables, cluster, watching, tasks, node_state, op, key, act,
                   pend, todo>>

\* ... removes the instance under the write lock ...
StopUnregister(c) ==
    /\ Goto(c, "unregister", "unindex")
    /\ instance_nodes' = instance_nodes \ {named_path[act[c]]}
    /\ instances' = [instances EXCEPT ![named_path[act[c]]] = NoActor]
    /\ UNCHANGED <<tables, cluster_actors, watching, tasks, node_state, locals>>

\* ... and takes the actor it read off the actor index, if it read one.
StopUnindex(c) ==
    /\ Goto(c, "unindex", "take")
    /\ cluster_actors' = cluster_actors \ {inst[c]}
    /\ UNCHANGED <<tables, instance_nodes, instances, watching, tasks,
                   node_state, locals>>

\* An anonymous actor is taken off the actor index by its id.
StopUnlist(c) ==
    /\ Goto(c, "unlist", "take")
    /\ cluster_actors' = cluster_actors \ {act[c]}
    /\ UNCHANGED <<tables, instance_nodes, instances, watching, tasks,
                   node_state, locals>>

\* notify_watchers takes the watchers out of the table under its lock.
StopTakeWatchers(c) ==
    /\ Goto(c, "take", "notify")
    /\ pend' = [pend EXCEPT ![c] = watchers[act[c]]]
    /\ watchers' = [watchers EXCEPT ![act[c]] = {}]
    /\ UNCHANGED <<tables, cluster, inbox, monitor, tasks, node_state, op, key,
                   act, inst, todo>>

\* One watcher: a watcher without a handle is skipped, try_send on a full or
\* closed mailbox fails and is only logged.
Notify(c, w, delivered) ==
    /\ pc[c] = "notify"
    /\ w \in pend[c]
    /\ pend' = [pend EXCEPT ![c] = @ \ {w}]
    /\ delivered => w \in local_actors
    /\ inbox' = IF delivered THEN [inbox EXCEPT ![w] = @ \cup {act[c]}] ELSE inbox
    /\ UNCHANGED <<tables, cluster, watchers, monitor, tasks, node_state, pc, op,
                   key, act, inst, todo>>

StopDone(c) ==
    /\ pc[c] = "notify"
    /\ pend[c] = {}
    /\ StopReturn(c, "notify")
    /\ NotifyStopped(c)
    /\ UNCHANGED <<tables, cluster, watchers, inbox, tasks, node_state>>

-----------------------------------------------------------------------------
(* watch and unwatch *)

\* ActorSystem::watch checks that the target has a handle ...
Watch(c, w, t) ==
    /\ Goto(c, "idle", "watch")
    /\ w # t
    /\ w \in local_actors /\ task[w] = "live"
    /\ t \in local_actors
    /\ op' = [op EXCEPT ![c] = "watch"]
    /\ key' = [key EXCEPT ![c] = w]
    /\ act' = [act EXCEPT ![c] = t]
    /\ UNCHANGED <<tables, cluster, watching, tasks, node_state, inst, pend,
                   todo>>

\* ... and inserts the watcher under the lock.
WatchInsert(c) ==
    /\ Return(c, "watch")
    /\ watchers' = [watchers EXCEPT ![act[c]] = @ \cup {key[c]}]
    /\ UNCHANGED <<tables, cluster, inbox, monitor, tasks, node_state>>

Unwatch(w, t) ==
    /\ w \in watchers[t]
    /\ task[w] = "live"
    /\ watchers' = [watchers EXCEPT ![t] = @ \ {w}]
    /\ UNCHANGED <<tables, cluster, inbox, monitor, tasks, node_state, pc, locals>>

-----------------------------------------------------------------------------
(* shutdown *)

\* begin_draining accepts every state it can be in, then the root token is
\* cancelled and with it every actor's.
Shutdown(c) ==
    /\ Goto(c, "idle", "collect")
    /\ op' = [op EXCEPT ![c] = "shutdown"]
    /\ node_state' = IF node_state = "Stopped" THEN "Stopped" ELSE "Draining"
    /\ root_cancelled' = TRUE
    /\ cancelled' = [a \in Actors |-> cancelled[a] \/ task[a] # "unborn"]
    /\ UNCHANGED <<tables, cluster, watching, task, key, act, inst, pend, todo>>

\* The snapshot of the handles, each with the name that maps to it or, if no
\* name does, its id.
ShutdownCollect(c) ==
    /\ Goto(c, "collect", "drain")
    /\ todo' = [todo EXCEPT ![c] =
                    {e \in local_actors \X Keys :
                        \/ actor_names[e[2]] = e[1]
                        \/ /\ e[2] = e[1]
                           /\ \A k \in Keys : actor_names[k] # e[1]}]
    /\ UNCHANGED <<tables, cluster, watching, tasks, node_state, op, key, act,
                   inst, pend>>

\* The next entry: remove_by_name, whatever the name now maps to, then the
\* handle and stop_local_actor as for a stop.
ShutdownEntry(c, e) ==
    /\ Goto(c, "drain", "handle")
    /\ e \in todo[c]
    /\ todo' = [todo EXCEPT ![c] = @ \ {e}]
    /\ act' = [act EXCEPT ![c] = e[1]]
    /\ key' = [key EXCEPT ![c] = e[2]]
    /\ actor_names' = [actor_names EXCEPT ![e[2]] = NoActor]
    /\ UNCHANGED <<local_actors, named_path, named_actor_paths, cluster,
                   watching, tasks, node_state, op, inst, pend>>

\* registry.clear().
ShutdownClear(c) ==
    /\ Goto(c, "drain", "clear")
    /\ todo[c] = {}
    /\ local_actors' = {}
    /\ actor_names' = [k \in Keys |-> NoActor]
    /\ named_actor_paths' = {}
    /\ UNCHANGED <<named_path, cluster, watching, tasks, node_state, locals>>

\* clear_lifecycle.
ShutdownClearWatchers(c) ==
    /\ Goto(c, "clear", "leave")
    /\ watchers' = [a \in Actors |-> {}]
    /\ UNCHANGED <<tables, cluster, inbox, monitor, tasks, node_state, locals>>

\* Mutant of ShutdownLeave: the call returns without the last transition.
ShutdownStaysDraining(c) ==
    /\ Return(c, "leave")
    /\ UNCHANGED <<tables, cluster, watching, tasks, node_state>>

\* The backend leaves, and the node is Stopped.
ShutdownLeave(c) ==
    /\ Return(c, "leave")
    /\ node_state' = "Stopped"
    /\ UNCHANGED <<tables, cluster, watching, tasks>>

-----------------------------------------------------------------------------
(* The task of an actor: it ends after its token is cancelled, or by itself *)
(* when its supervision loop gives up or a handler panics.                  *)
TaskEnd(a) ==
    /\ task[a] = "live"
    /\ task' = [task EXCEPT ![a] = "ended"]
    /\ UNCHANGED <<tables, cluster, watching, cancelled, root_cancelled,
                   node_state, pc, locals>>

SpawnStep(c) == SpawnRefused(c) \/ SpawnNamed(c) \/ SpawnAnonymous(c)
                \/ SpawnPath(c) \/ SpawnPublish(c) \/ SpawnIndex(c)

StopStep(c) == StopByName(c) \/ StopByNameMissing(c) \/ StopHandle(c)
               \/ StopHandleMissing(c) \/ StopJoined(c) \/ StopTimedOut(c)
               \/ StopPaths(c) \/ StopLookup(c) \/ StopUnregister(c)
               \/ StopUnindex(c) \/ StopUnlist(c) \/ StopTakeWatchers(c)
               \/ (\E w \in Actors, d \in BOOLEAN : Notify(c, w, d))
               \/ StopDone(c)

ShutdownStep(c) == ShutdownCollect(c) \/ (\E e \in todo[c] : ShutdownEntry(c, e))
                   \/ ShutdownClear(c) \/ ShutdownClearWatchers(c)
                   \/ ShutdownLeave(c)

\* The next step of a call that is under way.
Step(c) == SpawnStep(c) \/ StopStep(c) \/ WatchInsert(c) \/ ShutdownStep(c)

Next ==
    \/ \E c \in Calls, a \in Actors, n \in Names \cup {NoName} : Spawn(c, a, n)
    \/ \E c \in Calls, k \in Keys : Stop(c, k)
    \/ \E c \in Calls, n \in Names : StopNamed(c, n)
    \/ \E c \in Calls, w \in Watchers, t \in Actors : Watch(c, w, t)
    \/ \E c \in Closers : Shutdown(c)
    \/ \E c \in Calls : Step(c)
    \/ \E w, t \in Actors : Unwatch(w, t)
    \/ \E a \in Actors : TaskEnd(a)

Spec == Init /\ [][Next]_vars

\* Every call that is under way keeps running: its awaits are locks that are
\* released, a wait with a timeout, and sends that do not block.
FairSpec == Spec /\ \A c \in Calls : WF_vars(Step(c))

-----------------------------------------------------------------------------
(* Properties *)

Busy(c) == pc[c] # "idle"
Quiet   == \A c \in Calls : ~Busy(c)

\* A call is spawning or stopping a and has not finished.
Handled(a) == \E c \in Calls : op[c] \in {"spawn", "stop"} /\ act[c] = a

\* Until a shutdown, a registered name resolves: spawn inserts the handle before
\* the name and stop removes the name before the handle, so a lookup by name
\* (local_actor_ref_by_name) never finds a name whose actor is missing.
NameHasHandle ==
    ~root_cancelled =>
        \A k \in Keys : actor_names[k] # NoActor => actor_names[k] \in local_actors

\* Until a shutdown, a handle that no call is working on is registered under its
\* own name: no race of spawns and stops leaves an actor that runs but that no
\* stop(name) can reach any more.
NoOrphanHandle ==
    ~root_cancelled =>
        \A a \in local_actors : Handled(a) \/ actor_names[KeyOf(a)] = a

\* The tables of the registry agree: a name leads to a handle, and a handle that
\* no call is working on is found under its name (spawn_internal, remove_by_name
\* and remove_handle change the two tables one after the other).
TablesAgree == NameHasHandle /\ NoOrphanHandle

\* A live task whose handle is gone (a refused spawn, a stop, the clear() of a
\* shutdown, or two of them racing for it) was told to stop: dropping the handle
\* only detaches the task, so without the cancellation it would run for ever.
DroppedIsCancelled ==
    \A a \in Actors : task[a] = "live" /\ a \notin local_actors => cancelled[a]

\* A shutdown reaches every actor, the ones spawned while it runs or after it
\* included: spawn does not look at the node's state, only the parent token
\* stops those.
ShutdownReachesAll ==
    root_cancelled => \A a \in Actors : task[a] = "live" => cancelled[a]

\* A watcher is told of a termination only once the target can no longer be
\* looked up and has been cancelled.
NotifiedIsGone ==
    \A w, t \in Actors : t \in inbox[w] => t \notin local_actors /\ cancelled[t]

\* A shutdown call completes, whatever the tasks and the other calls do.
ShutdownCompletes == root_cancelled ~> (node_state = "Stopped")

\* "Keep SystemActor GetMetrics / list in sync with real spawns" (system/mod.rs:509):
\* with no call under way, the monitor lists the actors that are registered.
MonitorInSync == Quiet /\ ~root_cancelled => monitor = actor_names

-----------------------------------------------------------------------------
(* The inductive invariant behind the safety properties *)

Born == {a \in Actors : task[a] # "unborn"}

SpawnSteps    == {"name", "path", "publish", "index"}
CleanupSteps  == {"wait", "paths", "lookup", "unregister", "unindex", "unlist",
                  "take", "notify"}
ShutdownSteps == {"collect", "drain", "clear", "leave"}

\* What a call's local variables hold at each of its steps.
CallOK ==
    \A c \in Calls :
        /\ pc[c] \in {"idle", "byname"} => act[c] = NoActor
        /\ pc[c] \in SpawnSteps =>
              /\ op[c] = "spawn"
              /\ act[c] \in Actors
              /\ key[c] = KeyOf(act[c])
        /\ pc[c] \in {"path", "publish", "index"} => key[c] \in Names
        /\ pc[c] = "byname" => op[c] = "stop" /\ key[c] \in Names
        /\ pc[c] \in CleanupSteps \cup {"handle"} =>
              op[c] \in {"stop", "shutdown"} /\ act[c] \in Actors
        /\ pc[c] \in {"lookup", "unregister"} => named_path[act[c]] \in Names
        /\ pc[c] = "watch" => act[c] \in Actors /\ key[c] \in Actors
        /\ pc[c] \in ShutdownSteps => op[c] = "shutdown"
        /\ op[c] = "shutdown" => root_cancelled

\* Whatever the registry or a call refers to has been spawned.
BornOK ==
    /\ local_actors \subseteq Born
    /\ \A k \in Keys : actor_names[k] # NoActor => actor_names[k] \in Born
    /\ \A c \in Calls : act[c] # NoActor => act[c] \in Born
    /\ \A c \in Calls : todo[c] \subseteq Born \X Keys
    /\ \A w \in Actors : inbox[w] \subseteq Born

\* A name maps only to the actor that was spawned with it; a spawn that has not
\* reached the name table is in no table entry and no stop knows its actor; a
\* stop that is about to take the handle has taken the only name.
NamesOK ==
    /\ \A k \in Keys : actor_names[k] # NoActor => KeyOf(actor_names[k]) = k
    /\ \A c \in Calls : pc[c] = "name" =>
          /\ \A k \in Keys : actor_names[k] # act[c]
          /\ \A d \in Calls : op[d] = "stop" => act[d] # act[c]
          /\ \A d \in Calls : pc[d] = "name" /\ act[d] = act[c] => d = c
    /\ \A c \in Calls : pc[c] = "handle" /\ op[c] = "stop" =>
          \A k \in Keys : actor_names[k] # act[c]

\* NoOrphanHandle, with the two steps at which a call holds an unnamed handle;
\* and a spawn that is about to enter its name still has the handle.
HandlesOK ==
    ~root_cancelled =>
        /\ \A a \in local_actors :
              \/ actor_names[KeyOf(a)] = a
              \/ \E c \in Calls : act[c] = a /\ pc[c] = "name"
              \/ \E c \in Calls : act[c] = a /\ pc[c] = "handle" /\ op[c] = "stop"
        /\ \A c \in Calls : pc[c] = "name" => act[c] \in local_actors

\* Past "handle" the actor is out of the table and cancelled.
CleanupOK ==
    \A c \in Calls : pc[c] \in CleanupSteps =>
        act[c] \notin local_actors /\ cancelled[act[c]]

\* The parts every step preserves together.
TypeInv   == TypeOK /\ CallOK /\ BornOK
TableInv  == NamesOK /\ NameHasHandle /\ HandlesOK
CancelInv == CleanupOK /\ DroppedIsCancelled /\ ShutdownReachesAll /\ NotifiedIsGone

RegistryInv == TypeInv /\ TableInv /\ CancelInv

=============================================================================
