---------------------------- MODULE NodeControl ----------------------------
(***************************************************************************)
(* The control plane of a node: its lifecycle (system_actor/lifecycle.rs), *)
(* the bootstrap and shutdown of ActorSystem (system/mod.rs,               *)
(* system/lifecycle.rs), and the system actor with the services it starts, *)
(* dispatches to and stops (system_actor/mod.rs, service.rs, builtin.rs,   *)
(* host.rs).  Bootstrap, the system actor's task and the callers of        *)
(* shutdown run side by side and meet in the lifecycle's atomic state.     *)
(***************************************************************************)
EXTENDS ShmManager

CONSTANTS
  Callers,      \* the callers of shutdown
  MayFail,      \* the components whose start or stop may fail
  Actors,       \* the names of ordinary actors
  Requests,     \* the operations asked for, or "invalid": no system message
  MaxRequests   \* bound: messages to the system actor

VARIABLES
  node,       \* NodeLifecycle::state
  boot,       \* where new_inner is
  root,       \* where the system actor's task is, and the command it handles
  services,   \* SystemServiceRegistry::entries, in order of registration
  cancelled,  \* the system actor's cancellation token
  inbox,      \* the system actor's mailbox
  names,      \* the names in ActorSystem's registry
  halt,       \* where each caller of shutdown is
  asked       \* how many requests were sent

nodeVars == <<node, boot, root, services, cancelled, inbox, names, halt, asked>>
vars == <<nodeVars, shmVars>>

-----------------------------------------------------------------------------
(* NodeLifecycle                                                           *)

can_transition_to ==
  [Booting |-> {"Starting", "Draining", "Failed"},
   Starting |-> {"Ready", "Draining", "Failed"},
   Ready |-> {"Draining", "Failed"},
   Draining |-> {"Stopped", "Failed"},
   Failed |-> {"Draining", "Stopped"},
   Stopped |-> {}]

\* The compare-and-exchange loop takes effect at once; an error leaves the state.
Allowed(next) == next = node \/ next \in can_transition_to[node]
transition(next) == node' = IF Allowed(next) THEN next ELSE node

\* Mutant of begin_draining: a node that was stopped drains again.
DrainAgain == node' = "Draining"

begin_draining == IF node \in {"Draining", "Stopped"} THEN UNCHANGED node ELSE transition("Draining")

-----------------------------------------------------------------------------
(* The services, and what they declare                                     *)

Ids == <<"runtime", "actors", "metrics", "shm">>
Services == {Ids[i] : i \in DOMAIN Ids}

\* The operation of each command and the service it is for.
Operations ==
  [node_info |-> "runtime", health |-> "runtime", ping |-> "runtime",
   list |-> "actors", get |-> "actors", create |-> "actors", stop |-> "actors", extension |-> "actors",
   snapshot |-> "metrics", stats |-> "shm"]

allowed_while_draining == DOMAIN Operations \ {"create", "stop", "extension"}

Init ==
  /\ ShmInit
  /\ node = "Booting"
  /\ boot = "join"
  /\ root = [step |-> "none", command |-> "none"]
  /\ services = [s \in Services |-> "Registered"]
  /\ cancelled = FALSE
  /\ inbox = <<>>
  /\ names = {}
  /\ halt = [c \in Callers |-> "none"]
  /\ asked = 0

At(step) == root.step = step
Goto(step) == root' = [root EXCEPT !.step = step]

-----------------------------------------------------------------------------
(* Bootstrap: ActorSystem::new_inner                                       *)

\* The naming backend joins, or the bootstrap fails.
Join ==
  /\ boot = "join"
  /\ boot' \in {"spawn", "cleanup"}
  /\ UNCHANGED <<node, root, services, cancelled, inbox, names, halt, asked, shmVars>>

\* spawn_system_actor; the ping that shows that it is ready is sent at once.
spawn_system_actor ==
  /\ boot = "spawn"
  /\ boot' = "waiting"
  /\ Goto("on_start")
  /\ names' = names \cup {"system/core"}
  /\ inbox' = Append(inbox, [op |-> "ping", from |-> "boot"])
  /\ UNCHANGED <<node, services, cancelled, halt, asked, shmVars>>

\* await_system_actor_ready: the answer must be a pong of a node that is ready.
Became ==
  /\ boot = "pong" /\ node = "Ready"
  /\ boot' = "up"
  /\ names' = names \cup Actors
  /\ UNCHANGED <<node, root, services, cancelled, inbox, halt, asked, shmVars>>

\* An error answer, a dropped mailbox, the timeout: the node has failed and the
\* system actor is stopped.
DidNotBecome ==
  /\ \/ boot = "waiting"
     \/ boot = "pong" /\ node # "Ready"
     \/ boot = "error"
  /\ transition("Failed")
  /\ boot' = "stopping"
  /\ cancelled' = TRUE
  /\ UNCHANGED <<root, services, inbox, names, halt, asked, shmVars>>

\* stop(SYSTEM_ACTOR_PATH) waits for the task, for a while.
StopWaited ==
  /\ boot = "stopping"
  /\ boot' = "cleanup"
  /\ names' = names \ {"system/core"}
  /\ UNCHANGED <<node, root, services, cancelled, inbox, halt, asked, shmVars>>

cleanup_failed_bootstrap ==
  /\ boot = "cleanup"
  /\ transition("Failed")
  /\ cancelled' = TRUE
  /\ clear
  /\ boot' = "failed"
  /\ UNCHANGED <<root, services, inbox, names, halt, asked>>

-----------------------------------------------------------------------------
(* The system actor's task                                                 *)

\* on_start; an error of on_start ends the task without on_stop.
OnStart ==
  /\ At("on_start")
  /\ IF Allowed("Starting") THEN Goto("starting") ELSE Goto("gone")
  /\ transition("Starting")
  /\ UNCHANGED <<boot, services, cancelled, inbox, names, halt, asked, shmVars>>

\* start_all, one service per step.
StartService ==
  /\ At("starting")
  /\ \E i \in DOMAIN Ids :
       /\ services[Ids[i]] = "Registered" /\ \A j \in 1..(i - 1) : services[Ids[j]] # "Registered"
       /\ \/ services' = [services EXCEPT ![Ids[i]] = "Ready"] /\ UNCHANGED root
          \/ /\ Ids[i] \in MayFail
             /\ services' = [services EXCEPT ![Ids[i]] = "Failed"]
             /\ Goto("undoing")
  /\ UNCHANGED <<node, boot, cancelled, inbox, names, halt, asked, shmVars>>

\* on_start goes on only if every service was started.
BecomeReady ==
  /\ At("starting") /\ \A s \in Services : services[s] # "Registered"
  /\ IF Allowed("Ready") THEN Goto("running") ELSE Goto("gone")
  /\ transition("Ready")
  /\ UNCHANGED <<boot, services, cancelled, inbox, names, halt, asked, shmVars>>

\* stop_ready, one service per step, in reverse order; a service that fails to
\* stop is marked and the others go on.  Stopping the shm service clears it.
StopService ==
  /\ root.step \in {"undoing", "stopping"}
  /\ \E i \in DOMAIN Ids :
       /\ services[Ids[i]] = "Ready" /\ \A j \in (i + 1)..Len(Ids) : services[Ids[j]] # "Ready"
       /\ \/ services' = [services EXCEPT ![Ids[i]] = "Stopped"]
          \/ Ids[i] \in MayFail /\ services' = [services EXCEPT ![Ids[i]] = "Failed"]
       /\ IF Ids[i] = "shm" THEN clear ELSE UNCHANGED shmVars
  /\ UNCHANGED <<node, boot, root, cancelled, inbox, names, halt, asked>>

AllStopped == \A s \in Services : services[s] # "Ready"

\* The failed start is reported: the node has failed, the task ends.
StartFailed ==
  /\ At("undoing") /\ AllStopped
  /\ transition("Failed")
  /\ Goto("gone")
  /\ UNCHANGED <<boot, services, cancelled, inbox, names, halt, asked, shmVars>>

\* receive: what is no system message is answered with an error; a service that
\* is not ready and an operation that draining forbids are refused (dispatch).
Refuses(op) ==
  \/ op = "invalid"
  \/ services[Operations[op]] # "Ready"
  \/ node = "Draining" /\ op \notin allowed_while_draining

Answer(msg, ok) == boot' = IF msg.from # "boot" \/ boot # "waiting" THEN boot
                           ELSE IF ok THEN "pong" ELSE "error"

receive ==
  /\ At("running") /\ inbox # <<>>
  /\ LET msg == Head(inbox)
     IN IF Refuses(msg.op)
          THEN Answer(msg, FALSE) /\ UNCHANGED root
          ELSE root' = [step |-> "handling", command |-> msg] /\ UNCHANGED boot
  /\ inbox' = Tail(inbox)
  /\ UNCHANGED <<node, services, cancelled, names, halt, asked, shmVars>>

\* stop looks the name up, bare or under actors/, and never stops system/core; a
\* name that is not there changes nothing.
StopNamed == {names} \cup {names \ {a} : a \in Actors}

\* The handler of the service.  stats reclaims; the others read, or are not
\* supported.
handle ==
  /\ At("handling")
  /\ LET op == root.command.op
     IN /\ names' \in IF op = "stop" THEN StopNamed ELSE {names}
        /\ IF op = "stats" THEN reclaim_expired ELSE UNCHANGED shmVars
  /\ Answer(root.command, TRUE)
  /\ root' = [step |-> "running", command |-> "none"]
  /\ UNCHANGED <<node, services, cancelled, inbox, halt, asked>>

\* on_stop, once the token is cancelled.  The message loop may still take messages
\* first: select! picks either.
OnStop ==
  /\ At("running") /\ cancelled
  /\ begin_draining
  /\ Goto("stopping")
  /\ UNCHANGED <<boot, services, cancelled, inbox, names, halt, asked, shmVars>>

\* stop_all has gone through; a component that failed makes the node a failed one.
Stopped ==
  /\ At("stopping") /\ AllStopped
  /\ IF \E s \in Services : services[s] = "Failed" THEN transition("Failed") ELSE UNCHANGED node
  /\ Goto("gone")
  /\ UNCHANGED <<boot, services, cancelled, inbox, names, halt, asked, shmVars>>

-----------------------------------------------------------------------------
(* ActorSystem::shutdown, and requests to the system actor                 *)

Request ==
  /\ boot = "up" /\ asked < MaxRequests
  /\ root.step # "gone"
  /\ asked' = asked + 1
  /\ \E op \in Requests : inbox' = Append(inbox, [op |-> op, from |-> "user"])
  /\ UNCHANGED <<node, boot, root, services, cancelled, names, halt, shmVars>>

\* ActorSystem::stop takes any name, that of the system actor too.
StopCore ==
  /\ boot = "up" /\ "system/core" \in names /\ ~cancelled
  /\ cancelled' = TRUE
  /\ names' = names \ {"system/core"}
  /\ UNCHANGED <<node, boot, root, services, inbox, halt, asked, shmVars>>

shutdown(c) ==
  /\ boot = "up" /\ halt[c] = "none"
  /\ begin_draining
  /\ cancelled' = TRUE
  /\ halt' = [halt EXCEPT ![c] = "stopping"]
  /\ UNCHANGED <<boot, root, services, inbox, names, asked, shmVars>>

\* Every actor was awaited for up to five seconds; the tables are cleared and the
\* descriptors revoked, whatever became of the system actor.
ClearAll(c) ==
  /\ halt[c] = "stopping"
  /\ names' = {}
  /\ clear
  /\ halt' = [halt EXCEPT ![c] = "leaving"]
  /\ UNCHANGED <<node, boot, root, services, cancelled, inbox, asked>>

LeaveFails(c) ==
  /\ halt[c] = "leaving"
  /\ transition("Failed")
  /\ halt' = [halt EXCEPT ![c] = "error"]
  /\ UNCHANGED <<boot, root, services, cancelled, inbox, names, asked, shmVars>>

BecomeStopped(c) ==
  /\ halt[c] = "leaving"
  /\ transition("Stopped")
  /\ halt' = [halt EXCEPT ![c] = IF Allowed("Stopped") THEN "ok" ELSE "error"]
  /\ UNCHANGED <<boot, root, services, cancelled, inbox, names, asked, shmVars>>

-----------------------------------------------------------------------------

Bootstrap == Join \/ spawn_system_actor \/ Became \/ DidNotBecome \/ StopWaited \/ cleanup_failed_bootstrap
Root == OnStart \/ StartService \/ BecomeReady \/ StopService \/ StartFailed \/ handle \/ Stopped
Shutdown(c) == ClearAll(c) \/ LeaveFails(c) \/ BecomeStopped(c)

Next ==
  \/ Bootstrap \/ Root \/ receive \/ OnStop \/ Request \/ StopCore
  \/ \E c \in Callers : shutdown(c) \/ Shutdown(c)
  \/ boot = "up" /\ ShmNext /\ UNCHANGED nodeVars

Spec == Init /\ [][Next]_vars

-----------------------------------------------------------------------------

(* A shutdown that returned without an error left the node stopped for      *)
(* good, also if the system actor is late and another shutdown fails.       *)
ShutdownOkIsStopped == \A c \in Callers : halt[c] = "ok" => node = "Stopped"

=============================================================================
