------------------------------- MODULE Gossip -------------------------------
(***************************************************************************)
(* The gossip naming backend (cluster/gossip.rs, cluster/member.rs): each  *)
(* node keeps a table of the nodes it knows (status, epoch, when it was    *)
(* last seen), the instances of a named actor, and a copy of the statuses  *)
(* for the dashboard (members_store.rs).  Nodes join through a seed, ping  *)
(* the nodes they hold Online once per time unit, probe the seed, merge    *)
(* what they are told, and run failure detection over the ages of their    *)
(* entries.  A node may crash, or be cut off from the others for a while.  *)
(*                                                                         *)
(* Time.  One unit is the failure timeout (15 s by default); last_seen is  *)
(* kept as an age that saturates at MaxAge.  Gossip (200 ms), detection    *)
(* (500 ms) and the seed probe (15 s) are at least as frequent, so time    *)
(* moves on only when every live node has pinged whom it can reach and has *)
(* finished a detection; in which order they do that is free.  A ping is   *)
(* handled with the table its sender has at that moment; its answer may be *)
(* merged later, or be lost.                                               *)
(***************************************************************************)
EXTENDS Naturals, FiniteSets, FiniteSetsExt

CONSTANTS Nodes,      \* the nodes that may take part
          Seed,       \* the node everybody has as seed; it has none itself
          Mobile,     \* the nodes that may crash or be cut off
          Runs,       \* the nodes that may run the named actor
          Fanout,     \* GossipConfig::fanout
          FailureTimeout, SuspicionTimeout, RecoveryWindow,
          CleanupGrace, TombstoneRetention,   \* GossipConfig, in time units
          Lossy,      \* whether answers may be lost
          MaxAge,     \* ages above every timeout are not told apart
          CutLimit,   \* cuts happen in clusters of at most this many nodes
          MaxFaults   \* how many crashes and cuts may happen

ASSUME GossipAssumption ==
  /\ IsFiniteSet(Nodes)
  /\ Seed \in Nodes /\ Mobile \subseteq Nodes /\ Runs \subseteq Nodes
  /\ {Fanout, FailureTimeout, SuspicionTimeout, RecoveryWindow, CleanupGrace,
      TombstoneRetention, MaxAge, CutLimit, MaxFaults} \subseteq Nat
  /\ \A t \in {FailureTimeout, SuspicionTimeout, RecoveryWindow,
               CleanupGrace, TombstoneRetention} : t < MaxAge

VARIABLES up,        \* up[n]: "off" (not part), "new", "up" or "crashed"
          cut,       \* the nodes nobody can reach and that reach nobody
          faults,      \* how many more faults may happen
          view,      \* view[n][m]: n's entry for m, or Absent, and the status
                     \* that the dashboard's members table shows of m
          epoch,     \* epoch[n]: current_epoch, counted by n alone
          named,     \* named[n]: the nodes n lists as instances of the actor
          running,   \* running[n]: "no", "yes" or "stopped", the actor itself
          pinged,    \* pinged[n]: whom n has pinged in this time unit
          phase,     \* phase[n]: the detector, "todo", "judged" or "done"
          found      \* found[n][m]: what the detector found of m

tables == <<view, epoch>>
clock  == <<pinged, phase, found>>
net    == <<up, cut, faults>>
actors == <<named, running>>
vars   == <<tables, actors, clock, net>>

Absent == [status |-> "Absent", epoch |-> 0, age |-> 0, shown |-> "Absent"]

Statuses == {"Online", "PFail", "Fail", "Tombstone"}
Rank == [Online |-> 0, PFail |-> 1, Fail |-> 2, Tombstone |-> 4]
CanRecover(e) == e.status \in {"PFail", "Fail", "Tombstone"}

Up == {n \in Nodes : up[n] = "up"}
Connected(n, m) == {n, m} \subseteq Up \ cut
\* No node has acted in this time unit yet.
Quiet == \A n \in Nodes : pinged[n] = {} /\ phase[n] = "todo"
Peers(n) == {m \in Nodes \ {n} : view[n][m].status = "Online"}

(***************************************************************************)
(* What a message does to one entry x of the table; e is what the sender's *)
(* table says.  "shown" is written wherever the code calls upsert_member.  *)
(***************************************************************************)

\* touch_node: a node one hears from is revived under the observer's own
\* next epoch, be it higher or lower than the one it replaces.
Touch(x, ep) ==
  IF x.status = "Absent" THEN x
  ELSE IF CanRecover(x)
       THEN [status |-> "Online", epoch |-> ep + 1, age |-> 0, shown |-> "Online"]
       ELSE [x EXCEPT !.age = 0]

\* Mutant of touch_node: the epoch is used but not counted up.
TouchesUncounted(x) == 0
\* The epochs a touch uses up.
Touches(x) == IF CanRecover(x) THEN 1 ELSE 0

Supersedes(e, x) ==
  \/ x.status = "Absent"
  \/ e.epoch > x.epoch
  \/ e.epoch = x.epoch /\ Rank[e.status] > Rank[x.status]

\* What a message says of the sender's table: its view leaves out the failed
\* nodes, which its failure reports name together with the suspected ones.
InPartialView(e) == e.status \in Statuses \ {"Fail"}
InFailures(e) == e.status \in {"PFail", "Fail"}

\* merge_node for an entry of the partial view.
Merge(x, e) ==
  IF InPartialView(e) /\ Supersedes(e, x)
  THEN [e EXCEPT !.shown = IF e.status # x.status THEN e.status ELSE x.shown]
  ELSE x

\* handle_failure for a suspected or failed node of the message.
HandleFailure(x, e) ==
  IF /\ InFailures(e) /\ x.status # "Absent"
     /\ e.epoch >= x.epoch /\ Rank[e.status] > Rank[x.status]
  THEN [x EXCEPT !.status = e.status, !.epoch = e.epoch, !.shown = e.status]
  ELSE x

Told(x, e) == HandleFailure(Merge(x, e), e)

\* A Ping, Pong or Meet's answer of node n with table w and instances s.
GossipMessage(n, w, s) == [from |-> n, table |-> w, named |-> s]

\* The table v after such a message, with a touch of the sender when the
\* message goes through handle_gossip.
Heard(v, ep, msg) ==
  [k \in Nodes |-> Told(IF k = msg.from THEN Touch(v[k], ep) ELSE v[k], msg.table[k])]
Merged(v, msg) == [k \in Nodes |-> Told(v[k], msg.table[k])]

\* The Meet of a joining node with epoch ep: Online, whatever was known of it.
Met(v, n, ep) ==
  [v EXCEPT ![n] = [status |-> "Online", age |-> 0, shown |-> "Online",
                    epoch |-> IF @.epoch < ep THEN ep ELSE @.epoch]]

\* The instances of the actor a node lists: a set of nodes, merged by union.
AddInstance(s, n) == s \cup {n}
RemoveInstance(s, n) == s \ {n}
MergeInstances(s, r) == s \cup r

\* NamedActorRegistered and NamedActorUnregistered of node n at the nodes ts
\* (and at n itself, which does the same before it tells them).
HandleRegistered(ts, n) ==
  [m \in Nodes |-> IF m \in ts \cup {n} THEN AddInstance(named[m], n) ELSE named[m]]
HandleUnregistered(ts, n) ==
  [m \in Nodes |-> IF m \in ts \cup {n} THEN RemoveInstance(named[m], n) ELSE named[m]]

\* What the API tells of an entry, and the instances a lookup on n returns:
\* the listed nodes that are in its table, whatever their status.
MemberStatus(e) ==
  CASE e.status = "Online"                -> "Alive"
    [] e.status = "PFail"                 -> "Suspect"
    [] e.status \in {"Fail", "Tombstone"} -> "Dead"
    [] OTHER                              -> "None"

(***************************************************************************)
(* Joining and gossip.                                                     *)
(***************************************************************************)
Init ==
  /\ \E others \in SUBSET (Nodes \ {Seed}) :
       up = [n \in Nodes |-> IF n = Seed THEN "up"
                             ELSE IF n \in others THEN "new" ELSE "off"]
  /\ cut = {} /\ faults = MaxFaults
  /\ view = [n \in Nodes |-> [m \in Nodes |->
        IF m = n THEN [Absent EXCEPT !.status = "Online"] ELSE Absent]]
  /\ epoch = [n \in Nodes |-> 0]
  /\ named = [n \in Nodes |-> {}] /\ running = [n \in Nodes |-> "no"]
  /\ pinged = [n \in Nodes |-> {}]
  /\ phase = [n \in Nodes |-> "todo"]
  /\ found = [n \in Nodes |-> [m \in Nodes |-> "keep"]]

\* join: Meet the seed, whose answer is handled like any Pong.
Join(n) ==
  /\ up[n] = "new"
  /\ up' = [up EXCEPT ![n] = "up"]
  /\ LET met == Met(view[Seed], n, epoch[n])
         msg == GossipMessage(Seed, met, named[Seed])
     IN /\ view' = [view EXCEPT ![Seed] = met, ![n] = Heard(view[n], epoch[n], msg)]
        /\ named' = [named EXCEPT ![n] = MergeInstances(@, msg.named)]
  /\ UNCHANGED <<cut, faults, epoch, running, clock>>

\* seed_rejoin_loop: the seed is pinged whatever its status.
Probes(n, m) == n # Seed /\ m = Seed

\* gossip_round towards one target, or probe_seeds.  The handler touches the
\* sender, merges, and answers with its own table; the sender merges the
\* answer (without touching the answering node), unless it is lost.
Ping(n, m) ==
  /\ n \in Up /\ n # m
  /\ m \in Peers(n) \/ Probes(n, m)
  /\ Connected(n, m)
  /\ pinged' = [pinged EXCEPT ![n] = @ \cup {m}]
  /\ epoch' = [epoch EXCEPT ![m] = @ + Touches(view[m][n])]
  /\ \E lost \in {FALSE, Lossy} :
       LET ping == GossipMessage(n, view[n], named[n])
           pong == GossipMessage(m, Heard(view[m], epoch[m], ping),
                                 MergeInstances(named[m], ping.named))
       IN /\ view' = [view EXCEPT ![m] = pong.table,
                                  ![n] = IF lost THEN @ ELSE Merged(@, pong)]
          /\ named' = [named EXCEPT ![m] = pong.named,
                       ![n] = IF lost THEN @ ELSE MergeInstances(@, pong.named)]
  /\ UNCHANGED <<net, running, phase, found>>

(***************************************************************************)
(* The named actor: the registering node tells up to Fanout alive members. *)
(***************************************************************************)
\* broadcast: up to Fanout of the nodes held Online, errors ignored.
Targets(n) ==
  LET alive == Peers(n)
      k     == IF Fanout < Cardinality(alive) THEN Fanout ELSE Cardinality(alive)
  IN {{m \in ts : Connected(n, m)} : ts \in kSubset(k, alive)}

Register(n) ==
  /\ Quiet /\ n \in Runs /\ n \in Up /\ running[n] = "no"
  /\ running' = [running EXCEPT ![n] = "yes"]
  /\ \E ts \in Targets(n) :
       named' = HandleRegistered(ts, n)
  /\ UNCHANGED <<net, tables, clock>>

Unregister(n) ==
  /\ Quiet /\ n \in Up /\ running[n] = "yes"
  /\ running' = [running EXCEPT ![n] = "stopped"]
  /\ \E ts \in Targets(n) :
       named' = HandleUnregistered(ts, n)
  /\ UNCHANGED <<net, tables, clock>>

(***************************************************************************)
(* Failure detection: verdicts are collected under the read lock and       *)
(* applied later, each after a second look at the status.                  *)
(***************************************************************************)
\* Mutant of detect_failures: the ages of nodes held Online are not judged.
VerdictTrusting(e) ==
  CASE e.status = "PFail" /\ e.age > SuspicionTimeout -> "fail"
    [] e.status = "Fail" /\ e.age > CleanupGrace      -> "tombstone"
    [] OTHER                                          -> "keep"

Verdict(e) ==
  CASE e.status = "Online" /\ e.age > FailureTimeout         -> "pfail"
    [] e.status = "PFail" /\ e.age > SuspicionTimeout        -> "fail"
    [] e.status \in {"Fail", "Tombstone"}
         /\ e.age <= RecoveryWindow                          -> "recover"
    [] e.status = "Fail" /\ e.age > RecoveryWindow
         /\ e.age > CleanupGrace                             -> "tombstone"
    [] e.status = "Tombstone" /\ e.age > RecoveryWindow
         /\ e.age > TombstoneRetention                       -> "remove"
    [] OTHER                                                 -> "keep"

Collect(n) ==
  /\ n \in Up /\ phase[n] = "todo" /\ phase' = [phase EXCEPT ![n] = "judged"]
  /\ found' = [found EXCEPT ![n] =
        [m \in Nodes |-> IF m = n THEN "keep" ELSE Verdict(view[n][m])]]
  /\ UNCHANGED <<net, tables, actors, pinged>>

\* The order in which detect_failures works through its lists, the status a
\* list gives, and the status it requires once it holds the write lock.
Stage == [recover |-> 1, pfail |-> 2, fail |-> 3, tombstone |-> 4]
Gives == [recover |-> "Online", pfail |-> "PFail", fail |-> "Fail", tombstone |-> "Tombstone"]
StillValid(e, what) ==
  CASE what = "recover"   -> CanRecover(e)
    [] what = "pfail"     -> e.status = "Online"
    [] what = "fail"      -> e.status = "PFail"
    [] what = "tombstone" -> e.status = "Fail"
    [] what = "remove"    -> e.status = "Tombstone"
    [] OTHER              -> FALSE

\* The epochs the changed entries get: lists in order, within one any order.
Orders(changed, what) ==
  {pos \in [changed -> 1..Cardinality(changed)] :
     \A a, b \in changed : a # b =>
        /\ pos[a] # pos[b]
        /\ Stage[what[a]] < Stage[what[b]] => pos[a] < pos[b]}

Apply(n) ==
  LET what    == found[n]
      valid   == {m \in Nodes : StillValid(view[n][m], what[m])}
      gone    == {m \in valid : what[m] = "remove"}
      changed == valid \ gone
  IN /\ n \in Up /\ phase[n] = "judged" /\ phase' = [phase EXCEPT ![n] = "done"]
     /\ \E pos \in Orders(changed, what) :
          view' = [view EXCEPT ![n] = [m \in Nodes |->
             IF m \in gone THEN Absent
             ELSE IF m \in changed
                  THEN [status |-> Gives[what[m]], epoch |-> epoch[n] + pos[m],
                        age |-> view[n][m].age, shown |-> Gives[what[m]]]
                  ELSE view[n][m]]]
     /\ epoch' = [epoch EXCEPT ![n] = @ + Cardinality(changed)]
     /\ named' = [named EXCEPT ![n] = @ \ {m \in changed : what[m] = "tombstone"}]
     /\ found' = [found EXCEPT ![n] = [m \in Nodes |-> "keep"]]
     /\ UNCHANGED <<net, running, pinged>>

(***************************************************************************)
(* The environment: time, crashes, a node cut off and connected again.     *)
(***************************************************************************)
Tick ==
  /\ \A n \in Nodes : up[n] # "new"
  /\ \A n \in Up : /\ phase[n] = "done"
                   /\ \A m \in (Peers(n) \cup {Seed}) \ {n} :
                         Connected(n, m) => m \in pinged[n]
  /\ view' = [n \in Nodes |-> [m \in Nodes |->
        IF view[n][m] # Absent /\ view[n][m].age < MaxAge
        THEN [view[n][m] EXCEPT !.age = @ + 1] ELSE view[n][m]]]
  /\ pinged' = [n \in Nodes |-> {}]
  /\ phase' = [n \in Nodes |-> "todo"]
  /\ UNCHANGED <<net, epoch, actors, found>>

Crash(n) ==
  /\ Quiet /\ n \in Mobile /\ n \in Up \ cut /\ faults > 0
  /\ up' = [up EXCEPT ![n] = "crashed"] /\ faults' = faults - 1
  /\ UNCHANGED <<cut, tables, actors, clock>>

CutOff(n) ==
  /\ Quiet /\ n \in Mobile /\ n \in Up \ cut /\ faults > 0
  /\ Cardinality({m \in Nodes : up[m] # "off"}) <= CutLimit
  /\ cut' = cut \cup {n} /\ faults' = faults - 1
  /\ UNCHANGED <<up, tables, actors, clock>>

Reconnect(n) ==
  /\ Quiet /\ n \in cut
  /\ cut' = cut \ {n}
  /\ UNCHANGED <<up, faults, tables, actors, clock>>

NodeStep(n) ==
  \/ Join(n) \/ Collect(n) \/ Apply(n)
  \/ \E m \in Nodes : Ping(n, m)

Next ==
  \/ \E n \in Nodes : NodeStep(n) \/ Register(n) \/ Unregister(n)
                      \/ Crash(n) \/ CutOff(n) \/ Reconnect(n)
  \/ Tick

\* Every live node's loops go on and time passes (a node has finitely much to
\* do in a time unit, and Tick waits for all of it); faults need not happen.
\* Gossip rounds are more frequent than detections (200 ms and 500 ms), so a
\* node that holds a pinging node to be failed cannot for ever be pinged only
\* in those moments in which it has just forgotten it.
Reviving(m) == \E n \in Nodes : CanRecover(view[m][n]) /\ Ping(n, m)
Fairness ==
  /\ WF_vars(Tick \/ \E n \in Nodes : NodeStep(n))
  /\ \A m \in Nodes : SF_vars(Reviving(m))

Spec == Init /\ [][Next]_vars /\ Fairness

(***************************************************************************)
(* Properties.                                                             *)
(***************************************************************************)
Entry == [status : Statuses, epoch : Nat, age : 0..MaxAge,
          shown : Statuses \cup {"Absent"}]

Verdicts == {"recover", "pfail", "fail", "tombstone", "remove", "keep"}

\* Every entry has a status that gossip can produce (Handshake is never set), a
\* node never loses the entry for itself and never judges itself.
TypeOK ==
  /\ up \in [Nodes -> {"off", "new", "up", "crashed"}] /\ cut \subseteq Nodes
  /\ faults \in 0..MaxFaults /\ epoch \in [Nodes -> Nat]
  /\ view \in [Nodes -> [Nodes -> Entry \cup {Absent}]]
  /\ \A n \in Nodes : view[n][n] \in Entry
  /\ named \in [Nodes -> SUBSET Nodes]
  /\ running \in [Nodes -> {"no", "yes", "stopped"}]
  /\ pinged \in [Nodes -> SUBSET Nodes]
  /\ phase \in [Nodes -> {"todo", "judged", "done"}]
  /\ found \in [Nodes -> [Nodes -> Verdicts]] /\ \A n \in Nodes : found[n][n] = "keep"

\* An epoch says which of two claims about a node is newer, although every
\* node counts its own: whatever is claimed, some node has issued its epoch,
\* so no claim is out of reach of a later one (gossip.rs:151, :205, :463).
EpochWasIssued ==
  \A n, m \in Nodes : \E k \in Nodes : view[n][m].epoch <= epoch[k]

\* A node that crashed is in the end no longer held Online by anyone, so it
\* gets no more gossip and no more broadcasts (gossip.rs:1075-1100), whatever
\* the other nodes, whose clocks and epochs differ, tell each other of it.
DeadIsNoticed ==
  <>[](\A n \in Up, m \in Nodes : up[m] = "crashed" => MemberStatus(view[n][m]) # "Alive")

\* Two nodes that can reach each other from some time on hold each other
\* Online from some time on, even after each has declared the other failed:
\* the seed probe starts it, hearing a node revives it, and the epochs the
\* two sides have counted meanwhile do not stand in the way for ever.
Reunited ==
  <>[](\A n, m \in Nodes : Connected(n, m) => MemberStatus(view[n][m]) = "Alive")

\* What the failure detector and the gossip rounds are for: the dead are
\* noticed, and the living find each other again.
DetectorWorks == DeadIsNoticed /\ Reunited

=============================================================================
