------------------------------ MODULE Routing ------------------------------
(***************************************************************************)
(* The load balancing policies: round robin, random, power of two and      *)
(* consistent hashing (policies/), and the loads they look at              *)
(* (system/load_balancer.rs).  A policy object is shared by threads that   *)
(* select at the same time, while workers fail and recover.  Policies are  *)
(* objects that share nothing, and a behaviour follows one of them.        *)
(*                                                                         *)
(* The hash ring of a set of workers is the set itself.  Clockwise[k] is   *)
(* the order in which the virtual nodes after key k first show each        *)
(* worker, so the owner of k is the first one of that order on the ring.   *)
(***************************************************************************)
EXTENDS Naturals, FiniteSets, Sequences

CONSTANTS
  LastWorker,  \* the workers are 1 .. LastWorker, in the order of the lists
  Lists,       \* the lists of workers that selectors may pass, none empty
  Selectors,   \* threads that select
  Requests,    \* requests: functions from the parts that name a session to values
  Clockwise,   \* per key: a sequence of all workers
  MaxLoad,     \* bound: loads above it are not told apart
  LoadMaps,    \* bound: the loads that update_loads may bring, NoLoad where it says nothing
  Period       \* bound: the counter is kept modulo a multiple of the list lengths

Workers == 1 .. LastWorker

VARIABLES
  policy,    \* the policy that is followed
  healthy,   \* the workers that are healthy and whose breaker allows requests
  load,      \* the workers' loads
  cached,    \* PowerOfTwoPolicy::cached_loads; NoLoad where there is none
  counter,   \* RoundRobinPolicy::counter, modulo a multiple of the list lengths
  ring,      \* ConsistentHashPolicy::hash_ring
  current,   \* ConsistentHashPolicy::current_workers
  sel,       \* the selectors
  turn,      \* the round-robin picks since the healthy list changed
  went       \* the lists, keys and workers of the selections by hash while all was well

policyVars == <<policy, load, cached, counter, ring, current>>
ghostVars == <<turn, went>>
vars == <<healthy, policyVars, sel, ghostVars>>

NoLoad == MaxLoad + 1
Idle == [step |-> "idle", list |-> {}, up |-> {}, fit |-> {}, key |-> <<>>, worker |-> 0]
Steps == {"idle", "choose", "check", "ring", "current", "find", "done"}
Policies == {"round_robin", "random", "power_of_two", "consistent_hash"}

Nth(S, k) == CHOOSE w \in S : Cardinality({v \in S : v < w}) = k
First(S) == Nth(S, 0)

Init ==
  /\ policy \in Policies /\ healthy = Workers
  /\ load = [w \in Workers |-> 0] /\ cached = [w \in Workers |-> NoLoad]
  /\ counter = 0 /\ ring = {} /\ current = {}
  /\ sel = [s \in Selectors |-> Idle]
  /\ turn = [list |-> {}, picks |-> [w \in Workers |-> 0]]
  /\ went = {}

-----------------------------------------------------------------------------
(* The session of a request                                                *)

\* SESSION_HEADER_NAMES, then the fields of the body, in the order they are
\* looked for; the text of the request is always there.
Parts == <<"x-session-id", "x-user-id", "x-tenant-id", "x-request-id",
           "x-correlation-id", "x-trace-id",
           "session_params", "user", "session_id", "user_id", "text">>

\* extract_hash_key: both session fields make the same key, and both user fields.
Prefix(part) ==
  CASE part \in {"session_params", "session_id"} -> "session"
    [] part \in {"user", "user_id"} -> "user"
    [] OTHER -> part

extract_hash_key(r) ==
  LET i == CHOOSE i \in DOMAIN Parts :
             Parts[i] \in DOMAIN r /\ \A j \in 1 .. i - 1 : Parts[j] \notin DOMAIN r
  IN <<Prefix(Parts[i]), r[Parts[i]]>>

\* find_worker_by_hash: the first worker of the ring from the key's hash on.
Owner(k, S) ==
  LET order == Clockwise[k]
      i == CHOOSE i \in DOMAIN order : order[i] \in S /\ \A j \in 1 .. i - 1 : order[j] \notin S
  IN order[i]

-----------------------------------------------------------------------------
(* Selections                                                              *)

\* get_healthy_worker_indices; without any the selection ends with None.
get_healthy_worker_indices(s) ==
  /\ sel[s].step = "idle"
  /\ \E list \in Lists, r \in Requests :
       LET up == list \cap healthy
           begun == [Idle EXCEPT !.list = list, !.up = up, !.fit = up]
       IN /\ up # {}
          /\ sel' = [sel EXCEPT ![s] =
               IF policy = "consistent_hash"
                 THEN [begun EXCEPT !.step = "check", !.key = extract_hash_key(r)]
                 ELSE [begun EXCEPT !.step = "choose"]]
  /\ UNCHANGED <<healthy, policyVars, ghostVars>>

Chosen(s, w) ==
  /\ sel' = [sel EXCEPT ![s].step = "done", ![s].worker = w]
  /\ UNCHANGED healthy

\* select_instance counts the chosen worker; if the cleanup of stale trackers
\* takes an unused one away in between, the request is not counted.  Only power
\* of two reads the loads: under the other policies they are not kept here.
Count(w) ==
  IF policy # "power_of_two" THEN UNCHANGED load ELSE
  \/ load' = [load EXCEPT ![w] = IF @ < MaxLoad THEN @ + 1 ELSE @]
  \/ load[w] = 0 /\ UNCHANGED load

\* A pick in the record of picks since the list changed: rounds in which every
\* worker was picked are forgotten.
TakeTurn(list, w) ==
  LET old == IF turn.list = list THEN turn.picks ELSE [v \in Workers |-> 0]
      new == [old EXCEPT ![w] = @ + 1]
  IN [list |-> list,
      picks |-> IF \A v \in list : new[v] > 0
                  THEN [v \in Workers |-> IF v \in list THEN new[v] - 1 ELSE 0] ELSE new]

\* RoundRobinPolicy: one fetch_add, modulo the number of healthy workers.
RoundRobin(s) ==
  LET up == sel[s].up
      w == Nth(up, counter % Cardinality(up))
  IN /\ sel[s].step = "choose" /\ policy = "round_robin"
     /\ counter' = (counter + 1) % Period
     /\ turn' = TakeTurn(up, w) /\ Chosen(s, w) /\ Count(w)
     /\ UNCHANGED <<policy, cached, ring, current, went>>

\* RandomPolicy
RandomPick(s) ==
  /\ sel[s].step = "choose" /\ policy = "random"
  /\ \E w \in sel[s].up : Chosen(s, w) /\ Count(w)
  /\ UNCHANGED <<policy, cached, counter, ring, current, ghostVars>>

\* PowerOfTwoPolicy: two different workers, the loads of the last update before
\* the worker's own; the less loaded one.
WorkerLoad(w) == IF cached[w] # NoLoad THEN cached[w] ELSE load[w]

PowerOfTwo(s) ==
  LET up == sel[s].up
  IN /\ sel[s].step = "choose" /\ policy = "power_of_two"
     /\ \E w \in up :
          /\ up = {w} \/ \E v \in up \ {w} : WorkerLoad(w) <= WorkerLoad(v)
          /\ Chosen(s, w) /\ Count(w)
     /\ UNCHANGED <<policy, cached, counter, ring, current, ghostVars>>

-----------------------------------------------------------------------------
(* ConsistentHashPolicy                                                    *)

\* update_hash_ring: the list is compared with current_workers; then the ring
\* and the list are written, each under its own lock.
CheckRing(s) ==
  /\ sel[s].step = "check"
  /\ sel' = [sel EXCEPT ![s].step = IF current = sel[s].list THEN "find" ELSE "ring"]
  /\ UNCHANGED <<healthy, policyVars, ghostVars>>

\* Mutant of WriteRing: the list is written first.
WriteRingLate(s) ==
  /\ sel[s].step = "ring"
  /\ current' = sel[s].list
  /\ sel' = [sel EXCEPT ![s].step = "current"]
  /\ UNCHANGED <<policy, healthy, load, cached, counter, ring, ghostVars>>

WriteRing(s) ==
  /\ sel[s].step = "ring"
  /\ ring' = sel[s].list
  /\ sel' = [sel EXCEPT ![s].step = "current"]
  /\ UNCHANGED <<policy, healthy, load, cached, counter, current, ghostVars>>

WriteCurrent(s) ==
  /\ sel[s].step = "current"
  /\ current' = sel[s].list
  /\ sel' = [sel EXCEPT ![s].step = "find"]
  /\ UNCHANGED <<policy, healthy, load, cached, counter, ring, ghostVars>>

\* The owner on the ring, if the list has it and it is healthy; else the first
\* of the workers found healthy before.
FindWorker(s) ==
  LET key == sel[s].key
      w == IF ring = {} THEN First(sel[s].up)
           ELSE IF Owner(key, ring) \in sel[s].list \cap healthy THEN Owner(key, ring)
           ELSE First(sel[s].up)
  IN /\ sel[s].step = "find"
     /\ went' = IF sel[s].list \subseteq healthy
                THEN went \cup {<<sel[s].list, key, w>>} ELSE went
     /\ Chosen(s, w) /\ Count(w)
     /\ UNCHANGED <<policy, cached, counter, ring, current, turn>>

\* The selector is done; a pair of workers is two selections in a row.
Done(s) ==
  /\ sel[s].step = "done"
  /\ sel' = [sel EXCEPT ![s] = Idle]
  /\ UNCHANGED <<healthy, policyVars, ghostVars>>

-----------------------------------------------------------------------------

update_loads ==
  /\ policy = "power_of_two"
  /\ \E loads \in LoadMaps : cached # loads /\ cached' = loads
  /\ UNCHANGED <<policy, healthy, load, counter, ring, current, sel, ghostVars>>

\* RoundRobinPolicy::reset
reset_counter ==
  /\ counter # 0 /\ counter' = 0
  /\ turn' = [list |-> {}, picks |-> [w \in Workers |-> 0]]
  /\ UNCHANGED <<policy, healthy, load, cached, ring, current, sel, went>>

\* ConsistentHashPolicy::reset clears both under their locks.  The Python
\* binding offers it; here it is called between selections (one that comes
\* between the two writes of an update leaves an empty ring that looks current).
reset_ring ==
  /\ policy = "consistent_hash" /\ current # {}
  /\ \A s \in Selectors : sel[s].step \in {"idle", "done"}
  /\ ring' = {} /\ current' = {} /\ went' = {}
  /\ UNCHANGED <<policy, healthy, load, cached, counter, sel, turn>>

Fail(w) ==
  /\ w \in healthy /\ healthy' = healthy \ {w}
  /\ UNCHANGED <<policyVars, sel, ghostVars>>

Recover(w) ==
  /\ w \notin healthy /\ healthy' = healthy \cup {w}
  /\ sel' = [s \in Selectors |-> IF sel[s].step = "idle" THEN sel[s]
                                 ELSE [sel[s] EXCEPT !.fit = @ \cup ({w} \cap sel[s].list)]]
  /\ UNCHANGED <<policyVars, ghostVars>>

SelectorStep(s) ==
  \/ RoundRobin(s) \/ RandomPick(s) \/ PowerOfTwo(s)
  \/ CheckRing(s) \/ WriteRing(s) \/ WriteCurrent(s) \/ FindWorker(s) \/ Done(s)

Next ==
  \/ \E s \in Selectors : get_healthy_worker_indices(s) \/ SelectorStep(s)
  \/ \E w \in Workers : Fail(w) \/ Recover(w)
  \/ update_loads \/ reset_counter \/ reset_ring

Spec == Init /\ [][Next]_vars

-----------------------------------------------------------------------------

\* A selection ends with a worker that was healthy at some time since it began,
\* although the owner's health is read after the healthy ones were listed.
ChoiceIsFit == \A s \in Selectors : sel[s].step = "done" => sel[s].worker \in sel[s].fit

\* Round robin is even: while the healthy workers stay the same, none is picked
\* twice more than another, however the selectors interleave.
RoundRobinEven ==
  \A v, w \in turn.list : turn.picks[v] <= turn.picks[w] + 1

\* "ensuring that requests from the same user/session consistently go to the same
\* worker" (consistent_hash.rs:4): while all workers of a list are healthy, the
\* requests of one session have gone to one worker of it, also those that ran
\* while the ring was being built.
Affinity ==
  \A p, q \in went : p[1] = q[1] /\ p[2] = q[2] => p[3] = q[3]
=============================================================================
