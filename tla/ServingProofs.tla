--------------------------- MODULE ServingProofs ----------------------------
(***************************************************************************)
(* Proofs about the parts of Serving: the load-balancing policies          *)
(* (Routing), the calls of Python actors (PythonActors) and the benchmark  *)
(* (Bench).  They hold for any number of workers, selectors and requests,  *)
(* of actors, threads and calls, and of runs, phases and users.            *)
(*                                                                         *)
(* RoundRobinEven speaks of the picks only.  TurnInv ties them to the      *)
(* counter: the workers picked in the round that is under way are those    *)
(* just before the counter's position.  Affinity is not inductive, for the *)
(* ring and the list it was built from are written one after the other:    *)
(* RingInv says that the list that is current is on the ring, and that a   *)
(* selection past its update finds its own list there.  That needs all     *)
(* selectors to pass the same list, and OneRing assumes it.                *)
(*                                                                         *)
(* A handler has its own trace context because its actor serves one call:  *)
(* ServeInv says so of the calls, TaskInv of the tasks the executor has    *)
(* queued or runs for them, and MailInv of what waits in the mailboxes.    *)
(*                                                                         *)
(* The aggregator counts into the phase that is current when a message     *)
(* reaches it.  BenchInv follows its mailbox from where it stands (Now) to *)
(* where the messages that wait will take it (Arrives): there, what is     *)
(* counted and the requests not reported yet (Unreported) are what was     *)
(* sent, and an EndPhase waits behind all results of its phase.            *)
(***************************************************************************)
EXTENDS Serving, FiniteSetTheorems, SequenceTheorems, WellFoundedInduction,
        NaturalsInduction, TLAPS


-----------------------------------------------------------------------------
(* The load-balancing policies                                             *)

\* Routing counts as this module does.
LEMMA SameSize == \A S : Policy!Cardinality(S) = Cardinality(S)
  BY DEF Policy!Cardinality, Cardinality

\* How many workers of S come before w.
Rank(S, w) == Cardinality({v \in S : v < w})

\* The workers are finitely many numbers.
LEMMA WorkersFinite == Policy!Workers \subseteq Nat /\ IsFiniteSet(Policy!Workers)
  BY ListsAssumption, FS_Interval DEF Policy!Workers

\* A worker further down a list has a higher rank.
LEMMA RankOrder ==
  ASSUME NEW S \in SUBSET Policy!Workers, NEW v \in S, NEW w \in S, v < w
  PROVE  Rank(S, v) < Rank(S, w)
<1>1. IsFiniteSet(S) /\ S \subseteq Nat
  BY WorkersFinite, FS_Subset
<1>2. PICK A : A = {u \in S : u < v}
  OBVIOUS
<1>3. PICK B : B = {u \in S : u < w}
  OBVIOUS
<1>4. A \subseteq B /\ B \in SUBSET S /\ A # B /\ A \in SUBSET B
  <2>1. v \in B /\ v \notin A
    BY <1>1, <1>2, <1>3
  <2>2. \A u \in A : u \in B
    BY <1>1, <1>2, <1>3
  <2>3. QED
    BY <1>3, <2>1, <2>2
<1>5. IsFiniteSet(B)
  BY <1>1, <1>4, FS_Subset
<1>6. Cardinality(A) <= Cardinality(B) /\ (Cardinality(B) = Cardinality(A) => B = A)
      /\ IsFiniteSet(A)
  BY <1>4, <1>5, FS_Subset
<1>7. Cardinality(A) \in Nat /\ Cardinality(B) \in Nat
  BY <1>5, <1>6, FS_CardinalityType
<1>8. QED
  BY <1>2, <1>3, <1>4, <1>6, <1>7 DEF Rank

\* The ranks of a list are the positions of a round.
LEMMA RankType ==
  ASSUME NEW S \in SUBSET Policy!Workers, NEW w \in S
  PROVE  Rank(S, w) \in 0 .. Cardinality(S) - 1 /\ Cardinality(S) \in Nat \ {0}
<1>1. IsFiniteSet(S) /\ S \subseteq Nat
  BY WorkersFinite, FS_Subset
<1>2. PICK A : A = {u \in S : u < w}
  OBVIOUS
<1>3. A \in SUBSET S /\ A # S
  <2>1. w \notin A
    BY <1>1, <1>2
  <2>2. QED
    BY <1>2, <2>1
<1>4. Cardinality(A) <= Cardinality(S) /\ (Cardinality(S) = Cardinality(A) => S = A) /\ IsFiniteSet(A)
  BY <1>1, <1>3, FS_Subset
<1>5. Cardinality(A) \in Nat /\ Cardinality(S) \in Nat
  BY <1>1, <1>4, FS_CardinalityType
<1>6. QED
  BY <1>2, <1>3, <1>4, <1>5 DEF Rank

\* Nth finds a worker for every position.
LEMMA NthExists ==
  ASSUME NEW S \in SUBSET Policy!Workers, NEW k \in Nat, k < Cardinality(S)
  PROVE  Policy!Nth(S, k) \in S /\ Rank(S, Policy!Nth(S, k)) = k
<1>1. PICK n \in Nat : n = Cardinality(S)
  BY WorkersFinite, FS_Subset, FS_CardinalityType
<1>2. PICK f : f = [w \in S |-> Rank(S, w)]
  OBVIOUS
<1>3. f \in [S -> 0 .. n - 1]
  BY <1>1, <1>2, RankType
<1>4. \A v, w \in S : f[v] = f[w] => v = w
  <2> SUFFICES ASSUME NEW v \in S, NEW w \in S, f[v] = f[w], v # w PROVE FALSE
    OBVIOUS
  <2>1. v \in Nat /\ w \in Nat
    BY WorkersFinite
  <2>2. v < w \/ w < v
    BY <2>1
  <2>3. Rank(S, v) \in Nat /\ Rank(S, w) \in Nat /\ Rank(S, v) = Rank(S, w)
    BY <1>2, RankType
  <2>4. QED
    BY <2>2, <2>3, RankOrder
<1>5. f \in Injection(S, 0 .. n - 1)
  BY <1>3, <1>4 DEF Injection, IsInjective
<1>6. IsFiniteSet(0 .. n - 1) /\ Cardinality(0 .. n - 1) = n
  <2>1. 0 \in Int /\ n - 1 \in Int
    OBVIOUS
  <2>2. IsFiniteSet(0 .. n - 1) /\ Cardinality(0 .. n - 1) = IF 0 > n - 1 THEN 0 ELSE (n - 1) - 0 + 1
    BY <2>1, FS_Interval
  <2>3. (IF 0 > n - 1 THEN 0 ELSE (n - 1) - 0 + 1) = n
    OBVIOUS
  <2>4. QED
    BY <2>2, <2>3
<1>7. f \in Surjection(S, 0 .. n - 1)
  BY <1>1, <1>5, <1>6, FS_Injection
<1>8. k \in 0 .. n - 1
  BY <1>1
<1>9. PICK w \in S : f[w] = k
  BY <1>7, <1>8 DEF Surjection
<1>10. \E v \in S : Cardinality({u \in S : u < v}) = k
  BY <1>2, <1>9 DEF Rank
<1>11. \E v \in S : Policy!Cardinality({u \in S : u < v}) = k
  BY <1>10, SameSize
<1>12. PICK h : h = CHOOSE g \in S : Policy!Cardinality({u \in S : u < g}) = k
  OBVIOUS
<1>13. h \in S /\ Policy!Cardinality({u \in S : u < h}) = k
  BY <1>11, <1>12
<1>14. Policy!Nth(S, k) = h
  BY <1>12 DEF Policy!Nth
<1>15. QED
  BY <1>13, <1>14, SameSize DEF Rank

\* The owner of a key is one of the workers on the ring.
LEMMA OwnerOnRing ==
  ASSUME NEW r \in Requests, NEW S \in SUBSET Policy!Workers, S # {}
  PROVE  Policy!Owner(Policy!extract_hash_key(r), S) \in S
<1>1. PICK order \in Seq(Policy!Workers) : order = Clockwise[Policy!extract_hash_key(r)]
  BY ClockwiseAssumption
<1>2. PICK I : I = {i \in DOMAIN order : order[i] \in S}
  OBVIOUS
<1>3. I \in SUBSET Nat /\ I # {} /\ DOMAIN order \subseteq Nat /\ DOMAIN order = 1 .. Len(order) /\ Len(order) \in Nat
  <2>1. DOMAIN order = 1 .. Len(order) /\ Len(order) \in Nat
    OBVIOUS
  <2>2. I # {}
    BY <1>1, <1>2, ClockwiseAssumption
  <2>3. QED
    BY <1>2, <2>1, <2>2
<1>4. PICK i \in I : \A j \in I : <<j, i>> \notin OpToRel(<, Nat)
  BY <1>3, WFMin, NatLessThanWellFounded, Zenon
<1>5. \A j \in I : ~(j < i)
  BY <1>3, <1>4 DEF OpToRel
<1>6. i \in DOMAIN order /\ order[i] \in S /\ \A j \in 1 .. i - 1 : order[j] \notin S
  <2>1. i \in DOMAIN order /\ order[i] \in S /\ i \in 1 .. Len(order)
    BY <1>2, <1>3
  <2>2. \A j \in 1 .. i - 1 : j \in DOMAIN order /\ j < i
    BY <1>3, <2>1
  <2>3. QED
    BY <1>2, <1>5, <2>1, <2>2
<1>7. \E h \in DOMAIN order : order[h] \in S /\ \A j \in 1 .. h - 1 : order[j] \notin S
  BY <1>6
<1>8. PICK h : h = CHOOSE g \in DOMAIN order : order[g] \in S /\ \A j \in 1 .. g - 1 : order[j] \notin S
  OBVIOUS
<1>9. order[h] \in S
  BY <1>7, <1>8
<1>10. Policy!Owner(Policy!extract_hash_key(r), S) = order[h]
  BY <1>1, <1>8 DEF Policy!Owner
<1>11. QED
  BY <1>9, <1>10

\* Quotient and remainder of the next number.
LEMMA NextRemainder ==
  ASSUME NEW n \in Nat, n > 0, NEW q \in Nat, NEW r \in Nat, NEW u \in Nat, NEW v \in Nat,
         r < n, v < n, n * q + r + 1 = n * u + v
  PROVE  v = IF r + 1 = n THEN 0 ELSE r + 1
<1>1. PICK d \in Int : d = u - q
  OBVIOUS
<1>2. n * d = n * u - n * q
  BY <1>1
<1>3. n * d = r + 1 - v
  BY <1>2
<1>4. d < 2
  <2>1. d >= 2 => n * d >= n * 2
    OBVIOUS
  <2>2. QED
    BY <1>3, <2>1
<1>5. d > -1
  <2>1. d <= -1 => n * d <= n * (-1)
    OBVIOUS
  <2>2. QED
    BY <1>3, <2>1
<1>6. CASE d = 0
  BY <1>3, <1>6
<1>7. CASE d = 1
  BY <1>3, <1>7
<1>8. QED
  BY <1>4, <1>5, <1>6, <1>7

\* The position after the next pick.
LEMMA NextPosition ==
  ASSUME NEW c \in Nat, NEW n \in Nat, n > 0
  PROVE  /\ c % n \in 0 .. n - 1
         /\ (c + 1) % n = IF (c % n) + 1 = n THEN 0 ELSE (c % n) + 1
<1>1. c % n \in Nat /\ c \div n \in Nat /\ c = n * (c \div n) + (c % n) /\ c % n < n
  OBVIOUS
<1>2. PICK e \in Nat : e = c + 1
  OBVIOUS
<1>3. e % n \in Nat /\ e \div n \in Nat /\ e = n * (e \div n) + (e % n) /\ e % n < n
  OBVIOUS
<1>4. PICK q \in Nat : q = c \div n
  BY <1>1
<1>5. PICK r \in Nat : r = c % n
  BY <1>1
<1>6. PICK u \in Nat : u = e \div n
  BY <1>3
<1>7. PICK v \in Nat : v = e % n
  BY <1>3
<1>8. r < n /\ v < n /\ c = n * q + r /\ e = n * u + v
  BY <1>1, <1>3, <1>4, <1>5, <1>6, <1>7
<1>9. n * q + r + 1 = n * u + v
  BY <1>2, <1>8
<1>10. v = IF r + 1 = n THEN 0 ELSE r + 1
  BY <1>8, <1>9, NextRemainder
<1>11. c % n \in 0 .. n - 1
  BY <1>1
<1>12. QED
  BY <1>2, <1>5, <1>7, <1>10, <1>11

\* The keys of the requests.
SessionKeys == {Policy!extract_hash_key(r) : r \in Requests}

\* The types of what the policies read.
RouteTypes ==
  /\ healthy \subseteq Policy!Workers /\ counter \in 0 .. Period - 1
  /\ sel \in [Selectors -> [step : Policy!Steps, list : SUBSET Policy!Workers, up : SUBSET Policy!Workers,
                            fit : SUBSET Policy!Workers, key : SessionKeys \cup {<<>>},
                            worker : Policy!Workers \cup {0}]]

\* What a selection looks at: every worker it may choose was healthy meanwhile.
SelInv ==
  \A s \in Selectors :
    /\ sel[s].step # "idle" =>
         /\ sel[s].list \in Lists /\ sel[s].up \subseteq sel[s].list /\ sel[s].up # {}
         /\ sel[s].up \subseteq sel[s].fit /\ sel[s].list \cap healthy \subseteq sel[s].fit
    /\ sel[s].step \in {"check", "ring", "current", "find"} => sel[s].key \in SessionKeys

\* How far position p is past rank r in a round of n.
Past(p, r, n) == IF r < p THEN p - r ELSE p + n - r

\* The picks of the round that is under way are those just before the position of
\* the counter.
TurnInv ==
  /\ turn \in [list : SUBSET Policy!Workers, picks : [Policy!Workers -> {0, 1}]]
  /\ turn.list # {} =>
       /\ \E list \in Lists : turn.list \subseteq list
       /\ \E k \in 0 .. Cardinality(turn.list) - 1 : \A v \in turn.list :
            turn.picks[v] =
              IF Past(counter % Cardinality(turn.list), Rank(turn.list, v), Cardinality(turn.list)) <= k
                THEN 1 ELSE 0

RouteInv == RouteTypes /\ SelInv /\ TurnInv /\ Policy!ChoiceIsFit

\* With one list of workers: the list that is current is the one on the ring, and
\* so it is for every selection that is past its update.
RingInv ==
  /\ ring # {} => ring \in Lists
  /\ current # {} => current = ring
  /\ \A s \in Selectors : sel[s].step \in {"current", "find"} => ring = sel[s].list
  /\ \A p \in went : p[3] = Policy!Owner(p[2], p[1])


\* What a step may do to the selections of the others, the health and the counters
\* without touching TurnInv.
LEMMA TurnKept == ASSUME TurnInv, UNCHANGED <<counter, turn>> PROVE TurnInv'
  BY DEF TurnInv

\* One selection moves on: it stays what it was but for its step and its worker.
LEMMA SelMoves ==
  ASSUME RouteInv, NEW s \in Selectors, NEW x \in Policy!Steps \ {"idle"}, NEW w \in Policy!Workers \cup {0},
         sel[s].step # "idle",
         sel' = [sel EXCEPT ![s].step = x, ![s].worker = w],
         x \in {"check", "ring", "current", "find"} =>
           sel[s].step \in {"check", "ring", "current", "find"},
         x = "done" => w \in sel[s].fit,
         healthy' = healthy, counter' \in 0 .. Period - 1
  PROVE  RouteTypes' /\ SelInv' /\ Policy!ChoiceIsFit'
<1> USE DEF RouteInv
<1>1. PICK old \in [step : Policy!Steps, list : SUBSET Policy!Workers, up : SUBSET Policy!Workers,
                    fit : SUBSET Policy!Workers, key : SessionKeys \cup {<<>>},
                    worker : Policy!Workers \cup {0}] : old = sel[s]
  BY DEF RouteTypes
<1>2. PICK new : new = [old EXCEPT !.step = x, !.worker = w]
  OBVIOUS
<1>3. /\ new.step = x /\ new.worker = w /\ new.list = old.list /\ new.up = old.up
      /\ new.fit = old.fit /\ new.key = old.key
  BY <1>2
<1>4. new \in [step : Policy!Steps, list : SUBSET Policy!Workers, up : SUBSET Policy!Workers,
               fit : SUBSET Policy!Workers, key : SessionKeys \cup {<<>>},
               worker : Policy!Workers \cup {0}]
  BY <1>2
<1>5. sel' = [sel EXCEPT ![s] = new]
  BY <1>1, <1>2 DEF RouteTypes
<1>6. sel'[s] = new /\ \A t \in Selectors : t # s => sel'[t] = sel[t]
  BY <1>5 DEF RouteTypes
<1>7. RouteTypes'
  BY <1>4, <1>5 DEF RouteTypes
<1>8. SelInv'
  <2>1. /\ new.list \in Lists /\ new.up \subseteq new.list /\ new.up # {}
        /\ new.up \subseteq new.fit /\ new.list \cap healthy \subseteq new.fit
        /\ new.step \in {"check", "ring", "current", "find"} => new.key \in SessionKeys
    BY <1>1, <1>3 DEF SelInv
  <2>2. ASSUME NEW t \in Selectors
        PROVE  /\ sel'[t].step # "idle" =>
                    /\ sel'[t].list \in Lists /\ sel'[t].up \subseteq sel'[t].list /\ sel'[t].up # {}
                    /\ sel'[t].up \subseteq sel'[t].fit /\ sel'[t].list \cap healthy' \subseteq sel'[t].fit
               /\ sel'[t].step \in {"check", "ring", "current", "find"} => sel'[t].key \in SessionKeys
    <3>1. CASE t = s
      BY <1>6, <2>1, <3>1
    <3>2. CASE t # s
      BY <1>6, <3>2 DEF SelInv
    <3>3. QED
      BY <3>1, <3>2
  <2>3. QED
    BY <2>2 DEF SelInv, SessionKeys
<1>9. Policy!ChoiceIsFit'
  BY <1>1, <1>3, <1>6 DEF Policy!ChoiceIsFit
<1>10. QED
  BY <1>7, <1>8, <1>9

\* The record of a selection that begins.
LEMMA Begun == ASSUME NEW list, NEW up
  PROVE [Policy!Idle EXCEPT !.list = list, !.up = up, !.fit = up] = [step |-> "idle", list |-> list, up |-> up, fit |-> up, key |-> <<>>, worker |-> 0]
<1>1. PICK none, zero, st, no : none = {} /\ zero = 0 /\ st = "idle" /\ no = <<>>
  OBVIOUS
<1>2. Policy!Idle = [step |-> st, list |-> none, up |-> none, fit |-> none, key |-> no, worker |-> zero]
  BY <1>1 DEF Policy!Idle
<1>3. PICK a : a = [step |-> st, list |-> list, up |-> none, fit |-> none, key |-> no, worker |-> zero]
  OBVIOUS
<1>4. PICK b : b = [step |-> st, list |-> list, up |-> up, fit |-> none, key |-> no, worker |-> zero]
  OBVIOUS
<1>5. [Policy!Idle EXCEPT !.list = list] = a
  BY <1>2, <1>3
<1>6. [a EXCEPT !.up = up] = b
  BY <1>3, <1>4
<1>7. [b EXCEPT !.fit = up] = [step |-> st, list |-> list, up |-> up, fit |-> up, key |-> no, worker |-> zero]
  BY <1>4
<1>8. QED
  BY <1>1, <1>5, <1>6, <1>7

\* A selection begins.
LEMMA BeginPreserves ==
  ASSUME RouteInv, NEW s \in Selectors, Policy!get_healthy_worker_indices(s) PROVE RouteInv'
<1> USE DEF RouteInv
<1>1. UNCHANGED <<healthy, counter, turn>>
  BY DEF Policy!get_healthy_worker_indices, Policy!policyVars, Policy!ghostVars
<1>2. PICK list \in Lists, r \in Requests :
        LET up == list \cap healthy
            begun == [Policy!Idle EXCEPT !.list = list, !.up = up, !.fit = up]
        IN /\ up # {}
           /\ sel' = [sel EXCEPT ![s] =
                IF policy = "consistent_hash"
                  THEN [begun EXCEPT !.step = "check", !.key = Policy!extract_hash_key(r)]
                  ELSE [begun EXCEPT !.step = "choose"]]
  BY DEF Policy!get_healthy_worker_indices
<1>3. PICK up \in SUBSET Policy!Workers : up = list \cap healthy /\ up # {} /\ list \in SUBSET Policy!Workers
  BY <1>2, ListsAssumption
<1>4. PICK key \in SessionKeys : key = Policy!extract_hash_key(r)
  BY DEF SessionKeys
<1>5. PICK begun : begun = [step |-> "idle", list |-> list, up |-> up, fit |-> up, key |-> <<>>, worker |-> 0]
  OBVIOUS
<1>6. [Policy!Idle EXCEPT !.list = list, !.up = up, !.fit = up] = begun
  BY <1>5, Begun
<1>7. PICK new : new = IF policy = "consistent_hash"
                   THEN [begun EXCEPT !.step = "check", !.key = key] ELSE [begun EXCEPT !.step = "choose"]
  OBVIOUS
<1>8. sel' = [sel EXCEPT ![s] = new]
  BY <1>2, <1>3, <1>4, <1>6, <1>7
<1>9. /\ new \in [step : Policy!Steps, list : SUBSET Policy!Workers, up : SUBSET Policy!Workers,
                  fit : SUBSET Policy!Workers, key : SessionKeys \cup {<<>>}, worker : Policy!Workers \cup {0}]
      /\ new.list = list /\ new.up = up /\ new.fit = up /\ new.step \in {"check", "choose"}
      /\ new.step = "check" => new.key \in SessionKeys
  <2>1. CASE policy = "consistent_hash"
    <3>1. new = [step |-> "check", list |-> list, up |-> up, fit |-> up, key |-> key, worker |-> 0]
      BY <1>5, <1>7, <2>1
    <3>2. QED
      BY <1>3, <3>1 DEF Policy!Steps
  <2>2. CASE policy # "consistent_hash"
    <3>1. new = [step |-> "choose", list |-> list, up |-> up, fit |-> up, key |-> <<>>, worker |-> 0]
      BY <1>5, <1>7, <2>2
    <3>2. QED
      BY <1>3, <3>1 DEF Policy!Steps
  <2>3. QED
    BY <2>1, <2>2
<1>10. sel'[s] = new /\ \A t \in Selectors : t # s => sel'[t] = sel[t]
  BY <1>8 DEF RouteTypes
<1>11. RouteTypes'
  BY <1>1, <1>8, <1>9 DEF RouteTypes
<1>12. SelInv'
  BY <1>1, <1>3, <1>9, <1>10 DEF SelInv
<1>13. Policy!ChoiceIsFit'
  BY <1>9, <1>10 DEF Policy!ChoiceIsFit
<1>14. QED
  BY <1>1, <1>11, <1>12, <1>13, TurnKept

\* A selection is over.
LEMMA DonePreserves ==
  ASSUME RouteInv, NEW s \in Selectors, Policy!Done(s) PROVE RouteInv'
<1> USE DEF RouteInv
<1>1. UNCHANGED <<healthy, counter, turn>> /\ sel' = [sel EXCEPT ![s] = Policy!Idle]
  BY DEF Policy!Done, Policy!policyVars, Policy!ghostVars
<1>2. /\ Policy!Idle \in [step : Policy!Steps, list : SUBSET Policy!Workers, up : SUBSET Policy!Workers,
                  fit : SUBSET Policy!Workers, key : SessionKeys \cup {<<>>}, worker : Policy!Workers \cup {0}]
      /\ Policy!Idle.step = "idle"
  BY DEF Policy!Idle, Policy!Steps
<1>3. sel'[s] = Policy!Idle /\ \A t \in Selectors : t # s => sel'[t] = sel[t]
  BY <1>1 DEF RouteTypes
<1>4. RouteTypes'
  BY <1>1, <1>2 DEF RouteTypes
<1>5. SelInv' /\ Policy!ChoiceIsFit'
  BY <1>1, <1>2, <1>3 DEF SelInv, Policy!ChoiceIsFit
<1>6. QED
  BY <1>1, <1>4, <1>5, TurnKept

\* Nth and First of the healthy workers a selection found.
LEMMA PickIsUp ==
  ASSUME NEW S \in SUBSET Policy!Workers, S # {}
  PROVE  /\ Policy!First(S) \in S
         /\ \A c \in Nat : Policy!Nth(S, c % Cardinality(S)) \in S /\ Rank(S, Policy!Nth(S, c % Cardinality(S))) = c % Cardinality(S)
<1>1. PICK n \in Nat : n = Cardinality(S) /\ n > 0
  BY RankType
<1>2. Policy!First(S) \in S
  BY <1>1, NthExists DEF Policy!First
<1>3. ASSUME NEW c \in Nat
      PROVE  Policy!Nth(S, c % Cardinality(S)) \in S /\ Rank(S, Policy!Nth(S, c % Cardinality(S))) = c % Cardinality(S)
  <2>1. PICK k \in Nat : k = c % n /\ k < n
    BY <1>1
  <2>2. QED
    BY <1>1, <2>1, NthExists
<1>4. QED
  BY <1>2, <1>3

\* A pick of round robin: it is even again, whatever came before.
LEMMA TurnTaken ==
  ASSUME RouteInv, NEW up \in SUBSET Policy!Workers, up # {}, NEW list \in Lists, up \subseteq list,
         counter' = (counter + 1) % Period,
         turn' = Policy!TakeTurn(up, Policy!Nth(up, counter % Cardinality(up)))
  PROVE  TurnInv' /\ counter' \in 0 .. Period - 1
<1>1. PICK c \in Nat : c = counter /\ c < Period
  BY ListsAssumption DEF RouteInv, RouteTypes
<1>2. PICK n \in Nat : n = Cardinality(up) /\ n > 0
  BY RankType
<1>3. PICK p \in 0 .. n - 1 : p = c % n
  BY <1>2, NextPosition
<1>4. PICK w \in up : w = Policy!Nth(up, p) /\ Rank(up, w) = p
  BY <1>2, <1>3, PickIsUp
<1>5. PICK pp \in 0 .. n - 1 : pp = counter' % n /\ pp = IF p + 1 = n THEN 0 ELSE p + 1
  <2>1. (c + 1) % n = IF p + 1 = n THEN 0 ELSE p + 1
    BY <1>2, <1>3, NextPosition
  <2>2. Period % n = 0 /\ Period \in Nat
    BY <1>2, ListsAssumption
  <2>3. counter' = IF c + 1 = Period THEN 0 ELSE c + 1
    <3>1. CASE c + 1 = Period
      <4>1. Period % Period = 0
        BY <2>2, <3>1
      <4>2. QED
        BY <1>1, <3>1, <4>1
    <3>2. CASE c + 1 # Period
      <4>1. c + 1 \in Nat /\ c + 1 < Period /\ Period \in Nat
        BY <1>1, <2>2, <3>2
      <4>2. (c + 1) % Period = c + 1
        BY <4>1
      <4>3. QED
        BY <1>1, <3>2, <4>2
    <3>3. QED
      BY <3>1, <3>2
  <2>4. 0 % n = 0
    BY <1>2
  <2>5. counter' % n = IF p + 1 = n THEN 0 ELSE p + 1
    <3>1. CASE c + 1 = Period
      BY <2>1, <2>2, <2>3, <2>4, <3>1
    <3>2. CASE c + 1 # Period
      BY <2>1, <2>3, <3>2
    <3>3. QED
      BY <3>1, <3>2
  <2>6. QED
    BY <1>3, <2>5
<1>6. PICK old \in [Policy!Workers -> {0, 1}] : old = IF turn.list = up THEN turn.picks ELSE [v \in Policy!Workers |-> 0]
  BY DEF RouteInv, TurnInv
<1>7. PICK k \in 0 .. n - 1 : \A v \in up : old[v] = IF Past(p, Rank(up, v), n) <= k THEN 1 ELSE 0
  <2>1. CASE turn.list = up
    BY <1>1, <1>2, <1>3, <1>6, <2>1 DEF RouteInv, TurnInv
  <2>2. CASE turn.list # up
    <3>1. \A v \in up : Rank(up, v) \in 0 .. n - 1
      BY <1>2, RankType
    <3>2. \A v \in up : ~(Past(p, Rank(up, v), n) <= 0)
      BY <3>1 DEF Past
    <3>3. 0 \in 0 .. n - 1 /\ \A v \in up : old[v] = 0
      BY <1>2, <1>6, <2>2
    <3>4. QED
      BY <3>2, <3>3
  <2>3. QED
    BY <2>1, <2>2
<1>8. PICK new : new = [old EXCEPT ![w] = @ + 1]
  OBVIOUS
<1>9. \A v \in up : Rank(up, v) \in 0 .. n - 1 /\ (v # w => Rank(up, v) # p)
  <2>1. \A v \in up : Rank(up, v) \in 0 .. n - 1
    BY <1>2, RankType
  <2>2. \A v \in up : v \in Nat
    BY WorkersFinite
  <2>3. ASSUME NEW v \in up, v # w PROVE Rank(up, v) # p
    <3>1. v < w \/ w < v
      BY <2>2, <2>3
    <3>2. Rank(up, v) \in Nat /\ Rank(up, w) \in Nat
      BY <2>1
    <3>3. QED
      BY <1>4, <3>1, <3>2, RankOrder
  <2>4. QED
    BY <2>1, <2>3
<1>10. old[w] = 0
  <2>1. ~(Past(p, p, n) <= k)
    BY DEF Past
  <2>2. QED
    BY <1>4, <1>7, <2>1
<1>11. new \in [Policy!Workers -> {0, 1}] /\ new[w] = 1 /\ \A v \in up : v # w => new[v] = old[v]
  BY <1>8, <1>10
<1>12. \A v \in up : new[v] = IF Past(pp, Rank(up, v), n) <= k + 1 THEN 1 ELSE 0
  <2> SUFFICES ASSUME NEW v \in up
               PROVE  new[v] = IF Past(pp, Rank(up, v), n) <= k + 1 THEN 1 ELSE 0
    OBVIOUS
  <2>1. PICK r \in 0 .. n - 1 : r = Rank(up, v)
    BY <1>9
  <2>2. CASE v = w
    <3>1. r = p
      BY <1>4, <2>1, <2>2
    <3>2. Past(pp, r, n) <= k + 1
      BY <1>5, <3>1 DEF Past
    <3>3. QED
      BY <1>11, <2>1, <2>2, <3>2
  <2>3. CASE v # w
    <3>1. r # p
      BY <1>9, <2>1, <2>3
    <3>2. Past(pp, r, n) = Past(p, r, n) + 1
      BY <1>5, <3>1 DEF Past
    <3>3. Past(p, r, n) \in Int
      BY DEF Past
    <3>4. Past(pp, r, n) <= k + 1 <=> Past(p, r, n) <= k
      BY <3>2, <3>3
    <3>5. QED
      BY <1>7, <1>11, <2>1, <2>3, <3>4
  <2>4. QED
    BY <2>2, <2>3
<1>13. turn' = [list |-> up, picks |-> IF \A v \in up : new[v] > 0
                  THEN [v \in Policy!Workers |-> IF v \in up THEN new[v] - 1 ELSE 0] ELSE new]
  BY <1>1, <1>2, <1>3, <1>4, <1>6, <1>8 DEF Policy!TakeTurn
<1>14. counter' \in 0 .. Period - 1
  <2>1. PICK e \in Nat : e = c + 1
    OBVIOUS
  <2>2. Period \in Nat /\ Period > 0
    BY ListsAssumption
  <2>3. e % Period \in 0 .. Period - 1
    BY <2>2, NextPosition
  <2>4. QED
    BY <1>1, <2>1, <2>3
<1>15. CASE \A v \in up : new[v] > 0
  <2>1. PICK picks \in [Policy!Workers -> {0, 1}] :
          picks = [v \in Policy!Workers |-> IF v \in up THEN new[v] - 1 ELSE 0] /\ \A v \in up : picks[v] = 0
    <3>1. \A v \in up : new[v] = 1
      BY <1>11, <1>15
    <3>2. \A v \in Policy!Workers : (IF v \in up THEN new[v] - 1 ELSE 0) = 0
      BY <3>1
    <3>3. PICK picks : picks = [v \in Policy!Workers |-> IF v \in up THEN new[v] - 1 ELSE 0]
      OBVIOUS
    <3>4. \A v \in Policy!Workers : picks[v] = 0
      BY <3>2, <3>3
    <3>5. picks \in [Policy!Workers -> {0, 1}]
      BY <3>2, <3>3
    <3>6. QED
      BY <3>3, <3>4, <3>5
  <2>2. turn' = [list |-> up, picks |-> picks]
    BY <1>13, <1>15, <2>1
  <2>3. \A v \in up : ~(Past(pp, Rank(up, v), n) <= 0)
    BY <1>9 DEF Past
  <2>4. 0 \in 0 .. n - 1
    BY <1>2
  <2>5. /\ turn'.list = up /\ turn'.picks = picks
        /\ turn' \in [list : SUBSET Policy!Workers, picks : [Policy!Workers -> {0, 1}]]
    BY <2>2
  <2>6. \A v \in up : turn'.picks[v] = IF Past(pp, Rank(up, v), n) <= 0 THEN 1 ELSE 0
    BY <2>1, <2>3, <2>5
  <2>7. TurnInv'
    <3>1. \E j \in 0 .. n - 1 : \A v \in up :
            turn'.picks[v] = IF Past(pp, Rank(up, v), n) <= j THEN 1 ELSE 0
      BY <2>4, <2>6
    <3>2. \E j \in 0 .. Cardinality(turn'.list) - 1 : \A v \in turn'.list :
            turn'.picks[v] = IF Past(counter' % Cardinality(turn'.list), Rank(turn'.list, v), Cardinality(turn'.list)) <= j
                             THEN 1 ELSE 0
      BY <1>2, <1>5, <2>5, <3>1
    <3>3. \E l \in Lists : turn'.list \subseteq l
      BY <2>5
    <3>4. QED
      BY <2>5, <3>2, <3>3 DEF TurnInv, Rank, Past
  <2>8. QED
    BY <1>14, <2>7
<1>16. CASE ~ \A v \in up : new[v] > 0
  <2>1. k + 1 \in 0 .. n - 1
    <3>1. SUFFICES ASSUME k + 1 = n PROVE FALSE
      BY <1>2
    <3>2. \A v \in up : Past(pp, Rank(up, v), n) <= n
      BY <1>9 DEF Past
    <3>3. \A v \in up : new[v] = 1
      BY <1>12, <3>1, <3>2
    <3>4. QED
      BY <1>16, <3>3
  <2>2. turn' = [list |-> up, picks |-> new]
    BY <1>13, <1>16
  <2>3. /\ turn'.list = up /\ turn'.picks = new
        /\ turn' \in [list : SUBSET Policy!Workers, picks : [Policy!Workers -> {0, 1}]]
    BY <1>11, <2>2
  <2>4. \A v \in up : turn'.picks[v] = IF Past(pp, Rank(up, v), n) <= k + 1 THEN 1 ELSE 0
    BY <1>12, <2>3
  <2>5. TurnInv'
    <3>1. \E j \in 0 .. n - 1 : \A v \in up :
            turn'.picks[v] = IF Past(pp, Rank(up, v), n) <= j THEN 1 ELSE 0
      BY <2>1, <2>4
    <3>2. \E j \in 0 .. Cardinality(turn'.list) - 1 : \A v \in turn'.list :
            turn'.picks[v] = IF Past(counter' % Cardinality(turn'.list), Rank(turn'.list, v), Cardinality(turn'.list)) <= j
                             THEN 1 ELSE 0
      BY <1>2, <1>5, <2>3, <3>1
    <3>3. \E l \in Lists : turn'.list \subseteq l
      BY <2>3
    <3>4. QED
      BY <2>3, <3>2, <3>3 DEF TurnInv, Rank, Past
  <2>6. QED
    BY <1>14, <2>5
<1>17. QED
  BY <1>15, <1>16

\* A worker is chosen by round robin, at random, or by the loads of two.
LEMMA ChoosePreserves ==
  ASSUME RouteInv, NEW s \in Selectors, Policy!RoundRobin(s) \/ Policy!RandomPick(s) \/ Policy!PowerOfTwo(s)
  PROVE  RouteInv'
<1> USE DEF RouteInv
<1>1. sel[s].step = "choose" /\ healthy' = healthy
  BY DEF Policy!RoundRobin, Policy!RandomPick, Policy!PowerOfTwo, Policy!Chosen
<1>2. PICK up \in SUBSET Policy!Workers, list \in Lists : up = sel[s].up /\ up # {} /\ up \subseteq sel[s].fit /\ up \subseteq list
  BY <1>1 DEF RouteTypes, SelInv
<1>3. PICK w \in up : /\ sel' = [sel EXCEPT ![s].step = "done", ![s].worker = w]
                      /\ Policy!RoundRobin(s) => w = Policy!Nth(up, counter % Cardinality(up))
  <2>1. CASE Policy!RoundRobin(s)
    <3>1. counter \in Nat
      BY ListsAssumption DEF RouteTypes
    <3>2. Policy!Nth(up, counter % Cardinality(up)) \in up
      BY <1>2, <3>1, PickIsUp
    <3>3. QED
      BY <1>2, <2>1, <3>2, SameSize DEF Policy!RoundRobin, Policy!Chosen
  <2>2. CASE ~Policy!RoundRobin(s)
    BY <1>2, <2>2 DEF Policy!RandomPick, Policy!PowerOfTwo, Policy!Chosen
  <2>3. QED
    BY <2>1, <2>2
<1>4. TurnInv' /\ counter' \in 0 .. Period - 1
  <2>1. CASE Policy!RoundRobin(s)
    <3>1. counter' = (counter + 1) % Period /\ turn' = Policy!TakeTurn(up, Policy!Nth(up, counter % Cardinality(up)))
      BY <1>2, <2>1, SameSize DEF Policy!RoundRobin
    <3>2. QED
      BY <1>2, <3>1, TurnTaken
  <2>2. CASE ~Policy!RoundRobin(s)
    <3>1. UNCHANGED <<counter, turn>>
      BY <2>2 DEF Policy!RandomPick, Policy!PowerOfTwo, Policy!ghostVars
    <3>2. QED
      BY <3>1, TurnKept DEF RouteTypes
  <2>3. QED
    BY <2>1, <2>2
<1>5. "done" \in Policy!Steps \ {"idle"} /\ w \in Policy!Workers \cup {0} /\ w \in sel[s].fit /\ sel[s].step # "idle"
      /\ sel' = [sel EXCEPT ![s].step = "done", ![s].worker = w]
  BY <1>1, <1>2, <1>3 DEF Policy!Steps
<1>6. RouteTypes' /\ SelInv' /\ Policy!ChoiceIsFit'
  BY <1>1, <1>4, <1>5, SelMoves
<1>7. QED
  BY <1>4, <1>6

\* The steps of update_hash_ring and the search on the ring.
LEMMA HashPreserves ==
  ASSUME RouteInv, NEW s \in Selectors,
         Policy!CheckRing(s) \/ Policy!WriteRing(s) \/ Policy!WriteCurrent(s) \/ Policy!FindWorker(s)
  PROVE  RouteInv'
<1> USE DEF RouteInv
<1>1. sel[s].step \in {"check", "ring", "current", "find"} /\ UNCHANGED <<healthy, counter, turn>>
  BY
  DEF Policy!CheckRing, Policy!WriteRing, Policy!WriteCurrent, Policy!FindWorker,
      Policy!Chosen, Policy!policyVars, Policy!ghostVars
<1>2. TurnInv' /\ counter' \in 0 .. Period - 1
  BY <1>1, TurnKept DEF RouteTypes
<1>3. CASE Policy!CheckRing(s) \/ Policy!WriteRing(s) \/ Policy!WriteCurrent(s)
  <2>1. PICK x \in {"ring", "current", "find"} : sel' = [sel EXCEPT ![s].step = x]
    BY <1>3 DEF Policy!CheckRing, Policy!WriteRing, Policy!WriteCurrent
  <2>2. PICK w \in Policy!Workers \cup {0} : w = sel[s].worker
    BY DEF RouteTypes
  <2>3. sel' = [sel EXCEPT ![s].step = x, ![s].worker = w]
    BY <2>1, <2>2 DEF RouteTypes
  <2>4. x \in Policy!Steps \ {"idle"} /\ x # "done" /\ sel[s].step # "idle"
    BY <1>1 DEF Policy!Steps
  <2>5. RouteTypes' /\ SelInv' /\ Policy!ChoiceIsFit'
    BY <1>1, <1>2, <2>3, <2>4, SelMoves
  <2>6. QED
    BY <1>2, <2>5
<1>4. CASE Policy!FindWorker(s)
  <2>1. PICK up \in SUBSET Policy!Workers : up = sel[s].up /\ up # {} /\ up \subseteq sel[s].fit
    BY <1>1 DEF RouteTypes, SelInv
  <2>2. Policy!First(up) \in up
    BY <2>1, PickIsUp
  <2>3. PICK w : /\ sel' = [sel EXCEPT ![s].step = "done", ![s].worker = w]
                 /\ w = Policy!First(up) \/ w \in sel[s].list \cap healthy
    BY <1>4, <2>1 DEF Policy!FindWorker, Policy!Chosen
  <2>4. w \in sel[s].fit /\ w \in Policy!Workers
    BY <1>1, <2>1, <2>2, <2>3 DEF SelInv, RouteTypes
  <2>5. "done" \in Policy!Steps \ {"idle"} /\ w \in Policy!Workers \cup {0} /\ sel[s].step # "idle"
    BY <1>1, <2>4 DEF Policy!Steps
  <2>6. RouteTypes' /\ SelInv' /\ Policy!ChoiceIsFit'
    BY <1>1, <1>2, <2>3, <2>4, <2>5, SelMoves
  <2>7. QED
    BY <1>2, <2>6
<1>5. QED
  BY <1>3, <1>4

\* A worker fails.
LEMMA FailPreserves == ASSUME RouteInv, NEW w \in Policy!Workers, Policy!Fail(w) PROVE RouteInv'
<1> USE DEF RouteInv
<1>1. healthy' = healthy \ {w} /\ UNCHANGED <<sel, counter, turn>>
  BY DEF Policy!Fail, Policy!policyVars, Policy!ghostVars
<1>2. RouteTypes' /\ SelInv' /\ Policy!ChoiceIsFit'
  BY <1>1 DEF RouteTypes, SelInv, Policy!ChoiceIsFit
<1>3. QED
  BY <1>1, <1>2, TurnKept

\* A worker recovers, and is fit for every selection under way.
LEMMA RecoverPreserves == ASSUME RouteInv, NEW w \in Policy!Workers, Policy!Recover(w) PROVE RouteInv'
<1> USE DEF RouteInv
<1>1. /\ healthy' = healthy \cup {w} /\ UNCHANGED <<counter, turn>>
      /\ sel' = [s \in Selectors |-> IF sel[s].step = "idle" THEN sel[s]
                                     ELSE [sel[s] EXCEPT !.fit = @ \cup ({w} \cap sel[s].list)]]
  BY DEF Policy!Recover, Policy!policyVars, Policy!ghostVars
<1>2. ASSUME NEW s \in Selectors
      PROVE  /\ sel'[s] \in [step : Policy!Steps, list : SUBSET Policy!Workers, up : SUBSET Policy!Workers,
                    fit : SUBSET Policy!Workers, key : SessionKeys \cup {<<>>}, worker : Policy!Workers \cup {0}]
             /\ sel'[s].step = sel[s].step /\ sel'[s].list = sel[s].list /\ sel'[s].up = sel[s].up
             /\ sel'[s].key = sel[s].key /\ sel'[s].worker = sel[s].worker
             /\ sel[s].step # "idle" => sel'[s].fit = sel[s].fit \cup ({w} \cap sel[s].list)
  <2>1. CASE sel[s].step = "idle"
    <3>1. sel'[s] = sel[s]
      BY <1>1, <2>1
    <3>2. QED
      BY <2>1, <3>1 DEF RouteTypes
  <2>2. CASE sel[s].step # "idle"
    <3>1. PICK old \in [step : Policy!Steps, list : SUBSET Policy!Workers, up : SUBSET Policy!Workers,
                    fit : SUBSET Policy!Workers, key : SessionKeys \cup {<<>>}, worker : Policy!Workers \cup {0}] : old = sel[s]
      BY DEF RouteTypes
    <3>2. PICK F \in SUBSET Policy!Workers : F = old.fit \cup ({w} \cap old.list)
      OBVIOUS
    <3>3. sel'[s] = [old EXCEPT !.fit = F]
      BY <1>1, <2>2, <3>1, <3>2
    <3>4. QED
      BY <3>1, <3>2, <3>3
  <2>3. QED
    BY <2>1, <2>2
<1>3. RouteTypes'
  <2>1. sel' \in [Selectors -> [step : Policy!Steps, list : SUBSET Policy!Workers, up : SUBSET Policy!Workers,
                    fit : SUBSET Policy!Workers, key : SessionKeys \cup {<<>>}, worker : Policy!Workers \cup {0}]]
    <3>1. PICK f : f = sel' /\ f = [s \in Selectors |-> f[s]]
      BY <1>1
    <3>2. \A s \in Selectors : f[s] \in [step : Policy!Steps, list : SUBSET Policy!Workers, up : SUBSET Policy!Workers,
                    fit : SUBSET Policy!Workers, key : SessionKeys \cup {<<>>}, worker : Policy!Workers \cup {0}]
      BY <1>2, <3>1
    <3>3. QED
      BY <3>1, <3>2
  <2>2. QED
    BY <1>1, <2>1 DEF RouteTypes
<1>4. SelInv'
  BY <1>1, <1>2 DEF SelInv
<1>5. Policy!ChoiceIsFit'
  BY <1>2 DEF Policy!ChoiceIsFit
<1>6. QED
  BY <1>1, <1>3, <1>4, <1>5, TurnKept

\* A policy that has not selected yet.
LEMMA RouteInit == Policy!Init => RouteInv
<1> SUFFICES ASSUME Policy!Init PROVE RouteInv
  OBVIOUS
<1>1. /\ Policy!Idle \in [step : Policy!Steps, list : SUBSET Policy!Workers, up : SUBSET Policy!Workers,
                  fit : SUBSET Policy!Workers, key : SessionKeys \cup {<<>>}, worker : Policy!Workers \cup {0}]
      /\ Policy!Idle.step = "idle"
  BY DEF Policy!Idle, Policy!Steps
<1>2. RouteTypes
  BY <1>1, ListsAssumption DEF Policy!Init, RouteTypes
<1>3. SelInv /\ Policy!ChoiceIsFit
  BY <1>1 DEF Policy!Init, SelInv, Policy!ChoiceIsFit
<1>4. TurnInv
  BY DEF Policy!Init, TurnInv
<1>5. QED
  BY <1>2, <1>3, <1>4 DEF RouteInv

\* Every step of the selectors and of the workers.
LEMMA RouteStep == ASSUME RouteInv, Policy!Next \/ UNCHANGED Policy!vars PROVE RouteInv'
<1>1. CASE \E s \in Selectors : Policy!get_healthy_worker_indices(s) \/ Policy!SelectorStep(s)
  BY <1>1, BeginPreserves, ChoosePreserves, HashPreserves, DonePreserves DEF Policy!SelectorStep
<1>2. CASE \E w \in Policy!Workers : Policy!Fail(w) \/ Policy!Recover(w)
  BY <1>2, FailPreserves, RecoverPreserves
<1>3. CASE Policy!update_loads \/ Policy!reset_ring \/ UNCHANGED Policy!vars
  <2>1. UNCHANGED <<healthy, counter, sel, turn>>
    BY <1>3
    DEF Policy!update_loads, Policy!reset_ring, Policy!vars, Policy!policyVars, Policy!ghostVars
  <2>2. RouteTypes' /\ SelInv' /\ Policy!ChoiceIsFit'
    BY <2>1 DEF RouteInv, RouteTypes, SelInv, Policy!ChoiceIsFit
  <2>3. QED
    BY <2>1, <2>2, TurnKept DEF RouteInv
<1>4. CASE Policy!reset_counter
  <2>1. /\ counter' = 0 /\ turn' = [list |-> {}, picks |-> [w \in Policy!Workers |-> 0]]
        /\ UNCHANGED <<healthy, sel>>
    BY <1>4 DEF Policy!reset_counter
  <2>2. RouteTypes' /\ SelInv' /\ Policy!ChoiceIsFit'
    BY <2>1, ListsAssumption DEF RouteInv, RouteTypes, SelInv, Policy!ChoiceIsFit
  <2>3. TurnInv'
    BY <2>1 DEF TurnInv
  <2>4. QED
    BY <2>2, <2>3 DEF RouteInv
<1>5. QED
  BY <1>1, <1>2, <1>3, <1>4 DEF Policy!Next

\* What the invariant says of the picks and of the workers chosen.
LEMMA RouteImplies == RouteInv => Policy!RoundRobinEven /\ Policy!ChoiceIsFit
<1> SUFFICES ASSUME RouteInv PROVE Policy!RoundRobinEven
  BY DEF RouteInv
<1>1. turn.picks \in [Policy!Workers -> {0, 1}] /\ turn.list \subseteq Policy!Workers
  BY DEF RouteInv, TurnInv
<1>2. \A v \in turn.list : turn.picks[v] \in {0, 1}
  BY <1>1
<1>3. QED
  BY <1>2 DEF Policy!RoundRobinEven

\* A selection moves on and leaves the ring alone.
LEMMA RingKept ==
  ASSUME RouteInv, RingInv, UNCHANGED <<ring, current>>,
         \A p \in went' : p[3] = Policy!Owner(p[2], p[1]),
         NEW s \in Selectors,
         \A t \in Selectors : t # s => sel'[t].step = sel[t].step /\ sel'[t].list = sel[t].list,
         sel'[s].step \in {"current", "find"} => ring = sel'[s].list
  PROVE  RingInv'
  BY DEF RingInv

\* The selection of s has come to step x, the others have not moved.
Stepped(s, x) ==
  /\ sel'[s].step = x /\ sel'[s].list = sel[s].list
  /\ \A t \in Selectors : t # s => sel'[t] = sel[t]

\* What a step of one selector makes of its selection and of the others.
LEMMA StepOf ==
  ASSUME RouteInv, NEW s \in Selectors, NEW x, sel' = [sel EXCEPT ![s].step = x] PROVE Stepped(s, x)
<1>1. PICK old \in [step : Policy!Steps, list : SUBSET Policy!Workers, up : SUBSET Policy!Workers,
                    fit : SUBSET Policy!Workers, key : SessionKeys \cup {<<>>},
                    worker : Policy!Workers \cup {0}] : old = sel[s]
  BY DEF RouteInv, RouteTypes
<1>2. PICK new : new = [old EXCEPT !.step = x]
  OBVIOUS
<1>3. new.step = x /\ new.list = old.list
  BY <1>2
<1>4. sel' = [sel EXCEPT ![s] = new]
  BY <1>1, <1>2 DEF RouteInv, RouteTypes
<1>5. sel'[s] = new /\ \A t \in Selectors : t # s => sel'[t] = sel[t]
  BY <1>4 DEF RouteInv, RouteTypes
<1>6. QED
  BY <1>1, <1>3, <1>5 DEF Stepped

\* The same when the selection ends with a worker.
LEMMA ChosenOf ==
  ASSUME RouteInv, NEW s \in Selectors, NEW w, Policy!Chosen(s, w)
  PROVE  /\ sel'[s].step = "done"
         /\ \A t \in Selectors : t # s => sel'[t] = sel[t]
<1>1. PICK old \in [step : Policy!Steps, list : SUBSET Policy!Workers, up : SUBSET Policy!Workers,
                    fit : SUBSET Policy!Workers, key : SessionKeys \cup {<<>>},
                    worker : Policy!Workers \cup {0}] : old = sel[s]
  BY DEF RouteInv, RouteTypes
<1>2. PICK new : new = [old EXCEPT !.step = "done", !.worker = w]
  OBVIOUS
<1>3. new.step = "done"
  BY <1>2
<1>4. sel' = [sel EXCEPT ![s] = new]
  BY <1>1, <1>2 DEF RouteInv, RouteTypes, Policy!Chosen
<1>5. sel'[s] = new /\ \A t \in Selectors : t # s => sel'[t] = sel[t]
  BY <1>4 DEF RouteInv, RouteTypes
<1>6. QED
  BY <1>3, <1>5

\* A selection on the ring of a healthy list goes to the owner of its key.
LEMMA FindsOwner ==
  ASSUME RouteInv, RingInv, NEW s \in Selectors, Policy!FindWorker(s)
  PROVE  RingInv'
<1>1. sel[s].step = "find" /\ UNCHANGED <<ring, current>>
  BY DEF Policy!FindWorker
<1>2. PICK list \in Lists, key \in SessionKeys : list = sel[s].list /\ key = sel[s].key /\ ring = list
  BY <1>1 DEF RouteInv, SelInv, RingInv
<1>3. list \in SUBSET Policy!Workers /\ list # {}
  BY ListsAssumption
<1>4. PICK r \in Requests : key = Policy!extract_hash_key(r)
  BY DEF SessionKeys
<1>5. PICK o \in list : o = Policy!Owner(key, list)
  BY <1>3, <1>4, OwnerOnRing
<1>6. PICK w : /\ Policy!Chosen(s, w)
               /\ list \subseteq healthy => w = o
               /\ went' = IF list \subseteq healthy THEN went \cup {<<list, key, w>>} ELSE went
  <2>1. PICK w : /\ w = IF ring = {} THEN Policy!First(sel[s].up)
                        ELSE IF Policy!Owner(key, ring) \in list \cap healthy THEN Policy!Owner(key, ring)
                        ELSE Policy!First(sel[s].up)
                 /\ Policy!Chosen(s, w)
                 /\ went' = IF list \subseteq healthy THEN went \cup {<<list, key, w>>} ELSE went
    BY <1>2 DEF Policy!FindWorker
  <2>2. list \subseteq healthy => w = o
    BY <1>2, <1>3, <1>5, <2>1
  <2>3. QED
    BY <2>1, <2>2
<1>7. \A p \in went' : p[3] = Policy!Owner(p[2], p[1])
  <2>1. <<list, key, w>>[1] = list /\ <<list, key, w>>[2] = key /\ <<list, key, w>>[3] = w
    OBVIOUS
  <2>2. PICK q : q = <<list, key, w>> /\ q[1] = list /\ q[2] = key /\ q[3] = w
    BY <2>1
  <2>3. CASE list \subseteq healthy
    <3>1. w = Policy!Owner(key, list) /\ went' = went \cup {q}
      BY <1>5, <1>6, <2>2, <2>3
    <3>2. q[3] = Policy!Owner(q[2], q[1])
      BY <2>2, <3>1
    <3>3. QED
      BY <3>1, <3>2 DEF RingInv
  <2>4. CASE ~(list \subseteq healthy)
    BY <1>6, <2>4 DEF RingInv
  <2>5. QED
    BY <2>3, <2>4
<1>8. sel'[s].step = "done" /\ \A t \in Selectors : t # s => sel'[t] = sel[t]
  BY <1>6, ChosenOf
<1>9. QED
  BY <1>1, <1>7, <1>8, RingKept

\* The steps of update_hash_ring, when every selector passes the same list.
LEMMA UpdatesRing ==
  ASSUME RouteInv, RingInv, \A l, m \in Lists : l = m, NEW s \in Selectors,
         Policy!CheckRing(s) \/ Policy!WriteRing(s) \/ Policy!WriteCurrent(s)
  PROVE  RingInv'
<1>1. sel[s].step \in {"check", "ring", "current"} /\ went' = went
  BY DEF Policy!CheckRing, Policy!WriteRing, Policy!WriteCurrent, Policy!ghostVars
<1>2. PICK list \in Lists : list = sel[s].list /\ list # {}
  BY <1>1, ListsAssumption DEF RouteInv, SelInv
<1>3. \A p \in went' : p[3] = Policy!Owner(p[2], p[1])
  BY <1>1 DEF RingInv
<1>4. \A t \in Selectors : sel[t].step \in {"current", "find"} => sel[t].list = list
  BY <1>2 DEF RouteInv, SelInv
<1>5. current = {} \/ current = list
  BY <1>2 DEF RingInv
<1>6. CASE Policy!CheckRing(s)
  <2>1. PICK x : x = (IF current = list THEN "find" ELSE "ring") /\ sel' = [sel EXCEPT ![s].step = x]
                 /\ UNCHANGED <<ring, current>>
    BY <1>2, <1>6 DEF Policy!CheckRing, Policy!policyVars
  <2>2. x = "find" => ring = list
    BY <1>2, <2>1 DEF RingInv
  <2>3. sel'[s].step = x /\ sel'[s].list = list /\ \A t \in Selectors : t # s => sel'[t] = sel[t]
    <3>1. Stepped(s, x)
      BY <2>1, StepOf
    <3>2. QED
      BY <1>2, <3>1 DEF Stepped
  <2>4. sel'[s].step \in {"current", "find"} => ring = sel'[s].list
    BY <2>1, <2>2, <2>3
  <2>5. QED
    BY <1>3, <2>1, <2>3, <2>4, RingKept
<1>7. CASE Policy!WriteRing(s)
  <2>1. ring' = list /\ current' = current /\ sel' = [sel EXCEPT ![s].step = "current"]
    BY <1>2, <1>7 DEF Policy!WriteRing
  <2>2. sel'[s].list = list /\ \A t \in Selectors : t # s => sel'[t] = sel[t]
    <3>1. Stepped(s, "current")
      BY <2>1, StepOf
    <3>2. QED
      BY <1>2, <3>1 DEF Stepped
  <2>3. \A t \in Selectors : sel'[t].step \in {"current", "find"} => sel'[t].list = list
    BY <1>4, <2>2
  <2>4. QED
    BY <1>2, <1>3, <1>5, <2>1, <2>3 DEF RingInv
<1>8. CASE Policy!WriteCurrent(s)
  <2>1. current' = list /\ ring' = ring /\ sel' = [sel EXCEPT ![s].step = "find"]
    BY <1>2, <1>8 DEF Policy!WriteCurrent
  <2>2. ring = list
    BY <1>2, <1>8 DEF Policy!WriteCurrent, RingInv
  <2>3. sel'[s].list = list /\ \A t \in Selectors : t # s => sel'[t] = sel[t]
    <3>1. Stepped(s, "find")
      BY <2>1, StepOf
    <3>2. QED
      BY <1>2, <3>1 DEF Stepped
  <2>4. \A t \in Selectors : sel'[t].step \in {"current", "find"} => sel'[t].list = list
    BY <1>4, <2>3
  <2>5. QED
    BY <1>2, <1>3, <2>1, <2>2, <2>4 DEF RingInv
<1>9. QED
  BY <1>6, <1>7, <1>8

\* Nothing is on the ring, and nothing went anywhere.
LEMMA RingInit == Policy!Init => RingInv
<1> SUFFICES ASSUME Policy!Init PROVE RingInv
  OBVIOUS
<1>1. Policy!Idle.step = "idle"
  BY DEF Policy!Idle
<1>2. \A s \in Selectors : sel[s].step = "idle"
  BY <1>1 DEF Policy!Init
<1>3. QED
  BY <1>2 DEF Policy!Init, RingInv

\* Every step, when every selector passes the same list.
LEMMA RingStep ==
  ASSUME RouteInv, RingInv, \A l, m \in Lists : l = m, Policy!Next \/ UNCHANGED Policy!vars
  PROVE  RingInv'
<1>1. CASE \E s \in Selectors : Policy!get_healthy_worker_indices(s)
  <2>1. PICK s \in Selectors : Policy!get_healthy_worker_indices(s)
    BY <1>1
  <2>2. UNCHANGED <<ring, current, went>>
    BY <2>1 DEF Policy!get_healthy_worker_indices, Policy!policyVars, Policy!ghostVars
  <2>3. sel'[s].step \in {"check", "choose"} /\ \A t \in Selectors : t # s => sel'[t] = sel[t]
    <3>1. PICK list \in Lists, r \in Requests :
        LET up == list \cap healthy
            begun == [Policy!Idle EXCEPT !.list = list, !.up = up, !.fit = up]
        IN /\ up # {}
           /\ sel' = [sel EXCEPT ![s] =
                IF policy = "consistent_hash"
                  THEN [begun EXCEPT !.step = "check", !.key = Policy!extract_hash_key(r)]
                  ELSE [begun EXCEPT !.step = "choose"]]
      BY <2>1 DEF Policy!get_healthy_worker_indices
    <3>2. PICK up : up = list \cap healthy
      OBVIOUS
    <3>3. PICK begun : begun = [step |-> "idle", list |-> list, up |-> up, fit |-> up, key |-> <<>>, worker |-> 0]
      OBVIOUS
    <3>4. [Policy!Idle EXCEPT !.list = list, !.up = up, !.fit = up] = begun
      BY <3>3, Begun
    <3>5. PICK key : key = Policy!extract_hash_key(r)
      OBVIOUS
    <3>6. PICK new : new = IF policy = "consistent_hash"
                   THEN [begun EXCEPT !.step = "check", !.key = key] ELSE [begun EXCEPT !.step = "choose"]
      OBVIOUS
    <3>7. new.step \in {"check", "choose"}
      BY <3>3, <3>6
    <3>8. sel' = [sel EXCEPT ![s] = new]
      BY <3>1, <3>2, <3>4, <3>5, <3>6
    <3>9. QED
      BY <3>7, <3>8 DEF RouteInv, RouteTypes
  <2>4. \A p \in went' : p[3] = Policy!Owner(p[2], p[1])
    BY <2>2 DEF RingInv
  <2>5. QED
    BY <2>2, <2>3, <2>4, RingKept
<1>2. CASE \E s \in Selectors : Policy!RoundRobin(s) \/ Policy!RandomPick(s) \/ Policy!PowerOfTwo(s)
  <2>1. PICK s \in Selectors : Policy!RoundRobin(s) \/ Policy!RandomPick(s) \/ Policy!PowerOfTwo(s)
    BY <1>2
  <2>2. PICK w : Policy!Chosen(s, w)
    BY <2>1 DEF Policy!RoundRobin, Policy!RandomPick, Policy!PowerOfTwo
  <2>3. UNCHANGED <<ring, current, went>>
    BY <2>1 DEF Policy!RoundRobin, Policy!RandomPick, Policy!PowerOfTwo, Policy!ghostVars
  <2>4. sel'[s].step = "done" /\ \A t \in Selectors : t # s => sel'[t] = sel[t]
    BY <2>2, ChosenOf
  <2>5. \A p \in went' : p[3] = Policy!Owner(p[2], p[1])
    BY <2>3 DEF RingInv
  <2>6. QED
    BY <2>3, <2>4, <2>5, RingKept
<1>3. CASE \E s \in Selectors : Policy!Done(s)
  <2>1. PICK s \in Selectors : Policy!Done(s)
    BY <1>3
  <2>2. UNCHANGED <<ring, current, went>> /\ sel' = [sel EXCEPT ![s] = Policy!Idle]
    BY <2>1 DEF Policy!Done, Policy!policyVars, Policy!ghostVars
  <2>3. sel'[s].step = "idle" /\ \A t \in Selectors : t # s => sel'[t] = sel[t]
    BY <2>2 DEF RouteInv, RouteTypes, Policy!Idle
  <2>4. \A p \in went' : p[3] = Policy!Owner(p[2], p[1])
    BY <2>2 DEF RingInv
  <2>5. QED
    BY <2>2, <2>3, <2>4, RingKept
<1>4. CASE \E w \in Policy!Workers : Policy!Recover(w)
  <2>1. PICK w \in Policy!Workers : Policy!Recover(w)
    BY <1>4
  <2>2. /\ UNCHANGED <<ring, current, went>>
        /\ sel' = [s \in Selectors |-> IF sel[s].step = "idle" THEN sel[s]
                                 ELSE [sel[s] EXCEPT !.fit = @ \cup ({w} \cap sel[s].list)]]
    BY <2>1 DEF Policy!Recover, Policy!policyVars, Policy!ghostVars
  <2>3. ASSUME NEW s \in Selectors PROVE sel'[s].step = sel[s].step /\ sel'[s].list = sel[s].list
    <3>1. PICK old \in [step : Policy!Steps, list : SUBSET Policy!Workers, up : SUBSET Policy!Workers,
                    fit : SUBSET Policy!Workers, key : SessionKeys \cup {<<>>},
                    worker : Policy!Workers \cup {0}] : old = sel[s]
      BY DEF RouteInv, RouteTypes
    <3>2. sel'[s] = old \/ \E F : sel'[s] = [old EXCEPT !.fit = F]
      BY <2>2, <3>1
    <3>3. QED
      BY <3>1, <3>2
  <2>4. QED
    BY <2>2, <2>3 DEF RingInv
<1>5. CASE Policy!reset_ring
  BY <1>5 DEF Policy!reset_ring, RingInv
<1>6. CASE (\E w \in Policy!Workers : Policy!Fail(w)) \/ Policy!update_loads \/ Policy!reset_counter \/ UNCHANGED Policy!vars
  <2>1. UNCHANGED <<ring, current, went, sel>>
    BY <1>6
    DEF Policy!Fail, Policy!update_loads, Policy!reset_counter, Policy!vars, Policy!policyVars,
        Policy!ghostVars
  <2>2. QED
    BY <2>1 DEF RingInv
<1>7. QED
  BY <1>1, <1>2, <1>3, <1>4, <1>5, <1>6, FindsOwner, UpdatesRing
  DEF Policy!Next, Policy!SelectorStep

\* Requests of one key go to its owner on the ring, so to the same worker.
LEMMA RingImplies == RingInv => Policy!Affinity
  BY DEF RingInv, Policy!Affinity

-----------------------------------------------------------------------------
(* Python actors                                                           *)

\* The tasks of the executor.
Task == {"start", "stop", "receive", "generate"} \X (Actors \cup Calls)

\* The types of the state but for the streams.
PythonTypes ==
  /\ actor \in [Actors -> {"unborn", "spawning", "idle", "busy", "ended"}]
  /\ mailbox \in [Actors -> Seq(Calls)]
  /\ queue \in Seq(Task) /\ thread \in [Threads -> Task \cup {Python!Idle}]
  /\ coro \in [Calls -> {Python!None, "ready", "asking", "done", "raised"}]
  /\ call \in [Calls -> [to : Actors \cup {0}, by : Calls \cup {Python!Here, Python!Elsewhere},
                         state : {"new", "asked", "submitted", "answered", "failed"}]]
  /\ trace \in [Actors -> Calls \cup {Python!Nobody}]

\* What waits in a mailbox has been asked of its actor, and waits there once.
MailInv ==
  \A a \in Actors :
    /\ \A i \in 1 .. Len(mailbox[a]) :
         call[mailbox[a][i]].state = "asked" /\ call[mailbox[a][i]].to = a
    /\ \A i, j \in 1 .. Len(mailbox[a]) : mailbox[a][i] = mailbox[a][j] => i = j

\* An actor serves one call, and only a call that is served has a coroutine.
ServeInv ==
  /\ \A c \in Calls :
       /\ call[c].state = "submitted" => call[c].to \in Actors /\ actor[call[c].to] = "busy"
       /\ coro[c] # Python!None => call[c].state = "submitted"
  /\ \A c, d \in Calls :
       call[c].state = "submitted" /\ call[d].state = "submitted" /\ call[c].to = call[d].to => c = d

\* A task that serves a call or starts an actor does so for one that waits for it.
Valid(x) ==
  /\ x[1] = "receive" => x[2] \in Calls /\ call[x[2]].state = "submitted"
  /\ x[1] = "start" => x[2] \in Actors /\ actor[x[2]] = "spawning"

Same(x, y) == x[1] \in {"receive", "start"} /\ x[1] = y[1] /\ x[2] = y[2]

\* Such a task is in one place: once in the queue, or with one thread.
TaskInv ==
  /\ \A i \in 1 .. Len(queue) : Valid(queue[i])
  /\ \A t \in Threads : thread[t] # Python!Idle => Valid(thread[t])
  /\ \A i, j \in 1 .. Len(queue) : Same(queue[i], queue[j]) => i = j
  /\ \A i \in 1 .. Len(queue), t \in Threads : thread[t] # Python!Idle => ~Same(queue[i], thread[t])
  /\ \A t, u \in Threads :
       thread[t] # Python!Idle /\ thread[u] # Python!Idle /\ Same(thread[t], thread[u]) => t = u

PythonInv == PythonTypes /\ MailInv /\ ServeInv /\ TaskInv /\ Python!TraceIsMine


\* The rest of a queue.
LEMMA RestOf ==
  ASSUME NEW T, NEW s \in Seq(T), s # <<>>
  PROVE  /\ Head(s) \in T /\ Head(s) = s[1] /\ Tail(s) \in Seq(T) /\ Len(s) \in Nat /\ 1 \in 1 .. Len(s)
         /\ Len(Tail(s)) = Len(s) - 1
         /\ \A i \in 1 .. Len(Tail(s)) : Tail(s)[i] = s[i + 1] /\ i + 1 \in 1 .. Len(s)
<1>1. Len(s) \in Nat /\ Len(s) # 0
  BY LenProperties, EmptySeq
<1>2. Head(s) \in T /\ Head(s) = s[1] /\ Tail(s) \in Seq(T) /\ Len(Tail(s)) = Len(s) - 1
  BY HeadTailProperties
<1>3. \A i \in 1 .. Len(Tail(s)) : Tail(s)[i] = s[i + 1]
  BY HeadTailProperties
<1>4. QED
  BY <1>1, <1>2, <1>3

\* Tasks stay where they are, or a thread is done with its own.
LEMMA TasksLess ==
  ASSUME PythonTypes, TaskInv, NEW t, queue' = queue,
         thread' = thread \/ (t \in Threads /\ thread' = [thread EXCEPT ![t] = Python!Idle]),
         \A x \in Task : Valid(x) /\ (thread' = thread \/ ~Same(x, thread[t])) => Valid(x)'
  PROVE  TaskInv'
<1>1. \A u \in Threads : thread'[u] # Python!Idle => thread'[u] = thread[u] /\ thread[u] \in Task /\ (thread' = thread \/ u # t)
  BY DEF PythonTypes
<1>2. \A i \in 1 .. Len(queue) : queue[i] \in Task
  BY DEF PythonTypes
<1>3. \A i \in 1 .. Len(queue) : Valid(queue[i])'
  <2> SUFFICES ASSUME NEW i \in 1 .. Len(queue) PROVE Valid(queue[i])'
    OBVIOUS
  <2>1. PICK x \in Task : x = queue[i]
    BY <1>2
  <2>2. Valid(x) /\ (t \in Threads /\ thread[t] # Python!Idle => ~Same(x, thread[t]))
    BY <2>1 DEF TaskInv
  <2>3. t \notin Threads \/ thread[t] = Python!Idle => thread' = thread
    BY DEF PythonTypes
  <2>4. Valid(x)'
    BY <2>2, <2>3
  <2>5. QED
    BY <2>1, <2>4
<1>4. \A u \in Threads : thread'[u] # Python!Idle => Valid(thread[u])'
  <2> SUFFICES ASSUME NEW u \in Threads, thread'[u] # Python!Idle PROVE Valid(thread[u])'
    OBVIOUS
  <2>1. PICK x \in Task : x = thread[u]
    BY <1>1
  <2>2. Valid(x) /\ (thread' # thread /\ t \in Threads /\ thread[t] # Python!Idle => ~Same(x, thread[t]))
    BY <1>1, <2>1 DEF TaskInv
  <2>3. t \notin Threads \/ thread[t] = Python!Idle => thread' = thread
    BY DEF PythonTypes
  <2>4. Valid(x)' /\ thread'[u] = x
    BY <1>1, <2>1, <2>2, <2>3
  <2>5. QED
    BY <2>4
<1>5. QED
  BY <1>1, <1>3, <1>4 DEF TaskInv, Same

\* A task more in the queue, of a call or an actor that has none.
LEMMA TasksMore ==
  ASSUME PythonTypes, TaskInv, NEW t, NEW x \in Task, queue' = Append(queue, x),
         thread' = thread \/ (t \in Threads /\ thread' = [thread EXCEPT ![t] = Python!Idle]),
         \A y \in Task : Valid(y) /\ (thread' = thread \/ ~Same(y, thread[t])) => Valid(y)',
         Valid(x)', \A y \in Task : Valid(y) => ~Same(y, x)
  PROVE  TaskInv'
<1>1. PICK q \in Seq(Task) : q = queue
  BY DEF PythonTypes
<1>2. PICK n \in Nat : n = Len(q)
  BY LenProperties
<1>3. /\ Len(queue') = n + 1 /\ queue'[n + 1] = x
      /\ \A i \in 1 .. n : queue'[i] = q[i] /\ q[i] \in Task
  BY <1>1, <1>2, AppendProperties
<1>4. \A u \in Threads : thread'[u] # Python!Idle => thread'[u] = thread[u] /\ thread[u] \in Task /\ (thread' = thread \/ u # t)
  BY DEF PythonTypes
<1>5. \A i \in 1 .. n : Valid(q[i]) /\ Valid(q[i])'
  <2> SUFFICES ASSUME NEW i \in 1 .. n PROVE Valid(q[i]) /\ Valid(q[i])'
    OBVIOUS
  <2>1. PICK y \in Task : y = q[i]
    BY <1>3
  <2>2. Valid(y) /\ (t \in Threads /\ thread[t] # Python!Idle => ~Same(y, thread[t]))
    BY <1>1, <1>2, <2>1 DEF TaskInv
  <2>3. t \notin Threads \/ thread[t] = Python!Idle => thread' = thread
    BY DEF PythonTypes
  <2>4. Valid(y)'
    BY <2>2, <2>3
  <2>5. QED
    BY <2>1, <2>2, <2>4
<1>6. \A u \in Threads : thread'[u] # Python!Idle => Valid(thread[u]) /\ Valid(thread[u])'
  <2> SUFFICES ASSUME NEW u \in Threads, thread'[u] # Python!Idle PROVE Valid(thread[u]) /\ Valid(thread[u])'
    OBVIOUS
  <2>1. PICK y \in Task : y = thread[u]
    BY <1>4
  <2>2. Valid(y) /\ (thread' # thread /\ t \in Threads /\ thread[t] # Python!Idle => ~Same(y, thread[t]))
    BY <1>4, <2>1 DEF TaskInv
  <2>3. t \notin Threads \/ thread[t] = Python!Idle => thread' = thread
    BY DEF PythonTypes
  <2>4. Valid(y)' /\ thread'[u] = y
    BY <1>4, <2>1, <2>2, <2>3
  <2>5. QED
    BY <2>1, <2>2, <2>4
<1>7. \A i \in 1 .. n + 1 : i \in 1 .. n \/ i = n + 1
  OBVIOUS
<1>8. \A i \in 1 .. Len(queue') : Valid(queue[i])'
  <2> SUFFICES ASSUME NEW i \in 1 .. n + 1 PROVE Valid(queue[i])'
    BY <1>3
  <2>1. CASE i \in 1 .. n
    <3>1. Valid(q[i])' /\ queue'[i] = q[i]
      BY <1>3, <1>5, <2>1
    <3>2. QED
      BY <3>1 DEF Valid
  <2>2. CASE i = n + 1
    BY <1>3, <2>2
  <2>3. QED
    BY <1>7, <2>1, <2>2
<1>9. \A i, j \in 1 .. Len(queue') : Same(queue'[i], queue'[j]) => i = j
  <2>1. \A i \in 1 .. n : ~Same(q[i], x) /\ ~Same(x, q[i])
    BY <1>3, <1>5 DEF Same
  <2>2. \A i, j \in 1 .. n : Same(q[i], q[j]) => i = j
    BY <1>1, <1>2 DEF TaskInv
  <2>3. QED
    BY <1>3, <1>7, <2>1, <2>2
<1>10. \A i \in 1 .. Len(queue'), u \in Threads : thread'[u] # Python!Idle => ~Same(queue'[i], thread'[u])
  <2>1. \A u \in Threads : thread'[u] # Python!Idle => ~Same(x, thread'[u])
    BY <1>4, <1>6 DEF Same
  <2>2. \A i \in 1 .. n, u \in Threads : thread'[u] # Python!Idle => ~Same(q[i], thread'[u])
    BY <1>1, <1>2, <1>4 DEF TaskInv
  <2>3. QED
    BY <1>3, <1>7, <2>1, <2>2
<1>11. \A u, v \in Threads :
         thread'[u] # Python!Idle /\ thread'[v] # Python!Idle /\ Same(thread'[u], thread'[v]) => u = v
  BY <1>4 DEF TaskInv
<1>12. \A u \in Threads : thread'[u] # Python!Idle => Valid(thread[u])'
  BY <1>6
<1>13. QED
  BY <1>8, <1>9, <1>10, <1>11, <1>12 DEF TaskInv, Same

\* A thread takes the next task.
LEMMA TakeTaskPreserves == ASSUME PythonInv, NEW t \in Threads, Python!Take(t) PROVE PythonInv'
<1>1. /\ thread[t] = Python!Idle /\ queue # <<>>
      /\ thread' = [thread EXCEPT ![t] = Head(queue)] /\ queue' = Tail(queue)
      /\ UNCHANGED <<actor, mailbox, coro, call, trace>>
  BY DEF Python!Take
<1>2. PICK q \in Seq(Task) : q = queue
  BY DEF PythonInv, PythonTypes
<1>3. PICK n \in Nat : n = Len(q) /\ 1 \in 1 .. n
  BY <1>1, <1>2, RestOf
<1>4. /\ q[1] \in Task /\ Head(q) = q[1] /\ Tail(q) \in Seq(Task) /\ Len(Tail(q)) = n - 1
      /\ \A i \in 1 .. n - 1 : Tail(q)[i] = q[i + 1] /\ i + 1 \in 1 .. n
  BY <1>1, <1>2, <1>3, RestOf
<1>5. PythonTypes'
  <2>1. thread' \in [Threads -> Task \cup {Python!Idle}] /\ queue' \in Seq(Task)
    BY <1>1, <1>2, <1>4 DEF PythonInv, PythonTypes
  <2>2. QED
    BY <1>1, <2>1 DEF PythonInv, PythonTypes
<1>6. MailInv' /\ ServeInv' /\ Python!TraceIsMine'
  BY <1>1 DEF PythonInv, MailInv, ServeInv, Python!TraceIsMine
<1>7. /\ Len(queue') = n - 1 /\ \A i \in 1 .. n - 1 : queue'[i] = q[i + 1] /\ i + 1 \in 1 .. n
      /\ thread'[t] = q[1] /\ \A u \in Threads \ {t} : thread'[u] = thread[u]
  BY <1>1, <1>2, <1>4 DEF PythonInv, PythonTypes
<1>8. /\ \A i \in 1 .. n : Valid(q[i]) /\ \A u \in Threads : thread[u] # Python!Idle => ~Same(q[i], thread[u])
      /\ \A i, j \in 1 .. n : Same(q[i], q[j]) => i = j
      /\ \A u \in Threads : thread[u] # Python!Idle => Valid(thread[u])
      /\ \A u, v \in Threads :
           thread[u] # Python!Idle /\ thread[v] # Python!Idle /\ Same(thread[u], thread[v]) => u = v
  BY <1>2, <1>3 DEF PythonInv, TaskInv
<1>9. TaskInv'
  <2>1. \A i \in 1 .. Len(queue') : Valid(queue[i])'
    <3> SUFFICES ASSUME NEW i \in 1 .. n - 1 PROVE Valid(queue[i])'
      BY <1>7
    <3>1. Valid(q[i + 1]) /\ queue'[i] = q[i + 1]
      BY <1>7, <1>8
    <3>2. QED
      BY <1>1, <3>1 DEF Valid
  <2>2. \A u \in Threads : thread'[u] # Python!Idle => Valid(thread[u])'
    <3> SUFFICES ASSUME NEW u \in Threads, thread'[u] # Python!Idle PROVE Valid(thread[u])'
      OBVIOUS
    <3>1. Valid(thread'[u])
      BY <1>3, <1>7, <1>8
    <3>2. QED
      BY <1>1, <3>1 DEF Valid
  <2>3. \A i, j \in 1 .. Len(queue') : Same(queue'[i], queue'[j]) => i = j
    <3> SUFFICES ASSUME NEW i \in 1 .. n - 1, NEW j \in 1 .. n - 1, Same(queue'[i], queue'[j]) PROVE i = j
      BY <1>7
    <3>1. i + 1 = j + 1
      BY <1>7, <1>8
    <3>2. QED
      BY <3>1
  <2>4. \A i \in 1 .. Len(queue'), u \in Threads : thread'[u] # Python!Idle => ~Same(queue'[i], thread'[u])
    <3> SUFFICES ASSUME NEW i \in 1 .. n - 1, NEW u \in Threads, thread'[u] # Python!Idle
                 PROVE  ~Same(queue'[i], thread'[u])
      BY <1>7
    <3>1. queue'[i] = q[i + 1] /\ i + 1 \in 1 .. n /\ i + 1 # 1
      BY <1>7
    <3>2. CASE u = t
      BY <1>3, <1>7, <1>8, <3>1, <3>2
    <3>3. CASE u # t
      BY <1>7, <1>8, <3>1, <3>3
    <3>4. QED
      BY <3>2, <3>3
  <2>5. \A u, v \in Threads :
          thread'[u] # Python!Idle /\ thread'[v] # Python!Idle /\ Same(thread'[u], thread'[v]) => u = v
    <3>1. \A u \in Threads : thread[u] # Python!Idle => ~Same(q[1], thread[u]) /\ ~Same(thread[u], q[1])
      BY <1>3, <1>8 DEF Same
    <3>2. QED
      BY <1>7, <1>8, <3>1
  <2>6. QED
    BY <2>1, <2>2, <2>3, <2>4, <2>5 DEF TaskInv, Same
<1>10. QED
  BY <1>5, <1>6, <1>9 DEF PythonInv

\* The calls that are served stay as they are, and so do their actors.
Steady ==
  /\ \A d \in Calls :
       call[d].state = "submitted" \/ call'[d].state = "submitted" => call'[d] = call[d]
  /\ \A b \in Actors : actor[b] \in {"busy", "spawning"} => actor'[b] = actor[b]

\* While the tasks and what they rest on stay the same, so does TaskInv.
LEMMA SteadyTasks ==
  ASSUME PythonTypes, Steady
  PROVE  \A x \in Task : Valid(x) => Valid(x)'
  BY DEF Steady, Valid

\* While the calls and the actors stay the same, so do MailInv and ServeInv.
LEMMA SteadyServes ==
  ASSUME PythonInv, Steady, UNCHANGED <<coro, trace>>
  PROVE  ServeInv' /\ Python!TraceIsMine'
<1>1. ServeInv'
  BY DEF PythonInv, ServeInv, Steady
<1>2. Python!TraceIsMine'
  BY DEF PythonInv, ServeInv, Python!TraceIsMine, Steady, Python!None
<1>3. QED
  BY <1>1, <1>2

\* A call goes to a mailbox, or fails since the actor has ended.
LEMMA DeliverKeeps ==
  ASSUME PythonInv, NEW c \in Calls, NEW a \in Actors, NEW by \in Calls \cup {Python!Here, Python!Elsewhere},
         Python!Deliver(c, a, by), actor' = actor
  PROVE  /\ Steady /\ MailInv'
         /\ mailbox' \in [Actors -> Seq(Calls)]
         /\ call' \in [Calls -> [to : Actors \cup {0}, by : Calls \cup {Python!Here, Python!Elsewhere},
                         state : {"new", "asked", "submitted", "answered", "failed"}]]
<1> USE DEF PythonInv
<1>1. call[c].state = "new"
  BY DEF Python!Deliver
<1>2. \A b \in Actors : \A i \in 1 .. Len(mailbox[b]) : mailbox[b][i] \in Calls /\ mailbox[b][i] # c
  BY <1>1 DEF MailInv, PythonTypes
<1>3. CASE /\ call' = [call EXCEPT ![c] = [to |-> 0, by |-> by, state |-> "failed"]]
           /\ UNCHANGED mailbox
  <2>1. /\ call'[c].state = "failed"
        /\ \A d \in Calls : d # c => call'[d] = call[d]
        /\ call' \in [Calls -> [to : Actors \cup {0}, by : Calls \cup {Python!Here, Python!Elsewhere},
                         state : {"new", "asked", "submitted", "answered", "failed"}]]
    BY <1>3 DEF PythonTypes
  <2>2. Steady
    BY <1>1, <2>1 DEF Steady
  <2>3. MailInv'
    BY <1>2, <1>3, <2>1 DEF MailInv
  <2>4. QED
    BY <1>3, <2>1, <2>2, <2>3 DEF PythonTypes
<1>4. CASE /\ call' = [call EXCEPT ![c] = [to |-> a, by |-> by, state |-> "asked"]]
           /\ mailbox' = [mailbox EXCEPT ![a] = Append(@, c)]
  <2>1. /\ call'[c].state = "asked" /\ call'[c].to = a
        /\ \A d \in Calls : d # c => call'[d] = call[d]
        /\ call' \in [Calls -> [to : Actors \cup {0}, by : Calls \cup {Python!Here, Python!Elsewhere},
                         state : {"new", "asked", "submitted", "answered", "failed"}]]
    BY <1>4 DEF PythonTypes
  <2>2. Steady
    BY <1>1, <2>1 DEF Steady
  <2>3. PICK m \in Seq(Calls) : m = mailbox[a]
    BY DEF PythonTypes
  <2>4. PICK n \in Nat : n = Len(m)
    BY LenProperties
  <2>5. PICK l \in Seq(Calls) : l = Append(m, c)
    BY AppendProperties
  <2>6. Len(l) = n + 1 /\ l[n + 1] = c /\ \A i \in 1 .. n : l[i] = m[i]
    BY <2>4, <2>5, AppendProperties
  <2>7. /\ mailbox' \in [Actors -> Seq(Calls)] /\ mailbox'[a] = l
        /\ \A b \in Actors : b # a => mailbox'[b] = mailbox[b]
    BY <1>4, <2>3, <2>5 DEF PythonTypes
  <2>8. MailInv'
    <3>1. \A b \in Actors : b # a =>
            /\ \A i \in 1 .. Len(mailbox'[b]) :
                 call'[mailbox'[b][i]].state = "asked" /\ call'[mailbox'[b][i]].to = b
            /\ \A i, j \in 1 .. Len(mailbox'[b]) : mailbox'[b][i] = mailbox'[b][j] => i = j
      <4> SUFFICES ASSUME NEW b \in Actors, b # a
                   PROVE  /\ \A i \in 1 .. Len(mailbox'[b]) :
                               call'[mailbox'[b][i]].state = "asked" /\ call'[mailbox'[b][i]].to = b
                          /\ \A i, j \in 1 .. Len(mailbox'[b]) : mailbox'[b][i] = mailbox'[b][j] => i = j
        OBVIOUS
      <4>1. PICK k \in Seq(Calls) : k = mailbox[b]
        BY DEF PythonTypes
      <4>2. /\ \A i \in 1 .. Len(k) : call[k[i]].state = "asked" /\ call[k[i]].to = b /\ k[i] # c /\ k[i] \in Calls
            /\ \A i, j \in 1 .. Len(k) : k[i] = k[j] => i = j
        <5>1. \A i \in 1 .. Len(k) : call[k[i]].state = "asked" /\ call[k[i]].to = b
          BY <4>1 DEF MailInv
        <5>2. \A i \in 1 .. Len(k) : k[i] # c /\ k[i] \in Calls
          BY <1>2, <4>1
        <5>3. \A i, j \in 1 .. Len(k) : k[i] = k[j] => i = j
          BY <4>1 DEF MailInv
        <5>4. QED
          BY <5>1, <5>2, <5>3
      <4>3. mailbox'[b] = k
        BY <2>7, <4>1
      <4>4. QED
        BY <2>1, <4>2, <4>3
    <3>2. \A i \in 1 .. n + 1 : i \in 1 .. n \/ i = n + 1
      OBVIOUS
    <3>3. /\ \A i \in 1 .. n : call[m[i]].state = "asked" /\ call[m[i]].to = a /\ m[i] # c /\ m[i] \in Calls
          /\ \A i, j \in 1 .. n : m[i] = m[j] => i = j
      <4>1. \A i \in 1 .. n : call[m[i]].state = "asked" /\ call[m[i]].to = a
        BY <2>3, <2>4 DEF MailInv
      <4>2. \A i \in 1 .. n : m[i] # c /\ m[i] \in Calls
        BY <1>2, <2>3, <2>4
      <4>3. \A i, j \in 1 .. n : m[i] = m[j] => i = j
        BY <2>3, <2>4 DEF MailInv
      <4>4. QED
        BY <4>1, <4>2, <4>3
    <3>4. \A i \in 1 .. n + 1 : call'[l[i]].state = "asked" /\ call'[l[i]].to = a
      BY <2>1, <2>6, <3>2, <3>3
    <3>5. \A i, j \in 1 .. n + 1 : l[i] = l[j] => i = j
      BY <2>6, <3>2, <3>3
    <3>6. /\ \A i \in 1 .. Len(mailbox'[a]) :
               call'[mailbox'[a][i]].state = "asked" /\ call'[mailbox'[a][i]].to = a
          /\ \A i, j \in 1 .. Len(mailbox'[a]) : mailbox'[a][i] = mailbox'[a][j] => i = j
      BY <2>6, <2>7, <3>4, <3>5
    <3>7. \A b \in Actors :
            /\ \A i \in 1 .. Len(mailbox'[b]) :
                 call'[mailbox'[b][i]].state = "asked" /\ call'[mailbox'[b][i]].to = b
            /\ \A i, j \in 1 .. Len(mailbox'[b]) : mailbox'[b][i] = mailbox'[b][j] => i = j
      BY <3>1, <3>6, Zenon
    <3>8. QED
      BY <3>7 DEF MailInv
  <2>9. QED
    BY <2>1, <2>2, <2>7, <2>8
<1>5. QED
  BY <1>3, <1>4 DEF Python!Deliver

\* A caller that is no handler asks.
LEMMA AskPreserves ==
  ASSUME PythonInv, NEW c \in Calls, NEW a \in Actors, Python!Ask(c, a) PROVE PythonInv'
<1>1. UNCHANGED <<actor, queue, thread, coro, trace>>
  BY DEF Python!Ask
<1>2. PICK by \in Calls \cup {Python!Here, Python!Elsewhere} : Python!Deliver(c, a, by)
  BY DEF Python!Ask
<1>3. /\ Steady /\ MailInv' /\ PythonTypes'
  BY <1>1, <1>2, DeliverKeeps DEF PythonInv, PythonTypes
<1>4. ServeInv' /\ Python!TraceIsMine'
  BY <1>1, <1>3, SteadyServes
<1>5. TaskInv'
  BY <1>1, <1>3, SteadyTasks, TasksLess DEF PythonInv
<1>6. QED
  BY <1>3, <1>4, <1>5 DEF PythonInv

\* The mailbox of an actor that ends is emptied, and what was in it fails.
LEMMA DropKeeps ==
  ASSUME PythonInv, NEW a \in Actors, Python!Drop(a)
  PROVE  /\ \A d \in Calls :
              call[d].state = "submitted" \/ call'[d].state = "submitted" => call'[d] = call[d]
         /\ MailInv'
         /\ mailbox' \in [Actors -> Seq(Calls)]
         /\ call' \in [Calls -> [to : Actors \cup {0}, by : Calls \cup {Python!Here, Python!Elsewhere},
                         state : {"new", "asked", "submitted", "answered", "failed"}]]
<1> USE DEF PythonInv
<1>1. PICK m \in Seq(Calls) : m = mailbox[a]
  BY DEF PythonTypes
<1>2. PICK R : R = Python!Range(m)
  OBVIOUS
<1>3. \A x \in R : \E i \in 1 .. Len(m) : x = m[i]
  BY <1>2, LenProperties DEF Python!Range
<1>4. \A x \in R : call[x].state = "asked" /\ call[x].to = a
  BY <1>1, <1>3 DEF MailInv
<1>5. call' = [d \in Calls |-> IF d \in R THEN [call[d] EXCEPT !.state = "failed", !.to = 0] ELSE call[d]]
  BY <1>1, <1>2 DEF Python!Drop
<1>6. \A d \in Calls : d \notin R => call'[d] = call[d]
  BY <1>5
<1>7. \A d \in Calls : d \in R => call'[d] = [call[d] EXCEPT !.state = "failed", !.to = 0]
  BY <1>5
<1>8. \A d \in Calls : d \in R => call'[d].state = "failed"
  <2>1. ASSUME NEW d \in Calls, d \in R PROVE call'[d].state = "failed"
    <3>1. PICK x \in [to : Actors \cup {0}, by : Calls \cup {Python!Here, Python!Elsewhere},
                                   state : {"new", "asked", "submitted", "answered", "failed"}] : x = call[d]
      BY DEF PythonTypes
    <3>2. call'[d] = [x EXCEPT !.state = "failed", !.to = 0]
      BY <1>7, <2>1, <3>1
    <3>3. QED
      BY <3>2
  <2>2. QED
    BY <2>1
<1>9. call' \in [Calls -> [to : Actors \cup {0}, by : Calls \cup {Python!Here, Python!Elsewhere},
                         state : {"new", "asked", "submitted", "answered", "failed"}]]
  <2>1. ASSUME NEW x \in [to : Actors \cup {0}, by : Calls \cup {Python!Here, Python!Elsewhere},
                                 state : {"new", "asked", "submitted", "answered", "failed"}]
        PROVE  [x EXCEPT !.state = "failed", !.to = 0] \in
                 [to : Actors \cup {0}, by : Calls \cup {Python!Here, Python!Elsewhere},
                   state : {"new", "asked", "submitted", "answered", "failed"}]
    OBVIOUS
  <2>2. \A d \in Calls : call[d] \in [to : Actors \cup {0}, by : Calls \cup {Python!Here, Python!Elsewhere},
                                      state : {"new", "asked", "submitted", "answered", "failed"}]
    BY DEF PythonTypes
  <2>3. ASSUME NEW d \in Calls
        PROVE  (IF d \in R THEN [call[d] EXCEPT !.state = "failed", !.to = 0] ELSE call[d]) \in
                 [to : Actors \cup {0}, by : Calls \cup {Python!Here, Python!Elsewhere},
                   state : {"new", "asked", "submitted", "answered", "failed"}]
    BY <2>1, <2>2
  <2>4. QED
    BY <1>5, <2>3
<1>10. \A d \in Calls :
         call[d].state = "submitted" \/ call'[d].state = "submitted" => call'[d] = call[d]
  BY <1>4, <1>6, <1>8
<1>11. /\ mailbox' \in [Actors -> Seq(Calls)] /\ mailbox'[a] = <<>>
       /\ \A b \in Actors : b # a => mailbox'[b] = mailbox[b]
  <2>1. <<>> \in Seq(Calls)
    OBVIOUS
  <2>2. QED
    BY <2>1 DEF Python!Drop, PythonTypes
<1>12. MailInv'
  <2>1. \A b \in Actors : \A i \in 1 .. Len(mailbox[b]) : mailbox[b][i] \in Calls
    BY DEF PythonTypes
  <2>2. \A b \in Actors : b # a => \A i \in 1 .. Len(mailbox[b]) : mailbox[b][i] \notin R
    BY <1>4 DEF MailInv
  <2>3. SUFFICES ASSUME NEW b \in Actors
                 PROVE  /\ \A i \in 1 .. Len(mailbox'[b]) :
                             call'[mailbox'[b][i]].state = "asked" /\ call'[mailbox'[b][i]].to = b
                        /\ \A i, j \in 1 .. Len(mailbox'[b]) : mailbox'[b][i] = mailbox'[b][j] => i = j
    BY DEF MailInv
  <2>4. CASE b = a
    BY <1>11, <2>4
  <2>5. CASE b # a
    <3>1. PICK k \in Seq(Calls) : k = mailbox[b]
      BY DEF PythonTypes
    <3>2. /\ \A i \in 1 .. Len(k) : call[k[i]].state = "asked" /\ call[k[i]].to = b /\ k[i] \notin R /\ k[i] \in Calls
          /\ \A i, j \in 1 .. Len(k) : k[i] = k[j] => i = j
      BY <2>1, <2>2, <2>5, <3>1 DEF MailInv
    <3>3. mailbox'[b] = k
      BY <1>11, <2>5, <3>1
    <3>4. QED
      BY <1>6, <3>2, <3>3
  <2>6. QED
    BY <2>4, <2>5
<1>13. QED
  BY <1>9, <1>10, <1>11, <1>12

\* An actor is spawned.
LEMMA SpawnPreserves ==
  ASSUME PythonInv, NEW a \in Actors, Python!Spawn(a) PROVE PythonInv'
<1> USE DEF PythonInv
<1>1. /\ actor[a] = "unborn" /\ actor' = [actor EXCEPT ![a] = "spawning"]
      /\ queue' = Append(queue, <<"start", a>>)
      /\ UNCHANGED <<mailbox, thread, coro, call, trace>>
  BY DEF Python!Spawn, Python!Execute
<1>2. PICK x \in Task : x = <<"start", a>> /\ x[1] = "start" /\ x[2] = a
  <2>1. <<"start", a>> \in Task /\ <<"start", a>>[1] = "start" /\ <<"start", a>>[2] = a
    BY DEF Task
  <2>2. QED
    BY <2>1, Zenon
<1>3. PythonTypes'
  <2>1. queue \in Seq(Task) /\ queue' = Append(queue, x)
    BY <1>1, <1>2 DEF PythonTypes
  <2>2. queue' \in Seq(Task)
    BY <2>1, AppendProperties
  <2>3. actor' \in [Actors -> {"unborn", "spawning", "idle", "busy", "ended"}]
    BY <1>1 DEF PythonTypes
  <2>4. QED
    BY <1>1, <2>2, <2>3 DEF PythonTypes
<1>4. Steady
  BY <1>1 DEF Steady, PythonTypes
<1>5. ServeInv' /\ Python!TraceIsMine'
  BY <1>1, <1>4, SteadyServes
<1>6. MailInv'
  BY <1>1 DEF MailInv
<1>7. Valid(x)' /\ \A y \in Task : Valid(y) => ~Same(y, x)
  BY <1>1, <1>2 DEF Valid, Same, PythonTypes
<1>8. \A y \in Task : Valid(y) => Valid(y)'
  BY <1>4, SteadyTasks
<1>9. queue' = Append(queue, x) /\ thread' = thread
  BY <1>1, <1>2
<1>10. TaskInv'
  BY <1>7, <1>8, <1>9, TasksMore
<1>11. QED
  BY <1>3, <1>5, <1>6, <1>10

\* on_start has returned or raised.
LEMMA StartedPreserves ==
  ASSUME PythonInv, NEW t \in Threads, Python!Started(t) PROVE PythonInv'
<1> USE DEF PythonInv
<1>1. PICK x \in Task : x = thread[t]
  BY DEF PythonTypes, Python!Started
<1>2. PICK a \in Actors : a = x[2] /\ actor[a] = "spawning" /\ x[1] = "start"
  BY <1>1 DEF Python!Started, TaskInv, Valid
<1>3. /\ thread' = [thread EXCEPT ![t] = Python!Idle] /\ queue' = queue
      /\ UNCHANGED <<coro, trace>>
      /\ \/ /\ actor' = [actor EXCEPT ![a] = "idle"] /\ UNCHANGED <<mailbox, call>>
         \/ actor' = [actor EXCEPT ![a] = "ended"] /\ Python!Drop(a)
  BY <1>1, <1>2 DEF Python!Started
<1>4. /\ \A d \in Calls :
           call[d].state = "submitted" \/ call'[d].state = "submitted" => call'[d] = call[d]
      /\ MailInv'
      /\ mailbox' \in [Actors -> Seq(Calls)]
      /\ call' \in [Calls -> [to : Actors \cup {0}, by : Calls \cup {Python!Here, Python!Elsewhere},
                      state : {"new", "asked", "submitted", "answered", "failed"}]]
  <2>1. CASE UNCHANGED <<mailbox, call>>
    BY <2>1 DEF MailInv, PythonTypes
  <2>2. CASE Python!Drop(a)
    BY <2>2, DropKeeps
  <2>3. QED
    BY <1>3, <2>1, <2>2
<1>5. /\ actor' \in [Actors -> {"unborn", "spawning", "idle", "busy", "ended"}]
      /\ \A b \in Actors : b # a => actor'[b] = actor[b]
  BY <1>3 DEF PythonTypes
<1>6. PythonTypes'
  BY <1>3, <1>4, <1>5 DEF PythonTypes
<1>7. ServeInv' /\ Python!TraceIsMine'
  <2>1. ServeInv'
    <3>1. coro' = coro
      BY <1>3
    <3>2. \A d \in Calls : call[d].state = "submitted" => call[d].to # a
      BY <1>2 DEF ServeInv
    <3>3. \A d \in Calls : call'[d].state = "submitted" => call'[d].to \in Actors /\ actor'[call'[d].to] = "busy"
      BY <1>4, <1>5, <3>2 DEF ServeInv
    <3>4. \A d \in Calls : coro'[d] # Python!None => call'[d].state = "submitted"
      BY <1>4, <3>1 DEF ServeInv
    <3>5. \A d, e \in Calls :
            call'[d].state = "submitted" /\ call'[e].state = "submitted" /\ call'[d].to = call'[e].to => d = e
      BY <1>4 DEF ServeInv
    <3>6. QED
      BY <3>3, <3>4, <3>5 DEF ServeInv
  <2>2. Python!TraceIsMine'
    <3>1. coro' = coro /\ trace' = trace
      BY <1>3
    <3>2. \A d \in Calls : coro[d] = "ready" => call'[d] = call[d]
      BY <1>4 DEF ServeInv, Python!None
    <3>3. QED
      BY <3>1, <3>2 DEF Python!TraceIsMine
  <2>3. QED
    BY <2>1, <2>2
<1>8. \A y \in Task : Valid(y) /\ ~Same(y, thread[t]) => Valid(y)'
  BY <1>1, <1>2, <1>4, <1>5 DEF Valid, Same
<1>9. \A y \in Task : Valid(y) /\ (thread' = thread \/ ~Same(y, thread[t])) => Valid(y)'
  <2>1. thread'[t] = Python!Idle /\ thread[t] # Python!Idle
    BY <1>3 DEF Python!Started, PythonTypes
  <2>2. QED
    BY <1>8, <2>1
<1>10. TaskInv'
  BY <1>3, <1>9, TasksLess
<1>11. QED
  BY <1>4, <1>6, <1>7, <1>10

\* An actor is stopped between two messages.
LEMMA StopPreserves ==
  ASSUME PythonInv, NEW a \in Actors, Python!Stop(a) PROVE PythonInv'
<1> USE DEF PythonInv
<1>1. /\ actor[a] = "idle" /\ actor' = [actor EXCEPT ![a] = "ended"] /\ Python!Drop(a)
      /\ queue' = Append(queue, <<"stop", a>>)
      /\ UNCHANGED <<thread, coro, trace>>
  BY DEF Python!Stop, Python!Execute
<1>2. PICK x \in Task : x = <<"stop", a>> /\ x[1] = "stop"
  <2>1. <<"stop", a>> \in Task /\ <<"stop", a>>[1] = "stop"
    BY DEF Task
  <2>2. QED
    BY <2>1, Zenon
<1>3. /\ MailInv'
      /\ mailbox' \in [Actors -> Seq(Calls)]
      /\ call' \in [Calls -> [to : Actors \cup {0}, by : Calls \cup {Python!Here, Python!Elsewhere},
                      state : {"new", "asked", "submitted", "answered", "failed"}]]
      /\ \A d \in Calls :
           call[d].state = "submitted" \/ call'[d].state = "submitted" => call'[d] = call[d]
  BY <1>1, DropKeeps
<1>4. Steady
  BY <1>1, <1>3 DEF Steady, PythonTypes
<1>5. PythonTypes'
  <2>1. queue \in Seq(Task) /\ queue' = Append(queue, x)
    BY <1>1, <1>2 DEF PythonTypes
  <2>2. queue' \in Seq(Task)
    BY <2>1, AppendProperties
  <2>3. actor' \in [Actors -> {"unborn", "spawning", "idle", "busy", "ended"}]
    BY <1>1 DEF PythonTypes
  <2>4. QED
    BY <1>1, <1>3, <2>2, <2>3 DEF PythonTypes
<1>6. ServeInv' /\ Python!TraceIsMine'
  BY <1>1, <1>4, SteadyServes
<1>7. Valid(x)' /\ \A y \in Task : Valid(y) => ~Same(y, x)
  BY <1>2 DEF Valid, Same
<1>8. \A y \in Task : Valid(y) => Valid(y)'
  BY <1>4, SteadyTasks
<1>9. queue' = Append(queue, x) /\ thread' = thread
  BY <1>1, <1>2
<1>10. TaskInv'
  BY <1>7, <1>8, <1>9, TasksMore
<1>11. QED
  BY <1>3, <1>5, <1>6, <1>10

\* Steps of streams, and the end of on_stop: at most a thread is done with its task.
LEMMA StreamsPreserve ==
  ASSUME PythonInv, NEW t, queue' = queue,
         thread' = thread \/ (t \in Threads /\ thread' = [thread EXCEPT ![t] = Python!Idle]),
         UNCHANGED <<actor, mailbox, coro, call, trace>>
  PROVE  PythonInv'
<1> USE DEF PythonInv
<1>1. PythonTypes'
  BY DEF PythonTypes
<1>2. Steady
  BY DEF Steady
<1>3. ServeInv' /\ Python!TraceIsMine' /\ MailInv'
  BY <1>2, SteadyServes DEF MailInv
<1>4. TaskInv'
  BY <1>2, SteadyTasks, TasksLess
<1>5. QED
  BY <1>1, <1>3, <1>4

\* An idle actor takes the next message of its mailbox.
LEMMA ReceiveMailPreserves ==
  ASSUME PythonInv, NEW a \in Actors, Python!Receive(a) PROVE PythonInv'
<1> USE DEF PythonInv
<1>1. PICK m \in Seq(Calls) : m = mailbox[a] /\ m # <<>>
  BY DEF PythonTypes, Python!Receive
<1>2. PICK n \in Nat : n = Len(m) /\ 1 \in 1 .. n
  BY <1>1, RestOf
<1>3. PICK r \in Seq(Calls) : r = Tail(m) /\ Len(r) = n - 1 /\ \A i \in 1 .. n - 1 : r[i] = m[i + 1] /\ i + 1 \in 1 .. n
  <2>1. /\ Tail(m) \in Seq(Calls) /\ Len(Tail(m)) = n - 1
        /\ \A i \in 1 .. n - 1 : Tail(m)[i] = m[i + 1] /\ i + 1 \in 1 .. n
    BY <1>1, <1>2, RestOf
  <2>2. QED
    BY <2>1, Zenon
<1>4. PICK c \in Calls : c = Head(m) /\ c = m[1]
  BY <1>1, RestOf
<1>5. /\ \A i \in 1 .. n : call[m[i]].state = "asked" /\ call[m[i]].to = a /\ m[i] \in Calls
      /\ \A i, j \in 1 .. n : m[i] = m[j] => i = j
  <2>1. \A i \in 1 .. n : m[i] \in Calls
    BY <1>2
  <2>2. QED
    BY <1>1, <1>2, <2>1 DEF MailInv
<1>6. call[c].state = "asked" /\ call[c].to = a
  BY <1>2, <1>4, <1>5
<1>7. /\ actor[a] = "idle" /\ actor' = [actor EXCEPT ![a] = "busy"]
      /\ call' = [call EXCEPT ![c].state = "submitted"]
      /\ queue' = Append(queue, <<"receive", c>>)
      /\ mailbox' = [mailbox EXCEPT ![a] = r]
      /\ UNCHANGED <<thread, coro, trace>>
  BY <1>1, <1>3, <1>4 DEF Python!Receive, Python!Execute
<1>8. PICK x \in Task : x = <<"receive", c>> /\ x[1] = "receive" /\ x[2] = c
  <2>1. <<"receive", c>> \in Task /\ <<"receive", c>>[1] = "receive" /\ <<"receive", c>>[2] = c
    BY DEF Task
  <2>2. QED
    BY <2>1, Zenon
<1>9. /\ call'[c].state = "submitted" /\ call'[c].to = a /\ \A d \in Calls : d # c => call'[d] = call[d]
      /\ actor'[a] = "busy" /\ \A b \in Actors : b # a => actor'[b] = actor[b]
      /\ mailbox'[a] = r /\ \A b \in Actors : b # a => mailbox'[b] = mailbox[b]
  BY <1>6, <1>7 DEF PythonTypes
<1>10. PythonTypes'
  <2>1. queue \in Seq(Task) /\ queue' = Append(queue, x)
    BY <1>7, <1>8 DEF PythonTypes
  <2>2. queue' \in Seq(Task)
    BY <2>1, AppendProperties
  <2>3. actor' \in [Actors -> {"unborn", "spawning", "idle", "busy", "ended"}]
    BY <1>7 DEF PythonTypes
  <2>4. mailbox' \in [Actors -> Seq(Calls)]
    BY <1>7 DEF PythonTypes
  <2>5. call' \in [Calls -> [to : Actors \cup {0}, by : Calls \cup {Python!Here, Python!Elsewhere},
                      state : {"new", "asked", "submitted", "answered", "failed"}]]
    <3>1. PICK y \in [to : Actors \cup {0}, by : Calls \cup {Python!Here, Python!Elsewhere},
                      state : {"new", "asked", "submitted", "answered", "failed"}] : y = call[c]
      BY DEF PythonTypes
    <3>2. PICK z : z = [y EXCEPT !.state = "submitted"]
      OBVIOUS
    <3>3. z \in [to : Actors \cup {0}, by : Calls \cup {Python!Here, Python!Elsewhere},
                 state : {"new", "asked", "submitted", "answered", "failed"}]
      BY <3>2
    <3>4. call' = [call EXCEPT ![c] = z]
      BY <1>7, <3>1, <3>2
    <3>5. QED
      BY <3>3, <3>4 DEF PythonTypes
  <2>6. QED
    BY <1>7, <2>2, <2>3, <2>4, <2>5 DEF PythonTypes
<1>11. MailInv'
  <2> SUFFICES ASSUME NEW b \in Actors
               PROVE  /\ \A i \in 1 .. Len(mailbox'[b]) :
                           call'[mailbox'[b][i]].state = "asked" /\ call'[mailbox'[b][i]].to = b
                      /\ \A i, j \in 1 .. Len(mailbox'[b]) : mailbox'[b][i] = mailbox'[b][j] => i = j
    BY DEF MailInv
  <2>1. CASE b = a
    <3>1. \A i \in 1 .. n - 1 : r[i] \in Calls /\ call[r[i]].state = "asked" /\ call[r[i]].to = a /\ r[i] # c
      <4> SUFFICES ASSUME NEW i \in 1 .. n - 1
                   PROVE  r[i] \in Calls /\ call[r[i]].state = "asked" /\ call[r[i]].to = a /\ r[i] # c
        OBVIOUS
      <4>1. r[i] = m[i + 1] /\ i + 1 \in 1 .. n /\ i + 1 # 1
        BY <1>3
      <4>2. QED
        BY <1>2, <1>4, <1>5, <4>1
    <3>2. \A i, j \in 1 .. n - 1 : r[i] = r[j] => i = j
      <4> SUFFICES ASSUME NEW i \in 1 .. n - 1, NEW j \in 1 .. n - 1, r[i] = r[j] PROVE i = j
        OBVIOUS
      <4>1. i + 1 = j + 1
        BY <1>3, <1>5
      <4>2. QED
        BY <4>1
    <3>3. mailbox'[b] = r /\ Len(r) = n - 1
      BY <1>3, <1>9, <2>1
    <3>4. QED
      BY <1>9, <2>1, <3>1, <3>2, <3>3
  <2>2. CASE b # a
    <3>1. PICK k \in Seq(Calls) : k = mailbox[b]
      BY DEF PythonTypes
    <3>2. /\ \A i \in 1 .. Len(k) : call[k[i]].state = "asked" /\ call[k[i]].to = b /\ k[i] \in Calls
          /\ \A i, j \in 1 .. Len(k) : k[i] = k[j] => i = j
      BY <3>1 DEF MailInv
    <3>3. mailbox'[b] = k
      BY <1>9, <2>2, <3>1
    <3>4. \A i \in 1 .. Len(k) : k[i] # c
      BY <1>6, <2>2, <3>2
    <3>5. QED
      BY <1>9, <3>2, <3>3, <3>4
  <2>3. QED
    BY <2>1, <2>2
<1>12. ServeInv'
  <2>1. \A d \in Calls : call[d].state = "submitted" => call[d].to # a /\ d # c
    BY <1>6, <1>7 DEF ServeInv
  <2>2. coro' = coro /\ coro[c] = Python!None
    BY <1>6, <1>7 DEF ServeInv
  <2>3. QED
    BY <1>9, <2>1, <2>2 DEF ServeInv
<1>13. Python!TraceIsMine'
  <2>1. \A d \in Calls : coro[d] = "ready" => d # c
    BY <1>6 DEF ServeInv, Python!None
  <2>2. coro' = coro /\ trace' = trace
    BY <1>7
  <2>3. QED
    BY <1>9, <2>1, <2>2 DEF Python!TraceIsMine
<1>14. Valid(x)' /\ \A y \in Task : Valid(y) => ~Same(y, x)
  BY <1>6, <1>8, <1>9 DEF Valid, Same
<1>15. \A y \in Task : Valid(y) => Valid(y)'
  BY <1>6, <1>7, <1>9 DEF Valid
<1>16. queue' = Append(queue, x) /\ thread' = thread
  BY <1>7, <1>8
<1>17. TaskInv'
  BY <1>14, <1>15, <1>16, TasksMore
<1>18. QED
  BY <1>10, <1>11, <1>12, <1>13, <1>17

\* A call that has ended is a call.
LEMMA AnsweredType ==
  ASSUME NEW A, NEW B, NEW S, NEW r \in [to : A, by : B, state : S], NEW h \in S, 0 \in A
  PROVE  [r EXCEPT !.state = h, !.to = 0] \in [to : A, by : B, state : S]
  OBVIOUS

\* The actor answers a call; nothing else serves it.
LEMMA AnswerPreserves ==
  ASSUME PythonInv, NEW t \in Threads, thread[t] # Python!Idle, thread[t][1] = "receive",
         NEW how \in {"answered", "failed"}, Python!Answer(thread[t][2], how),
         thread' = [thread EXCEPT ![t] = Python!Idle],
         coro' = [coro EXCEPT ![thread[t][2]] = Python!None],
         queue' = queue \/ queue' = Append(queue, <<"generate", thread[t][2]>>),
         mailbox' = mailbox,
         trace' = trace \/ trace' = [trace EXCEPT ![call[thread[t][2]].to] = thread[t][2]]
  PROVE  PythonInv'
<1> USE DEF PythonInv
<1>1. PICK c \in Calls : c = thread[t][2] /\ call[c].state = "submitted"
  BY DEF TaskInv, Valid
<1>2. PICK a \in Actors : a = call[c].to /\ actor[a] = "busy"
  BY <1>1 DEF ServeInv
<1>3. /\ call' = [call EXCEPT ![c].state = how, ![c].to = 0]
      /\ actor' = [actor EXCEPT ![a] = "idle"] /\ coro' = [coro EXCEPT ![c] = Python!None]
      /\ trace' = trace \/ trace' = [trace EXCEPT ![a] = c]
      /\ queue' = queue \/ queue' = Append(queue, <<"generate", c>>)
  BY <1>1, <1>2 DEF Python!Answer
<1>4. /\ call'[c].state # "submitted" /\ call'[c].state # "asked" /\ \A d \in Calls : d # c => call'[d] = call[d]
      /\ \A b \in Actors : b # a => actor'[b] = actor[b]
      /\ coro'[c] = Python!None /\ \A d \in Calls : d # c => coro'[d] = coro[d]
      /\ \A b \in Actors : b # a => trace'[b] = trace[b]
  BY <1>3 DEF PythonTypes
<1>5. \A d \in Calls : d # c /\ call[d].state = "submitted" => call[d].to # a
  BY <1>1, <1>2 DEF ServeInv
<1>6. PICK x \in Task : x = <<"generate", c>> /\ x[1] = "generate"
  <2>1. <<"generate", c>> \in Task /\ <<"generate", c>>[1] = "generate"
    BY DEF Task
  <2>2. QED
    BY <2>1, Zenon
<1>7. PythonTypes'
  <2>1. queue \in Seq(Task) /\ (queue' = queue \/ queue' = Append(queue, x))
    BY <1>3, <1>6 DEF PythonTypes
  <2>2. queue' \in Seq(Task)
    <3>1. Append(queue, x) \in Seq(Task)
      BY <2>1, AppendProperties
    <3>2. QED
      BY <2>1, <3>1
  <2>3. actor' \in [Actors -> {"unborn", "spawning", "idle", "busy", "ended"}]
    BY <1>3 DEF PythonTypes
  <2>4. call' \in [Calls -> [to : Actors \cup {0}, by : Calls \cup {Python!Here, Python!Elsewhere},
                      state : {"new", "asked", "submitted", "answered", "failed"}]]
    <3>1. PICK r \in [to : Actors \cup {0}, by : Calls \cup {Python!Here, Python!Elsewhere},
                     state : {"new", "asked", "submitted", "answered", "failed"}] : r = call[c]
      BY DEF PythonTypes
    <3>2. PICK u \in [to : Actors \cup {0}, by : Calls \cup {Python!Here, Python!Elsewhere},
                     state : {"new", "asked", "submitted", "answered", "failed"}] :
            u = [r EXCEPT !.state = how, !.to = 0]
      BY AnsweredType
    <3>3. call' = [call EXCEPT ![c] = u]
      BY <1>3, <3>1, <3>2 DEF PythonTypes
    <3>4. QED
      BY <3>3 DEF PythonTypes
  <2>5. coro' \in [Calls -> {Python!None, "ready", "asking", "done", "raised"}]
    BY <1>3 DEF PythonTypes
  <2>6. trace' \in [Actors -> Calls \cup {Python!Nobody}]
    BY <1>3 DEF PythonTypes
  <2>7. thread' \in [Threads -> Task \cup {Python!Idle}]
    BY DEF PythonTypes
  <2>8. QED
    BY <2>2, <2>3, <2>4, <2>5, <2>6, <2>7 DEF PythonTypes
<1>8. MailInv'
  <2> SUFFICES ASSUME NEW b \in Actors
               PROVE  /\ \A i \in 1 .. Len(mailbox[b]) :
                           call'[mailbox[b][i]].state = "asked" /\ call'[mailbox[b][i]].to = b
                      /\ \A i, j \in 1 .. Len(mailbox[b]) : mailbox[b][i] = mailbox[b][j] => i = j
    BY DEF MailInv
  <2>1. PICK k \in Seq(Calls) : k = mailbox[b]
    BY DEF PythonTypes
  <2>2. /\ \A i \in 1 .. Len(k) : call[k[i]].state = "asked" /\ call[k[i]].to = b /\ k[i] \in Calls
        /\ \A i, j \in 1 .. Len(k) : k[i] = k[j] => i = j
    BY <2>1 DEF MailInv
  <2>3. \A i \in 1 .. Len(k) : call'[k[i]] = call[k[i]]
    BY <1>1, <1>4, <2>2
  <2>4. QED
    BY <2>1, <2>2, <2>3
<1>9. ServeInv'
  BY <1>4, <1>5 DEF ServeInv
<1>10. Python!TraceIsMine'
  <2> SUFFICES ASSUME NEW d \in Calls, coro'[d] = "ready" PROVE trace'[call'[d].to] = d
    BY DEF Python!TraceIsMine
  <2>1. d # c /\ coro[d] = "ready"
    BY <1>4 DEF Python!None
  <2>2. call[d].state = "submitted" /\ call[d].to \in Actors /\ call[d].to # a
    BY <1>5, <2>1 DEF ServeInv, Python!None
  <2>3. trace[call[d].to] = d
    BY <2>1 DEF Python!TraceIsMine
  <2>4. QED
    BY <1>4, <2>1, <2>2, <2>3
<1>11. \A y \in Task : Valid(y) /\ ~Same(y, thread[t]) => Valid(y)'
  BY <1>1, <1>2, <1>4 DEF Valid, Same
<1>12. \A y \in Task : Valid(y) /\ (thread' = thread \/ ~Same(y, thread[t])) => Valid(y)'
  <2>1. thread'[t] = Python!Idle
    BY DEF PythonTypes
  <2>2. QED
    BY <1>11, <2>1
<1>13. TaskInv'
  <2>1. CASE queue' = queue
    BY <1>12, <2>1, TasksLess
  <2>2. CASE queue' = Append(queue, x)
    <3>1. Valid(x)' /\ \A y \in Task : Valid(y) => ~Same(y, x)
      BY <1>6 DEF Valid, Same
    <3>2. QED
      BY <1>12, <2>2, <3>1, TasksMore
  <2>3. QED
    BY <1>3, <1>6, <2>1, <2>2
<1>14. QED
  BY <1>7, <1>8, <1>9, <1>10, <1>13

\* The task of a receive: the context goes to the handler, which has no other
\* call.
LEMMA CallReceivePreserves ==
  ASSUME PythonInv, NEW t \in Threads, Python!CallReceive(t) PROVE PythonInv'
<1> USE DEF PythonInv
<1>1. thread[t] # Python!Idle /\ thread[t][1] = "receive"
  BY DEF Python!CallReceive
<1>2. PICK c \in Calls : c = thread[t][2] /\ call[c].state = "submitted"
  BY <1>1 DEF TaskInv, Valid
<1>3. PICK a \in Actors : a = call[c].to /\ actor[a] = "busy"
  BY <1>2 DEF ServeInv
<1>4. coro[c] = Python!None /\ trace' = [trace EXCEPT ![a] = c]
  BY <1>2, <1>3 DEF Python!CallReceive
<1>5. CASE /\ coro' = [coro EXCEPT ![c] = "ready"]
           /\ UNCHANGED <<gil, actor, mailbox, queue, thread, call, stream>>
  <2>1. PythonTypes'
    <3>1. coro' \in [Calls -> {Python!None, "ready", "asking", "done", "raised"}]
      BY <1>5 DEF PythonTypes
    <3>2. trace' \in [Actors -> Calls \cup {Python!Nobody}]
      BY <1>4 DEF PythonTypes
    <3>3. QED
      BY <1>5, <3>1, <3>2 DEF PythonTypes
  <2>2. MailInv'
    BY <1>5 DEF MailInv
  <2>3. ServeInv'
    BY <1>2, <1>5 DEF ServeInv, PythonTypes
  <2>4. TaskInv'
    <3>1. Steady
      BY <1>5 DEF Steady
    <3>2. QED
      BY <1>5, <3>1, SteadyTasks, TasksLess
  <2>5. Python!TraceIsMine'
    <3> SUFFICES ASSUME NEW d \in Calls, coro'[d] = "ready" PROVE trace'[call[d].to] = d
      BY <1>5 DEF Python!TraceIsMine
    <3>1. CASE d = c
      BY <1>3, <1>4, <3>1 DEF PythonTypes
    <3>2. CASE d # c
      <4>1. coro[d] = "ready"
        BY <1>5, <3>2 DEF PythonTypes
      <4>2. call[d].state = "submitted" /\ call[d].to \in Actors /\ call[d].to # a /\ trace[call[d].to] = d
        BY <1>2, <1>3, <3>2, <4>1 DEF ServeInv, Python!TraceIsMine, Python!None
      <4>3. QED
        BY <1>4, <4>2 DEF PythonTypes
    <3>3. QED
      BY <3>1, <3>2
  <2>6. QED
    BY <2>1, <2>2, <2>3, <2>4, <2>5
<1>6. CASE /\ thread' = [thread EXCEPT ![t] = Python!Idle]
           /\ \E how \in {"answered", "failed"} : Python!Answer(c, how)
           /\ UNCHANGED <<gil, mailbox, queue, coro, stream>>
  <2>1. coro' = [coro EXCEPT ![c] = Python!None]
    BY <1>4, <1>6 DEF PythonTypes
  <2>2. PICK how \in {"answered", "failed"} : Python!Answer(c, how)
    BY <1>6
  <2>3. /\ thread' = [thread EXCEPT ![t] = Python!Idle] /\ queue' = queue /\ mailbox' = mailbox
        /\ coro' = [coro EXCEPT ![thread[t][2]] = Python!None] /\ Python!Answer(thread[t][2], how)
        /\ trace' = [trace EXCEPT ![call[thread[t][2]].to] = thread[t][2]]
    BY <1>2, <1>3, <1>4, <1>6, <2>1, <2>2
  <2>4. QED
    BY <1>1, <2>3, AnswerPreserves
<1>7. QED
  BY <1>2, <1>5, <1>6 DEF Python!CallReceive

\* The result of a coroutine comes.
LEMMA ResultComesPreserves ==
  ASSUME PythonInv, NEW t \in Threads, Python!ResultComes(t) PROVE PythonInv'
<1>1. thread[t] # Python!Idle /\ thread[t][1] = "receive" /\ mailbox' = mailbox /\ trace' = trace
  BY DEF Python!ResultComes, Python!Finish
<1>2. thread' = [thread EXCEPT ![t] = Python!Idle] /\ coro' = [coro EXCEPT ![thread[t][2]] = Python!None]
  BY DEF Python!ResultComes, Python!Finish
<1>3. queue' = queue \/ queue' = Append(queue, <<"generate", thread[t][2]>>)
  BY DEF Python!ResultComes, Python!Finish, Python!Execute
<1>4. PICK how \in {"answered", "failed"} : Python!Answer(thread[t][2], how)
  BY DEF Python!ResultComes, Python!Finish
<1>5. QED
  BY <1>1, <1>2, <1>3, <1>4, AnswerPreserves

\* A coroutine has the event loop: it returns, raises, or asks and waits.
LEMMA RunCoroutinePreserves ==
  ASSUME PythonInv, NEW c \in Calls, Python!RunCoroutine(c) PROVE PythonInv'
<1> USE DEF PythonInv
<1>1. coro[c] = "ready" /\ UNCHANGED <<gil, actor, queue, thread, stream>>
  BY DEF Python!RunCoroutine
<1>2. PICK a \in Actors : a = call[c].to /\ call[c].state = "submitted"
  BY <1>1 DEF ServeInv, Python!None
<1>3. trace' = [trace EXCEPT ![a] = Python!Nobody]
  BY <1>2 DEF Python!RunCoroutine
<1>4. PICK s \in {"done", "raised", "asking"} : coro' = [coro EXCEPT ![c] = s]
  BY DEF Python!RunCoroutine
<1>5. /\ Steady /\ MailInv' /\ mailbox' \in [Actors -> Seq(Calls)]
      /\ call' \in [Calls -> [to : Actors \cup {0}, by : Calls \cup {Python!Here, Python!Elsewhere},
                      state : {"new", "asked", "submitted", "answered", "failed"}]]
  <2>1. CASE UNCHANGED <<call, mailbox>>
    BY <1>1, <2>1 DEF Steady, MailInv, PythonTypes
  <2>2. CASE \E d \in Calls, b \in Actors : Python!Deliver(d, b, c)
    <3>1. PICK d \in Calls, b \in Actors : Python!Deliver(d, b, c)
      BY <2>2
    <3>2. c \in Calls \cup {Python!Here, Python!Elsewhere} /\ actor' = actor
      BY <1>1
    <3>3. QED
      BY <3>1, <3>2, DeliverKeeps
  <2>3. QED
    BY <2>1, <2>2 DEF Python!RunCoroutine
<1>6. PythonTypes'
  <2>1. coro' \in [Calls -> {Python!None, "ready", "asking", "done", "raised"}]
    BY <1>4 DEF PythonTypes
  <2>2. trace' \in [Actors -> Calls \cup {Python!Nobody}]
    BY <1>3 DEF PythonTypes
  <2>3. QED
    BY <1>1, <1>5, <2>1, <2>2 DEF PythonTypes
<1>7. coro'[c] # "ready" /\ \A d \in Calls : d # c => coro'[d] = coro[d]
  BY <1>4 DEF PythonTypes
<1>8. \A d \in Calls : coro'[d] # Python!None => coro[d] # Python!None
  BY <1>1, <1>7 DEF Python!None
<1>9. ServeInv'
  <2>1. \A d \in Calls : coro'[d] # Python!None => call'[d].state = "submitted"
    BY <1>5, <1>8 DEF ServeInv, Steady
  <2>2. \A d \in Calls : call'[d].state = "submitted" => call'[d].to \in Actors /\ actor'[call'[d].to] = "busy"
    BY <1>1, <1>5 DEF ServeInv, Steady
  <2>3. \A d, e \in Calls :
          call'[d].state = "submitted" /\ call'[e].state = "submitted" /\ call'[d].to = call'[e].to => d = e
    BY <1>5 DEF ServeInv, Steady
  <2>4. QED
    BY <2>1, <2>2, <2>3 DEF ServeInv
<1>10. Python!TraceIsMine'
  <2> SUFFICES ASSUME NEW d \in Calls, coro'[d] = "ready" PROVE trace'[call'[d].to] = d
    BY DEF Python!TraceIsMine
  <2>1. d # c /\ coro[d] = "ready"
    BY <1>7
  <2>2. call[d].state = "submitted" /\ call[d].to \in Actors /\ trace[call[d].to] = d
    BY <2>1 DEF ServeInv, Python!TraceIsMine, Python!None
  <2>3. call[d].to # a
    BY <1>2, <2>1, <2>2 DEF ServeInv
  <2>4. call'[d] = call[d]
    BY <1>5, <2>2 DEF Steady
  <2>5. QED
    BY <1>3, <2>2, <2>3, <2>4 DEF PythonTypes
<1>11. TaskInv'
  BY <1>1, <1>5, SteadyTasks, TasksLess
<1>12. QED
  BY <1>5, <1>6, <1>9, <1>10, <1>11

\* The answer to a handler's own ask has come.
LEMMA ResumePreserves ==
  ASSUME PythonInv, NEW c \in Calls, Python!Resume(c) PROVE PythonInv'
<1> USE DEF PythonInv
<1>1. /\ coro[c] = "asking" /\ coro' = [coro EXCEPT ![c] = "done"]
      /\ UNCHANGED <<actor, mailbox, queue, thread, call, trace>>
  BY DEF Python!Resume
<1>2. coro'[c] = "done" /\ \A d \in Calls : d # c => coro'[d] = coro[d]
  BY <1>1 DEF PythonTypes
<1>3. PythonTypes'
  <2>1. coro' \in [Calls -> {Python!None, "ready", "asking", "done", "raised"}]
    BY <1>1 DEF PythonTypes
  <2>2. QED
    BY <1>1, <2>1 DEF PythonTypes
<1>4. MailInv' /\ Steady
  BY <1>1 DEF MailInv, Steady
<1>5. ServeInv'
  BY <1>1, <1>2 DEF ServeInv, Python!None
<1>6. Python!TraceIsMine'
  BY <1>1, <1>2 DEF Python!TraceIsMine
<1>7. TaskInv'
  BY <1>1, <1>4, SteadyTasks, TasksLess
<1>8. QED
  BY <1>3, <1>4, <1>5, <1>6, <1>7

\* No actor yet, and no call.
LEMMA PythonInit == Python!Init => PythonInv
<1> SUFFICES ASSUME Python!Init PROVE PythonInv
  OBVIOUS
<1>1. <<>> \in Seq(Calls) /\ <<>> \in Seq(Task) /\ Len(<<>>) = 0
  OBVIOUS
<1>2. PythonTypes
  <2>1. mailbox \in [Actors -> Seq(Calls)] /\ queue \in Seq(Task)
    BY <1>1 DEF Python!Init
  <2>2. thread \in [Threads -> Task \cup {Python!Idle}]
    BY DEF Python!Init
  <2>3. /\ actor \in [Actors -> {"unborn", "spawning", "idle", "busy", "ended"}]
        /\ coro \in [Calls -> {Python!None, "ready", "asking", "done", "raised"}]
        /\ trace \in [Actors -> Calls \cup {Python!Nobody}]
    BY DEF Python!Init
  <2>4. call \in [Calls -> [to : Actors \cup {0}, by : Calls \cup {Python!Here, Python!Elsewhere},
                      state : {"new", "asked", "submitted", "answered", "failed"}]]
    BY DEF Python!Init
  <2>5. QED
    BY <2>1, <2>2, <2>3, <2>4 DEF PythonTypes
<1>3. MailInv
  BY <1>1 DEF Python!Init, MailInv
<1>4. ServeInv /\ Python!TraceIsMine
  BY DEF Python!Init, ServeInv, Python!TraceIsMine, Python!None
<1>5. TaskInv
  BY <1>1 DEF Python!Init, TaskInv
<1>6. QED
  BY <1>2, <1>3, <1>4, <1>5 DEF PythonInv

\* Every step of the actors, the threads and the callers.
LEMMA PythonStep == ASSUME PythonInv, Python!Next \/ UNCHANGED Python!vars PROVE PythonInv'
<1>1. CASE \E a \in Actors : Python!Spawn(a) \/ Python!Stop(a) \/ Python!Receive(a)
  BY <1>1, SpawnPreserves, StopPreserves, ReceiveMailPreserves
<1>2. CASE \E c \in Calls, a \in Actors : Python!Ask(c, a)
  BY <1>2, AskPreserves
<1>3. CASE \E t \in Threads : Python!Take(t) \/ Python!Started(t) \/ Python!CallReceive(t) \/ Python!ResultComes(t)
  BY <1>3, TakeTaskPreserves, StartedPreserves, CallReceivePreserves, ResultComesPreserves
<1>4. CASE \E t \in Threads : Python!Stopped(t) \/ Python!Generate(t) \/ Python!Send(t)
  <2>1. PICK t \in Threads : Python!Stopped(t) \/ Python!Generate(t) \/ Python!Send(t)
    BY <1>4
  <2>2. /\ queue' = queue /\ UNCHANGED <<actor, mailbox, coro, call, trace>>
        /\ thread' = thread \/ thread' = [thread EXCEPT ![t] = Python!Idle]
    BY <2>1 DEF Python!Stopped, Python!Generate, Python!Send, Python!Over
  <2>3. QED
    BY <2>2, StreamsPreserve
<1>5. CASE \E c \in Calls : Python!RunCoroutine(c) \/ Python!Resume(c)
  BY <1>5, RunCoroutinePreserves, ResumePreserves
<1>6. CASE \/ \E c \in Calls : Python!Written(c) \/ Python!ReaderStep(c) \/ Python!Write(c) \/ Python!Cancel(c)
           \/ UNCHANGED Python!vars
  <2>1. UNCHANGED <<queue, thread, actor, mailbox, coro, call, trace>>
    BY <1>6
    DEF Python!Written, Python!ReaderStep, Python!Next_, Python!Pop, Python!Write,
        Python!Cancel, Python!vars
  <2>2. QED
    BY <2>1, StreamsPreserve
<1>7. QED
  BY <1>1, <1>2, <1>3, <1>4, <1>5, <1>6
  DEF Python!Next, Python!Run, Python!ThreadStep, Python!CallStep

-----------------------------------------------------------------------------
(* The benchmark                                                           *)

\* Where the aggregator stands: in phase n or after it, with k results counted.
Spot == [n : Nat, open : BOOLEAN, k : Nat]

\* What was sent in phase n.
SentIn(n, snt) == IF n \in DOMAIN snt THEN snt[n] ELSE 0

\* No more is counted than was sent.
Fits(e, snt) == e.open => e.k <= SentIn(e.n, snt)

\* What message m does to where the aggregator stands: phases start and end in
\* turn, an ended one (there are fewer than at) has all its results.
Goes(m, a, b, snt, at) ==
  \/ /\ m.type = "StartPhase" /\ ~a.open /\ m.phase = a.n + 1
     /\ b = [n |-> a.n + 1, open |-> TRUE, k |-> 0]
  \/ /\ m.type = "RequestCompleted" /\ a.open
     /\ b = [n |-> a.n, open |-> TRUE, k |-> a.k + 1]
  \/ /\ m.type = "EndPhase" /\ a.open /\ a.n < at /\ a.n \in DOMAIN snt /\ a.k = snt[a.n]
     /\ b = [n |-> a.n, open |-> FALSE, k |-> 0]
  \/ m.type = "RegisterRun" /\ ~a.open /\ a.n = 0 /\ b = a
  \/ m.type = "GetReport" /\ ~a.open /\ b = a

\* The messages q take the aggregator from spot a to spot e.
Ahead(q, a, e, snt, at) ==
  \E f \in [0 .. Len(q) -> Spot] :
    /\ f[0] = a /\ f[Len(q)] = e
    /\ \A i \in 1 .. Len(q) : Goes(q[i], f[i - 1], f[i], snt, at)
    /\ \A i \in 0 .. Len(q) : Fits(f[i], snt)

\* No message.
LEMMA AheadEmpty ==
  ASSUME NEW a \in Spot, NEW snt, NEW at, Fits(a, snt)
  PROVE  Ahead(<<>>, a, a, snt, at)
<1>1. PICK f : f = [i \in 0 .. 0 |-> a]
  OBVIOUS
<1>2. Len(<<>>) = 0
  OBVIOUS
<1>3. f \in [0 .. 0 -> Spot] /\ f[0] = a
  BY <1>1
<1>4. \A i \in 1 .. 0 : FALSE
  OBVIOUS
<1>5. \A i \in 0 .. 0 : f[i] = a
  BY <1>1
<1>6. QED
  BY <1>2, <1>3, <1>4, <1>5 DEF Ahead

\* A message is posted.
LEMMA AheadAppend ==
  ASSUME NEW S, NEW q \in Seq(S), NEW m \in S, NEW a, NEW e, NEW d \in Spot, NEW snt, NEW at,
         Ahead(q, a, e, snt, at), Goes(m, e, d, snt, at), Fits(d, snt)
  PROVE  Ahead(Append(q, m), a, d, snt, at)
<1>1. PICK f \in [0 .. Len(q) -> Spot] :
        /\ f[0] = a /\ f[Len(q)] = e
        /\ \A i \in 1 .. Len(q) : Goes(q[i], f[i - 1], f[i], snt, at)
        /\ \A i \in 0 .. Len(q) : Fits(f[i], snt)
  BY DEF Ahead
<1>2. PICK n \in Nat : n = Len(q)
  OBVIOUS
<1>3. PICK r : r = Append(q, m)
  OBVIOUS
<1>4. /\ Len(r) = n + 1 /\ r[n + 1] = m /\ \A i \in 1 .. n : r[i] = q[i]
  BY <1>2, <1>3, AppendProperties
<1>5. PICK g : g = [i \in 0 .. n + 1 |-> IF i = n + 1 THEN d ELSE f[i]]
  OBVIOUS
<1>6. g \in [0 .. n + 1 -> Spot] /\ g[n + 1] = d /\ \A i \in 0 .. n : g[i] = f[i]
  <2>1. \A i \in 0 .. n + 1 : i # n + 1 => i \in 0 .. n
    OBVIOUS
  <2>2. \A i \in 0 .. n : i # n + 1 /\ i \in 0 .. n + 1 /\ f[i] \in Spot
    BY <1>1, <1>2
  <2>3. n + 1 \in 0 .. n + 1
    OBVIOUS
  <2>4. \A i \in 0 .. n + 1 : (IF i = n + 1 THEN d ELSE f[i]) \in Spot
    BY <2>1, <2>2
  <2>5. QED
    BY <1>5, <2>2, <2>3, <2>4
<1>7. g[0] = a
  BY <1>1, <1>6
<1>8. \A i \in 1 .. n + 1 : Goes(r[i], g[i - 1], g[i], snt, at)
  <2> TAKE i \in 1 .. n + 1
  <2>1. CASE i = n + 1
    <3>1. g[i - 1] = e /\ g[i] = d /\ r[i] = m
      BY <1>1, <1>2, <1>4, <1>6, <2>1
    <3>2. QED
      BY <3>1
  <2>2. CASE i # n + 1
    <3>1. i \in 1 .. n /\ i - 1 \in 0 .. n /\ i \in 0 .. n
      BY <2>2
    <3>2. QED
      BY <1>1, <1>2, <1>4, <1>6, <3>1
  <2>3. QED
    BY <2>1, <2>2
<1>9. \A i \in 0 .. n + 1 : Fits(g[i], snt)
  <2> TAKE i \in 0 .. n + 1
  <2>1. i = n + 1 \/ i \in 0 .. n
    OBVIOUS
  <2>2. QED
    BY <1>1, <1>2, <1>6, <2>1
<1>10. Ahead(r, a, d, snt, at)
  BY <1>4, <1>6, <1>7, <1>8, <1>9 DEF Ahead
<1>11. QED
  BY <1>3, <1>10

\* A message is taken.
LEMMA AheadTail ==
  ASSUME NEW S, NEW q \in Seq(S), q # <<>>, NEW a, NEW e, NEW snt, NEW at, Ahead(q, a, e, snt, at)
  PROVE  \E d \in Spot : Goes(Head(q), a, d, snt, at) /\ Ahead(Tail(q), d, e, snt, at)
<1>1. PICK f \in [0 .. Len(q) -> Spot] :
        /\ f[0] = a /\ f[Len(q)] = e
        /\ \A i \in 1 .. Len(q) : Goes(q[i], f[i - 1], f[i], snt, at)
        /\ \A i \in 0 .. Len(q) : Fits(f[i], snt)
  BY DEF Ahead
<1>2. PICK r : r = Tail(q)
  OBVIOUS
<1>3. PICK n \in Nat : n = Len(r) /\ Len(q) = n + 1 /\ (\A i \in 1 .. n : r[i] = q[i + 1]) /\ q[1] = Head(q)
  <2>1. Tail(q) \in Seq(S) /\ Len(Tail(q)) = Len(q) - 1 /\ \A i \in 1 .. Len(Tail(q)) : Tail(q)[i] = q[i + 1]
    BY HeadTailProperties
  <2>2. Head(q) = q[1] /\ Len(q) \in Nat /\ Len(q) # 0
    BY EmptySeq, LenProperties
  <2>3. PICK k \in Nat : k = Len(q) - 1
    BY <2>2
  <2>4. Len(q) = k + 1 /\ k = Len(r)
    BY <1>2, <2>1, <2>2, <2>3
  <2>5. \A i \in 1 .. k : r[i] = q[i + 1]
    BY <1>2, <2>1, <2>4
  <2>6. QED
    BY <2>2, <2>4, <2>5
<1>4. PICK g : g = [i \in 0 .. n |-> f[i + 1]]
  OBVIOUS
<1>5. g \in [0 .. n -> Spot] /\ \A i \in 0 .. n : g[i] = f[i + 1]
  BY <1>1, <1>3, <1>4
<1>6. g[n] = e
  BY <1>1, <1>3, <1>5
<1>7. \A i \in 1 .. n : Goes(r[i], g[i - 1], g[i], snt, at)
  <2> TAKE i \in 1 .. n
  <2>1. i + 1 \in 1 .. n + 1 /\ i - 1 \in 0 .. n /\ i \in 0 .. n /\ (i - 1) + 1 = i /\ (i + 1) - 1 = i
    OBVIOUS
  <2>2. Goes(q[i + 1], f[i], f[i + 1], snt, at)
    BY <1>1, <1>3, <2>1
  <2>3. r[i] = q[i + 1] /\ g[i - 1] = f[i] /\ g[i] = f[i + 1]
    BY <1>3, <1>5, <2>1
  <2>4. QED
    BY <2>2, <2>3
<1>8. \A i \in 0 .. n : Fits(g[i], snt)
  <2> TAKE i \in 0 .. n
  <2>1. i + 1 \in 0 .. n + 1
    OBVIOUS
  <2>2. QED
    BY <1>1, <1>3, <1>5, <2>1
<1>9. Ahead(r, g[0], e, snt, at)
  BY <1>3, <1>5, <1>6, <1>7, <1>8 DEF Ahead
<1>10. g[0] \in Spot /\ Goes(Head(q), a, g[0], snt, at)
  <2>1. 1 \in 1 .. n + 1 /\ 1 - 1 = 0 /\ 0 \in 0 .. n /\ 0 + 1 = 1
    OBVIOUS
  <2>2. Goes(q[1], f[0], f[1], snt, at)
    BY <1>1, <1>3, <2>1
  <2>3. g[0] = f[1]
    BY <1>5, <2>1
  <2>4. QED
    BY <1>1, <1>3, <1>5, <2>1, <2>2, <2>3
<1>11. QED
  BY <1>2, <1>9, <1>10

\* More is sent in phase at or a later one.
LEMMA AheadMore ==
  ASSUME NEW S, NEW q \in Seq(S), NEW a, NEW e, NEW snt, NEW new, NEW at \in Nat, NEW later \in Nat, at <= later,
         Ahead(q, a, e, snt, at),
         \A n \in Nat : n < at /\ n \in DOMAIN snt => n \in DOMAIN new /\ new[n] = snt[n],
         \A n \in Nat : SentIn(n, snt) \in Nat /\ SentIn(n, new) \in Nat /\ SentIn(n, snt) <= SentIn(n, new)
  PROVE  Ahead(q, a, e, new, later)
<1>1. PICK f \in [0 .. Len(q) -> Spot] :
        /\ f[0] = a /\ f[Len(q)] = e
        /\ \A i \in 1 .. Len(q) : Goes(q[i], f[i - 1], f[i], snt, at)
        /\ \A i \in 0 .. Len(q) : Fits(f[i], snt)
  BY DEF Ahead
<1>2. ASSUME NEW i \in 1 .. Len(q) PROVE Goes(q[i], f[i - 1], f[i], new, later)
  <2>1. PICK b, d, m : b = f[i - 1] /\ d = f[i] /\ m = q[i]
    OBVIOUS
  <2>2. Goes(m, b, d, snt, at)
    BY <1>1, <2>1
  <2>3. CASE m.type = "EndPhase"
    <3>1. b.n < at /\ b.n \in DOMAIN snt /\ b.k = snt[b.n] /\ b.open /\ d = [n |-> b.n, open |-> FALSE, k |-> 0]
      BY <2>2, <2>3 DEF Goes
    <3>2. b.n \in Nat
      <4>1. Len(q) \in Nat
        OBVIOUS
      <4>2. i - 1 \in 0 .. Len(q)
        BY <4>1
      <4>3. f[i - 1] \in Spot
        BY <4>2
      <4>4. QED
        BY <2>1, <4>3 DEF Spot
    <3>3. QED
      BY <2>1, <2>3, <3>1, <3>2 DEF Goes
  <2>4. CASE m.type # "EndPhase"
    BY <2>1, <2>2, <2>4 DEF Goes
  <2>5. QED
    BY <2>3, <2>4
<1>3. ASSUME NEW i \in 0 .. Len(q) PROVE Fits(f[i], new)
  <2>1. PICK d \in Spot : d = f[i] /\ Fits(d, snt)
    BY <1>1
  <2>2. d.n \in Nat /\ d.k \in Nat
    BY DEF Spot
  <2>3. d.open => d.k <= SentIn(d.n, new)
    BY <2>1, <2>2 DEF Fits
  <2>4. QED
    BY <2>1, <2>3 DEF Fits
<1>4. QED
  BY <1>1, <1>2, <1>3 DEF Ahead

\* The types of the state.
PhaseSet == [type : {"vus", "rate"}, vus : Benchmark!Tasks \cup {0}]
Stats == [phase : Nat, successful : Nat, failed : Nat]
Notes ==
  [type : {"StartBenchmark"}, run : Runs, kind : Kinds]
  \cup [type : {"StopBenchmark", "GetReport"}, run : Runs]
  \cup [type : {"RegisterRun"}, run : Runs \cup {Benchmark!NoRun}]
  \cup [type : {"ConfigureScheduler"}, phase : PhaseSet] \cup [type : {"StartPhase"}, phase : Nat]
  \cup [type : {"StartScheduling", "EndPhase"}] \cup [type : {"GetReport"}, for : Runs \cup {Benchmark!NoRun}]
  \cup [type : {"SendRequest"}, task : Benchmark!Tasks] \cup [type : {"RequestCompleted"}, success : BOOLEAN]

Coordinators ==
  [step : {"idle", "spawn", "phase", "scheduling", "scheduled", "fetching", "fetched", "forwarding"},
   state : {"Idle", "Running"}, run : Runs \cup {Benchmark!NoRun}, todo : Seq(PhaseSet), at : Nat,
   refs : {coord.refs}, final_report : {coord.final_report}]

Schedulers ==
  [step : {"idle", "vus", "join", "rate", "drain"}, config : PhaseSet \cup {Benchmark!NoPhase},
   is_active : BOOLEAN, elapsed : BOOLEAN, sent : Nat, active_vus : Int]

BenchTypes ==
  /\ inbox \in [Benchmark!Boxes -> Seq(Notes)]
  /\ coord \in Coordinators /\ sched \in Schedulers
  /\ task \in [Benchmark!Tasks -> {"none", "ask", "waiting", "answered", "done"}]
  /\ worker \in [Benchmark!Workers -> [task : Benchmark!Tasks \cup {0}, step : {"idle", "executing", "replying"}]]
  /\ metrics \in [run : {metrics.run}, current : Stats, completed : Seq(Stats)]
  /\ sent \in Seq(Nat)

\* What is asked of the coordinator.
Requested ==
  \A i \in 1 .. Len(inbox["coordinator"]) :
    LET m == inbox["coordinator"][i]
    IN  /\ m.type \in {"StartBenchmark", "GetReport"} => m.run \in Runs
        /\ m.type = "StartBenchmark" => m.kind \in Kinds

\* The coordinator and the scheduler take turns.
Flow ==
  /\ coord.step = "spawn" => coord.at = 1 /\ sent = <<>>
  /\ coord.step = "phase" => coord.at \in 1 .. Len(coord.todo) + 1 /\ Len(sent) = coord.at - 1
  /\ coord.step \in {"scheduling", "scheduled"} => coord.at \in 1 .. Len(coord.todo)
  /\ coord.step = "scheduled" => Len(sent) = coord.at
  /\ coord.step \in {"fetching", "fetched"} =>
       coord.at = Len(coord.todo) + 1 /\ Len(sent) = coord.at - 1
  /\ coord.step # "scheduling" => sched.step = "idle" /\ inbox["scheduler"] = <<>>
  /\ coord.step = "scheduling" =>
       \/ /\ sched.step = "idle" /\ Len(sent) = coord.at - 1
          /\ inbox["scheduler"] = <<[type |-> "ConfigureScheduler", phase |-> coord.todo[coord.at]],
                                    [type |-> "StartScheduling"]>>
       \/ /\ sched.step = "idle" /\ Len(sent) = coord.at - 1 /\ sched.config \in PhaseSet
          /\ inbox["scheduler"] = <<[type |-> "StartScheduling"]>>
       \/ /\ sched.step # "idle" /\ Len(sent) = coord.at /\ sched.config \in PhaseSet
          /\ inbox["scheduler"] = <<>>

\* The aggregator of a run whose phases have not begun, and of no run.
Fresh ==
  /\ coord.step \in {"idle", "spawn", "forwarding"} =>
       /\ metrics.completed = <<>> /\ metrics.current = Benchmark!NoStats
       /\ \A i \in 1 .. Len(inbox["metrics"]) : inbox["metrics"][i].type \in {"RegisterRun", "GetReport"}
  /\ coord.state = "Idle" => coord.step = "idle" /\ coord.refs = {} /\ inbox["metrics"] = <<>>

\* A report is asked for last, and the coordinator waits for it.
Replies ==
  \A i \in 1 .. Len(inbox["metrics"]) : inbox["metrics"][i].type = "GetReport" =>
    /\ i = Len(inbox["metrics"])
    /\ coord.step = IF inbox["metrics"][i].for = Benchmark!NoRun THEN "fetching" ELSE "forwarding"

\* A request that waits is with one worker, or in its mailbox once.
Placed ==
  /\ \A w \in Benchmark!Workers : \A i \in 1 .. Len(inbox[w]) :
       /\ inbox[w][i].type = "SendRequest"
       /\ inbox[w][i].task \in Benchmark!Tasks /\ task[inbox[w][i].task] = "waiting"
       /\ \A v \in Benchmark!Workers : worker[v].step # "idle" => worker[v].task # inbox[w][i].task
  /\ \A v, w \in Benchmark!Workers : \A i \in 1 .. Len(inbox[v]), j \in 1 .. Len(inbox[w]) :
       inbox[v][i].task = inbox[w][j].task => v = w /\ i = j
  /\ \A w \in Benchmark!Workers : worker[w].step # "idle" =>
       worker[w].task \in Benchmark!Tasks /\ task[worker[w].task] = "waiting"
  /\ \A v, w \in Benchmark!Workers :
       worker[v].step # "idle" /\ worker[w].step # "idle" /\ worker[v].task = worker[w].task => v = w

\* The requests whose result is not in the aggregator's mailbox yet.
Replied(t) == \E w \in Benchmark!Workers : worker[w].step = "replying" /\ worker[w].task = t
Unreported == {t \in Benchmark!Tasks : task[t] = "ask" \/ (task[t] = "waiting" /\ ~Replied(t))}
Unfinished == {t \in Benchmark!Tasks : task[t] # "none"}

\* An idle scheduler has no task, and the gauge of a phase of constant rate counts them.
Gauge ==
  /\ sched.step = "idle" => \A t \in Benchmark!Tasks : task[t] = "none"
  /\ sched.step \in {"rate", "drain"} => sched.active_vus = Cardinality(Unfinished)

\* Where the aggregator stands now, and where its mailbox has to take it.
Now == [n |-> IF metrics.current = Benchmark!NoStats THEN Len(metrics.completed) ELSE Len(metrics.completed) + 1,
        open |-> metrics.current # Benchmark!NoStats, k |-> Benchmark!Counted(metrics.current)]

Arrives(e) ==
  /\ coord.step \in {"idle", "spawn", "forwarding"} => e = [n |-> 0, open |-> FALSE, k |-> 0]
  /\ coord.step \in {"phase", "fetching", "fetched"} => ~e.open /\ e.n = coord.at - 1
  /\ coord.step \in {"scheduling", "scheduled"} => e.open /\ e.n = coord.at
  /\ coord.step = "scheduled" => e.k = sent[coord.at]
  /\ coord.step = "scheduling" =>
       IF sched.step = "idle" THEN e.k = 0 ELSE e.k + Cardinality(Unreported) = sent[coord.at]

Coming == \E e \in Spot : Arrives(e) /\ Ahead(inbox["metrics"], Now, e, sent, coord.at)

\* What is counted is what was sent.
Counts ==
  /\ metrics.current # Benchmark!NoStats => metrics.current.phase = Len(metrics.completed) + 1
  /\ Benchmark!CountsAll(metrics.completed)
  /\ \A i \in DOMAIN metrics.completed : i < coord.at /\ i \in DOMAIN sent
  /\ Coming

\* So does the report that the coordinator has.
Reports ==
  coord.step = "fetched" =>
    /\ Len(coord.final_report.phases) = Len(coord.todo) /\ Len(sent) = Len(coord.todo)
    /\ Benchmark!CountsAll(coord.final_report.phases)

BenchInv ==
  BenchTypes /\ Requested /\ Flow /\ Fresh /\ Replies /\ Placed /\ Gauge /\ Counts /\ Reports


\* The mailboxes are different ones.
LEMMA BoxNames ==
  /\ "coordinator" \in Benchmark!Boxes /\ "scheduler" \in Benchmark!Boxes /\ "metrics" \in Benchmark!Boxes /\ Benchmark!Workers \subseteq Benchmark!Boxes
  /\ "coordinator" \notin Benchmark!Workers /\ "scheduler" \notin Benchmark!Workers /\ "metrics" \notin Benchmark!Workers
<1>1. \A i \in 1 .. NumWorkers : i = 1 \/ i = 2 \/ i = 3
  BY BenchAssumption
<1>2. Benchmark!WorkerNames[1] = "worker-0" /\ Benchmark!WorkerNames[2] = "worker-1" /\ Benchmark!WorkerNames[3] = "worker-2"
  BY DEF Benchmark!WorkerNames
<1>3. \A w \in Benchmark!Workers : w = "worker-0" \/ w = "worker-1" \/ w = "worker-2"
  BY <1>1, <1>2 DEF Benchmark!Workers
<1>4. QED
  BY <1>3 DEF Benchmark!Boxes

\* A message is posted.
LEMMA PostTo ==
  ASSUME NEW box \in [Benchmark!Boxes -> Seq(Notes)], NEW a \in Benchmark!Boxes, NEW m \in Notes
  PROVE  /\ Benchmark!Post(box, a, m) \in [Benchmark!Boxes -> Seq(Notes)]
         /\ Benchmark!Post(box, a, m)[a] = Append(box[a], m)
         /\ \A b \in Benchmark!Boxes : b # a => Benchmark!Post(box, a, m)[b] = box[b]
<1>1. Append(box[a], m) \in Seq(Notes)
  BY AppendProperties
<1>2. QED
  BY <1>1 DEF Benchmark!Post

\* A message m for a has been posted.
Posted(box, new, a, m) ==
  /\ new \in [Benchmark!Boxes -> Seq(Notes)] /\ new[a] = Append(box[a], m)
  /\ \A b \in Benchmark!Boxes : b # a => new[b] = box[b]

\* What posting does.
LEMMA PostedTo ==
  ASSUME NEW box \in [Benchmark!Boxes -> Seq(Notes)], NEW a \in Benchmark!Boxes, NEW m \in Notes
  PROVE  Posted(box, Benchmark!Post(box, a, m), a, m)
<1>1. PICK l \in Seq(Notes) : l = Append(box[a], m)
  BY AppendProperties
<1>2. Benchmark!Post(box, a, m) = [box EXCEPT ![a] = l]
  BY <1>1 DEF Benchmark!Post
<1>3. QED
  BY <1>1, <1>2 DEF Posted

\* Two messages for s and one for t are posted.
PostedThree(box, new, s, t, x, y, z) ==
  /\ new \in [Benchmark!Boxes -> Seq(Notes)] /\ new[t] = Append(box[t], y)
  /\ new[s] = Append(Append(box[s], x), z)
  /\ \A b \in Benchmark!Boxes : b # s /\ b # t => new[b] = box[b]

\* What a mailbox is then.
LEMMA PostThree ==
  ASSUME NEW box \in [Benchmark!Boxes -> Seq(Notes)], NEW s \in Benchmark!Boxes, NEW t \in Benchmark!Boxes, s # t,
         NEW x \in Notes, NEW y \in Notes, NEW z \in Notes, NEW new,
         new = Benchmark!Post(Benchmark!Post(Benchmark!Post(box, s, x), t, y), s, z)
  PROVE  PostedThree(box, new, s, t, x, y, z)
<1>1. PICK one : one = Benchmark!Post(box, s, x)
  OBVIOUS
<1>2. /\ one \in [Benchmark!Boxes -> Seq(Notes)] /\ one[s] = Append(box[s], x)
      /\ \A b \in Benchmark!Boxes : b # s => one[b] = box[b]
  <2>1. Posted(box, Benchmark!Post(box, s, x), s, x)
    BY PostedTo
  <2>2. Posted(box, one, s, x)
    BY <1>1, <2>1
  <2>3. QED
    BY <2>2 DEF Posted
<1>3. PICK two : two = Benchmark!Post(one, t, y)
  OBVIOUS
<1>4. /\ two \in [Benchmark!Boxes -> Seq(Notes)] /\ two[t] = Append(one[t], y)
      /\ \A b \in Benchmark!Boxes : b # t => two[b] = one[b]
  <2>1. Posted(one, Benchmark!Post(one, t, y), t, y)
    BY <1>2, PostedTo
  <2>2. Posted(one, two, t, y)
    BY <1>3, <2>1
  <2>3. QED
    BY <2>2 DEF Posted
<1>5. new = Benchmark!Post(two, s, z)
  BY <1>1, <1>3
<1>6. /\ new \in [Benchmark!Boxes -> Seq(Notes)] /\ new[s] = Append(two[s], z)
      /\ \A b \in Benchmark!Boxes : b # s => new[b] = two[b]
  <2>1. Posted(two, Benchmark!Post(two, s, z), s, z)
    BY <1>4, PostedTo
  <2>2. Posted(two, new, s, z)
    BY <1>5, <2>1
  <2>3. QED
    BY <2>2 DEF Posted
<1>7. QED
  BY <1>2, <1>4, <1>6 DEF PostedThree

\* A message is taken.
LEMMA TookFrom ==
  ASSUME NEW box \in [Benchmark!Boxes -> Seq(Notes)], NEW a \in Benchmark!Boxes, box[a] # <<>>
  PROVE  /\ Benchmark!Took(box, a) \in [Benchmark!Boxes -> Seq(Notes)]
         /\ Benchmark!Took(box, a)[a] = Tail(box[a])
         /\ \A b \in Benchmark!Boxes : b # a => Benchmark!Took(box, a)[b] = box[b]
<1>1. Tail(box[a]) \in Seq(Notes)
  BY HeadTailProperties
<1>2. QED
  BY <1>1 DEF Benchmark!Took

\* The entries of a sequence with one more at its end.
LEMMA Appended ==
  ASSUME NEW S, NEW q \in Seq(S), NEW m \in S
  PROVE  /\ Append(q, m) \in Seq(S) /\ Len(Append(q, m)) = Len(q) + 1 /\ Len(q) \in Nat
         /\ Append(q, m)[Len(q) + 1] = m
         /\ \A i \in 1 .. Len(q) : Append(q, m)[i] = q[i]
  BY AppendProperties, LenProperties

\* The entries of a sequence without the first.
LEMMA Behead ==
  ASSUME NEW S, NEW q \in Seq(S), q # <<>>
  PROVE  /\ Tail(q) \in Seq(S) /\ Len(q) \in Nat /\ Len(q) > 0 /\ Len(Tail(q)) = Len(q) - 1
         /\ Head(q) = q[1] /\ Head(q) \in S
         /\ \A i \in 1 .. Len(q) - 1 : Tail(q)[i] = q[i + 1]
<1>1. Tail(q) \in Seq(S) /\ Len(Tail(q)) = Len(q) - 1 /\ Head(q) \in S
      /\ \A i \in 1 .. Len(Tail(q)) : Tail(q)[i] = q[i + 1]
  BY HeadTailProperties
<1>2. Len(q) \in Nat /\ Len(q) # 0
  BY EmptySeq, LenProperties
<1>3. Head(q) = q[1]
  OBVIOUS
<1>4. QED
  BY <1>1, <1>2, <1>3

\* The steps that leave the aggregator, the coordinator, the scheduler's step and the
\* requests alone leave what is counted alone.
LEMMA CountsKept ==
  ASSUME Counts, UNCHANGED <<coord, metrics, sent>>, inbox'["metrics"] = inbox["metrics"],
         sched'.step = sched.step, Unreported' = Unreported
  PROVE  Counts'
<1>1. Now' = Now
  BY DEF Now
<1>2. \A e \in Spot : Arrives(e) => Arrives(e)'
  BY DEF Arrives
<1>3. Coming'
  BY <1>1, <1>2 DEF Coming, Counts
<1>4. QED
  BY <1>3 DEF Counts, Benchmark!CountsAll, Benchmark!Sent

\* The same of the report.
LEMMA ReportsKept ==
  ASSUME Reports, UNCHANGED <<coord, sent>> PROVE Reports'
  BY DEF Reports, Benchmark!CountsAll, Benchmark!Sent

\* The steps that leave workers and requests alone leave them where they are.
LEMMA PlacedKept ==
  ASSUME Placed, UNCHANGED <<task, worker>>, \A w \in Benchmark!Workers : inbox'[w] = inbox[w]
  PROVE  Placed' /\ Unreported' = Unreported /\ Unfinished' = Unfinished
<1>1. /\ \A w \in Benchmark!Workers : \A i \in 1 .. Len(inbox'[w]) :
           /\ inbox'[w][i].type = "SendRequest"
           /\ inbox'[w][i].task \in Benchmark!Tasks /\ task'[inbox'[w][i].task] = "waiting"
           /\ \A v \in Benchmark!Workers : worker'[v].step # "idle" => worker'[v].task # inbox'[w][i].task
      /\ \A v, w \in Benchmark!Workers : \A i \in 1 .. Len(inbox'[v]), j \in 1 .. Len(inbox'[w]) :
           inbox'[v][i].task = inbox'[w][j].task => v = w /\ i = j
  <2>1. ASSUME NEW w \in Benchmark!Workers, NEW i \in 1 .. Len(inbox'[w])
        PROVE  /\ inbox'[w][i].type = "SendRequest"
               /\ inbox'[w][i].task \in Benchmark!Tasks /\ task'[inbox'[w][i].task] = "waiting"
               /\ \A v \in Benchmark!Workers : worker'[v].step # "idle" => worker'[v].task # inbox'[w][i].task
    BY DEF Placed
  <2>2. ASSUME NEW v \in Benchmark!Workers, NEW w \in Benchmark!Workers,
               NEW i \in 1 .. Len(inbox'[v]), NEW j \in 1 .. Len(inbox'[w]), inbox'[v][i].task = inbox'[w][j].task
        PROVE  v = w /\ i = j
    <3>1. \A y, z \in Benchmark!Workers : \A k \in 1 .. Len(inbox[y]), l \in 1 .. Len(inbox[z]) :
            inbox[y][k].task = inbox[z][l].task => y = z /\ k = l
      BY DEF Placed
    <3>2. inbox'[v] = inbox[v] /\ inbox'[w] = inbox[w]
      OBVIOUS
    <3>3. QED
      BY <2>2, <3>1, <3>2
  <2>3. QED
    BY <2>1, <2>2
<1>1a. Placed'
  BY <1>1 DEF Placed
<1>2. QED
  BY <1>1a DEF Unreported, Unfinished, Replied

\* A caller posts to the coordinator.
LEMMA ClientPreserves ==
  ASSUME BenchInv, NEW r \in Runs, Benchmark!Ask(r) \/ Benchmark!CtrlC(r) \/ Benchmark!AskReport(r)
  PROVE  BenchInv'
<1> USE DEF BenchInv
<1>1. UNCHANGED <<coord, sched, task, worker, metrics, sent>>
  BY DEF Benchmark!Ask, Benchmark!CtrlC, Benchmark!AskReport
<1>2. PICK m \in Notes : /\ inbox' = Benchmark!Post(inbox, "coordinator", m)
                         /\ m.type \in {"StartBenchmark", "GetReport"} => m.run \in Runs
                         /\ m.type = "StartBenchmark" => m.kind \in Kinds
  <2>1. CASE Benchmark!Ask(r)
    <3>1. PICK kind \in Kinds : inbox' = Benchmark!Post(inbox, "coordinator", [type |-> "StartBenchmark", run |-> r, kind |-> kind])
      BY <2>1 DEF Benchmark!Ask
    <3>2. [type |-> "StartBenchmark", run |-> r, kind |-> kind] \in Notes
      BY DEF Notes
    <3>3. QED
      BY <3>1, <3>2
  <2>2. CASE Benchmark!CtrlC(r)
    <3>1. inbox' = Benchmark!Post(inbox, "coordinator", [type |-> "StopBenchmark", run |-> r])
      BY <2>2 DEF Benchmark!CtrlC
    <3>2. [type |-> "StopBenchmark", run |-> r] \in Notes
      BY DEF Notes
    <3>3. QED
      BY <3>1, <3>2
  <2>3. CASE Benchmark!AskReport(r)
    <3>1. inbox' = Benchmark!Post(inbox, "coordinator", [type |-> "GetReport", run |-> r])
      BY <2>3 DEF Benchmark!AskReport
    <3>2. [type |-> "GetReport", run |-> r] \in Notes
      BY DEF Notes
    <3>3. QED
      BY <3>1, <3>2
  <2>4. QED
    BY <2>1, <2>2, <2>3
<1>3. /\ inbox' \in [Benchmark!Boxes -> Seq(Notes)] /\ inbox'["coordinator"] = Append(inbox["coordinator"], m)
      /\ inbox'["scheduler"] = inbox["scheduler"] /\ inbox'["metrics"] = inbox["metrics"]
      /\ \A w \in Benchmark!Workers : inbox'[w] = inbox[w]
  <2>1. inbox \in [Benchmark!Boxes -> Seq(Notes)] /\ "coordinator" \in Benchmark!Boxes
    BY BoxNames DEF BenchTypes
  <2>2. /\ inbox' \in [Benchmark!Boxes -> Seq(Notes)] /\ inbox'["coordinator"] = Append(inbox["coordinator"], m)
        /\ \A b \in Benchmark!Boxes : b # "coordinator" => inbox'[b] = inbox[b]
    BY <1>2, <2>1, PostTo, Zenon
  <2>3. QED
    BY <2>2, BoxNames
<1>4. BenchTypes'
  BY <1>1, <1>3 DEF BenchTypes, Coordinators, Schedulers
<1>5. Requested'
  <2>1. PICK q \in Seq(Notes) : q = inbox["coordinator"]
    BY BoxNames DEF BenchTypes
  <2>2. /\ Len(inbox'["coordinator"]) = Len(q) + 1 /\ Len(q) \in Nat /\ inbox'["coordinator"][Len(q) + 1] = m
        /\ \A i \in 1 .. Len(q) : inbox'["coordinator"][i] = q[i]
    BY <1>3, <2>1, Appended
  <2>3. \A i \in 1 .. Len(q) + 1 : i = Len(q) + 1 \/ i \in 1 .. Len(q)
    BY <2>2
  <2>4. \A i \in 1 .. Len(q) + 1 :
          /\ inbox'["coordinator"][i].type \in {"StartBenchmark", "GetReport"} => inbox'["coordinator"][i].run \in Runs
          /\ inbox'["coordinator"][i].type = "StartBenchmark" => inbox'["coordinator"][i].kind \in Kinds
    <3> TAKE i \in 1 .. Len(q) + 1
    <3>1. CASE i = Len(q) + 1
      BY <1>2, <2>2, <3>1
    <3>2. CASE i \in 1 .. Len(q)
      BY <2>1, <2>2, <3>2 DEF Requested
    <3>3. QED
      BY <2>3, <3>1, <3>2
  <2>5. QED
    BY <2>2, <2>4 DEF Requested
<1>6. Flow' /\ Fresh' /\ Replies'
  BY <1>1, <1>3 DEF Flow, Fresh, Replies
<1>7. Placed' /\ Unreported' = Unreported /\ Unfinished' = Unfinished
  BY <1>1, <1>3, PlacedKept
<1>8. Gauge'
  BY <1>1, <1>7 DEF Gauge
<1>9. Counts' /\ Reports'
  BY <1>1, <1>3, <1>7, CountsKept, ReportsKept
<1>10. QED
  BY <1>4, <1>5, <1>6, <1>7, <1>8, <1>9

\* The coordinator takes a message.
LEMMA RequestTaken ==
  ASSUME BenchTypes, Requested, NEW a, Benchmark!Idle(a)
  PROVE  /\ coord.step = "idle" /\ Benchmark!Asked.type = a
         /\ Benchmark!Took(inbox, "coordinator") \in [Benchmark!Boxes -> Seq(Notes)]
         /\ Benchmark!Took(inbox, "coordinator")["coordinator"] = Tail(inbox["coordinator"])
         /\ \A b \in Benchmark!Boxes : b # "coordinator" => Benchmark!Took(inbox, "coordinator")[b] = inbox[b]
         /\ a \in {"StartBenchmark", "GetReport"} => Benchmark!Asked.run \in Runs
         /\ a = "StartBenchmark" => Benchmark!Asked.kind \in Kinds
         /\ \A box : box["coordinator"] = Tail(inbox["coordinator"]) =>
              \A i \in 1 .. Len(box["coordinator"]) :
                LET m == box["coordinator"][i]
                IN  /\ m.type \in {"StartBenchmark", "GetReport"} => m.run \in Runs
                    /\ m.type = "StartBenchmark" => m.kind \in Kinds
<1>1. coord.step = "idle" /\ inbox["coordinator"] # <<>> /\ Benchmark!Asked.type = a
  BY DEF Benchmark!Idle, Benchmark!Gets, Benchmark!Asked
<1>2. PICK q \in Seq(Notes) : q = inbox["coordinator"] /\ q # <<>>
  BY <1>1, BoxNames DEF BenchTypes
<1>3. /\ Len(q) \in Nat /\ Len(q) > 0 /\ Len(Tail(q)) = Len(q) - 1 /\ Head(q) = q[1]
      /\ \A i \in 1 .. Len(q) - 1 : Tail(q)[i] = q[i + 1]
  BY <1>2, Behead
<1>4. \A i \in 1 .. Len(q) : /\ q[i].type \in {"StartBenchmark", "GetReport"} => q[i].run \in Runs
                             /\ q[i].type = "StartBenchmark" => q[i].kind \in Kinds
  BY <1>2 DEF Requested
<1>5. Benchmark!Asked = q[1] /\ 1 \in 1 .. Len(q)
  BY <1>2, <1>3 DEF Benchmark!Asked
<1>6. \A i \in 1 .. Len(q) - 1 : i + 1 \in 1 .. Len(q)
  BY <1>3
<1>7. \A i \in 1 .. Len(Tail(q)) :
        /\ Tail(q)[i].type \in {"StartBenchmark", "GetReport"} => Tail(q)[i].run \in Runs
        /\ Tail(q)[i].type = "StartBenchmark" => Tail(q)[i].kind \in Kinds
  BY <1>3, <1>4, <1>6
<1>8. inbox \in [Benchmark!Boxes -> Seq(Notes)] /\ "coordinator" \in Benchmark!Boxes
  BY BoxNames DEF BenchTypes
<1>9. QED
  BY <1>1, <1>2, <1>4, <1>5, <1>7, <1>8, TookFrom

\* An empty aggregator with nothing in its mailbox.
LEMMA Emptied ==
  ASSUME \/ metrics' = [run |-> Benchmark!NoRun, current |-> Benchmark!NoStats, completed |-> <<>>]
         \/ metrics' = metrics /\ metrics.completed = <<>> /\ metrics.current = Benchmark!NoStats,
         inbox'["metrics"] = <<>>, coord'.step \in {"idle", "spawn"}
  PROVE  Counts'
<1>1. metrics'.completed = <<>> /\ metrics'.current = Benchmark!NoStats
  OBVIOUS
<1>2. Benchmark!NoStats.successful = 0 /\ Benchmark!NoStats.failed = 0
  BY DEF Benchmark!NoStats
<1>3. PICK e : e = [n |-> 0, open |-> FALSE, k |-> 0]
  OBVIOUS
<1>4. Now' = e
  <2>1. Benchmark!Counted(metrics'.current) = 0
    BY <1>1, <1>2 DEF Benchmark!Counted
  <2>2. Len(metrics'.completed) = 0
    BY <1>1
  <2>3. QED
    BY <1>1, <1>3, <2>1, <2>2 DEF Now, Benchmark!Counted
<1>5. e \in Spot /\ Fits(e, sent')
  BY <1>3 DEF Spot, Fits
<1>6. Arrives(e)'
  BY <1>3 DEF Arrives
<1>7. Ahead(<<>>, e, e, sent', coord'.at)
  BY <1>5, AheadEmpty
<1>8. Coming'
  BY <1>4, <1>5, <1>6, <1>7 DEF Coming
<1>9. \A i \in DOMAIN metrics'.completed : FALSE
  BY <1>1
<1>10. QED
  BY <1>1, <1>8, <1>9 DEF Counts, Benchmark!CountsAll

\* Every phase of a benchmark has its type and a number of users that there are tasks for.
LEMMA PhasesType == \A kind : Benchmark!generate_phases(kind) \in Seq(PhaseSet)
<1> TAKE kind
<1>1. /\ \A x \in 0 .. MaxVus + 1 : Benchmark!Phase("vus", x) \in PhaseSet
      /\ Benchmark!Phase("vus", MaxVus) \in PhaseSet /\ Benchmark!Phase("rate", MaxVus) \in PhaseSet
  <2>1. MaxVus \in Benchmark!Tasks \cup {0} /\ 0 .. MaxVus + 1 \subseteq Benchmark!Tasks \cup {0}
    BY BenchAssumption DEF Benchmark!Tasks
  <2>2. QED
    BY <2>1 DEF Benchmark!Phase, PhaseSet
<1>2. PICK one : one = <<Benchmark!Phase("vus", MaxVus)>> /\ one \in Seq(PhaseSet)
  <2>1. PICK x \in PhaseSet : x = Benchmark!Phase("vus", MaxVus)
    BY <1>1
  <2>2. <<x>> \in Seq(PhaseSet)
    OBVIOUS
  <2>3. QED
    BY <2>1, <2>2
<1>3. PICK rates : rates = [i \in 1 .. NumRates |-> Benchmark!Phase("rate", MaxVus)] /\ rates \in Seq(PhaseSet)
  <2>1. NumRates \in Nat
    BY BenchAssumption
  <2>2. \A i \in 1 .. NumRates : Benchmark!Phase("rate", MaxVus) \in PhaseSet
    BY <1>1
  <2>3. [i \in 1 .. NumRates |-> Benchmark!Phase("rate", MaxVus)] \in Seq(PhaseSet)
    BY <2>1, <2>2
  <2>4. QED
    BY <2>3
<1>4. PICK levels \in Seq(0 .. MaxVus + 1) : levels = Benchmark!generate_concurrency_levels(MaxVus)
  BY BenchAssumption
<1>5. PICK users : users = [i \in DOMAIN levels |-> Benchmark!Phase("vus", levels[i])] /\ users \in Seq(PhaseSet)
  <2>1. DOMAIN levels = 1 .. Len(levels) /\ Len(levels) \in Nat
    BY LenProperties
  <2>2. \A i \in 1 .. Len(levels) : levels[i] \in 0 .. MaxVus + 1
    BY ElementOfSeq
  <2>3. \A i \in 1 .. Len(levels) : Benchmark!Phase("vus", levels[i]) \in PhaseSet
    BY <1>1, <2>2
  <2>4. [i \in 1 .. Len(levels) |-> Benchmark!Phase("vus", levels[i])] \in Seq(PhaseSet)
    BY <2>1, <2>3
  <2>5. QED
    BY <2>1, <2>4
<1>6. CASE kind = "sweep"
  <2>1. Benchmark!generate_phases(kind) = one \o rates
    BY <1>2, <1>3, <1>6 DEF Benchmark!generate_phases
  <2>2. QED
    BY <1>2, <1>3, <2>1, ConcatProperties
<1>7. CASE kind = "rate"
  <2>1. Benchmark!generate_phases(kind) = rates
    BY <1>3, <1>7 DEF Benchmark!generate_phases
  <2>2. QED
    BY <1>3, <2>1
<1>8. CASE kind = "csweep"
  <2>1. Benchmark!generate_phases(kind) = users
    BY <1>4, <1>5, <1>8 DEF Benchmark!generate_phases
  <2>2. QED
    BY <1>5, <2>1
<1>9. CASE kind # "sweep" /\ kind # "rate" /\ kind # "csweep"
  <2>1. Benchmark!generate_phases(kind) = one
    BY <1>2, <1>9 DEF Benchmark!generate_phases
  <2>2. QED
    BY <1>2, <2>1
<1>10. QED
  BY <1>6, <1>7, <1>8, <1>9

\* A run begins, or is refused.
LEMMA StartPreserves == ASSUME BenchInv, Benchmark!start_benchmark PROVE BenchInv'
<1> USE DEF BenchInv
<1>1. /\ Benchmark!Idle("StartBenchmark") /\ inbox' = Benchmark!Took(inbox, "coordinator")
      /\ UNCHANGED <<sched, task, worker, metrics>>
  BY DEF Benchmark!start_benchmark
<1>2. /\ coord.step = "idle" /\ inbox' \in [Benchmark!Boxes -> Seq(Notes)] /\ Requested'
      /\ inbox'["scheduler"] = inbox["scheduler"] /\ inbox'["metrics"] = inbox["metrics"]
      /\ \A w \in Benchmark!Workers : inbox'[w] = inbox[w]
      /\ Benchmark!Asked.run \in Runs /\ Benchmark!Asked.kind \in Kinds
  BY <1>1, RequestTaken, BoxNames DEF Requested
<1>3. Placed' /\ Unreported' = Unreported /\ Unfinished' = Unfinished
  BY <1>1, <1>2, PlacedKept
<1>4. Gauge'
  BY <1>1, <1>3 DEF Gauge
<1>5. CASE coord.state # "Idle"
  <2>1. UNCHANGED <<coord, sent>>
    BY <1>5 DEF Benchmark!start_benchmark
  <2>2. BenchTypes'
    BY <1>1, <1>2, <2>1 DEF BenchTypes, Coordinators, Schedulers
  <2>3. Flow' /\ Fresh' /\ Replies'
    BY <1>1, <1>2, <2>1 DEF Flow, Fresh, Replies
  <2>4. Counts' /\ Reports'
    BY <1>1, <1>2, <1>3, <2>1, CountsKept, ReportsKept
  <2>5. QED
    BY <1>2, <1>3, <1>4, <2>2, <2>3, <2>4
<1>6. CASE coord.state = "Idle"
  <2>1. PICK phases : phases = <<Benchmark!Warmup>> \o Benchmark!generate_phases(Benchmark!Asked.kind)
    OBVIOUS
  <2>2. phases \in Seq(PhaseSet)
    <3>1. Benchmark!Warmup \in PhaseSet
      BY BenchAssumption DEF Benchmark!Warmup, Benchmark!Phase, PhaseSet, Benchmark!Tasks
    <3>2. Benchmark!generate_phases(Benchmark!Asked.kind) \in Seq(PhaseSet)
      BY PhasesType
    <3>3. <<Benchmark!Warmup>> \in Seq(PhaseSet)
      BY <3>1
    <3>4. QED
      BY <2>1, <3>2, <3>3, ConcatProperties
  <2>3. /\ coord' = [coord EXCEPT !.step = "spawn", !.state = "Running", !.run = Benchmark!Asked.run,
                           !.todo = phases, !.at = 1]
        /\ sent' = <<>>
    BY <1>6, <2>1 DEF Benchmark!start_benchmark
  <2>4. /\ coord'.step = "spawn" /\ coord'.state = "Running" /\ coord'.at = 1
        /\ coord' \in Coordinators'
    BY <1>2, <2>2, <2>3 DEF BenchTypes, Coordinators
  <2>5. metrics.completed = <<>> /\ metrics.current = Benchmark!NoStats /\ inbox'["metrics"] = <<>>
    BY <1>2, <1>6 DEF Fresh
  <2>6. BenchTypes'
    BY <1>1, <1>2, <2>3, <2>4 DEF BenchTypes, Schedulers
  <2>7. Flow' /\ Reports'
    BY <1>1, <1>2, <2>3, <2>4 DEF Flow, Reports
  <2>8. Fresh' /\ Replies'
    BY <1>1, <2>4, <2>5 DEF Fresh, Replies
  <2>9. Counts'
    BY <1>1, <2>4, <2>5, Emptied
  <2>10. QED
    BY <1>2, <1>3, <1>4, <2>6, <2>7, <2>8, <2>9
<1>7. QED
  BY <1>5, <1>6

\* Nobody waits for a report of the aggregator.
NoneWaits == \A i \in 1 .. Len(inbox["metrics"]) : inbox["metrics"][i].type # "GetReport"

\* Only a coordinator that awaits a report has asked for one.
LEMMA NobodyWaits ==
  ASSUME Replies, coord.step \notin {"fetching", "forwarding"} PROVE NoneWaits
  BY DEF Replies, NoneWaits

\* A message is posted to the aggregator.
LEMMA NotePosted ==
  ASSUME BenchTypes, NEW m \in Notes, NEW q, q = Append(inbox["metrics"], m),
         NEW e, NEW d \in Spot, NEW at, Ahead(inbox["metrics"], Now, e, sent, at),
         Goes(m, e, d, sent, at), Fits(d, sent)
  PROVE  Ahead(q, Now, d, sent, at)
<1>1. inbox["metrics"] \in Seq(Notes)
  BY BoxNames DEF BenchTypes
<1>2. QED
  BY <1>1, AheadAppend

\* What is in a mailbox after a message is posted.
LEMMA InPosted ==
  ASSUME BenchTypes, NEW m \in Notes, NEW q, q = Append(inbox["metrics"], m)
  PROVE  /\ Len(q) = Len(inbox["metrics"]) + 1 /\ Len(q) \in Nat /\ q \in Seq(Notes)
         /\ \A i \in 1 .. Len(q) : \/ i = Len(q) /\ q[i] = m
                                   \/ i \in 1 .. Len(inbox["metrics"]) /\ q[i] = inbox["metrics"][i]
<1>1. PICK p \in Seq(Notes) : p = inbox["metrics"]
  BY BoxNames DEF BenchTypes
<1>2. /\ q \in Seq(Notes) /\ Len(q) = Len(p) + 1 /\ Len(p) \in Nat /\ q[Len(p) + 1] = m
      /\ \A i \in 1 .. Len(p) : q[i] = p[i]
  BY <1>1, Appended
<1>3. \A i \in 1 .. Len(p) + 1 : i = Len(p) + 1 \/ i \in 1 .. Len(p)
  BY <1>2
<1>4. QED
  BY <1>1, <1>2, <1>3

\* What was sent is a number, in every phase.
LEMMA SentType == ASSUME NEW snt \in Seq(Nat) PROVE \A n : SentIn(n, snt) \in Nat
  BY LenProperties DEF SentIn

\* The next actor is spawned, or the run fails.
LEMMA SpawnNextPreserves == ASSUME BenchInv, Benchmark!SpawnNext PROVE BenchInv'
<1> USE DEF BenchInv
<1>1. coord.step = "spawn" /\ coord.state = "Running" /\ UNCHANGED <<sched, task, worker, metrics, sent>>
  BY DEF Benchmark!SpawnNext, Fresh, BenchTypes, Coordinators
<1>2. PICK m \in Notes : m = [type |-> "RegisterRun", run |-> coord.run] /\ m.type = "RegisterRun"
  <2>1. PICK r \in Runs \cup {Benchmark!NoRun} : r = coord.run
    BY DEF BenchTypes, Coordinators
  <2>2. [type |-> "RegisterRun", run |-> r] \in Notes
    BY DEF Notes
  <2>3. PICK m : m = [type |-> "RegisterRun", run |-> r]
    OBVIOUS
  <2>4. m.type = "RegisterRun"
    BY <2>3
  <2>5. QED
    BY <2>1, <2>2, <2>3, <2>4
<1>3. PICK x, R :
        /\ x \in {"idle", "spawn", "phase"} /\ coord' = [coord EXCEPT !.refs = R, !.step = x]
        /\ inbox' = inbox \/ inbox' = Benchmark!Post(inbox, "metrics", m)
  <2>1. CASE coord' = [coord EXCEPT !.step = "idle"] /\ inbox' = inbox
    <3>1. coord' = [coord EXCEPT !.refs = coord.refs, !.step = "idle"]
      BY <2>1 DEF BenchTypes, Coordinators
    <3>2. QED
      BY <2>1, <3>1
  <2>2. CASE ~(coord' = [coord EXCEPT !.step = "idle"] /\ inbox' = inbox)
    BY <1>2, <2>2 DEF Benchmark!SpawnNext
  <2>3. QED
    BY <2>1, <2>2
<1>4. /\ coord'.step = x /\ coord'.state = "Running" /\ coord'.at = coord.at /\ coord'.todo = coord.todo
      /\ coord' \in Coordinators'
  BY <1>1, <1>3 DEF BenchTypes, Coordinators
<1>5. /\ inbox' \in [Benchmark!Boxes -> Seq(Notes)] /\ inbox'["coordinator"] = inbox["coordinator"]
      /\ inbox'["scheduler"] = inbox["scheduler"] /\ \A w \in Benchmark!Workers : inbox'[w] = inbox[w]
      /\ inbox'["metrics"] = inbox["metrics"] \/ inbox'["metrics"] = Append(inbox["metrics"], m)
  <2>1. inbox \in [Benchmark!Boxes -> Seq(Notes)] /\ "metrics" \in Benchmark!Boxes
    BY BoxNames DEF BenchTypes
  <2>2. CASE inbox' = inbox
    BY <2>1, <2>2
  <2>3. CASE inbox' = Benchmark!Post(inbox, "metrics", m)
    <3>1. /\ inbox' \in [Benchmark!Boxes -> Seq(Notes)] /\ inbox'["metrics"] = Append(inbox["metrics"], m)
          /\ \A b \in Benchmark!Boxes : b # "metrics" => inbox'[b] = inbox[b]
      BY <2>1, <2>3, PostTo, Zenon
    <3>2. QED
      BY <3>1, BoxNames
  <2>4. QED
    BY <1>3, <2>2, <2>3
<1>6. BenchTypes'
  BY <1>1, <1>4, <1>5 DEF BenchTypes, Schedulers
<1>7. Requested'
  BY <1>5 DEF Requested
<1>8. Flow' /\ Reports'
  <2>1. coord.at = 1 /\ sent = <<>> /\ Len(sent) = 0 /\ Len(coord.todo) \in Nat
    BY <1>1 DEF Flow, BenchTypes, Coordinators
  <2>2. QED
    BY <1>1, <1>3, <1>4, <1>5, <2>1 DEF Flow, Reports
<1>9. Placed' /\ Unreported' = Unreported /\ Unfinished' = Unfinished
  BY <1>1, <1>5, PlacedKept
<1>10. Gauge'
  BY <1>1, <1>9 DEF Gauge
<1>11. NoneWaits
  BY <1>1, NobodyWaits
<1>12. \A i \in 1 .. Len(inbox'["metrics"]) : inbox'["metrics"][i].type = "RegisterRun"
  <2>1. \A i \in 1 .. Len(inbox["metrics"]) : inbox["metrics"][i].type = "RegisterRun"
    BY <1>1, <1>11 DEF Fresh, NoneWaits
  <2>2. CASE inbox'["metrics"] = inbox["metrics"]
    BY <2>1, <2>2
  <2>3. CASE inbox'["metrics"] = Append(inbox["metrics"], m)
    BY <1>2, <2>1, <2>3, InPosted
  <2>4. QED
    BY <1>5, <2>2, <2>3
<1>13. Fresh' /\ Replies'
  BY <1>1, <1>4, <1>12 DEF Fresh, Replies
<1>14. Counts'
  <2>1. PICK e \in Spot : Arrives(e) /\ Ahead(inbox["metrics"], Now, e, sent, coord.at)
    BY DEF Counts, Coming
  <2>2. e = [n |-> 0, open |-> FALSE, k |-> 0] /\ e.n = 0 /\ e.open = FALSE
    BY <1>1, <2>1 DEF Arrives
  <2>3. Goes(m, e, e, sent, coord.at) /\ Fits(e, sent)
    BY <1>2, <2>2 DEF Goes, Fits
  <2>4. Ahead(inbox'["metrics"], Now, e, sent, coord.at)
    <3>1. CASE inbox'["metrics"] = inbox["metrics"]
      BY <2>1, <3>1
    <3>2. CASE inbox'["metrics"] = Append(inbox["metrics"], m)
      BY <2>1, <2>3, <3>2, NotePosted
    <3>3. QED
      BY <1>5, <3>1, <3>2
  <2>5. Now' = Now
    BY <1>1 DEF Now
  <2>6. Arrives(e)'
    <3>1. coord.at = 1
      BY <1>1 DEF Flow
    <3>2. QED
      BY <1>3, <1>4, <2>2, <3>1 DEF Arrives
  <2>7. Coming'
    BY <1>1, <1>4, <2>4, <2>5, <2>6 DEF Coming
  <2>8. QED
    BY <1>1, <1>4, <2>7 DEF Counts, Benchmark!CountsAll, Benchmark!Sent
<1>15. QED
  BY <1>6, <1>7, <1>8, <1>9, <1>10, <1>13, <1>14

\* Two messages in an empty mailbox.
LEMMA TwoNotes == ASSUME NEW x, NEW y PROVE Append(Append(<<>>, x), y) = <<x, y>>
<1>1. PICK S : S = {x, y}
  OBVIOUS
<1>2. Append(<<>>, x) = <<x>>
  OBVIOUS
<1>3. <<x>> \in Seq(S) /\ Len(<<x>>) = 1 /\ <<x>>[1] = x
  BY <1>1
<1>4. <<x, y>> \in Seq(S) /\ Len(<<x, y>>) = 2 /\ <<x, y>>[1] = x /\ <<x, y>>[2] = y
  BY <1>1
<1>5. PICK p : p = Append(<<x>>, y)
  OBVIOUS
<1>6. p \in Seq(S) /\ Len(p) = 2 /\ p[1] = x /\ p[2] = y
  <2>1. y \in S /\ <<x>> \in Seq(S) /\ Len(<<x>>) = 1 /\ 1 \in 1 .. 1 /\ 1 + 1 = 2
    BY <1>1, <1>3
  <2>2. PICK o \in Seq(S) : o = <<x>> /\ Len(o) = 1 /\ o[1] = x
    BY <1>3
  <2>3. /\ Append(o, y) \in Seq(S) /\ Len(Append(o, y)) = Len(o) + 1
        /\ Append(o, y)[Len(o) + 1] = y /\ \A i \in 1 .. Len(o) : Append(o, y)[i] = o[i]
    BY <2>1, Appended
  <2>4. QED
    BY <1>5, <2>1, <2>2, <2>3
<1>7. \A i \in 1 .. 2 : p[i] = <<x, y>>[i]
  BY <1>4, <1>6
<1>8. p = <<x, y>>
  BY <1>4, <1>6, <1>7, SeqEqual
<1>9. QED
  BY <1>2, <1>5, <1>8

\* A phase begins.
LEMMA RunPhasePreserves == ASSUME BenchInv, Benchmark!run_phase PROVE BenchInv'
<1> USE DEF BenchInv
<1>1. /\ coord.step = "phase" /\ coord.at <= Len(coord.todo) /\ coord' = [coord EXCEPT !.step = "scheduling"]
      /\ UNCHANGED <<sched, task, worker, metrics, sent>>
  BY DEF Benchmark!run_phase
<1>2. coord.state = "Running" /\ coord.at \in 1 .. Len(coord.todo) /\ coord.todo \in Seq(PhaseSet) /\ Len(sent) = coord.at - 1
      /\ sched.step = "idle" /\ inbox["scheduler"] = <<>> /\ Len(coord.todo) \in Nat
  <2>1. coord.state = "Running" /\ coord.todo \in Seq(PhaseSet)
    BY <1>1 DEF Fresh, BenchTypes, Coordinators
  <2>2. Len(coord.todo) \in Nat
    BY <2>1, LenProperties
  <2>3. QED
    BY <1>1, <2>1, <2>2 DEF Flow
<1>3. PICK p \in PhaseSet : p = coord.todo[coord.at]
  BY <1>2, ElementOfSeq
<1>4. PICK at \in Nat : at = coord.at /\ at > 0
  BY <1>2
<1>5. PICK conf \in Notes : conf = [type |-> "ConfigureScheduler", phase |-> p]
  BY DEF Notes
<1>6. PICK go \in Notes : go = [type |-> "StartScheduling"]
  BY DEF Notes
<1>7. PICK m \in Notes : m = [type |-> "StartPhase", phase |-> at] /\ m.type = "StartPhase" /\ m.phase = at
  <2>1. [type |-> "StartPhase", phase |-> at] \in Notes
    BY DEF Notes
  <2>2. PICK m : m = [type |-> "StartPhase", phase |-> at]
    OBVIOUS
  <2>3. m.type = "StartPhase" /\ m.phase = at
    BY <2>2
  <2>4. QED
    BY <2>1, <2>2, <2>3
<1>8. inbox' = Benchmark!Post(Benchmark!Post(Benchmark!Post(inbox, "scheduler", conf), "metrics", m), "scheduler", go)
  BY <1>3, <1>4, <1>5, <1>6, <1>7 DEF Benchmark!run_phase
<1>9. /\ inbox' \in [Benchmark!Boxes -> Seq(Notes)] /\ inbox'["coordinator"] = inbox["coordinator"]
      /\ inbox'["scheduler"] = <<conf, go>> /\ \A w \in Benchmark!Workers : inbox'[w] = inbox[w]
      /\ inbox'["metrics"] = Append(inbox["metrics"], m)
  <2>1. inbox \in [Benchmark!Boxes -> Seq(Notes)] /\ "metrics" \in Benchmark!Boxes /\ "scheduler" \in Benchmark!Boxes
    BY BoxNames DEF BenchTypes
  <2>2. /\ inbox' \in [Benchmark!Boxes -> Seq(Notes)] /\ inbox'["metrics"] = Append(inbox["metrics"], m)
        /\ inbox'["scheduler"] = Append(Append(inbox["scheduler"], conf), go)
        /\ \A b \in Benchmark!Boxes : b # "scheduler" /\ b # "metrics" => inbox'[b] = inbox[b]
    <3>1. "scheduler" # "metrics"
      OBVIOUS
    <3>2. PICK s \in Benchmark!Boxes : s = "scheduler"
      BY <2>1
    <3>3. PICK t \in Benchmark!Boxes : t = "metrics"
      BY <2>1
    <3>4. inbox' = Benchmark!Post(Benchmark!Post(Benchmark!Post(inbox, s, conf), t, m), s, go) /\ s # t
      BY <1>8, <3>1, <3>2, <3>3
    <3>5. /\ inbox' \in [Benchmark!Boxes -> Seq(Notes)] /\ inbox'[t] = Append(inbox[t], m)
          /\ inbox'[s] = Append(Append(inbox[s], conf), go)
          /\ \A b \in Benchmark!Boxes : b # s /\ b # t => inbox'[b] = inbox[b]
      <4>1. PICK box \in [Benchmark!Boxes -> Seq(Notes)] : box = inbox
        BY <2>1
      <4>2. PICK three : three = Benchmark!Post(Benchmark!Post(Benchmark!Post(box, s, conf), t, m), s, go)
        OBVIOUS
      <4>3. PostedThree(box, three, s, t, conf, m, go)
        BY <3>4, <4>2, PostThree
      <4>4. inbox' = three
        BY <3>4, <4>1, <4>2
      <4>5. QED
        BY <4>1, <4>3, <4>4 DEF PostedThree
    <3>6. QED
      BY <3>2, <3>3, <3>5
  <2>3. inbox'["scheduler"] = <<conf, go>>
    BY <1>2, <2>2, TwoNotes
  <2>4. QED
    BY <2>2, <2>3, BoxNames
<1>10. /\ coord'.step = "scheduling" /\ coord'.state = "Running" /\ coord'.at = at /\ coord'.todo = coord.todo
       /\ coord' \in Coordinators'
  BY <1>1, <1>2, <1>4 DEF BenchTypes, Coordinators
<1>11. BenchTypes'
  BY <1>1, <1>9, <1>10 DEF BenchTypes, Schedulers
<1>12. Requested'
  BY <1>9 DEF Requested
<1>13. Flow' /\ Reports'
  <2>1. /\ sched'.step = "idle" /\ Len(sent') = coord'.at - 1
        /\ inbox'["scheduler"] = <<[type |-> "ConfigureScheduler", phase |-> coord'.todo[coord'.at]],
                                   [type |-> "StartScheduling"]>>
    BY <1>1, <1>2, <1>3, <1>4, <1>5, <1>6, <1>9, <1>10
  <2>2. QED
    BY <1>2, <1>4, <1>10, <2>1 DEF Flow, Reports
<1>14. Placed' /\ Unreported' = Unreported /\ Unfinished' = Unfinished
  BY <1>1, <1>9, PlacedKept
<1>15. Gauge'
  BY <1>1, <1>14 DEF Gauge
<1>16. Replies' /\ Fresh'
  <2>1. NoneWaits
    BY <1>1, NobodyWaits
  <2>2. \A i \in 1 .. Len(inbox'["metrics"]) : inbox'["metrics"][i].type # "GetReport"
    BY <1>7, <1>9, <2>1, InPosted DEF NoneWaits
  <2>3. QED
    BY <1>10, <2>2 DEF Replies, Fresh
<1>17. Counts'
  <2>1. PICK e \in Spot : Arrives(e) /\ Ahead(inbox["metrics"], Now, e, sent, coord.at)
    BY DEF Counts, Coming
  <2>2. ~e.open /\ e.n = at - 1 /\ e.n \in Nat
    BY <1>1, <1>4, <2>1 DEF Arrives, Spot
  <2>3. PICK d \in Spot : d = [n |-> at, open |-> TRUE, k |-> 0] /\ d.n = at /\ d.open = TRUE /\ d.k = 0
    <3>1. PICK d : d = [n |-> at, open |-> TRUE, k |-> 0]
      OBVIOUS
    <3>2. d \in Spot
      BY <3>1 DEF Spot
    <3>3. d.n = at /\ d.open = TRUE /\ d.k = 0
      BY <3>1
    <3>4. QED
      BY <3>1, <3>2, <3>3
  <2>4. Goes(m, e, d, sent, at)
    BY <1>7, <2>2, <2>3 DEF Goes
  <2>5. Fits(d, sent)
    BY <2>3, SentType DEF Fits, BenchTypes
  <2>6. Ahead(inbox'["metrics"], Now, d, sent, at)
    BY <1>4, <1>9, <2>1, <2>4, <2>5, NotePosted
  <2>7. Now' = Now
    BY <1>1 DEF Now
  <2>8. Arrives(d)'
    BY <1>1, <1>2, <1>10, <2>3 DEF Arrives
  <2>9. Coming'
    BY <1>1, <1>10, <2>6, <2>7, <2>8 DEF Coming
  <2>10. QED
    BY <1>1, <1>4, <1>10, <2>9 DEF Counts, Benchmark!CountsAll, Benchmark!Sent
<1>18. QED
  BY <1>11, <1>12, <1>13, <1>14, <1>15, <1>16, <1>17

\* What posting to the aggregator does to the mailboxes.
LEMMA ToMetrics ==
  ASSUME BenchTypes, NEW m \in Notes, inbox' = Benchmark!Post(inbox, "metrics", m)
  PROVE  /\ inbox' \in [Benchmark!Boxes -> Seq(Notes)] /\ inbox'["metrics"] = Append(inbox["metrics"], m)
         /\ inbox'["coordinator"] = inbox["coordinator"] /\ inbox'["scheduler"] = inbox["scheduler"]
         /\ \A w \in Benchmark!Workers : inbox'[w] = inbox[w]
<1>1. PICK box \in [Benchmark!Boxes -> Seq(Notes)] : box = inbox
  BY DEF BenchTypes
<1>2. PICK t \in Benchmark!Boxes : t = "metrics"
  BY BoxNames
<1>3. PICK new : new = Benchmark!Post(box, t, m)
  OBVIOUS
<1>4. /\ new \in [Benchmark!Boxes -> Seq(Notes)] /\ new[t] = Append(box[t], m)
      /\ \A b \in Benchmark!Boxes : b # t => new[b] = box[b]
  BY <1>3, PostTo
<1>5. new = inbox'
  BY <1>1, <1>2, <1>3
<1>6. QED
  BY <1>1, <1>2, <1>4, <1>5, BoxNames

\* A phase ends for the coordinator: all its results are in the mailbox before.
LEMMA EndPhasePreserves == ASSUME BenchInv, Benchmark!EndPhase PROVE BenchInv'
<1> USE DEF BenchInv
<1>1. /\ coord.step = "scheduled" /\ coord' = [coord EXCEPT !.step = "phase", !.at = @ + 1]
      /\ UNCHANGED <<sched, task, worker, metrics, sent>>
  BY DEF Benchmark!EndPhase
<1>2. PICK at \in Nat : at = coord.at /\ at \in 1 .. Len(coord.todo) /\ Len(sent) = at
  BY <1>1 DEF Flow, BenchTypes, Coordinators
<1>3. Len(coord.todo) \in Nat /\ sent \in Seq(Nat) /\ coord.state = "Running"
  <2>1. coord.todo \in Seq(PhaseSet) /\ sent \in Seq(Nat) /\ coord.state = "Running"
    BY <1>1 DEF BenchTypes, Coordinators, Fresh
  <2>2. QED
    BY <2>1, LenProperties
<1>4. PICK m \in Notes : m = [type |-> "EndPhase"] /\ m.type = "EndPhase"
  <2>1. [type |-> "EndPhase"] \in Notes /\ [type |-> "EndPhase"].type = "EndPhase"
    BY DEF Notes
  <2>2. QED
    BY <2>1
<1>5. inbox' = Benchmark!Post(inbox, "metrics", m)
  BY <1>4 DEF Benchmark!EndPhase
<1>6. /\ inbox' \in [Benchmark!Boxes -> Seq(Notes)] /\ inbox'["metrics"] = Append(inbox["metrics"], m)
      /\ inbox'["coordinator"] = inbox["coordinator"] /\ inbox'["scheduler"] = inbox["scheduler"]
      /\ \A w \in Benchmark!Workers : inbox'[w] = inbox[w]
  BY <1>5, ToMetrics
<1>7. /\ coord'.step = "phase" /\ coord'.state = "Running" /\ coord'.at = at + 1 /\ coord'.todo = coord.todo
      /\ coord' \in Coordinators'
  <2>1. PICK next \in Nat : next = at + 1
    OBVIOUS
  <2>2. coord' = [coord EXCEPT !.step = "phase", !.at = next]
    BY <1>1, <1>2, <2>1
  <2>3. /\ coord'.step = "phase" /\ coord'.state = "Running" /\ coord'.at = next /\ coord'.todo = coord.todo
        /\ coord' \in Coordinators'
    BY <1>3, <2>2 DEF BenchTypes, Coordinators
  <2>4. QED
    BY <2>1, <2>3
<1>8. BenchTypes'
  BY <1>1, <1>6, <1>7 DEF BenchTypes, Schedulers
<1>9. Requested'
  BY <1>6 DEF Requested
<1>10. Flow' /\ Reports'
  <2>1. sched'.step = "idle" /\ inbox'["scheduler"] = <<>>
    BY <1>1, <1>6 DEF Flow
  <2>2. coord'.at \in 1 .. Len(coord'.todo) + 1 /\ Len(sent') = coord'.at - 1
    BY <1>1, <1>2, <1>3, <1>7
  <2>3. QED
    BY <1>7, <2>1, <2>2 DEF Flow, Reports
<1>11. Placed' /\ Unreported' = Unreported /\ Unfinished' = Unfinished
  BY <1>1, <1>6, PlacedKept
<1>12. Gauge'
  BY <1>1, <1>11 DEF Gauge
<1>13. Replies' /\ Fresh'
  <2>1. NoneWaits
    BY <1>1, NobodyWaits
  <2>2. \A i \in 1 .. Len(inbox'["metrics"]) : inbox'["metrics"][i].type # "GetReport"
    BY <1>4, <1>6, <2>1, InPosted DEF NoneWaits
  <2>3. QED
    BY <1>7, <2>2 DEF Replies, Fresh
<1>14. Counts'
  <2>1. PICK e \in Spot : Arrives(e) /\ Ahead(inbox["metrics"], Now, e, sent, at)
    BY <1>2 DEF Counts, Coming
  <2>2. e.open /\ e.n = at /\ e.k = sent[at]
    BY <1>1, <1>2, <2>1 DEF Arrives
  <2>3. at \in DOMAIN sent /\ at < at + 1
    BY <1>2, <1>3, LenProperties
  <2>4. \A n \in Nat : SentIn(n, sent) \in Nat /\ SentIn(n, sent) <= SentIn(n, sent)
    BY <1>3, SentType
  <2>5. Ahead(inbox["metrics"], Now, e, sent, at + 1)
    <3>1. PICK q \in Seq(Notes) : q = inbox["metrics"]
      BY BoxNames DEF BenchTypes
    <3>2. PICK later \in Nat : later = at + 1 /\ at <= later
      OBVIOUS
    <3>3. Ahead(q, Now, e, sent, later)
      BY <2>1, <2>4, <3>1, <3>2, AheadMore
    <3>4. QED
      BY <3>1, <3>2, <3>3
  <2>6. PICK d \in Spot : d = [n |-> at, open |-> FALSE, k |-> 0] /\ d.n = at /\ d.open = FALSE /\ d.k = 0
    <3>1. PICK d : d = [n |-> at, open |-> FALSE, k |-> 0]
      OBVIOUS
    <3>2. d \in Spot
      BY <3>1 DEF Spot
    <3>3. d.n = at /\ d.open = FALSE /\ d.k = 0
      BY <3>1
    <3>4. QED
      BY <3>1, <3>2, <3>3
  <2>7. Goes(m, e, d, sent, at + 1)
    BY <1>4, <2>2, <2>3, <2>6 DEF Goes
  <2>8. Fits(d, sent)
    BY <2>6 DEF Fits
  <2>9. Ahead(inbox'["metrics"], Now, d, sent, at + 1)
    BY <1>6, <2>5, <2>7, <2>8, NotePosted
  <2>10. Now' = Now
    BY <1>1 DEF Now
  <2>11. Arrives(d)'
    BY <1>7, <2>6 DEF Arrives
  <2>12. Coming'
    BY <1>1, <1>7, <2>9, <2>10, <2>11 DEF Coming
  <2>13. \A i \in DOMAIN metrics'.completed : i < coord'.at /\ i \in DOMAIN sent'
    <3>1. \A i \in DOMAIN metrics.completed : i < at /\ i \in DOMAIN sent
      BY <1>2 DEF Counts
    <3>2. DOMAIN sent \subseteq Nat
      BY <1>3, LenProperties
    <3>3. \A i \in DOMAIN metrics.completed : i \in Nat /\ i < at + 1
      BY <3>1, <3>2
    <3>4. QED
      BY <1>1, <1>7, <3>1, <3>3
  <2>14. QED
    BY <1>1, <2>12, <2>13 DEF Counts, Benchmark!CountsAll, Benchmark!Sent
<1>15. QED
  BY <1>8, <1>9, <1>10, <1>11, <1>12, <1>13, <1>14

\* The phases are over, and the report is asked for.
LEMMA FetchPreserves == ASSUME BenchInv, Benchmark!FetchReport PROVE BenchInv'
<1> USE DEF BenchInv
<1>1. /\ coord.step = "phase" /\ coord.at > Len(coord.todo) /\ coord' = [coord EXCEPT !.step = "fetching"]
      /\ UNCHANGED <<sched, task, worker, metrics, sent>>
  BY DEF Benchmark!FetchReport
<1>2. Len(coord.todo) \in Nat /\ sent \in Seq(Nat) /\ coord.state = "Running"
  <2>1. coord.todo \in Seq(PhaseSet) /\ sent \in Seq(Nat) /\ coord.state = "Running"
    BY <1>1 DEF BenchTypes, Coordinators, Fresh
  <2>2. QED
    BY <2>1, LenProperties
<1>3. coord.at = Len(coord.todo) + 1 /\ Len(sent) = coord.at - 1
  BY <1>1, <1>2 DEF Flow
<1>4. PICK m \in Notes : m = [type |-> "GetReport", for |-> Benchmark!NoRun] /\ m.type = "GetReport" /\ m.for = Benchmark!NoRun
  <2>1. [type |-> "GetReport", for |-> Benchmark!NoRun] \in Notes
    BY DEF Notes
  <2>2. PICK m : m = [type |-> "GetReport", for |-> Benchmark!NoRun]
    OBVIOUS
  <2>3. m.type = "GetReport" /\ m.for = Benchmark!NoRun
    BY <2>2
  <2>4. QED
    BY <2>1, <2>2, <2>3
<1>5. inbox' = Benchmark!Post(inbox, "metrics", m)
  BY <1>4 DEF Benchmark!FetchReport
<1>6. /\ inbox' \in [Benchmark!Boxes -> Seq(Notes)] /\ inbox'["metrics"] = Append(inbox["metrics"], m)
      /\ inbox'["coordinator"] = inbox["coordinator"] /\ inbox'["scheduler"] = inbox["scheduler"]
      /\ \A w \in Benchmark!Workers : inbox'[w] = inbox[w]
  BY <1>5, ToMetrics
<1>7. /\ coord'.step = "fetching" /\ coord'.state = "Running" /\ coord'.at = coord.at /\ coord'.todo = coord.todo
      /\ coord' \in Coordinators'
  BY <1>1, <1>2 DEF BenchTypes, Coordinators
<1>8. BenchTypes'
  BY <1>1, <1>6, <1>7 DEF BenchTypes, Schedulers
<1>9. Requested'
  BY <1>6 DEF Requested
<1>10. Flow' /\ Reports'
  BY <1>1, <1>2, <1>3, <1>6, <1>7 DEF Flow, Reports
<1>11. Placed' /\ Unreported' = Unreported /\ Unfinished' = Unfinished
  BY <1>1, <1>6, PlacedKept
<1>12. Gauge'
  BY <1>1, <1>11 DEF Gauge
<1>13. Replies' /\ Fresh'
  <2>1. NoneWaits
    BY <1>1, NobodyWaits
  <2>2. \A i \in 1 .. Len(inbox'["metrics"]) :
           \/ inbox'["metrics"][i].type # "GetReport"
           \/ i = Len(inbox'["metrics"]) /\ inbox'["metrics"][i] = m
    BY <1>6, <2>1, InPosted DEF NoneWaits
  <2>3. QED
    BY <1>4, <1>7, <2>2 DEF Replies, Fresh
<1>14. Counts'
  <2>1. PICK e \in Spot : Arrives(e) /\ Ahead(inbox["metrics"], Now, e, sent, coord.at)
    BY DEF Counts, Coming
  <2>2. ~e.open /\ e.n = coord.at - 1
    BY <1>1, <2>1 DEF Arrives
  <2>3. Goes(m, e, e, sent, coord.at) /\ Fits(e, sent)
    BY <1>4, <2>2 DEF Goes, Fits
  <2>4. Ahead(inbox'["metrics"], Now, e, sent, coord.at)
    BY <1>6, <2>1, <2>3, NotePosted
  <2>5. Now' = Now
    BY <1>1 DEF Now
  <2>6. Arrives(e)'
    BY <1>7, <2>2 DEF Arrives
  <2>7. Coming'
    BY <1>1, <1>7, <2>4, <2>5, <2>6 DEF Coming
  <2>8. QED
    BY <1>1, <1>7, <2>7 DEF Counts, Benchmark!CountsAll, Benchmark!Sent
<1>15. QED
  BY <1>8, <1>9, <1>10, <1>11, <1>12, <1>13, <1>14

\* cleanup, after a run or a failed one.
LEMMA CleanupPreserves ==
  ASSUME BenchInv, Benchmark!cleanup, coord.step \in {"idle", "fetched"}, NEW c \in Seq(Notes),
         inbox' = Benchmark!FreshInbox(c), Requested', UNCHANGED <<task, worker, sent>>
  PROVE  BenchInv'
<1> USE DEF BenchInv
<1>1. /\ inbox' \in [Benchmark!Boxes -> Seq(Notes)] /\ inbox'["scheduler"] = <<>> /\ inbox'["metrics"] = <<>>
      /\ \A w \in Benchmark!Workers : inbox'[w] = <<>>
  <2>1. <<>> \in Seq(Notes)
    BY EmptySeq
  <2>2. QED
    BY <2>1, BoxNames DEF Benchmark!FreshInbox
<1>2. /\ coord' = [coord EXCEPT !.step = "idle", !.state = "Idle", !.run = Benchmark!NoRun, !.todo = <<>>,
                     !.at = 0, !.refs = {}]
      /\ sched' = [sched EXCEPT !.is_active = FALSE, !.config = Benchmark!NoPhase, !.sent = 0]
      /\ metrics' = [run |-> Benchmark!NoRun, current |-> Benchmark!NoStats, completed |-> <<>>]
  BY DEF Benchmark!cleanup
<1>3. coord'.step = "idle" /\ coord'.refs = {} /\ coord' \in Coordinators'
  <2>1. <<>> \in Seq(PhaseSet)
    BY EmptySeq
  <2>2. QED
    BY <1>2, <2>1 DEF BenchTypes, Coordinators
<1>4. sched' \in Schedulers' /\ sched'.step = sched.step
  BY <1>2 DEF BenchTypes, Schedulers
<1>5. metrics'.completed = <<>> /\ metrics'.current = Benchmark!NoStats
      /\ metrics' \in [run : {metrics'.run}, current : Stats, completed : Seq(Stats)]
  <2>1. <<>> \in Seq(Stats) /\ Benchmark!NoStats \in Stats
    BY EmptySeq DEF Benchmark!NoStats, Stats
  <2>2. QED
    BY <1>2, <2>1
<1>6. BenchTypes'
  BY <1>1, <1>3, <1>4, <1>5 DEF BenchTypes
<1>7. sched.step = "idle"
  BY DEF Flow
<1>8. Flow' /\ Reports' /\ Fresh' /\ Replies'
  BY <1>1, <1>3, <1>4, <1>5, <1>7 DEF Flow, Reports, Fresh, Replies
<1>9. Placed'
  BY <1>1 DEF Placed
<1>10. Gauge'
  BY <1>4, <1>7 DEF Gauge
<1>11. Counts'
  BY <1>1, <1>2, <1>3, Emptied
<1>12. QED
  BY <1>6, <1>8, <1>9, <1>10, <1>11

\* A run is over.
LEMMA FinishPreserves == ASSUME BenchInv, Benchmark!FinishRun PROVE BenchInv'
<1>1. PICK c \in Seq(Notes) : c = inbox["coordinator"]
  BY BoxNames DEF BenchInv, BenchTypes
<1>2. coord.step = "fetched" /\ Benchmark!cleanup /\ inbox' = Benchmark!FreshInbox(c) /\ UNCHANGED <<task, worker, sent>>
  BY <1>1 DEF Benchmark!FinishRun
<1>3. inbox'["coordinator"] = inbox["coordinator"]
  BY <1>1, <1>2, BoxNames DEF Benchmark!FreshInbox
<1>4. Requested'
  BY <1>3 DEF Requested, BenchInv
<1>5. QED
  BY <1>2, <1>4, CleanupPreserves

\* A message that the coordinator drops.
LEMMA DropRequest ==
  ASSUME BenchInv, NEW a, Benchmark!Idle(a), inbox' = Benchmark!Took(inbox, "coordinator"),
         UNCHANGED <<coord, sched, task, worker, metrics, sent>>
  PROVE  BenchInv'
<1> USE DEF BenchInv
<1>1. /\ inbox' \in [Benchmark!Boxes -> Seq(Notes)] /\ Requested'
      /\ inbox'["scheduler"] = inbox["scheduler"] /\ inbox'["metrics"] = inbox["metrics"]
      /\ \A w \in Benchmark!Workers : inbox'[w] = inbox[w]
  BY RequestTaken, BoxNames DEF Requested
<1>2. Placed' /\ Unreported' = Unreported /\ Unfinished' = Unfinished
  BY <1>1, PlacedKept
<1>3. Gauge'
  BY <1>2 DEF Gauge
<1>4. BenchTypes'
  BY <1>1 DEF BenchTypes, Coordinators, Schedulers
<1>5. Flow' /\ Fresh' /\ Replies'
  <2>1. Flow'
    BY <1>1 DEF Flow
  <2>2. Fresh'
    BY <1>1 DEF Fresh
  <2>3. Replies'
    BY <1>1 DEF Replies
  <2>4. QED
    BY <2>1, <2>2, <2>3
<1>6. Counts' /\ Reports'
  BY <1>1, <1>2, CountsKept, ReportsKept
<1>7. QED
  BY <1>1, <1>2, <1>3, <1>4, <1>5, <1>6

\* A run that failed half way is stopped, any other is left alone.
LEMMA StopRunPreserves == ASSUME BenchInv, Benchmark!stop_benchmark PROVE BenchInv'
<1>1. Benchmark!Idle("StopBenchmark") /\ UNCHANGED <<task, worker, sent>> /\ BenchTypes /\ Requested
  BY DEF Benchmark!stop_benchmark, BenchInv
<1>2. coord.step = "idle" /\ inbox["coordinator"] # <<>>
  BY <1>1 DEF Benchmark!Idle, Benchmark!Gets
<1>3. CASE Benchmark!cleanup /\ inbox' = Benchmark!FreshInbox(Tail(inbox["coordinator"]))
  <2>1. PICK c \in Seq(Notes) : c = Tail(inbox["coordinator"])
    BY <1>1, <1>2, BoxNames, Behead DEF BenchTypes
  <2>2. inbox'["coordinator"] = Tail(inbox["coordinator"])
    BY <1>3, BoxNames DEF Benchmark!FreshInbox
  <2>3. Requested'
    BY <1>1, <2>2, RequestTaken DEF Requested
  <2>4. QED
    BY <1>1, <1>2, <1>3, <2>1, <2>3, CleanupPreserves
<1>4. CASE inbox' = Benchmark!Took(inbox, "coordinator") /\ UNCHANGED <<coord, alive, sched, metrics>>
  BY <1>1, <1>4, DropRequest
<1>5. QED
  BY <1>3, <1>4 DEF Benchmark!stop_benchmark

\* A report is asked of the aggregator of a run left behind, or the cached one is given.
LEMMA GetReportPreserves == ASSUME BenchInv, Benchmark!GetReport PROVE BenchInv'
<1> USE DEF BenchInv
<1>1. Benchmark!Idle("GetReport") /\ UNCHANGED <<sched, task, worker, metrics, sent>>
  BY DEF Benchmark!GetReport
<1>2. CASE "metrics" \notin coord.refs
  <2>1. inbox' = Benchmark!Took(inbox, "coordinator") /\ UNCHANGED coord
    BY <1>2 DEF Benchmark!GetReport
  <2>2. QED
    BY <1>1, <2>1, DropRequest
<1>3. CASE "metrics" \in coord.refs
  <2>1. PICK r \in Runs : r = Benchmark!Asked.run /\ r # Benchmark!NoRun
    BY <1>1, RequestTaken, BenchAssumption
  <2>2. PICK m \in Notes : m = [type |-> "GetReport", for |-> r] /\ m.type = "GetReport" /\ m.for = r
    <3>1. [type |-> "GetReport", for |-> r] \in Notes
      BY DEF Notes
    <3>2. PICK m : m = [type |-> "GetReport", for |-> r]
      OBVIOUS
    <3>3. m.type = "GetReport" /\ m.for = r
      BY <3>2
    <3>4. QED
      BY <3>1, <3>2, <3>3
  <2>3. inbox' = Benchmark!Post(Benchmark!Took(inbox, "coordinator"), "metrics", m) /\ coord' = [coord EXCEPT !.step = "forwarding"]
    BY <1>3, <2>1, <2>2 DEF Benchmark!GetReport
  <2>4. /\ coord.step = "idle" /\ inbox' \in [Benchmark!Boxes -> Seq(Notes)]
        /\ inbox'["coordinator"] = Tail(inbox["coordinator"])
        /\ inbox'["scheduler"] = inbox["scheduler"] /\ inbox'["metrics"] = Append(inbox["metrics"], m)
        /\ \A w \in Benchmark!Workers : inbox'[w] = inbox[w]
    <3>1. PICK box : box = Benchmark!Took(inbox, "coordinator")
      OBVIOUS
    <3>2. /\ coord.step = "idle" /\ box \in [Benchmark!Boxes -> Seq(Notes)]
          /\ box["coordinator"] = Tail(inbox["coordinator"])
          /\ \A b \in Benchmark!Boxes : b # "coordinator" => box[b] = inbox[b]
      BY <1>1, <3>1, RequestTaken
    <3>3. PICK t \in Benchmark!Boxes : t = "metrics"
      BY BoxNames
    <3>4. PICK new : new = Benchmark!Post(box, t, m)
      OBVIOUS
    <3>5. /\ new \in [Benchmark!Boxes -> Seq(Notes)] /\ new[t] = Append(box[t], m)
          /\ \A b \in Benchmark!Boxes : b # t => new[b] = box[b]
      BY <3>2, <3>4, PostTo
    <3>6. new = inbox'
      BY <2>3, <3>1, <3>3, <3>4
    <3>7. QED
      BY <3>2, <3>3, <3>5, <3>6, BoxNames
  <2>5. coord.state = "Running"
    BY <1>3 DEF Fresh, BenchTypes, Coordinators
  <2>6. /\ coord'.step = "forwarding" /\ coord'.state = "Running" /\ coord'.at = coord.at
        /\ coord' \in Coordinators'
    BY <2>3, <2>5 DEF BenchTypes, Coordinators
  <2>7. BenchTypes'
    BY <1>1, <2>4, <2>6 DEF BenchTypes, Schedulers
  <2>8. Requested'
    BY <1>1, <2>4, RequestTaken DEF Requested
  <2>9. Flow' /\ Reports'
    BY <1>1, <2>4, <2>6 DEF Flow, Reports
  <2>10. Placed' /\ Unreported' = Unreported /\ Unfinished' = Unfinished
    BY <1>1, <2>4, PlacedKept
  <2>11. Gauge'
    BY <1>1, <2>10 DEF Gauge
  <2>12. \A i \in 1 .. Len(inbox'["metrics"]) :
           \/ inbox'["metrics"][i].type = "RegisterRun"
           \/ i = Len(inbox'["metrics"]) /\ inbox'["metrics"][i] = m
    <3>1. NoneWaits
      BY <2>4, NobodyWaits
    <3>2. \A i \in 1 .. Len(inbox["metrics"]) : inbox["metrics"][i].type = "RegisterRun"
      BY <2>4, <3>1 DEF NoneWaits, Fresh
    <3>3. QED
      BY <2>4, <3>2, InPosted
  <2>13. Replies'
    BY <2>1, <2>2, <2>6, <2>12 DEF Replies
  <2>14. Fresh'
    BY <1>1, <2>2, <2>4, <2>6, <2>12 DEF Fresh
  <2>15. Counts'
    <3>1. PICK e \in Spot : Arrives(e) /\ Ahead(inbox["metrics"], Now, e, sent, coord.at)
      BY DEF Counts, Coming
    <3>2. e = [n |-> 0, open |-> FALSE, k |-> 0] /\ e.open = FALSE
      BY <2>4, <3>1 DEF Arrives
    <3>3. Goes(m, e, e, sent, coord.at) /\ Fits(e, sent)
      BY <2>2, <3>2 DEF Goes, Fits
    <3>4. Ahead(inbox'["metrics"], Now, e, sent, coord.at)
      BY <2>4, <3>1, <3>3, NotePosted
    <3>5. Now' = Now
      BY <1>1 DEF Now
    <3>6. Arrives(e)'
      BY <2>6, <3>2 DEF Arrives
    <3>7. Coming'
      BY <1>1, <2>6, <3>4, <3>5, <3>6 DEF Coming
    <3>8. QED
      BY <1>1, <2>6, <3>7 DEF Counts, Benchmark!CountsAll, Benchmark!Sent
  <2>16. QED
    BY <2>7, <2>8, <2>9, <2>10, <2>11, <2>13, <2>14, <2>15
<1>4. QED
  BY <1>2, <1>3

\* While the scheduler runs a phase, the coordinator awaits it.
LEMMA Scheduling ==
  ASSUME BenchInv, sched.step # "idle"
  PROVE  /\ coord.step = "scheduling" /\ coord.state = "Running" /\ coord.at \in Nat /\ coord.at > 0
         /\ Len(sent) = coord.at /\ coord.at \in DOMAIN sent /\ sent \in Seq(Nat)
         /\ sched.config \in PhaseSet /\ inbox["scheduler"] = <<>>
<1>1. coord.step = "scheduling" /\ coord.state = "Running" /\ coord.at \in Nat /\ sent \in Seq(Nat)
  BY DEF BenchInv, Flow, Fresh, BenchTypes, Coordinators
<1>2. Len(sent) = coord.at /\ sched.config \in PhaseSet /\ inbox["scheduler"] = <<>> /\ coord.at > 0
  BY <1>1 DEF BenchInv, Flow
<1>3. QED
  BY <1>1, <1>2, LenProperties

\* A request more is sent in the last phase.
OneMore(snt) == [snt EXCEPT ![Len(snt)] = @ + 1]

\* What that does to the counts.
LEMMA SentMore ==
  ASSUME NEW snt \in Seq(Nat), Len(snt) > 0, NEW new, new = OneMore(snt)
  PROVE  /\ new \in Seq(Nat) /\ Len(new) = Len(snt) /\ new[Len(snt)] = snt[Len(snt)] + 1
         /\ DOMAIN new = DOMAIN snt /\ snt[Len(snt)] \in Nat
         /\ \A n \in DOMAIN snt : n # Len(snt) => new[n] = snt[n]
         /\ \A n \in Nat : SentIn(n, snt) \in Nat /\ SentIn(n, new) \in Nat /\ SentIn(n, snt) <= SentIn(n, new)
<1>1. Len(snt) \in Nat /\ DOMAIN snt = 1 .. Len(snt) /\ \A n \in DOMAIN snt : snt[n] \in Nat
  BY LenProperties, ElementOfSeq
<1>2. PICK k \in Nat : k = Len(snt) /\ k \in DOMAIN snt
  <2>1. Len(snt) \in 1 .. Len(snt)
    BY <1>1
  <2>2. QED
    BY <1>1, <2>1
<1>3. new = [snt EXCEPT ![k] = snt[k] + 1] /\ snt[k] + 1 \in Nat
  BY <1>1, <1>2 DEF OneMore
<1>4. new \in Seq(Nat) /\ Len(new) = Len(snt) /\ DOMAIN new = DOMAIN snt
  BY <1>2, <1>3, ExceptSeq
<1>5. new[k] = snt[k] + 1 /\ \A n \in DOMAIN snt : n # k => new[n] = snt[n]
  BY <1>2, <1>3
<1>6. \A n \in Nat : SentIn(n, snt) \in Nat /\ SentIn(n, new) \in Nat /\ SentIn(n, snt) <= SentIn(n, new)
  <2> TAKE n \in Nat
  <2>1. CASE n \notin DOMAIN snt
    BY <1>4, <2>1 DEF SentIn
  <2>2. CASE n \in DOMAIN snt
    <3>1. SentIn(n, snt) = snt[n] /\ SentIn(n, new) = new[n]
      BY <1>4, <2>2 DEF SentIn
    <3>2. snt[n] \in Nat /\ (new[n] = snt[n] \/ new[n] = snt[n] + 1)
      BY <1>1, <1>5, <2>2
    <3>3. QED
      BY <3>1, <3>2
  <2>3. QED
    BY <2>1, <2>2
<1>7. QED
  BY <1>1, <1>2, <1>4, <1>5, <1>6

\* What is sent grows from snt to new in phase at, as a count does from c to d.
Grown(snt, new, at, c, d) ==
  /\ new \in Seq(Nat) /\ Len(new) = at /\ DOMAIN new = DOMAIN snt
  /\ \A n \in Nat : n < at /\ n \in DOMAIN snt => n \in DOMAIN new /\ new[n] = snt[n]
  /\ \A n \in Nat : SentIn(n, snt) \in Nat /\ SentIn(n, new) \in Nat /\ SentIn(n, snt) <= SentIn(n, new)
  /\ \A k \in Nat : k + c = snt[at] => k + d = new[at]

\* A request more is sent in phase at, the last one, or none.
LEMMA SentStep ==
  ASSUME NEW snt \in Seq(Nat), NEW at \in Nat, at > 0, Len(snt) = at, NEW new, NEW c \in Nat, NEW d \in Nat,
         (new = snt /\ d = c) \/ (new = OneMore(snt) /\ d = c + 1)
  PROVE  Grown(snt, new, at, c, d)
<1>1. CASE new = snt /\ d = c
  <2>1. \A n \in Nat : SentIn(n, snt) \in Nat
    BY SentType
  <2>2. \A n \in Nat : SentIn(n, snt) <= SentIn(n, snt)
    BY <2>1
  <2>3. QED
    BY <1>1, <2>1, <2>2 DEF Grown
<1>2. CASE new = OneMore(snt) /\ d = c + 1
  <2>1. /\ new \in Seq(Nat) /\ Len(new) = Len(snt) /\ new[Len(snt)] = snt[Len(snt)] + 1
        /\ DOMAIN new = DOMAIN snt /\ snt[Len(snt)] \in Nat
        /\ \A n \in DOMAIN snt : n # Len(snt) => new[n] = snt[n]
        /\ \A n \in Nat : SentIn(n, snt) \in Nat /\ SentIn(n, new) \in Nat /\ SentIn(n, snt) <= SentIn(n, new)
    BY <1>2, SentMore
  <2>2. PICK x \in Nat : x = snt[at] /\ new[at] = x + 1
    BY <2>1
  <2>3. \A k \in Nat : k + c = x => k + d = x + 1
    BY <1>2
  <2>4. \A n \in Nat : n < at => n # at
    OBVIOUS
  <2>5. \A n \in Nat : n < at /\ n \in DOMAIN snt => n \in DOMAIN new /\ new[n] = snt[n]
    BY <2>1, <2>4
  <2>6. \A k \in Nat : k + c = snt[at] => k + d = new[at]
    BY <2>2, <2>3
  <2>7. QED
    BY <2>1, <2>5, <2>6 DEF Grown
<1>3. QED
  BY <1>1, <1>2

\* The same of the requests sent in this run.
LEMMA SentGoesOn ==
  ASSUME NEW at \in Nat, at > 0, sent \in Seq(Nat), Len(sent) = at, NEW c \in Nat, NEW d \in Nat,
         (sent' = sent /\ d = c) \/ (Benchmark!CountSent /\ d = c + 1)
  PROVE  Grown(sent, sent', at, c, d)
<1>1. PICK s \in Seq(Nat) : s = sent /\ Len(s) = at
  OBVIOUS
<1>2. PICK z : z = sent'
    OBVIOUS
<1>3. (z = s /\ d = c) \/ (z = OneMore(s) /\ d = c + 1)
  BY <1>1, <1>2 DEF Benchmark!CountSent, OneMore
<1>4. Grown(s, z, at, c, d)
  BY <1>1, <1>3, SentStep
<1>5. QED
  BY <1>1, <1>2, <1>4

\* The steps of a phase that tell nobody but workers: a request not reported yet is
\* counted when it is sent.
LEMMA PhaseGoesOn ==
  ASSUME BenchInv, UNCHANGED <<coord, metrics>>, inbox' \in [Benchmark!Boxes -> Seq(Notes)],
         inbox'["coordinator"] = inbox["coordinator"], inbox'["scheduler"] = inbox["scheduler"],
         inbox'["metrics"] = inbox["metrics"],
         sched.step # "idle", sched' \in Schedulers, sched'.step # "idle", sched'.config = sched.config,
         task' \in [Benchmark!Tasks -> {"none", "ask", "waiting", "answered", "done"}],
         worker' \in [Benchmark!Workers -> [task : Benchmark!Tasks \cup {0}, step : {"idle", "executing", "replying"}]],
         Placed', Gauge',
         NEW c \in Nat, c = Cardinality(Unreported), NEW d \in Nat, d = Cardinality(Unreported'),
         (sent' = sent /\ d = c) \/ (Benchmark!CountSent /\ d = c + 1)
  PROVE  BenchInv'
<1> USE DEF BenchInv
<1>1. PICK at \in Nat : at = coord.at /\ at > 0
  BY Scheduling
<1>2. /\ coord.step = "scheduling" /\ coord.state = "Running"
      /\ Len(sent) = at /\ at \in DOMAIN sent /\ sent \in Seq(Nat)
      /\ sched.config \in PhaseSet /\ inbox["scheduler"] = <<>>
  BY <1>1, Scheduling
<1>3. /\ sent' \in Seq(Nat) /\ Len(sent') = at /\ DOMAIN sent' = DOMAIN sent
      /\ \A n \in Nat : n < at /\ n \in DOMAIN sent => n \in DOMAIN sent' /\ sent'[n] = sent[n]
      /\ \A n \in Nat : SentIn(n, sent) \in Nat /\ SentIn(n, sent') \in Nat /\ SentIn(n, sent) <= SentIn(n, sent')
      /\ \A k \in Nat : k + c = sent[at] => k + d = sent'[at]
  <2>1. Grown(sent, sent', at, c, d)
    BY <1>1, <1>2, SentGoesOn
  <2>2. QED
    BY <2>1 DEF Grown
<1>4. BenchTypes'
  BY <1>3 DEF BenchTypes, Coordinators, Schedulers
<1>5. Requested'
  BY DEF Requested
<1>6. Flow'
  <2>1. coord'.at \in 1 .. Len(coord'.todo)
    BY <1>2 DEF Flow
  <2>2. QED
    BY <1>1, <1>2, <1>3, <2>1 DEF Flow
<1>7. Fresh' /\ Replies' /\ Reports'
  BY <1>2 DEF Fresh, Replies, Reports
<1>8. Counts'
  <2>1. PICK e \in Spot : Arrives(e) /\ Ahead(inbox["metrics"], Now, e, sent, at)
    BY <1>1 DEF Counts, Coming
  <2>2. e.open /\ e.n = at /\ e.k + c = sent[at] /\ e.k \in Nat
    BY <1>1, <1>2, <2>1 DEF Arrives, Spot
  <2>3. Arrives(e)'
    <3>1. e.k + d = sent'[at]
      BY <1>3, <2>2
    <3>2. QED
      BY <1>1, <1>2, <2>2, <3>1 DEF Arrives
  <2>5. Ahead(inbox["metrics"], Now, e, sent', at)
    <3>1. PICK q \in Seq(Notes) : q = inbox["metrics"]
      BY BoxNames DEF BenchTypes
    <3>2. at <= at
      OBVIOUS
    <3>3. Ahead(q, Now, e, sent', at)
      BY <1>3, <2>1, <3>1, <3>2, AheadMore
    <3>4. QED
      BY <3>1, <3>3
  <2>6. Now' = Now
    BY DEF Now
  <2>7. Coming'
    BY <1>1, <2>3, <2>5, <2>6 DEF Coming
  <2>8. \A i \in DOMAIN metrics.completed : i < at /\ i \in DOMAIN sent /\ i \in Nat
    <3>1. DOMAIN sent \subseteq Nat
      BY <1>2, LenProperties
    <3>2. QED
      BY <1>1, <3>1 DEF Counts
  <2>9. Benchmark!CountsAll(metrics.completed)'
    <3>1. Benchmark!CountsAll(metrics.completed)
      BY DEF Counts
    <3>2. \A i \in DOMAIN metrics.completed : sent'[i] = sent[i] /\ i \in DOMAIN sent'
      BY <1>3, <2>8
    <3>3. QED
      BY <2>8, <3>1, <3>2 DEF Benchmark!CountsAll, Benchmark!Sent
  <2>10. QED
    BY <1>1, <1>3, <2>7, <2>8, <2>9 DEF Counts
<1>9. QED
  BY <1>4, <1>5, <1>6, <1>7, <1>8

\* The tasks can be counted.
LEMMA SomeTasks ==
  ASSUME NEW S, S \subseteq Benchmark!Tasks PROVE IsFiniteSet(S) /\ Cardinality(S) \in Nat
<1>1. MaxVus + 1 \in Int /\ 1 \in Int
  BY BenchAssumption
<1>2. IsFiniteSet(Benchmark!Tasks)
  BY <1>1, FS_Interval DEF Benchmark!Tasks
<1>3. QED
  BY <1>2, FS_Subset, FS_CardinalityType

\* The time of a phase is over, and the scheduler stops what it started.
LEMMA ElapsePreserves ==
  ASSUME BenchInv, Benchmark!Elapse \/ Benchmark!StopVus \/ Benchmark!StopRate PROVE BenchInv'
<1>1. /\ UNCHANGED <<inbox, coord, task, worker, metrics, sent>>
      /\ sched.step \in {"vus", "rate"}
      /\ \/ sched' = [sched EXCEPT !.elapsed = TRUE]
         \/ sched.step = "vus" /\ sched' = [sched EXCEPT !.is_active = FALSE, !.step = "join"]
         \/ sched.step = "rate" /\ sched' = [sched EXCEPT !.is_active = FALSE, !.step = "drain"]
  BY DEF Benchmark!Elapse, Benchmark!StopVus, Benchmark!StopRate
<1>2. /\ sched' \in Schedulers /\ sched'.step # "idle" /\ sched'.config = sched.config
      /\ sched'.active_vus = sched.active_vus
      /\ sched'.step \in {"rate", "drain"} => sched.step = "rate"
  BY <1>1 DEF BenchInv, BenchTypes, Schedulers
<1>3. Placed' /\ Unreported' = Unreported /\ Unfinished' = Unfinished
  BY <1>1, PlacedKept DEF BenchInv
<1>4. Gauge'
  BY <1>2, <1>3 DEF Gauge, BenchInv
<1>5. PICK c \in Nat : c = Cardinality(Unreported)
  BY SomeTasks DEF Unreported
<1>6. /\ inbox' \in [Benchmark!Boxes -> Seq(Notes)]
      /\ task' \in [Benchmark!Tasks -> {"none", "ask", "waiting", "answered", "done"}]
      /\ worker' \in [Benchmark!Workers -> [task : Benchmark!Tasks \cup {0}, step : {"idle", "executing", "replying"}]]
  BY <1>1 DEF BenchInv, BenchTypes
<1>7. QED
  BY <1>1, <1>2, <1>3, <1>4, <1>5, <1>6, PhaseGoesOn

\* What the scheduler takes from its mailbox.
LEMMA SchedulerTakes ==
  ASSUME BenchInv, NEW a, sched.step = "idle", Benchmark!Gets("scheduler", a), inbox' = Benchmark!Took(inbox, "scheduler")
  PROVE  /\ coord.step = "scheduling" /\ coord.state = "Running" /\ coord.at \in Nat /\ coord.at \in 1 .. Len(coord.todo)
         /\ Len(sent) = coord.at - 1 /\ sent \in Seq(Nat) /\ coord.todo[coord.at] \in PhaseSet
         /\ a = "ConfigureScheduler" =>
              /\ Head(inbox["scheduler"]).phase = coord.todo[coord.at]
              /\ inbox'["scheduler"] = <<[type |-> "StartScheduling"]>>
         /\ a = "StartScheduling" => sched.config \in PhaseSet /\ inbox'["scheduler"] = <<>>
         /\ inbox' \in [Benchmark!Boxes -> Seq(Notes)] /\ inbox'["coordinator"] = inbox["coordinator"]
         /\ inbox'["metrics"] = inbox["metrics"] /\ \A w \in Benchmark!Workers : inbox'[w] = inbox[w]
<1>1. inbox["scheduler"] # <<>> /\ Head(inbox["scheduler"]).type = a
  BY DEF Benchmark!Gets
<1>2. coord.step = "scheduling"
  BY <1>1 DEF BenchInv, Flow
<1>3. coord.state = "Running" /\ coord.at \in Nat /\ coord.todo \in Seq(PhaseSet) /\ sent \in Seq(Nat)
  BY <1>2 DEF BenchInv, Fresh, BenchTypes, Coordinators
<1>4. coord.at \in 1 .. Len(coord.todo) /\ Len(sent) = coord.at - 1
  BY <1>1, <1>2 DEF BenchInv, Flow
<1>5. coord.todo[coord.at] \in PhaseSet
  BY <1>3, <1>4, ElementOfSeq
<1>6. /\ inbox' \in [Benchmark!Boxes -> Seq(Notes)] /\ inbox'["scheduler"] = Tail(inbox["scheduler"])
      /\ inbox'["coordinator"] = inbox["coordinator"]
      /\ inbox'["metrics"] = inbox["metrics"] /\ \A w \in Benchmark!Workers : inbox'[w] = inbox[w]
  <2>1. PICK box \in [Benchmark!Boxes -> Seq(Notes)] : box = inbox
    BY DEF BenchInv, BenchTypes
  <2>2. PICK t \in Benchmark!Boxes : t = "scheduler" /\ box[t] # <<>>
    BY <1>1, <2>1, BoxNames
  <2>3. PICK new : new = Benchmark!Took(box, t)
    OBVIOUS
  <2>4. /\ new \in [Benchmark!Boxes -> Seq(Notes)] /\ new[t] = Tail(box[t])
        /\ \A b \in Benchmark!Boxes : b # t => new[b] = box[b]
    BY <2>2, <2>3, TookFrom
  <2>5. new = inbox'
    BY <2>1, <2>2, <2>3
  <2>6. QED
    BY <2>1, <2>2, <2>4, <2>5, BoxNames
<1>7. PICK p \in PhaseSet : p = coord.todo[coord.at]
  BY <1>5
<1>8. PICK conf, go : conf = [type |-> "ConfigureScheduler", phase |-> p] /\ go = [type |-> "StartScheduling"]
  OBVIOUS
<1>9. conf.type = "ConfigureScheduler" /\ conf.phase = p /\ go.type = "StartScheduling"
  BY <1>8
<1>10. \/ inbox["scheduler"] = <<conf, go>>
       \/ inbox["scheduler"] = <<go>> /\ sched.config \in PhaseSet
  BY <1>1, <1>2, <1>7, <1>8 DEF BenchInv, Flow
<1>11. Head(<<conf, go>>) = conf /\ Tail(<<conf, go>>) = <<go>> /\ Head(<<go>>) = go /\ Tail(<<go>>) = <<>>
  OBVIOUS
<1>12. QED
  BY <1>1, <1>2, <1>3, <1>4, <1>5, <1>6, <1>7, <1>8, <1>9, <1>10, <1>11

\* The scheduler is told the phase.
LEMMA ConfigurePreserves == ASSUME BenchInv, Benchmark!configure PROVE BenchInv'
<1>1. /\ sched.step = "idle" /\ Benchmark!Gets("scheduler", "ConfigureScheduler") /\ inbox' = Benchmark!Took(inbox, "scheduler")
      /\ sched' = [sched EXCEPT !.config = Head(inbox["scheduler"]).phase]
      /\ UNCHANGED <<coord, task, worker, metrics, sent>>
  BY DEF Benchmark!configure
<1>2. /\ coord.step = "scheduling" /\ coord.state = "Running" /\ coord.at \in Nat /\ coord.at \in 1 .. Len(coord.todo)
      /\ Len(sent) = coord.at - 1 /\ sent \in Seq(Nat) /\ coord.todo[coord.at] \in PhaseSet
      /\ Head(inbox["scheduler"]).phase = coord.todo[coord.at]
      /\ inbox'["scheduler"] = <<[type |-> "StartScheduling"]>>
      /\ inbox' \in [Benchmark!Boxes -> Seq(Notes)] /\ inbox'["coordinator"] = inbox["coordinator"]
      /\ inbox'["metrics"] = inbox["metrics"] /\ \A w \in Benchmark!Workers : inbox'[w] = inbox[w]
  BY <1>1, SchedulerTakes
<1>3. sched' \in Schedulers /\ sched'.step = "idle" /\ sched'.config \in PhaseSet
  BY <1>1, <1>2 DEF BenchInv, BenchTypes, Schedulers
<1>4. BenchTypes'
  BY <1>1, <1>2, <1>3 DEF BenchInv, BenchTypes, Coordinators, Schedulers
<1>5. Requested'
  BY <1>2 DEF BenchInv, Requested
<1>6. Flow' /\ Fresh' /\ Replies'
  BY <1>1, <1>2, <1>3 DEF BenchInv, Flow, Fresh, Replies
<1>7. Placed' /\ Unreported' = Unreported /\ Unfinished' = Unfinished
  BY <1>1, <1>2, PlacedKept DEF BenchInv
<1>8. Gauge'
  BY <1>1, <1>3, <1>7 DEF BenchInv, Gauge
<1>9. Counts' /\ Reports'
  BY <1>1, <1>2, <1>3, <1>7, CountsKept, ReportsKept DEF BenchInv
<1>10. QED
  BY <1>4, <1>5, <1>6, <1>7, <1>8, <1>9 DEF BenchInv

\* Requests are sent in phase at, the first that has none yet: x of them.
Opened(snt, new, at, x) ==
  /\ new \in Seq(Nat) /\ Len(new) = at /\ at \in DOMAIN new /\ new[at] = x
  /\ \A n \in Nat : n < at /\ n \in DOMAIN snt => n \in DOMAIN new /\ new[n] = snt[n]
  /\ \A n \in Nat : SentIn(n, snt) \in Nat /\ SentIn(n, new) \in Nat /\ SentIn(n, snt) <= SentIn(n, new)

\* The first requests of a phase are added to what was sent.
LEMMA SentFirst ==
  ASSUME NEW snt \in Seq(Nat), NEW at \in Nat, Len(snt) = at - 1, NEW x \in Nat, NEW new, new = Append(snt, x)
  PROVE  Opened(snt, new, at, x)
<1>1. /\ new \in Seq(Nat) /\ Len(new) = Len(snt) + 1 /\ Len(snt) \in Nat
      /\ new[Len(snt) + 1] = x /\ \A n \in 1 .. Len(snt) : new[n] = snt[n]
  BY Appended
<1>2. DOMAIN new = 1 .. at /\ DOMAIN snt = 1 .. at - 1 /\ Len(new) = at /\ new[at] = x /\ at > 0
  BY <1>1, LenProperties
<1>3. \A n \in Nat : n < at /\ n \in DOMAIN snt => n \in DOMAIN new /\ new[n] = snt[n]
  BY <1>1, <1>2
<1>4. \A n : SentIn(n, snt) \in Nat /\ SentIn(n, new) \in Nat
  BY <1>1, SentType
<1>5. \A n \in Nat : SentIn(n, snt) <= SentIn(n, new)
  <2> TAKE n \in Nat
  <2>1. CASE n \in DOMAIN snt
    <3>1. n < at
      BY <1>2, <2>1
    <3>2. SentIn(n, new) = SentIn(n, snt)
      BY <1>3, <2>1, <3>1 DEF SentIn
    <3>3. QED
      BY <1>4, <3>2
  <2>2. CASE n \notin DOMAIN snt
    <3>1. SentIn(n, snt) = 0
      BY <2>2 DEF SentIn
    <3>2. QED
      BY <1>4, <3>1
  <2>3. QED
    BY <2>1, <2>2
<1>6. at \in DOMAIN new
  BY <1>2
<1>7. QED
  BY <1>1, <1>2, <1>3, <1>4, <1>5, <1>6 DEF Opened

\* The phase's first requests are under way, or there is nobody to send any.
LEMMA PhaseScheduled ==
  ASSUME BenchInv, coord.step = "scheduling", sched.step = "idle", NEW at \in Nat, at = coord.at, at = coord'.at,
         metrics' = metrics, inbox'["metrics"] = inbox["metrics"], NEW x, Opened(sent, sent', at, x),
         \/ coord'.step = "scheduled" /\ x = 0
         \/ coord'.step = "scheduling" /\ sched'.step # "idle" /\ Cardinality(Unreported') = x /\ x \in Nat
  PROVE  Counts'
<1>1. PICK e \in Spot : Arrives(e) /\ Ahead(inbox["metrics"], Now, e, sent, at)
  BY DEF BenchInv, Counts, Coming
<1>2. e.open /\ e.n = at /\ e.k = 0
  BY <1>1 DEF Arrives
<1>3. /\ sent'[at] = x /\ at \in DOMAIN sent'
      /\ \A n \in Nat : n < at /\ n \in DOMAIN sent => n \in DOMAIN sent' /\ sent'[n] = sent[n]
      /\ \A n \in Nat : SentIn(n, sent) \in Nat /\ SentIn(n, sent') \in Nat /\ SentIn(n, sent) <= SentIn(n, sent')
  BY DEF Opened
<1>4. Ahead(inbox["metrics"], Now, e, sent', at)
  <2>1. PICK q \in Seq(Notes) : q = inbox["metrics"]
    BY BoxNames DEF BenchInv, BenchTypes
  <2>2. at <= at
    OBVIOUS
  <2>3. Ahead(q, Now, e, sent', at)
    BY <1>1, <1>3, <2>1, <2>2, AheadMore
  <2>4. QED
    BY <2>1, <2>3
<1>5. Arrives(e)'
  <2>1. CASE coord'.step = "scheduled" /\ x = 0
    BY <1>2, <1>3, <2>1 DEF Arrives
  <2>2. CASE coord'.step = "scheduling" /\ sched'.step # "idle" /\ Cardinality(Unreported') = x /\ x \in Nat
    <3>1. e.k + Cardinality(Unreported') = sent'[at]
      BY <1>2, <1>3, <2>2
    <3>2. QED
      BY <1>2, <2>2, <3>1 DEF Arrives
  <2>3. QED
    BY <2>1, <2>2
<1>6. Now' = Now
  BY DEF Now
<1>7. Coming'
  BY <1>4, <1>5, <1>6 DEF Coming
<1>8. \A i \in DOMAIN metrics.completed : i < at /\ i \in DOMAIN sent /\ i \in Nat
  <2>1. DOMAIN sent \subseteq Nat
    BY LenProperties DEF BenchInv, BenchTypes
  <2>2. QED
    BY <2>1 DEF BenchInv, Counts
<1>9. Benchmark!CountsAll(metrics.completed)'
  <2>1. Benchmark!CountsAll(metrics.completed)
    BY DEF BenchInv, Counts
  <2>2. \A i \in DOMAIN metrics.completed : sent'[i] = sent[i] /\ i \in DOMAIN sent'
    BY <1>3, <1>8
  <2>3. QED
    BY <1>8, <2>1, <2>2 DEF Benchmark!CountsAll, Benchmark!Sent
<1>10. (metrics.current # Benchmark!NoStats => metrics.current.phase = Len(metrics.completed) + 1)'
  BY DEF BenchInv, Counts
<1>11. (\A i \in DOMAIN metrics.completed : i < coord.at /\ i \in DOMAIN sent)'
  BY <1>3, <1>8
<1>12. QED
  BY <1>7, <1>9, <1>10, <1>11 DEF Counts

\* The scheduler starts the phase.
LEMMA SchedulePreserves == ASSUME BenchInv, Benchmark!start_scheduling PROVE BenchInv'
<1>1. /\ sched.step = "idle" /\ Benchmark!Gets("scheduler", "StartScheduling") /\ inbox' = Benchmark!Took(inbox, "scheduler")
      /\ UNCHANGED <<worker, metrics>>
  BY DEF Benchmark!start_scheduling
<1>2. PICK at \in Nat : at = coord.at
  BY DEF BenchInv, BenchTypes, Coordinators
<1>3. /\ coord.step = "scheduling" /\ coord.state = "Running" /\ at \in 1 .. Len(coord.todo)
      /\ Len(sent) = at - 1 /\ sent \in Seq(Nat) /\ sched.config \in PhaseSet /\ inbox'["scheduler"] = <<>>
      /\ inbox' \in [Benchmark!Boxes -> Seq(Notes)] /\ inbox'["coordinator"] = inbox["coordinator"]
      /\ inbox'["metrics"] = inbox["metrics"] /\ \A w \in Benchmark!Workers : inbox'[w] = inbox[w]
  BY <1>1, <1>2, SchedulerTakes
<1>4. \A t \in Benchmark!Tasks : task[t] = "none"
  BY <1>1 DEF BenchInv, Gauge
<1>5. Placed'
  <2>1. \A w \in Benchmark!Workers : \A i \in 1 .. Len(inbox[w]) : FALSE
    BY <1>4 DEF BenchInv, Placed
  <2>2. \A w \in Benchmark!Workers : worker[w].step = "idle"
    BY <1>4 DEF BenchInv, Placed
  <2>3. QED
    BY <1>1, <1>3, <2>1, <2>2 DEF Placed
<1>6. Requested'
  BY <1>3 DEF BenchInv, Requested
<1>8. CASE NumWorkers = 0
  <2>1. coord' = [coord EXCEPT !.step = "scheduled"] /\ sent' = Append(sent, 0) /\ UNCHANGED <<sched, task>>
    BY <1>8 DEF Benchmark!start_scheduling
  <2>2. /\ coord'.step = "scheduled" /\ coord'.state = "Running" /\ coord'.at = at /\ coord'.todo = coord.todo
        /\ coord' \in Coordinators'
    BY <1>2, <1>3, <2>1 DEF BenchInv, BenchTypes, Coordinators
  <2>3. Opened(sent, sent', at, 0)
    BY <1>3, <2>1, SentFirst
  <2>4. BenchTypes'
    BY <1>1, <1>3, <2>1, <2>2, <2>3 DEF BenchInv, BenchTypes, Schedulers, Opened
  <2>5. Flow' /\ Fresh' /\ Reports'
    BY <1>1, <1>3, <2>1, <2>2, <2>3 DEF Flow, Fresh, Reports, Opened
  <2>6. Replies'
    BY <1>3, <2>2 DEF BenchInv, Replies
  <2>7. Gauge'
    BY <1>1, <1>4, <2>1 DEF Gauge
  <2>8. Counts'
    BY <1>1, <1>2, <1>3, <2>2, <2>3, PhaseScheduled
  <2>9. QED
    BY <1>5, <1>6, <2>4, <2>5, <2>6, <2>7, <2>8 DEF BenchInv
<1>9. CASE NumWorkers # 0
  <2>1. PICK x : x = IF sched.config.type = "vus" THEN sched.config.vus ELSE 0
    OBVIOUS
  <2>2. /\ sched' = [sched EXCEPT !.step = sched.config.type, !.is_active = TRUE,
                        !.elapsed = FALSE, !.sent = x, !.active_vus = x]
        /\ task' = [t \in Benchmark!Tasks |-> IF t <= x THEN "ask" ELSE "none"]
        /\ sent' = Append(sent, x) /\ UNCHANGED coord
    BY <1>9, <2>1 DEF Benchmark!start_scheduling
  <2>3. /\ x \in Nat /\ x <= MaxVus + 1 /\ sched.config.type \in {"vus", "rate"}
        /\ sched.config.type = "rate" => x = 0
    BY <1>3, <2>1, BenchAssumption DEF PhaseSet, Benchmark!Tasks
  <2>4. /\ sched' \in Schedulers /\ sched'.step = sched.config.type /\ sched'.config = sched.config
        /\ sched'.active_vus = x
    <3>1. PICK y \in {"vus", "rate"} : y = sched.config.type
      BY <2>3
    <3>2. sched' = [sched EXCEPT !.step = y, !.is_active = TRUE, !.elapsed = FALSE, !.sent = x, !.active_vus = x]
      BY <2>2, <3>1
    <3>3. x \in Int
      BY <2>3
    <3>4. sched' \in Schedulers /\ sched'.step = y /\ sched'.config = sched.config /\ sched'.active_vus = x
      BY <2>3, <3>2, <3>3 DEF BenchInv, BenchTypes, Schedulers
    <3>5. QED
      BY <3>1, <3>4
  <2>5. Opened(sent, sent', at, x)
    BY <1>3, <2>2, <2>3, SentFirst
  <2>6. \A t \in Benchmark!Tasks : task'[t] = IF t <= x THEN "ask" ELSE "none"
    BY <2>2
  <2>7. Unreported' = 1 .. x
    <3>1. \A t \in Benchmark!Tasks : t <= x <=> t \in Unreported'
      BY <2>6 DEF Unreported
    <3>2. Unreported' \subseteq Benchmark!Tasks
      BY DEF Unreported
    <3>3. \A t : t \in 1 .. x <=> t \in Benchmark!Tasks /\ t <= x
      BY <2>3, BenchAssumption DEF Benchmark!Tasks
    <3>4. QED
      BY <3>1, <3>2, <3>3
  <2>8. Cardinality(Unreported') = x
    <3>1. Cardinality(1 .. x) = x
      BY <2>3, FS_Interval
    <3>2. QED
      BY <2>7, <3>1
  <2>9. Gauge'
    <3>1. CASE sched.config.type = "vus"
      BY <2>4, <3>1 DEF Gauge
    <3>2. CASE sched.config.type = "rate"
      <4>1. x = 0 /\ \A t \in Benchmark!Tasks : ~(t <= x)
        BY <2>3, <3>2, BenchAssumption DEF Benchmark!Tasks
      <4>2. Unfinished' = {}
        BY <2>6, <4>1 DEF Unfinished
      <4>3. Cardinality({}) = 0
        BY FS_EmptySet
      <4>4. QED
        BY <2>4, <3>2, <4>1, <4>2, <4>3 DEF Gauge
    <3>3. QED
      BY <2>3, <3>1, <3>2
  <2>10. BenchTypes'
    <3>1. task' \in [Benchmark!Tasks -> {"none", "ask", "waiting", "answered", "done"}]
      BY <2>2
    <3>2. QED
      BY <1>1, <1>3, <2>2, <2>4, <2>5, <3>1
      DEF BenchInv, BenchTypes, Coordinators, Schedulers, Opened
  <2>11. Flow'
    BY <1>2, <1>3, <2>2, <2>3, <2>4, <2>5 DEF Flow, Opened
  <2>12. Fresh' /\ Reports' /\ Replies'
    BY <1>1, <1>3, <2>2 DEF BenchInv, Fresh, Reports, Replies
  <2>13. Counts'
    <3>1. coord'.at = at /\ coord'.step = "scheduling" /\ sched'.step # "idle"
      BY <1>2, <1>3, <2>2, <2>3, <2>4
    <3>2. QED
      BY <1>1, <1>2, <1>3, <2>3, <2>5, <2>8, <3>1, PhaseScheduled
  <2>14. QED
    BY <1>5, <1>6, <2>9, <2>10, <2>11, <2>12, <2>13 DEF BenchInv
<1>10. QED
  BY <1>8, <1>9

\* The scheduler answers when every task has ended.
LEMMA ReplyPreserves ==
  ASSUME BenchInv, Benchmark!Reply, sched.step # "idle", \A t \in Benchmark!Tasks : task[t] \in {"none", "done"},
         UNCHANGED <<inbox, worker, metrics, sent>>
  PROVE  BenchInv'
<1>1. PICK at \in Nat : at = coord.at /\ at > 0
  BY Scheduling
<1>2. /\ coord.step = "scheduling" /\ coord.state = "Running"
      /\ Len(sent) = at /\ at \in DOMAIN sent /\ sent \in Seq(Nat)
      /\ sched.config \in PhaseSet /\ inbox["scheduler"] = <<>>
  BY <1>1, Scheduling
<1>3. /\ coord' = [coord EXCEPT !.step = "scheduled"] /\ sched' = [sched EXCEPT !.step = "idle"]
      /\ task' = [t \in Benchmark!Tasks |-> "none"]
  BY DEF Benchmark!Reply
<1>4. /\ coord'.step = "scheduled" /\ coord'.state = "Running" /\ coord'.at = at /\ coord'.todo = coord.todo
      /\ coord' \in Coordinators'
  BY <1>1, <1>2, <1>3 DEF BenchInv, BenchTypes, Coordinators
<1>5. sched' \in Schedulers /\ sched'.step = "idle"
  BY <1>3 DEF BenchInv, BenchTypes, Schedulers
<1>6. \A t \in Benchmark!Tasks : task'[t] = "none"
  BY <1>3
<1>7. BenchTypes'
  <2>1. task' \in [Benchmark!Tasks -> {"none", "ask", "waiting", "answered", "done"}]
    BY <1>3
  <2>2. QED
    BY <1>4, <1>5, <2>1 DEF BenchInv, BenchTypes, Schedulers
<1>8. Requested'
  BY DEF BenchInv, Requested
<1>9. Flow'
  <2>1. at \in 1 .. Len(coord.todo)
    BY <1>1, <1>2 DEF BenchInv, Flow
  <2>2. QED
    BY <1>2, <1>4, <1>5, <2>1 DEF Flow
<1>10. Fresh' /\ Reports' /\ Replies'
  BY <1>2, <1>4 DEF BenchInv, Fresh, Reports, Replies
<1>11. Placed'
  <2>1. \A w \in Benchmark!Workers : \A i \in 1 .. Len(inbox[w]) : FALSE
    BY DEF BenchInv, Placed
  <2>2. \A w \in Benchmark!Workers : worker[w].step = "idle"
    BY DEF BenchInv, Placed
  <2>3. QED
    BY <2>1, <2>2 DEF Placed
<1>12. Gauge'
  BY <1>5, <1>6 DEF Gauge
<1>13. Counts'
  <2>1. PICK e \in Spot : Arrives(e) /\ Ahead(inbox["metrics"], Now, e, sent, at)
    BY <1>1 DEF BenchInv, Counts, Coming
  <2>2. Unreported = {} /\ Cardinality({}) = 0
    BY FS_EmptySet DEF Unreported
  <2>3. e.open /\ e.n = at /\ e.k + 0 = sent[at] /\ e.k \in Nat
    BY <1>1, <1>2, <2>1, <2>2 DEF Arrives, Spot
  <2>4. e.k = sent[at]
    BY <2>3
  <2>5. Arrives(e)'
    BY <1>4, <2>3, <2>4 DEF Arrives
  <2>6. Now' = Now
    BY DEF Now
  <2>7. Coming'
    BY <1>4, <2>1, <2>5, <2>6 DEF Coming
  <2>8. QED
    BY <1>1, <1>4, <2>7 DEF BenchInv, Counts, Benchmark!CountsAll, Benchmark!Sent
<1>14. QED
  BY <1>7, <1>8, <1>9, <1>10, <1>11, <1>12, <1>13 DEF BenchInv

\* The users are awaited, or the requests of constant rate are drained.
LEMMA PhaseDonePreserves == ASSUME BenchInv, Benchmark!JoinVus \/ Benchmark!DrainRate PROVE BenchInv'
<1>1. Benchmark!Reply /\ sched.step # "idle" /\ UNCHANGED <<inbox, worker, metrics, sent>>
  BY DEF Benchmark!JoinVus, Benchmark!DrainRate
<1>2. \A t \in Benchmark!Tasks : task[t] \in {"none", "done"}
  <2>1. CASE Benchmark!JoinVus
    BY <2>1 DEF Benchmark!JoinVus
  <2>2. CASE Benchmark!DrainRate
    <3>1. Cardinality(Unfinished) = 0
      BY <2>2 DEF Benchmark!DrainRate, Benchmark!Drained, BenchInv, Gauge
    <3>2. Unfinished \subseteq Benchmark!Tasks
      BY DEF Unfinished
    <3>3. Unfinished = {}
      BY <3>1, <3>2, SomeTasks, FS_EmptySet
    <3>4. QED
      BY <3>3 DEF Unfinished
  <2>3. QED
    BY <2>1, <2>2
<1>3. QED
  BY <1>1, <1>2, ReplyPreserves

\* A task that no worker knows asks, or ends.
LEMMA TaskMoves ==
  ASSUME BenchTypes, Placed, UNCHANGED <<inbox, worker>>, NEW t \in Benchmark!Tasks, NEW x \in {"none", "ask", "done"},
         task[t] \in {"none", "answered"}, task' = [task EXCEPT ![t] = x]
  PROVE  /\ Placed' /\ task' \in [Benchmark!Tasks -> {"none", "ask", "waiting", "answered", "done"}]
         /\ t \notin Unreported
         /\ Unreported' = IF x = "ask" THEN Unreported \cup {t} ELSE Unreported
         /\ Unfinished' = IF x = "none" THEN Unfinished \ {t} ELSE Unfinished \cup {t}
<1>1. task \in [Benchmark!Tasks -> {"none", "ask", "waiting", "answered", "done"}]
  BY DEF BenchTypes
<1>2. task' \in [Benchmark!Tasks -> {"none", "ask", "waiting", "answered", "done"}]
      /\ task'[t] = x /\ \A u \in Benchmark!Tasks : u # t => task'[u] = task[u]
  BY <1>1
<1>3. \A u \in Benchmark!Tasks : task[u] = "waiting" => task'[u] = "waiting"
  BY <1>2
<1>4. Placed'
  BY <1>3 DEF Placed
<1>5. \A u : Replied(u)' <=> Replied(u)
  BY DEF Replied
<1>6. t \notin Unreported
  BY DEF Unreported
<1>7. Unreported' = IF x = "ask" THEN Unreported \cup {t} ELSE Unreported
  <2>1. \A u \in Benchmark!Tasks : u \in Unreported' <=> (IF u = t THEN x = "ask" ELSE u \in Unreported)
    BY <1>2, <1>5 DEF Unreported
  <2>2. Unreported' \subseteq Benchmark!Tasks /\ Unreported \subseteq Benchmark!Tasks
    BY DEF Unreported
  <2>3. QED
    BY <1>6, <2>1, <2>2
<1>8. Unfinished' = IF x = "none" THEN Unfinished \ {t} ELSE Unfinished \cup {t}
  <2>1. \A u \in Benchmark!Tasks : u \in Unfinished' <=> (IF u = t THEN x # "none" ELSE u \in Unfinished)
    BY <1>2 DEF Unfinished
  <2>2. Unfinished' \subseteq Benchmark!Tasks /\ Unfinished \subseteq Benchmark!Tasks
    BY DEF Unfinished
  <2>3. QED
    BY <2>1, <2>2
<1>9. QED
  BY <1>2, <1>4, <1>6, <1>7, <1>8

\* One more in a set of tasks.
LEMMA OneTaskMore ==
  ASSUME NEW S, S \subseteq Benchmark!Tasks, NEW t, t \notin S
  PROVE  Cardinality(S) \in Nat /\ Cardinality(S \cup {t}) = Cardinality(S) + 1
  BY SomeTasks, FS_AddElement

\* One less.
LEMMA OneTaskLess ==
  ASSUME NEW S, S \subseteq Benchmark!Tasks, NEW t \in S
  PROVE  Cardinality(S) \in Nat /\ Cardinality(S \ {t}) = Cardinality(S) - 1
  BY SomeTasks, FS_RemoveElement

\* A tick spawns a request.
LEMMA TickPreserves == ASSUME BenchInv, Benchmark!Tick PROVE BenchInv'
<1>1. /\ sched.step = "rate" /\ sched' = [sched EXCEPT !.sent = @ + 1, !.active_vus = @ + 1] /\ Benchmark!CountSent
      /\ UNCHANGED <<inbox, coord, worker, metrics>>
  BY DEF Benchmark!Tick
<1>2. PICK t \in Benchmark!Tasks : task[t] = "none" /\ task' = [task EXCEPT ![t] = "ask"]
  BY DEF Benchmark!Tick
<1>3. /\ Placed' /\ task' \in [Benchmark!Tasks -> {"none", "ask", "waiting", "answered", "done"}]
      /\ t \notin Unreported /\ Unreported' = Unreported \cup {t} /\ Unfinished' = Unfinished \cup {t}
  <2>1. PICK x \in {"none", "ask", "done"} : x = "ask"
    OBVIOUS
  <2>2. BenchTypes /\ Placed /\ task[t] \in {"none", "answered"} /\ task' = [task EXCEPT ![t] = x]
    BY <1>2, <2>1 DEF BenchInv
  <2>3. /\ Placed' /\ task' \in [Benchmark!Tasks -> {"none", "ask", "waiting", "answered", "done"}]
        /\ t \notin Unreported
        /\ Unreported' = IF x = "ask" THEN Unreported \cup {t} ELSE Unreported
        /\ Unfinished' = IF x = "none" THEN Unfinished \ {t} ELSE Unfinished \cup {t}
    BY <1>1, <2>2, TaskMoves
  <2>4. QED
    BY <2>1, <2>3
<1>4. t \notin Unfinished /\ Unfinished \subseteq Benchmark!Tasks /\ Unreported \subseteq Benchmark!Tasks
  BY <1>2 DEF Unfinished, Unreported
<1>5. PICK c \in Nat : c = Cardinality(Unreported) /\ Cardinality(Unreported') = c + 1
  BY <1>3, <1>4, OneTaskMore
<1>6. PICK g \in Nat : g = Cardinality(Unfinished) /\ Cardinality(Unfinished') = g + 1
  BY <1>3, <1>4, OneTaskMore
<1>7. /\ sched' \in Schedulers /\ sched'.step = "rate" /\ sched'.config = sched.config /\ sched'.active_vus = g + 1
  <2>1. sched.active_vus = g /\ sched.sent \in Nat
    BY <1>1, <1>6 DEF BenchInv, Gauge, BenchTypes, Schedulers
  <2>2. PICK k \in Nat : k = sched.sent + 1
    BY <2>1
  <2>3. PICK y \in Int : y = g + 1
    OBVIOUS
  <2>4. sched' = [sched EXCEPT !.sent = k, !.active_vus = y]
    BY <1>1, <2>1, <2>2, <2>3
  <2>5. /\ sched' \in Schedulers /\ sched'.step = "rate" /\ sched'.config = sched.config /\ sched'.active_vus = y
    BY <1>1, <2>4 DEF BenchInv, BenchTypes, Schedulers
  <2>6. QED
    BY <2>3, <2>5
<1>8. Gauge'
  BY <1>6, <1>7 DEF Gauge
<1>9. PICK d \in Nat : d = Cardinality(Unreported') /\ d = c + 1
  BY <1>5
<1>10. /\ inbox' \in [Benchmark!Boxes -> Seq(Notes)]
       /\ worker' \in [Benchmark!Workers -> [task : Benchmark!Tasks \cup {0}, step : {"idle", "executing", "replying"}]]
  BY <1>1 DEF BenchInv, BenchTypes
<1>11. QED
  BY <1>1, <1>3, <1>5, <1>7, <1>8, <1>9, <1>10, PhaseGoesOn

\* A user asks again, or ends.
LEMMA VuPreserves == ASSUME BenchInv, NEW t \in Benchmark!Tasks, Benchmark!VuAnswered(t) PROVE BenchInv'
<1>1. sched.step \in {"vus", "join"} /\ task[t] = "answered" /\ UNCHANGED <<inbox, coord, worker, metrics>>
  BY DEF Benchmark!VuAnswered
<1>2. PICK x \in {"ask", "done"} :
        /\ task' = [task EXCEPT ![t] = x]
        /\ x = "ask" => Benchmark!CountSent /\ sched' = [sched EXCEPT !.sent = @ + 1]
        /\ x = "done" => sent' = sent /\ sched' = [sched EXCEPT !.active_vus = @ - 1]
  BY DEF Benchmark!VuAnswered
<1>3. /\ Placed' /\ task' \in [Benchmark!Tasks -> {"none", "ask", "waiting", "answered", "done"}]
      /\ t \notin Unreported
      /\ Unreported' = IF x = "ask" THEN Unreported \cup {t} ELSE Unreported
  <2>1. BenchTypes /\ Placed /\ task[t] \in {"none", "answered"}
    BY <1>1 DEF BenchInv
  <2>2. QED
    BY <1>1, <1>2, <2>1, TaskMoves
<1>4. PICK c \in Nat : c = Cardinality(Unreported) /\ Cardinality(Unreported \cup {t}) = c + 1
  <2>1. Unreported \subseteq Benchmark!Tasks
    BY DEF Unreported
  <2>2. QED
    BY <1>3, <2>1, OneTaskMore
<1>5. PICK d \in Nat : d = Cardinality(Unreported') /\ d = IF x = "ask" THEN c + 1 ELSE c
  BY <1>3, <1>4
<1>6. sched' \in Schedulers /\ sched'.step = sched.step /\ sched'.config = sched.config
  <2>1. sched.sent \in Nat /\ sched.active_vus \in Int
    BY DEF BenchInv, BenchTypes, Schedulers
  <2>2. PICK k \in Nat, y \in Int : k = sched.sent + 1 /\ y = sched.active_vus - 1
    BY <2>1
  <2>3. sched' = [sched EXCEPT !.sent = k] \/ sched' = [sched EXCEPT !.active_vus = y]
    BY <1>2, <2>2
  <2>4. QED
    BY <2>3 DEF BenchInv, BenchTypes, Schedulers
<1>7. Gauge'
  BY <1>1, <1>6 DEF Gauge
<1>8. /\ inbox' \in [Benchmark!Boxes -> Seq(Notes)]
      /\ worker' \in [Benchmark!Workers -> [task : Benchmark!Tasks \cup {0}, step : {"idle", "executing", "replying"}]]
  BY <1>1 DEF BenchInv, BenchTypes
<1>9. (sent' = sent /\ d = c) \/ (Benchmark!CountSent /\ d = c + 1)
  BY <1>2, <1>5
<1>10. QED
  BY <1>1, <1>3, <1>4, <1>5, <1>6, <1>7, <1>8, <1>9, PhaseGoesOn

\* A request of constant rate ends.
LEMMA RequestPreserves == ASSUME BenchInv, NEW t \in Benchmark!Tasks, Benchmark!RequestAnswered(t) PROVE BenchInv'
<1>1. /\ sched.step \in {"rate", "drain"} /\ task[t] = "answered" /\ task' = [task EXCEPT ![t] = "none"]
      /\ sched' = [sched EXCEPT !.active_vus = @ - 1] /\ UNCHANGED <<inbox, coord, worker, metrics, sent>>
  BY DEF Benchmark!RequestAnswered
<1>2. /\ Placed' /\ task' \in [Benchmark!Tasks -> {"none", "ask", "waiting", "answered", "done"}]
      /\ Unreported' = Unreported /\ Unfinished' = Unfinished \ {t}
  <2>1. PICK x \in {"none", "ask", "done"} : x = "none"
    OBVIOUS
  <2>2. BenchTypes /\ Placed /\ task[t] \in {"none", "answered"} /\ task' = [task EXCEPT ![t] = x]
    BY <1>1, <2>1 DEF BenchInv
  <2>3. /\ Placed' /\ task' \in [Benchmark!Tasks -> {"none", "ask", "waiting", "answered", "done"}]
        /\ t \notin Unreported
        /\ Unreported' = IF x = "ask" THEN Unreported \cup {t} ELSE Unreported
        /\ Unfinished' = IF x = "none" THEN Unfinished \ {t} ELSE Unfinished \cup {t}
    BY <1>1, <2>2, TaskMoves
  <2>4. QED
    BY <2>1, <2>3
<1>3. t \in Unfinished /\ Unfinished \subseteq Benchmark!Tasks /\ Unreported \subseteq Benchmark!Tasks
  BY <1>1 DEF Unfinished, Unreported
<1>4. PICK c \in Nat : c = Cardinality(Unreported) /\ c = Cardinality(Unreported')
  BY <1>2, <1>3, SomeTasks
<1>5. PICK g \in Nat : g = Cardinality(Unfinished) /\ Cardinality(Unfinished') = g - 1
  BY <1>2, <1>3, OneTaskLess
<1>6. /\ sched' \in Schedulers /\ sched'.step = sched.step /\ sched'.config = sched.config /\ sched'.active_vus = g - 1
  <2>1. sched.active_vus = g
    BY <1>1, <1>5 DEF BenchInv, Gauge
  <2>2. PICK y \in Int : y = g - 1
    OBVIOUS
  <2>3. sched' = [sched EXCEPT !.active_vus = y]
    BY <1>1, <2>1, <2>2
  <2>4. /\ sched' \in Schedulers /\ sched'.step = sched.step /\ sched'.config = sched.config /\ sched'.active_vus = y
    BY <1>1, <2>3 DEF BenchInv, BenchTypes, Schedulers
  <2>5. QED
    BY <2>2, <2>4
<1>7. Gauge'
  BY <1>1, <1>5, <1>6 DEF Gauge
<1>8. /\ inbox' \in [Benchmark!Boxes -> Seq(Notes)]
      /\ worker' \in [Benchmark!Workers -> [task : Benchmark!Tasks \cup {0}, step : {"idle", "executing", "replying"}]]
  BY <1>1 DEF BenchInv, BenchTypes
<1>9. QED
  BY <1>1, <1>2, <1>4, <1>6, <1>7, <1>8, PhaseGoesOn

\* A task that is not idle is one of a running phase.
LEMMA PhaseRuns ==
  ASSUME BenchInv, NEW t \in Benchmark!Tasks, task[t] # "none" PROVE sched.step # "idle"
  BY DEF BenchInv, Gauge

\* A request is posted to a worker.
LEMMA SendPreserves == ASSUME BenchInv, NEW t \in Benchmark!Tasks, Benchmark!SendRequest(t) PROVE BenchInv'
<1>1. /\ task[t] = "ask" /\ task' = [task EXCEPT ![t] = "waiting"]
      /\ UNCHANGED <<coord, sched, worker, metrics, sent>>
  BY DEF Benchmark!SendRequest
<1>2. PICK w \in Benchmark!Workers : inbox' = Benchmark!Post(inbox, w, [type |-> "SendRequest", task |-> t])
  BY DEF Benchmark!SendRequest
<1>3. PICK m \in Notes : m = [type |-> "SendRequest", task |-> t] /\ m.type = "SendRequest" /\ m.task = t
  <2>1. [type |-> "SendRequest", task |-> t] \in Notes
    BY DEF Notes
  <2>2. PICK m : m = [type |-> "SendRequest", task |-> t]
    OBVIOUS
  <2>3. m.type = "SendRequest" /\ m.task = t
    BY <2>2
  <2>4. QED
    BY <2>1, <2>2, <2>3
<1>4. /\ inbox' \in [Benchmark!Boxes -> Seq(Notes)] /\ inbox'[w] = Append(inbox[w], m)
      /\ inbox'["coordinator"] = inbox["coordinator"] /\ inbox'["scheduler"] = inbox["scheduler"]
      /\ inbox'["metrics"] = inbox["metrics"] /\ \A v \in Benchmark!Workers : v # w => inbox'[v] = inbox[v]
  <2>1. PICK box \in [Benchmark!Boxes -> Seq(Notes)] : box = inbox
    BY DEF BenchInv, BenchTypes
  <2>2. w \in Benchmark!Boxes
    BY BoxNames
  <2>3. PICK new : new = Benchmark!Post(box, w, m)
    OBVIOUS
  <2>4. /\ new \in [Benchmark!Boxes -> Seq(Notes)] /\ new[w] = Append(box[w], m)
        /\ \A b \in Benchmark!Boxes : b # w => new[b] = box[b]
    BY <2>2, <2>3, PostTo
  <2>5. new = inbox'
    BY <1>2, <1>3, <2>1, <2>3
  <2>6. QED
    BY <2>1, <2>4, <2>5, BoxNames
<1>5. \A v \in Benchmark!Workers : \A i \in 1 .. Len(inbox'[v]) :
         \/ v = w /\ i = Len(inbox[w]) + 1 /\ inbox'[v][i] = m
         \/ i \in 1 .. Len(inbox[v]) /\ inbox'[v][i] = inbox[v][i]
  <2>1. PICK p \in Seq(Notes) : p = inbox[w]
    BY BoxNames DEF BenchInv, BenchTypes
  <2>2. PICK q : q = inbox'[w]
    OBVIOUS
  <2>3. Len(q) = Len(p) + 1 /\ Len(p) \in Nat /\ q[Len(p) + 1] = m /\ \A i \in 1 .. Len(p) : q[i] = p[i]
    BY <1>4, <2>1, <2>2, Appended
  <2>4. \A i \in 1 .. Len(p) + 1 : i = Len(p) + 1 \/ i \in 1 .. Len(p)
    BY <2>3
  <2>5. \A i \in 1 .. Len(q) : (i = Len(p) + 1 /\ q[i] = m) \/ (i \in 1 .. Len(p) /\ q[i] = p[i])
    BY <2>3, <2>4
  <2>6. QED
    BY <1>4, <2>1, <2>2, <2>5
<1>6. /\ task' \in [Benchmark!Tasks -> {"none", "ask", "waiting", "answered", "done"}] /\ task'[t] = "waiting"
      /\ \A u \in Benchmark!Tasks : u # t => task'[u] = task[u]
  BY <1>1 DEF BenchInv, BenchTypes
<1>7. /\ \A v \in Benchmark!Workers : worker[v].step # "idle" => worker[v].task # t
      /\ \A v \in Benchmark!Workers : \A i \in 1 .. Len(inbox[v]) : inbox[v][i].task # t
  BY <1>1 DEF BenchInv, Placed
<1>8. \A u \in Benchmark!Tasks : task[u] = "waiting" => task'[u] = "waiting"
  BY <1>6
<1>9. Placed'
  <2>1. \A v \in Benchmark!Workers : \A i \in 1 .. Len(inbox'[v]) :
          /\ inbox'[v][i].type = "SendRequest"
          /\ inbox'[v][i].task \in Benchmark!Tasks /\ task'[inbox'[v][i].task] = "waiting"
          /\ \A z \in Benchmark!Workers : worker'[z].step # "idle" => worker'[z].task # inbox'[v][i].task
    <3> TAKE v \in Benchmark!Workers
    <3> TAKE i \in 1 .. Len(inbox'[v])
    <3>1. CASE v = w /\ i = Len(inbox[w]) + 1 /\ inbox'[v][i] = m
      BY <1>1, <1>3, <1>6, <1>7, <3>1
    <3>2. CASE i \in 1 .. Len(inbox[v]) /\ inbox'[v][i] = inbox[v][i]
      BY <1>1, <1>8, <3>2 DEF BenchInv, Placed
    <3>3. QED
      BY <1>5, <3>1, <3>2
  <2>2. \A v, z \in Benchmark!Workers : \A i \in 1 .. Len(inbox'[v]), j \in 1 .. Len(inbox'[z]) :
          inbox'[v][i].task = inbox'[z][j].task => v = z /\ i = j
    <3>1. \A v, z \in Benchmark!Workers : \A i \in 1 .. Len(inbox[v]), j \in 1 .. Len(inbox[z]) :
            inbox[v][i].task = inbox[z][j].task => v = z /\ i = j
      BY DEF BenchInv, Placed
    <3>2. \A v \in Benchmark!Workers : \A i \in 1 .. Len(inbox'[v]) :
            \/ v = w /\ i = Len(inbox[w]) + 1 /\ inbox'[v][i].task = t
            \/ i \in 1 .. Len(inbox[v]) /\ inbox'[v][i].task = inbox[v][i].task /\ inbox[v][i].task # t
      BY <1>3, <1>5, <1>7
    <3>3. ASSUME NEW v \in Benchmark!Workers, NEW z \in Benchmark!Workers, NEW i \in 1 .. Len(inbox'[v]), NEW j \in 1 .. Len(inbox'[z]),
                 inbox'[v][i].task = inbox'[z][j].task
          PROVE  v = z /\ i = j
      <4>1. \/ v = w /\ i = Len(inbox[w]) + 1 /\ inbox'[v][i].task = t
            \/ i \in 1 .. Len(inbox[v]) /\ inbox'[v][i].task = inbox[v][i].task /\ inbox[v][i].task # t
        BY <3>2
      <4>2. \/ z = w /\ j = Len(inbox[w]) + 1 /\ inbox'[z][j].task = t
            \/ j \in 1 .. Len(inbox[z]) /\ inbox'[z][j].task = inbox[z][j].task /\ inbox[z][j].task # t
        BY <3>2
      <4>3. QED
        BY <3>1, <3>3, <4>1, <4>2
    <3>4. QED
      BY <3>3
  <2>3. \A v \in Benchmark!Workers : worker'[v].step # "idle" => worker'[v].task \in Benchmark!Tasks /\ task'[worker'[v].task] = "waiting"
    BY <1>1, <1>8 DEF BenchInv, Placed
  <2>4. \A v, z \in Benchmark!Workers :
          worker'[v].step # "idle" /\ worker'[z].step # "idle" /\ worker'[v].task = worker'[z].task => v = z
    BY <1>1 DEF BenchInv, Placed
  <2>5. QED
    BY <2>1, <2>2, <2>3, <2>4 DEF Placed
<1>10. Unreported' = Unreported
  <2>1. ~Replied(t)
    BY <1>7 DEF Replied
  <2>2. \A u : Replied(u)' <=> Replied(u)
    BY <1>1 DEF Replied
  <2>3. \A u \in Benchmark!Tasks : u \in Unreported' <=> u \in Unreported
    BY <1>1, <1>6, <2>1, <2>2 DEF Unreported
  <2>4. QED
    BY <2>3 DEF Unreported
<1>11. Unfinished' = Unfinished
  <2>1. \A u \in Benchmark!Tasks : u \in Unfinished' <=> u \in Unfinished
    BY <1>1, <1>6 DEF Unfinished
  <2>2. QED
    BY <2>1 DEF Unfinished
<1>12. sched.step # "idle" /\ sched' \in Schedulers /\ sched'.step = sched.step /\ sched'.config = sched.config
       /\ sched'.active_vus = sched.active_vus
  BY <1>1, PhaseRuns DEF BenchInv, BenchTypes
<1>13. Gauge'
  BY <1>11, <1>12 DEF BenchInv, Gauge
<1>14. PICK c \in Nat : c = Cardinality(Unreported) /\ c = Cardinality(Unreported')
  BY <1>10, SomeTasks DEF Unreported
<1>15. worker' \in [Benchmark!Workers -> [task : Benchmark!Tasks \cup {0}, step : {"idle", "executing", "replying"}]]
  BY <1>1 DEF BenchInv, BenchTypes
<1>16. QED
  BY <1>1, <1>4, <1>6, <1>9, <1>12, <1>13, <1>14, <1>15, PhaseGoesOn

\* A worker takes a request.
LEMMA ReceivePreserves == ASSUME BenchInv, NEW w \in Benchmark!Workers, Benchmark!Receive(w) PROVE BenchInv'
<1>1. /\ worker[w].step = "idle" /\ inbox[w] # <<>> /\ inbox' = Benchmark!Took(inbox, w)
      /\ worker' = [worker EXCEPT ![w] = [task |-> Head(inbox[w]).task, step |-> "executing"]]
      /\ UNCHANGED <<coord, sched, task, metrics, sent>>
  BY DEF Benchmark!Receive, Benchmark!Gets
<1>2. PICK p \in Seq(Notes) : p = inbox[w] /\ p # <<>>
  BY <1>1, BoxNames DEF BenchInv, BenchTypes
<1>3. /\ Tail(p) \in Seq(Notes) /\ Len(p) \in Nat /\ Len(p) > 0 /\ Len(Tail(p)) = Len(p) - 1
      /\ Head(p) = p[1] /\ \A i \in 1 .. Len(p) - 1 : Tail(p)[i] = p[i + 1]
  BY <1>2, Behead
<1>4. 1 \in 1 .. Len(p)
  BY <1>3
<1>5. PICK t \in Benchmark!Tasks :
        /\ t = Head(inbox[w]).task /\ t = p[1].task /\ task[t] = "waiting"
        /\ \A v \in Benchmark!Workers : worker[v].step # "idle" => worker[v].task # t
  BY <1>2, <1>3, <1>4 DEF BenchInv, Placed
<1>6. /\ inbox' \in [Benchmark!Boxes -> Seq(Notes)] /\ inbox'[w] = Tail(p)
      /\ inbox'["coordinator"] = inbox["coordinator"] /\ inbox'["scheduler"] = inbox["scheduler"]
      /\ inbox'["metrics"] = inbox["metrics"] /\ \A v \in Benchmark!Workers : v # w => inbox'[v] = inbox[v]
  <2>1. PICK box \in [Benchmark!Boxes -> Seq(Notes)] : box = inbox
    BY DEF BenchInv, BenchTypes
  <2>2. w \in Benchmark!Boxes /\ box[w] # <<>>
    BY <1>1, <2>1, BoxNames
  <2>3. PICK new : new = Benchmark!Took(box, w)
    OBVIOUS
  <2>4. /\ new \in [Benchmark!Boxes -> Seq(Notes)] /\ new[w] = Tail(box[w])
        /\ \A b \in Benchmark!Boxes : b # w => new[b] = box[b]
    BY <2>2, <2>3, TookFrom
  <2>5. new = inbox'
    BY <1>1, <2>1, <2>3
  <2>6. QED
    BY <1>2, <2>1, <2>4, <2>5, BoxNames
<1>7. \A v \in Benchmark!Workers : \A i \in 1 .. Len(inbox'[v]) :
        \E j \in 1 .. Len(inbox[v]) :
           inbox'[v][i] = inbox[v][j] /\ j = (IF v = w THEN i + 1 ELSE i) /\ (v = w => j # 1)
  <2> TAKE v \in Benchmark!Workers
  <2> TAKE i \in 1 .. Len(inbox'[v])
  <2>1. CASE v # w
    BY <1>6, <2>1
  <2>2. CASE v = w
    <3>1. i \in 1 .. Len(p) - 1
      BY <1>3, <1>6, <2>2
    <3>2. i + 1 \in 1 .. Len(p) /\ i + 1 # 1
      BY <1>3, <3>1
    <3>3. inbox'[v][i] = p[i + 1]
      BY <1>3, <1>6, <2>2, <3>1
    <3>4. QED
      BY <1>2, <2>2, <3>2, <3>3
  <2>3. QED
    BY <2>1, <2>2
<1>8. /\ worker' \in [Benchmark!Workers -> [task : Benchmark!Tasks \cup {0}, step : {"idle", "executing", "replying"}]]
      /\ worker'[w].task = t /\ worker'[w].step = "executing"
      /\ \A v \in Benchmark!Workers : v # w => worker'[v] = worker[v]
  <2>1. PICK x : x = [task |-> t, step |-> "executing"]
    OBVIOUS
  <2>2. x \in [task : Benchmark!Tasks \cup {0}, step : {"idle", "executing", "replying"}] /\ x.task = t /\ x.step = "executing"
    BY <2>1
  <2>3. worker' = [worker EXCEPT ![w] = x]
    BY <1>1, <1>5, <2>1
  <2>4. worker \in [Benchmark!Workers -> [task : Benchmark!Tasks \cup {0}, step : {"idle", "executing", "replying"}]]
    BY DEF BenchInv, BenchTypes
  <2>5. QED
    BY <2>2, <2>3, <2>4
<1>9. \A v \in Benchmark!Workers : \A i \in 1 .. Len(inbox[v]) :
        /\ inbox[v][i].type = "SendRequest"
        /\ inbox[v][i].task \in Benchmark!Tasks /\ task[inbox[v][i].task] = "waiting"
        /\ \A z \in Benchmark!Workers : worker[z].step # "idle" => worker[z].task # inbox[v][i].task
  BY DEF BenchInv, Placed
<1>10. \A v, z \in Benchmark!Workers : \A i \in 1 .. Len(inbox[v]), j \in 1 .. Len(inbox[z]) :
         inbox[v][i].task = inbox[z][j].task => v = z /\ i = j
  BY DEF BenchInv, Placed
<1>11. \A v \in Benchmark!Workers : \A j \in 1 .. Len(inbox[v]) : (v = w => j # 1) => inbox[v][j].task # t
  BY <1>2, <1>4, <1>5, <1>10
<1>12. Placed'
  <2>1. \A v \in Benchmark!Workers : \A i \in 1 .. Len(inbox'[v]) :
          /\ inbox'[v][i].type = "SendRequest"
          /\ inbox'[v][i].task \in Benchmark!Tasks /\ task'[inbox'[v][i].task] = "waiting"
          /\ \A z \in Benchmark!Workers : worker'[z].step # "idle" => worker'[z].task # inbox'[v][i].task
    <3> TAKE v \in Benchmark!Workers
    <3> TAKE i \in 1 .. Len(inbox'[v])
    <3>1. PICK j \in 1 .. Len(inbox[v]) : inbox'[v][i] = inbox[v][j] /\ (v = w => j # 1)
      BY <1>7
    <3>2. inbox[v][j].task # t
      BY <1>11, <3>1
    <3>3. QED
      BY <1>1, <1>8, <1>9, <3>1, <3>2
  <2>2. ASSUME NEW v \in Benchmark!Workers, NEW z \in Benchmark!Workers, NEW i \in 1 .. Len(inbox'[v]), NEW j \in 1 .. Len(inbox'[z]),
               inbox'[v][i].task = inbox'[z][j].task
        PROVE  v = z /\ i = j
    <3>1. PICK a \in 1 .. Len(inbox[v]) : inbox'[v][i] = inbox[v][a] /\ a = (IF v = w THEN i + 1 ELSE i)
      BY <1>7
    <3>2. PICK b \in 1 .. Len(inbox[z]) : inbox'[z][j] = inbox[z][b] /\ b = (IF z = w THEN j + 1 ELSE j)
      BY <1>7
    <3>3. v = z /\ a = b
      BY <1>10, <2>2, <3>1, <3>2
    <3>4. i \in Int /\ j \in Int
      OBVIOUS
    <3>5. QED
      BY <3>1, <3>2, <3>3, <3>4
  <2>3. \A v \in Benchmark!Workers : worker'[v].step # "idle" => worker'[v].task \in Benchmark!Tasks /\ task'[worker'[v].task] = "waiting"
    BY <1>1, <1>5, <1>8 DEF BenchInv, Placed
  <2>4. \A v, z \in Benchmark!Workers :
          worker'[v].step # "idle" /\ worker'[z].step # "idle" /\ worker'[v].task = worker'[z].task => v = z
    BY <1>5, <1>8 DEF BenchInv, Placed
  <2>5. QED
    BY <2>1, <2>2, <2>3, <2>4 DEF Placed
<1>13. Unreported' = Unreported /\ Unfinished' = Unfinished
  <2>1. \A u : Replied(u)' <=> Replied(u)
    BY <1>1, <1>8 DEF Replied
  <2>2. QED
    BY <1>1, <2>1 DEF Unreported, Unfinished
<1>14. sched.step # "idle" /\ sched' \in Schedulers /\ sched'.step = sched.step /\ sched'.config = sched.config
  BY <1>1, <1>5, PhaseRuns DEF BenchInv, BenchTypes
<1>15. Gauge'
  BY <1>1, <1>13 DEF BenchInv, Gauge
<1>16. PICK c \in Nat : c = Cardinality(Unreported) /\ c = Cardinality(Unreported')
  BY <1>13, SomeTasks DEF Unreported
<1>17. task' \in [Benchmark!Tasks -> {"none", "ask", "waiting", "answered", "done"}]
  BY <1>1 DEF BenchInv, BenchTypes
<1>18. QED
  BY <1>1, <1>6, <1>8, <1>12, <1>14, <1>15, <1>16, <1>17, PhaseGoesOn

\* A worker reports a request, once.
LEMMA ReportPreserves == ASSUME BenchInv, NEW w \in Benchmark!Workers, Benchmark!Report(w) PROVE BenchInv'
<1>1. /\ worker[w].step = "executing" /\ worker' = [worker EXCEPT ![w].step = "replying"]
      /\ UNCHANGED <<coord, sched, task, metrics, sent>>
  BY DEF Benchmark!Report
<1>2. PICK ok \in BOOLEAN : inbox' = Benchmark!Post(inbox, "metrics", [type |-> "RequestCompleted", success |-> ok])
  BY DEF Benchmark!Report
<1>3. PICK m \in Notes : m = [type |-> "RequestCompleted", success |-> ok] /\ m.type = "RequestCompleted"
  <2>1. [type |-> "RequestCompleted", success |-> ok] \in Notes
    BY DEF Notes
  <2>2. PICK m : m = [type |-> "RequestCompleted", success |-> ok]
    OBVIOUS
  <2>3. m.type = "RequestCompleted"
    BY <2>2
  <2>4. QED
    BY <2>1, <2>2, <2>3
<1>4. /\ inbox' \in [Benchmark!Boxes -> Seq(Notes)] /\ inbox'["metrics"] = Append(inbox["metrics"], m)
      /\ inbox'["coordinator"] = inbox["coordinator"] /\ inbox'["scheduler"] = inbox["scheduler"]
      /\ \A v \in Benchmark!Workers : inbox'[v] = inbox[v]
  BY <1>2, <1>3, ToMetrics DEF BenchInv
<1>5. PICK t \in Benchmark!Tasks : t = worker[w].task /\ task[t] = "waiting"
  BY <1>1 DEF BenchInv, Placed
<1>6. /\ worker' \in [Benchmark!Workers -> [task : Benchmark!Tasks \cup {0}, step : {"idle", "executing", "replying"}]]
      /\ worker'[w].task = t /\ worker'[w].step = "replying"
      /\ \A v \in Benchmark!Workers : v # w => worker'[v] = worker[v]
  <2>1. worker \in [Benchmark!Workers -> [task : Benchmark!Tasks \cup {0}, step : {"idle", "executing", "replying"}]]
    BY DEF BenchInv, BenchTypes
  <2>2. PICK x : x = [worker[w] EXCEPT !.step = "replying"]
    OBVIOUS
  <2>3. worker[w] \in [task : Benchmark!Tasks \cup {0}, step : {"idle", "executing", "replying"}]
    BY <2>1
  <2>4. x \in [task : Benchmark!Tasks \cup {0}, step : {"idle", "executing", "replying"}] /\ x.task = t /\ x.step = "replying"
    BY <1>5, <2>2, <2>3
  <2>5. worker' = [worker EXCEPT ![w] = x]
    BY <1>1, <2>2
  <2>6. QED
    BY <2>1, <2>4, <2>5
<1>7. PICK at \in Nat : at = coord.at /\ at > 0
  BY <1>5, PhaseRuns, Scheduling
<1>8. /\ sched.step # "idle" /\ coord.step = "scheduling" /\ coord.state = "Running"
      /\ Len(sent) = at /\ at \in DOMAIN sent /\ sent \in Seq(Nat)
  BY <1>5, <1>7, PhaseRuns, Scheduling
<1>9. BenchTypes'
  <2>1. BenchTypes /\ UNCHANGED <<coord, sched, task, metrics, sent>>
    BY <1>1 DEF BenchInv
  <2>2. inbox' \in [Benchmark!Boxes -> Seq(Notes)]
    BY <1>4
  <2>3. coord' \in Coordinators' /\ sched' \in Schedulers'
    BY <2>1 DEF BenchTypes, Coordinators, Schedulers
  <2>4. QED
    BY <1>6, <2>1, <2>2, <2>3 DEF BenchTypes
<1>10. Requested'
  BY <1>4 DEF BenchInv, Requested
<1>11. Flow'
  BY <1>1, <1>4 DEF BenchInv, Flow
<1>12. Replies' /\ Fresh' /\ Reports'
  <2>1. NoneWaits
    BY <1>8, NobodyWaits DEF BenchInv
  <2>2. \A i \in 1 .. Len(inbox'["metrics"]) : inbox'["metrics"][i].type # "GetReport"
    BY <1>3, <1>4, <2>1, InPosted DEF NoneWaits, BenchInv
  <2>3. QED
    BY <1>1, <1>8, <2>2 DEF Replies, Fresh, Reports
<1>13. \A v \in Benchmark!Workers : worker'[v].task = worker[v].task /\ (worker'[v].step # "idle" <=> worker[v].step # "idle")
  BY <1>1, <1>5, <1>6
<1>14. Placed'
  <2>1. \A v \in Benchmark!Workers : \A i \in 1 .. Len(inbox'[v]) :
          /\ inbox'[v][i].type = "SendRequest"
          /\ inbox'[v][i].task \in Benchmark!Tasks /\ task'[inbox'[v][i].task] = "waiting"
          /\ \A z \in Benchmark!Workers : worker'[z].step # "idle" => worker'[z].task # inbox'[v][i].task
    BY <1>1, <1>4, <1>13 DEF BenchInv, Placed
  <2>2. \A v, z \in Benchmark!Workers : \A i \in 1 .. Len(inbox'[v]), j \in 1 .. Len(inbox'[z]) :
          inbox'[v][i].task = inbox'[z][j].task => v = z /\ i = j
    <3>1. \A v, z \in Benchmark!Workers : \A i \in 1 .. Len(inbox[v]), j \in 1 .. Len(inbox[z]) :
            inbox[v][i].task = inbox[z][j].task => v = z /\ i = j
      BY DEF BenchInv, Placed
    <3>2. ASSUME NEW v \in Benchmark!Workers, NEW z \in Benchmark!Workers, NEW i \in 1 .. Len(inbox'[v]), NEW j \in 1 .. Len(inbox'[z]),
                 inbox'[v][i].task = inbox'[z][j].task
          PROVE  v = z /\ i = j
      <4>1. inbox'[v] = inbox[v] /\ inbox'[z] = inbox[z]
        BY <1>4
      <4>2. QED
        BY <3>1, <3>2, <4>1
    <3>3. QED
      BY <3>2
  <2>3. \A v \in Benchmark!Workers : worker'[v].step # "idle" => worker'[v].task \in Benchmark!Tasks /\ task'[worker'[v].task] = "waiting"
    BY <1>1, <1>13 DEF BenchInv, Placed
  <2>4. \A v, z \in Benchmark!Workers :
          worker'[v].step # "idle" /\ worker'[z].step # "idle" /\ worker'[v].task = worker'[z].task => v = z
    BY <1>13 DEF BenchInv, Placed
  <2>5. QED
    BY <2>1, <2>2, <2>3, <2>4 DEF Placed
<1>15. Gauge'
  BY <1>1 DEF BenchInv, Gauge, Unfinished
<1>16. t \in Unreported /\ Unreported' = Unreported \ {t}
  <2>1. ~Replied(t)
    BY <1>1, <1>5 DEF BenchInv, Placed, Replied
  <2>2. Replied(t)'
    BY <1>6 DEF Replied
  <2>3. \A u \in Benchmark!Tasks : u # t => (Replied(u)' <=> Replied(u))
    BY <1>5, <1>6 DEF Replied
  <2>4. \A u \in Benchmark!Tasks : u \in Unreported' <=> u \in Unreported /\ u # t
    BY <1>1, <1>5, <2>1, <2>2, <2>3 DEF Unreported
  <2>5. Unreported' \subseteq Benchmark!Tasks /\ Unreported \subseteq Benchmark!Tasks /\ t \in Unreported
    BY <1>5, <2>1 DEF Unreported
  <2>6. QED
    BY <2>4, <2>5
<1>17. PICK c \in Nat : c = Cardinality(Unreported) /\ Cardinality(Unreported') = c - 1 /\ c > 0
  <2>1. Unreported \subseteq Benchmark!Tasks /\ Unreported' \subseteq Benchmark!Tasks
    BY DEF Unreported
  <2>2. Cardinality(Unreported) \in Nat /\ Cardinality(Unreported') = Cardinality(Unreported) - 1
    BY <1>16, <2>1, OneTaskLess
  <2>3. Cardinality(Unreported') \in Nat
    BY <2>1, SomeTasks
  <2>4. QED
    BY <2>2, <2>3
<1>18. Counts'
  <2>1. PICK e \in Spot : Arrives(e) /\ Ahead(inbox["metrics"], Now, e, sent, at)
    BY <1>7 DEF BenchInv, Counts, Coming
  <2>2. e.open /\ e.n = at /\ e.k + c = sent[at]
    BY <1>7, <1>8, <1>17, <2>1 DEF Arrives
  <2>3. e.k \in Nat /\ e.k + 1 \in Nat /\ sent[at] \in Nat
    BY <1>8, <2>1, ElementOfSeq, LenProperties DEF Spot
  <2>4. PICK d \in Spot : d = [n |-> at, open |-> TRUE, k |-> e.k + 1] /\ d.n = at /\ d.open = TRUE /\ d.k = e.k + 1
    <3>1. PICK k \in Nat : k = e.k + 1
      BY <2>3
    <3>2. PICK d : d = [n |-> at, open |-> TRUE, k |-> k]
      OBVIOUS
    <3>3. d \in Spot
      BY <3>2 DEF Spot
    <3>4. d.n = at /\ d.open = TRUE /\ d.k = k
      BY <3>2
    <3>5. QED
      BY <3>1, <3>2, <3>3, <3>4
  <2>5. Goes(m, e, d, sent, at)
    BY <1>3, <2>2, <2>4 DEF Goes
  <2>6. Fits(d, sent)
    <3>1. e.k + 1 <= sent[at]
      BY <1>17, <2>2, <2>3
    <3>2. QED
      BY <1>8, <2>4, <3>1 DEF Fits, SentIn
  <2>7. Ahead(inbox'["metrics"], Now, d, sent, at)
    BY <1>4, <2>1, <2>5, <2>6, NotePosted DEF BenchInv
  <2>8. Now' = Now
    BY <1>1 DEF Now
  <2>9. Arrives(d)'
    <3>1. d.k + (c - 1) = sent[at]
      BY <1>17, <2>2, <2>3, <2>4
    <3>2. QED
      BY <1>1, <1>7, <1>8, <1>17, <2>4, <3>1 DEF Arrives
  <2>10. Coming'
    BY <1>1, <1>7, <2>7, <2>8, <2>9 DEF Coming
  <2>11. QED
    BY <1>1, <2>10 DEF BenchInv, Counts, Benchmark!CountsAll, Benchmark!Sent
<1>19. QED
  BY <1>9, <1>10, <1>11, <1>12, <1>14, <1>15, <1>18 DEF BenchInv

\* The task gets its answer.
LEMMA WorkerAnswers == ASSUME BenchInv, NEW w \in Benchmark!Workers, Benchmark!Answer(w) PROVE BenchInv'
<1>1. /\ worker[w].step = "replying" /\ task' = [task EXCEPT ![worker[w].task] = "answered"]
      /\ worker' = [worker EXCEPT ![w] = [task |-> 0, step |-> "idle"]]
      /\ UNCHANGED <<inbox, coord, sched, metrics, sent>>
  BY DEF Benchmark!Answer
<1>2. PICK t \in Benchmark!Tasks : t = worker[w].task /\ task[t] = "waiting"
  BY <1>1 DEF BenchInv, Placed
<1>3. /\ worker' \in [Benchmark!Workers -> [task : Benchmark!Tasks \cup {0}, step : {"idle", "executing", "replying"}]]
      /\ worker'[w].step = "idle" /\ \A v \in Benchmark!Workers : v # w => worker'[v] = worker[v]
  <2>1. worker \in [Benchmark!Workers -> [task : Benchmark!Tasks \cup {0}, step : {"idle", "executing", "replying"}]]
    BY DEF BenchInv, BenchTypes
  <2>2. PICK x : x = [task |-> 0, step |-> "idle"]
    OBVIOUS
  <2>3. x \in [task : Benchmark!Tasks \cup {0}, step : {"idle", "executing", "replying"}] /\ x.step = "idle"
    BY <2>2
  <2>4. worker' = [worker EXCEPT ![w] = x]
    BY <1>1, <2>2
  <2>5. QED
    BY <2>1, <2>3, <2>4
<1>4. /\ task' \in [Benchmark!Tasks -> {"none", "ask", "waiting", "answered", "done"}] /\ task'[t] = "answered"
      /\ \A u \in Benchmark!Tasks : u # t => task'[u] = task[u]
  BY <1>1, <1>2 DEF BenchInv, BenchTypes
<1>5. Placed'
  <2>1. \A v \in Benchmark!Workers : \A i \in 1 .. Len(inbox[v]) :
          /\ inbox[v][i].type = "SendRequest"
          /\ inbox[v][i].task \in Benchmark!Tasks /\ task[inbox[v][i].task] = "waiting" /\ inbox[v][i].task # t
          /\ \A z \in Benchmark!Workers : worker[z].step # "idle" => worker[z].task # inbox[v][i].task
    BY <1>1, <1>2 DEF BenchInv, Placed
  <2>2. \A v \in Benchmark!Workers : worker'[v].step # "idle" =>
          v # w /\ worker[v].step # "idle" /\ worker'[v].task = worker[v].task
    BY <1>3
  <2>3. \A v \in Benchmark!Workers : \A i \in 1 .. Len(inbox'[v]) :
          /\ inbox'[v][i].type = "SendRequest"
          /\ inbox'[v][i].task \in Benchmark!Tasks /\ task'[inbox'[v][i].task] = "waiting"
          /\ \A z \in Benchmark!Workers : worker'[z].step # "idle" => worker'[z].task # inbox'[v][i].task
    BY <1>1, <1>4, <2>1, <2>2
  <2>4. \A v, z \in Benchmark!Workers : \A i \in 1 .. Len(inbox'[v]), j \in 1 .. Len(inbox'[z]) :
          inbox'[v][i].task = inbox'[z][j].task => v = z /\ i = j
    BY <1>1 DEF BenchInv, Placed
  <2>5. \A v \in Benchmark!Workers : worker'[v].step # "idle" => worker'[v].task \in Benchmark!Tasks /\ task'[worker'[v].task] = "waiting"
    <3> TAKE v \in Benchmark!Workers
    <3> HAVE worker'[v].step # "idle"
    <3>1. v # w /\ worker[v].step # "idle" /\ worker'[v].task = worker[v].task
      BY <2>2
    <3>2. worker[v].task \in Benchmark!Tasks /\ task[worker[v].task] = "waiting" /\ worker[v].task # t
      BY <1>1, <1>2, <3>1 DEF BenchInv, Placed
    <3>3. QED
      BY <1>4, <3>1, <3>2
  <2>6. \A v, z \in Benchmark!Workers :
          worker'[v].step # "idle" /\ worker'[z].step # "idle" /\ worker'[v].task = worker'[z].task => v = z
    BY <2>2 DEF BenchInv, Placed
  <2>7. QED
    BY <2>3, <2>4, <2>5, <2>6 DEF Placed
<1>6. Unreported' = Unreported
  <2>1. Replied(t)
    BY <1>1, <1>2 DEF Replied
  <2>2. \A u \in Benchmark!Tasks : u # t => (Replied(u)' <=> Replied(u))
    BY <1>2, <1>3 DEF Replied
  <2>3. \A u \in Benchmark!Tasks : u \in Unreported' <=> u \in Unreported
    BY <1>2, <1>4, <2>1, <2>2 DEF Unreported
  <2>4. QED
    BY <2>3 DEF Unreported
<1>7. Unfinished' = Unfinished
  <2>1. \A u \in Benchmark!Tasks : u \in Unfinished' <=> u \in Unfinished
    BY <1>2, <1>4 DEF Unfinished
  <2>2. QED
    BY <2>1 DEF Unfinished
<1>8. sched.step # "idle" /\ sched' \in Schedulers /\ sched'.step = sched.step /\ sched'.config = sched.config
      /\ sched'.active_vus = sched.active_vus
  BY <1>1, <1>2, PhaseRuns DEF BenchInv, BenchTypes
<1>9. Gauge'
  BY <1>7, <1>8 DEF BenchInv, Gauge
<1>10. PICK c \in Nat : c = Cardinality(Unreported) /\ c = Cardinality(Unreported')
  BY <1>6, SomeTasks DEF Unreported
<1>11. inbox' \in [Benchmark!Boxes -> Seq(Notes)]
  BY <1>1 DEF BenchInv, BenchTypes
<1>12. QED
  BY <1>1, <1>3, <1>4, <1>5, <1>8, <1>9, <1>10, <1>11, PhaseGoesOn

\* What taking a message from the aggregator's mailbox does.
LEMMA MetricsTakes ==
  ASSUME BenchInv, inbox["metrics"] # <<>>, inbox' = Benchmark!Took(inbox, "metrics")
  PROVE  /\ inbox' \in [Benchmark!Boxes -> Seq(Notes)] /\ inbox'["metrics"] = Tail(inbox["metrics"])
         /\ inbox'["coordinator"] = inbox["coordinator"] /\ inbox'["scheduler"] = inbox["scheduler"]
         /\ \A w \in Benchmark!Workers : inbox'[w] = inbox[w]
         /\ Len(inbox["metrics"]) \in Nat /\ Len(inbox["metrics"]) > 0 /\ Head(inbox["metrics"]) \in Notes
         /\ Head(inbox["metrics"]) = inbox["metrics"][1]
         /\ Len(inbox'["metrics"]) = Len(inbox["metrics"]) - 1
         /\ \A i \in 1 .. Len(inbox["metrics"]) - 1 : inbox'["metrics"][i] = inbox["metrics"][i + 1]
<1>1. PICK box \in [Benchmark!Boxes -> Seq(Notes)] : box = inbox
  BY DEF BenchInv, BenchTypes
<1>2. PICK t \in Benchmark!Boxes : t = "metrics" /\ box[t] # <<>>
  BY <1>1, BoxNames
<1>3. PICK new : new = Benchmark!Took(box, t)
  OBVIOUS
<1>4. /\ new \in [Benchmark!Boxes -> Seq(Notes)] /\ new[t] = Tail(box[t])
      /\ \A b \in Benchmark!Boxes : b # t => new[b] = box[b]
  BY <1>2, <1>3, TookFrom
<1>5. new = inbox'
  BY <1>1, <1>2, <1>3
<1>6. PICK q \in Seq(Notes) : q = box[t] /\ q # <<>>
  BY <1>2
<1>7. /\ Len(q) \in Nat /\ Len(q) > 0 /\ Len(Tail(q)) = Len(q) - 1
      /\ Head(q) = q[1] /\ Head(q) \in Notes /\ \A i \in 1 .. Len(q) - 1 : Tail(q)[i] = q[i + 1]
  BY <1>6, Behead
<1>8. QED
  BY <1>1, <1>2, <1>4, <1>5, <1>6, <1>7, BoxNames

\* The messages that are left wait as they did.
LEMMA StillReplies ==
  ASSUME BenchInv, inbox["metrics"] # <<>>, inbox' = Benchmark!Took(inbox, "metrics"), coord' = coord
  PROVE  Replies'
<1>1. PICK n \in Nat : n = Len(inbox["metrics"]) /\ n > 0 /\ Len(inbox'["metrics"]) = n - 1
  BY MetricsTakes
<1>2. \A i \in 1 .. n - 1 : inbox'["metrics"][i] = inbox["metrics"][i + 1]
  BY <1>1, MetricsTakes
<1>3. \A i \in 1 .. n - 1 : i + 1 \in 1 .. n /\ (i + 1 = n => i = n - 1)
  OBVIOUS
<1>4. \A i \in 1 .. n : inbox["metrics"][i].type = "GetReport" =>
        i = n /\ coord.step = IF inbox["metrics"][i].for = Benchmark!NoRun THEN "fetching" ELSE "forwarding"
  BY <1>1 DEF BenchInv, Replies
<1>5. \A i \in 1 .. n - 1 : inbox'["metrics"][i].type = "GetReport" =>
        i = n - 1 /\ coord'.step = IF inbox'["metrics"][i].for = Benchmark!NoRun THEN "fetching" ELSE "forwarding"
  BY <1>2, <1>3, <1>4
<1>6. QED
  BY <1>1, <1>5 DEF Replies

\* The current phase of the aggregator is a numbered one.
LEMMA CurrentPhase ==
  ASSUME BenchInv
  PROVE  /\ metrics.completed \in Seq(Stats) /\ Len(metrics.completed) \in Nat /\ metrics.current \in Stats
         /\ Benchmark!Counted(metrics.current) \in Nat /\ Benchmark!Counted(Benchmark!NoStats) = 0 /\ Benchmark!NoStats \in Stats
         /\ Now.n = (IF metrics.current = Benchmark!NoStats THEN Len(metrics.completed) ELSE Len(metrics.completed) + 1)
         /\ Now.open = (metrics.current # Benchmark!NoStats) /\ Now.k = Benchmark!Counted(metrics.current)
<1>1. metrics.completed \in Seq(Stats) /\ metrics.current \in Stats
  BY DEF BenchInv, BenchTypes
<1>2. Len(metrics.completed) \in Nat
  BY <1>1, LenProperties
<1>3. Benchmark!Counted(metrics.current) \in Nat
  BY <1>1 DEF Stats, Benchmark!Counted
<1>4. Benchmark!NoStats \in Stats /\ Benchmark!NoStats.successful = 0 /\ Benchmark!NoStats.failed = 0
  BY DEF Benchmark!NoStats, Stats
<1>5. Benchmark!Counted(Benchmark!NoStats) = 0
  BY <1>4 DEF Benchmark!Counted
<1>6. QED
  BY <1>1, <1>2, <1>3, <1>4, <1>5 DEF Now

\* The aggregator after a message stands where the message takes it.
LEMMA Aggregated ==
  ASSUME BenchInv, NEW m \in Notes, NEW d, Goes(m, Now, d, sent, coord.at),
         metrics' = CASE m.type = "RegisterRun" -> Benchmark!register_run(m)
                      [] m.type = "StartPhase" -> Benchmark!start_phase(m)
                      [] m.type = "EndPhase" -> Benchmark!end_phase(m)
                      [] m.type = "RequestCompleted" -> Benchmark!add_result(m),
         m.type # "GetReport", UNCHANGED <<coord, sent>>
  PROVE  /\ metrics' \in [run : {metrics'.run}, current : Stats, completed : Seq(Stats)]
         /\ Now' = d
         /\ metrics'.current # Benchmark!NoStats => metrics'.current.phase = Len(metrics'.completed) + 1
         /\ Benchmark!CountsAll(metrics.completed)'
         /\ \A i \in DOMAIN metrics'.completed : i < coord'.at /\ i \in DOMAIN sent'
         /\ m.type = "RegisterRun" => metrics'.completed = metrics.completed /\ metrics'.current = metrics.current
<1>1. PICK done \in Seq(Stats), cur \in Stats, n \in Nat, k \in Nat :
        done = metrics.completed /\ cur = metrics.current /\ n = Len(done) /\ k = Benchmark!Counted(cur)
  BY CurrentPhase
<1>2. /\ Now.n = (IF cur = Benchmark!NoStats THEN n ELSE n + 1) /\ Now.open = (cur # Benchmark!NoStats) /\ Now.k = k
      /\ Benchmark!Counted(Benchmark!NoStats) = 0 /\ Benchmark!NoStats \in Stats
  BY <1>1, CurrentPhase
<1>3. /\ cur # Benchmark!NoStats => cur.phase = n + 1
      /\ Benchmark!CountsAll(done) /\ \A i \in DOMAIN done : i < coord.at /\ i \in DOMAIN sent
  BY <1>1 DEF BenchInv, Counts
<1>4. Benchmark!CountsAll(metrics.completed) /\ (metrics'.completed = metrics.completed => Benchmark!CountsAll(metrics.completed)')
  <2>1. Benchmark!CountsAll(metrics.completed)
    BY <1>1, <1>3
  <2>2. ASSUME metrics'.completed = metrics.completed PROVE Benchmark!CountsAll(metrics.completed)'
    BY <2>1, <2>2 DEF Benchmark!CountsAll, Benchmark!Sent
  <2>3. QED
    BY <2>1, <2>2
<1>5. metrics \in [run : {metrics.run}, current : Stats, completed : Seq(Stats)]
  BY DEF BenchInv, BenchTypes
<1>6. CASE m.type = "RegisterRun"
  <2>1. metrics' = [run |-> m.run, current |-> Benchmark!NoStats, completed |-> <<>>]
    BY <1>6 DEF Benchmark!register_run
  <2>2. metrics'.current = Benchmark!NoStats /\ metrics'.completed = <<>> /\ metrics'.run = m.run
    <3>1. PICK z, r, nil : z = metrics' /\ r = m.run /\ nil = <<>>
      OBVIOUS
    <3>2. z = [run |-> r, current |-> Benchmark!NoStats, completed |-> nil]
      BY <2>1, <3>1
    <3>3. z.current = Benchmark!NoStats /\ z.completed = nil /\ z.run = r
      BY <3>2
    <3>4. QED
      BY <3>1, <3>3
  <2>3. cur = Benchmark!NoStats /\ n = 0 /\ d = Now
    BY <1>2, <1>6 DEF Goes
  <2>4. done = <<>>
    BY <1>1, <2>3, EmptySeq
  <2>5. Now' = Now
    BY <1>1, <2>2, <2>3, <2>4 DEF Now, Benchmark!Counted
  <2>6. metrics' \in [run : {metrics'.run}, current : Stats, completed : Seq(Stats)]
    <3>1. <<>> \in Seq(Stats)
      BY EmptySeq
    <3>2. QED
      BY <1>2, <2>1, <2>2, <3>1
  <2>7. QED
    BY <1>1, <1>3, <1>4, <2>2, <2>3, <2>4, <2>5, <2>6
<1>7. CASE m.type = "StartPhase"
  <2>1. cur = Benchmark!NoStats /\ m.phase = n + 1 /\ d = [n |-> n + 1, open |-> TRUE, k |-> 0]
    BY <1>2, <1>7 DEF Goes
  <2>2. PICK x : x = [Benchmark!NoStats EXCEPT !.phase = m.phase]
    OBVIOUS
  <2>3. x \in Stats /\ x.phase = n + 1 /\ x.successful = 0 /\ x.failed = 0
    <3>1. PICK y \in Nat : y = n + 1
      OBVIOUS
    <3>2. x = [phase |-> y, successful |-> 0, failed |-> 0]
      BY <2>1, <2>2, <3>1 DEF Benchmark!NoStats
    <3>3. x \in Stats /\ x.phase = y /\ x.successful = 0 /\ x.failed = 0
      BY <3>2 DEF Stats
    <3>4. QED
      BY <3>1, <3>3
  <2>4. x # Benchmark!NoStats
    <3>1. Benchmark!NoStats.phase = 0
      BY DEF Benchmark!NoStats
    <3>2. QED
      BY <2>3, <3>1
  <2>5. metrics' = [metrics EXCEPT !.completed = done, !.current = x]
    BY <1>1, <1>7, <2>1, <2>2 DEF Benchmark!start_phase, Benchmark!Closed
  <2>6. /\ metrics'.completed = done /\ metrics'.current = x
        /\ metrics' \in [run : {metrics'.run}, current : Stats, completed : Seq(Stats)]
    BY <1>5, <2>3, <2>5
  <2>7. Now' = d
    <3>1. Benchmark!Counted(x) = 0
      BY <2>3 DEF Benchmark!Counted
    <3>2. Benchmark!Counted(metrics'.current) = 0
      BY <2>6, <3>1
    <3>3. QED
      BY <1>1, <2>1, <2>4, <2>6, <3>2 DEF Now, Benchmark!Counted
  <2>8. QED
    BY <1>1, <1>3, <1>4, <1>7, <2>3, <2>6, <2>7
<1>8. CASE m.type = "RequestCompleted"
  <2>1. cur # Benchmark!NoStats /\ d = [n |-> n + 1, open |-> TRUE, k |-> k + 1] /\ cur.phase = n + 1
    BY <1>2, <1>3, <1>8 DEF Goes
  <2>2. cur.successful \in Nat /\ cur.failed \in Nat /\ k = cur.successful + cur.failed
    BY <1>1 DEF Stats, Benchmark!Counted
  <2>3. PICK x : /\ x = (IF m.success THEN [cur EXCEPT !.successful = @ + 1] ELSE [cur EXCEPT !.failed = @ + 1])
                 /\ metrics' = [metrics EXCEPT !.current = x]
    <3>1. CASE m.success
      BY <1>1, <1>5, <1>8, <2>1, <3>1 DEF Benchmark!add_result
    <3>2. CASE ~m.success
      BY <1>1, <1>5, <1>8, <2>1, <3>2 DEF Benchmark!add_result
    <3>3. QED
      BY <3>1, <3>2
  <2>4. x \in Stats /\ x.phase = n + 1 /\ Benchmark!Counted(x) = k + 1
    <3>1. PICK y \in Nat, z \in Nat : y = cur.successful + 1 /\ z = cur.failed + 1
      BY <2>2
    <3>2. CASE m.success
      <4>1. x = [cur EXCEPT !.successful = y]
        BY <2>3, <3>1, <3>2
      <4>2. x \in Stats /\ x.phase = cur.phase /\ x.successful = y /\ x.failed = cur.failed
        BY <4>1 DEF Stats
      <4>3. QED
        BY <2>1, <2>2, <3>1, <4>2 DEF Benchmark!Counted
    <3>3. CASE ~m.success
      <4>1. x = [cur EXCEPT !.failed = z]
        BY <2>3, <3>1, <3>3
      <4>2. x \in Stats /\ x.phase = cur.phase /\ x.successful = cur.successful /\ x.failed = z
        BY <4>1 DEF Stats
      <4>3. QED
        BY <2>1, <2>2, <3>1, <4>2 DEF Benchmark!Counted
    <3>4. QED
      BY <3>2, <3>3
  <2>5. x # Benchmark!NoStats
    <3>1. Benchmark!NoStats.phase = 0
      BY DEF Benchmark!NoStats
    <3>2. QED
      BY <2>4, <3>1
  <2>6. /\ metrics'.completed = done /\ metrics'.current = x
        /\ metrics' \in [run : {metrics'.run}, current : Stats, completed : Seq(Stats)]
    BY <1>1, <1>5, <2>3, <2>4
  <2>7. Now' = d
    <3>1. Benchmark!Counted(metrics'.current) = k + 1
      BY <2>4, <2>6
    <3>2. QED
      BY <1>1, <2>1, <2>5, <2>6, <3>1 DEF Now, Benchmark!Counted
  <2>8. QED
    BY <1>1, <1>3, <1>4, <1>8, <2>4, <2>6, <2>7
<1>9. CASE m.type = "EndPhase"
  <2>1. /\ cur # Benchmark!NoStats /\ d = [n |-> n + 1, open |-> FALSE, k |-> 0] /\ cur.phase = n + 1
        /\ n + 1 < coord.at /\ n + 1 \in DOMAIN sent /\ k = sent[n + 1]
    BY <1>2, <1>3, <1>9 DEF Goes
  <2>2. PICK new : new = Append(done, cur)
    OBVIOUS
  <2>3. /\ new \in Seq(Stats) /\ Len(new) = n + 1 /\ new[n + 1] = cur
        /\ \A i \in 1 .. n : new[i] = done[i]
    BY <1>1, <2>2, Appended
  <2>4. metrics' = [metrics EXCEPT !.completed = new, !.current = Benchmark!NoStats]
    BY <1>1, <1>9, <2>1, <2>2 DEF Benchmark!end_phase, Benchmark!Closed
  <2>5. /\ metrics'.completed = new /\ metrics'.current = Benchmark!NoStats
        /\ metrics' \in [run : {metrics'.run}, current : Stats, completed : Seq(Stats)]
    BY <1>2, <1>5, <2>3, <2>4
  <2>6. Now' = d
    <3>1. Benchmark!Counted(metrics'.current) = 0
      BY <1>2, <2>5
    <3>2. QED
      BY <2>1, <2>3, <2>5, <3>1 DEF Now, Benchmark!Counted
  <2>7. DOMAIN new = 1 .. n + 1 /\ DOMAIN done = 1 .. n
    BY <1>1, <2>3, LenProperties
  <2>8. \A i \in 1 .. n + 1 : i = n + 1 \/ i \in 1 .. n
    OBVIOUS
  <2>9. \A i \in DOMAIN new : i < coord'.at /\ i \in DOMAIN sent'
    BY <1>3, <2>1, <2>7, <2>8
  <2>10. Benchmark!CountsAll(metrics.completed)'
    <3>1. \A i \in DOMAIN new : new[i].phase = i /\ Benchmark!Counted(new[i]) = SentIn(new[i].phase, sent)
      <4> TAKE i \in DOMAIN new
      <4>1. CASE i = n + 1
        BY <1>1, <2>1, <2>3, <4>1 DEF SentIn
      <4>2. CASE i \in 1 .. n
        BY <1>3, <2>3, <2>7, <4>2 DEF Benchmark!CountsAll, Benchmark!Sent, SentIn
      <4>3. QED
        BY <2>7, <2>8, <4>1, <4>2
    <3>2. \A i \in DOMAIN metrics'.completed :
            /\ metrics'.completed[i].phase = i
            /\ Benchmark!Counted(metrics'.completed[i]) = SentIn(metrics'.completed[i].phase, sent')
      BY <2>5, <3>1
    <3>3. QED
      BY <3>2, Zenon DEF Benchmark!CountsAll, Benchmark!Sent, SentIn, Benchmark!Counted
  <2>11. QED
    BY <1>9, <2>5, <2>6, <2>9, <2>10
<1>10. QED
  BY <1>6, <1>7, <1>8, <1>9 DEF Goes

\* The aggregator takes a message.
LEMMA AggregatePreserves == ASSUME BenchInv, Benchmark!Aggregate PROVE BenchInv'
<1>1. /\ inbox["metrics"] # <<>> /\ inbox' = Benchmark!Took(inbox, "metrics")
      /\ UNCHANGED <<coord, sched, task, worker, sent>>
  BY DEF Benchmark!Aggregate
<1>2. PICK m \in Notes : /\ m = Head(inbox["metrics"]) /\ m = inbox["metrics"][1] /\ m.type # "GetReport"
                         /\ metrics' = CASE m.type = "RegisterRun" -> Benchmark!register_run(m)
                                         [] m.type = "StartPhase" -> Benchmark!start_phase(m)
                                         [] m.type = "EndPhase" -> Benchmark!end_phase(m)
                                         [] m.type = "RequestCompleted" -> Benchmark!add_result(m)
  BY <1>1, MetricsTakes DEF Benchmark!Aggregate
<1>3. /\ inbox' \in [Benchmark!Boxes -> Seq(Notes)] /\ inbox'["metrics"] = Tail(inbox["metrics"])
      /\ inbox'["coordinator"] = inbox["coordinator"] /\ inbox'["scheduler"] = inbox["scheduler"]
      /\ \A w \in Benchmark!Workers : inbox'[w] = inbox[w]
  BY <1>1, MetricsTakes
<1>4. PICK e \in Spot : Arrives(e) /\ Ahead(inbox["metrics"], Now, e, sent, coord.at)
  BY DEF BenchInv, Counts, Coming
<1>5. PICK d \in Spot : Goes(m, Now, d, sent, coord.at) /\ Ahead(inbox'["metrics"], d, e, sent, coord.at)
  <2>1. PICK q \in Seq(Notes) : q = inbox["metrics"] /\ q # <<>>
    BY <1>1, BoxNames DEF BenchInv, BenchTypes
  <2>2. Ahead(q, Now, e, sent, coord.at)
    BY <1>4, <2>1
  <2>3. \E d \in Spot : Goes(Head(q), Now, d, sent, coord.at) /\ Ahead(Tail(q), d, e, sent, coord.at)
    BY <2>1, <2>2, AheadTail
  <2>4. QED
    BY <1>2, <1>3, <2>1, <2>3
<1>6. /\ metrics' \in [run : {metrics'.run}, current : Stats, completed : Seq(Stats)]
      /\ Now' = d
      /\ metrics'.current # Benchmark!NoStats => metrics'.current.phase = Len(metrics'.completed) + 1
      /\ Benchmark!CountsAll(metrics.completed)'
      /\ \A i \in DOMAIN metrics'.completed : i < coord'.at /\ i \in DOMAIN sent'
      /\ m.type = "RegisterRun" => metrics'.completed = metrics.completed /\ metrics'.current = metrics.current
  BY <1>1, <1>2, <1>5, Aggregated
<1>7. BenchTypes'
  BY <1>1, <1>3, <1>6 DEF BenchInv, BenchTypes, Coordinators, Schedulers
<1>8. Requested'
  BY <1>3 DEF BenchInv, Requested
<1>9. Flow'
  BY <1>1, <1>3 DEF BenchInv, Flow
<1>10. Replies'
  BY <1>1, StillReplies
<1>11. Fresh'
  <2>1. coord.state # "Idle"
    BY <1>1 DEF BenchInv, Fresh
  <2>2. ASSUME coord.step \in {"idle", "spawn", "forwarding"}
        PROVE  /\ metrics'.completed = <<>> /\ metrics'.current = Benchmark!NoStats
               /\ \A i \in 1 .. Len(inbox'["metrics"]) : inbox'["metrics"][i].type \in {"RegisterRun", "GetReport"}
    <3>1. /\ metrics.completed = <<>> /\ metrics.current = Benchmark!NoStats
          /\ \A i \in 1 .. Len(inbox["metrics"]) : inbox["metrics"][i].type \in {"RegisterRun", "GetReport"}
      BY <2>2 DEF BenchInv, Fresh
    <3>2. PICK n \in Nat : n = Len(inbox["metrics"]) /\ n > 0 /\ Len(inbox'["metrics"]) = n - 1
      BY <1>1, MetricsTakes
    <3>3. \A i \in 1 .. n - 1 : inbox'["metrics"][i] = inbox["metrics"][i + 1]
      BY <1>1, <3>2, MetricsTakes
    <3>4. 1 \in 1 .. n /\ \A i \in 1 .. n - 1 : i + 1 \in 1 .. n
      BY <3>2
    <3>5. m.type = "RegisterRun"
      BY <1>2, <3>1, <3>2, <3>4
    <3>6. QED
      BY <1>6, <3>1, <3>2, <3>3, <3>4, <3>5
  <2>3. QED
    BY <1>1, <2>1, <2>2 DEF Fresh
<1>12. Placed' /\ Unreported' = Unreported /\ Unfinished' = Unfinished
  BY <1>1, <1>3, PlacedKept DEF BenchInv
<1>13. Gauge'
  BY <1>1, <1>12 DEF BenchInv, Gauge
<1>14. Counts'
  <2>1. Arrives(e)'
    BY <1>1, <1>4, <1>12 DEF Arrives
  <2>2. Coming'
    BY <1>1, <1>5, <1>6, <2>1 DEF Coming
  <2>3. QED
    BY <1>6, <2>2 DEF Counts
<1>15. Reports'
  BY <1>1, ReportsKept DEF BenchInv
<1>16. QED
  BY <1>7, <1>8, <1>9, <1>10, <1>11, <1>12, <1>13, <1>14, <1>15 DEF BenchInv

\* Where the aggregator stands with nothing in its mailbox.
LEMMA NothingAhead ==
  ASSUME NEW a, NEW e, NEW snt, NEW at, Ahead(<<>>, a, e, snt, at) PROVE e = a
<1>1. Len(<<>>) = 0
  OBVIOUS
<1>2. QED
  BY <1>1 DEF Ahead

\* The aggregator gives its report to the run that asks last, or to another.
LEMMA AnswerReportPreserves == ASSUME BenchInv, Benchmark!AnswerReport PROVE BenchInv'
<1>1. /\ inbox["metrics"] # <<>> /\ Head(inbox["metrics"]).type = "GetReport" /\ inbox' = Benchmark!Took(inbox, "metrics")
      /\ UNCHANGED <<sched, task, worker, metrics, sent>>
  BY DEF Benchmark!AnswerReport, Benchmark!Gets
<1>2. PICK m \in Notes : m = Head(inbox["metrics"]) /\ m = inbox["metrics"][1] /\ m.type = "GetReport"
  BY <1>1, MetricsTakes
<1>3. /\ inbox' \in [Benchmark!Boxes -> Seq(Notes)] /\ inbox'["metrics"] = Tail(inbox["metrics"])
      /\ inbox'["coordinator"] = inbox["coordinator"] /\ inbox'["scheduler"] = inbox["scheduler"]
      /\ \A w \in Benchmark!Workers : inbox'[w] = inbox[w]
      /\ Len(inbox["metrics"]) \in Nat /\ Len(inbox["metrics"]) > 0
      /\ Len(inbox'["metrics"]) = Len(inbox["metrics"]) - 1
  BY <1>1, MetricsTakes
<1>4. /\ Len(inbox["metrics"]) = 1
      /\ coord.step = IF m.for = Benchmark!NoRun THEN "fetching" ELSE "forwarding"
  <2>1. 1 \in 1 .. Len(inbox["metrics"])
    BY <1>3
  <2>2. QED
    BY <1>2, <2>1 DEF BenchInv, Replies
<1>5. inbox'["metrics"] = <<>>
  <2>1. PICK q \in Seq(Notes) : q = inbox'["metrics"]
    BY <1>3, BoxNames
  <2>2. Len(q) = 0
    BY <1>3, <1>4, <2>1
  <2>3. QED
    BY <2>1, <2>2, EmptySeq
<1>6. coord.state = "Running"
  BY <1>4 DEF BenchInv, Fresh, BenchTypes, Coordinators
<1>7. PICK x, R : /\ x = IF m.for = Benchmark!NoRun THEN "fetched" ELSE "idle"
                  /\ R = IF m.for = Benchmark!NoRun THEN Benchmark!get_report ELSE coord.final_report
                  /\ coord' = [coord EXCEPT !.step = x, !.final_report = R]
  <2>1. CASE m.for = Benchmark!NoRun
    <3>1. coord' = [coord EXCEPT !.step = "fetched", !.final_report = Benchmark!get_report]
      BY <1>2, <2>1 DEF Benchmark!AnswerReport
    <3>2. QED
      BY <2>1, <3>1
  <2>2. CASE m.for # Benchmark!NoRun
    <3>1. coord' = [coord EXCEPT !.step = "idle"]
      BY <1>2, <2>2 DEF Benchmark!AnswerReport
    <3>2. coord' = [coord EXCEPT !.step = "idle", !.final_report = coord.final_report]
      BY <3>1 DEF BenchInv, BenchTypes, Coordinators
    <3>3. QED
      BY <2>2, <3>2
  <2>3. QED
    BY <2>1, <2>2
<1>8. /\ coord'.step = x /\ x \in {"idle", "fetched"} /\ coord'.state = "Running" /\ coord'.at = coord.at
      /\ coord'.todo = coord.todo /\ coord'.final_report = R /\ coord' \in Coordinators'
  BY <1>6, <1>7 DEF BenchInv, BenchTypes, Coordinators
<1>9. BenchTypes'
  BY <1>1, <1>3, <1>8 DEF BenchInv, BenchTypes, Schedulers
<1>10. Requested'
  BY <1>3 DEF BenchInv, Requested
<1>11. Flow'
  <2>1. sched.step = "idle" /\ inbox["scheduler"] = <<>>
    BY <1>4 DEF BenchInv, Flow
  <2>2. x = "fetched" => coord.at = Len(coord.todo) + 1 /\ Len(sent) = coord.at - 1
    BY <1>4, <1>7 DEF BenchInv, Flow
  <2>3. QED
    BY <1>1, <1>3, <1>8, <2>1, <2>2 DEF Flow
<1>12. Fresh' /\ Replies'
  <2>1. x = "idle" => metrics.completed = <<>> /\ metrics.current = Benchmark!NoStats
    BY <1>4, <1>7 DEF BenchInv, Fresh
  <2>2. QED
    BY <1>1, <1>5, <1>8, <2>1 DEF Fresh, Replies
<1>13. Placed' /\ Unreported' = Unreported /\ Unfinished' = Unfinished
  BY <1>1, <1>3, PlacedKept DEF BenchInv
<1>14. Gauge'
  BY <1>1, <1>13 DEF BenchInv, Gauge
<1>15. PICK e \in Spot : Arrives(e) /\ e = Now /\ ~Now.open /\ Ahead(<<>>, Now, e, sent, coord.at)
  <2>1. PICK e \in Spot : Arrives(e) /\ Ahead(inbox["metrics"], Now, e, sent, coord.at)
    BY DEF BenchInv, Counts, Coming
  <2>2. PICK q \in Seq(Notes) : q = inbox["metrics"] /\ q # <<>>
    BY <1>1, BoxNames DEF BenchInv, BenchTypes
  <2>3. Ahead(q, Now, e, sent, coord.at)
    BY <2>1, <2>2
  <2>4. PICK d \in Spot : Goes(Head(q), Now, d, sent, coord.at) /\ Ahead(Tail(q), d, e, sent, coord.at)
    BY <2>2, <2>3, AheadTail
  <2>5. d = Now /\ ~Now.open
    BY <1>2, <2>2, <2>4 DEF Goes
  <2>6. Ahead(<<>>, d, e, sent, coord.at)
    BY <1>3, <1>5, <2>2, <2>4
  <2>7. QED
    BY <2>1, <2>5, <2>6, NothingAhead
<1>16. Counts'
  <2>1. Now' = Now
    BY <1>1 DEF Now
  <2>2. Arrives(e)'
    <3>1. x = "idle" => e = [n |-> 0, open |-> FALSE, k |-> 0]
      BY <1>4, <1>7, <1>15 DEF Arrives
    <3>2. x = "fetched" => ~e.open /\ e.n = coord.at - 1
      BY <1>4, <1>7, <1>15 DEF Arrives
    <3>3. QED
      BY <1>8, <3>1, <3>2 DEF Arrives
  <2>3. Coming'
    BY <1>1, <1>5, <1>8, <1>15, <2>1, <2>2 DEF Coming
  <2>4. QED
    BY <1>1, <1>8, <2>3 DEF BenchInv, Counts, Benchmark!CountsAll, Benchmark!Sent
<1>17. Reports'
  <2>1. CASE x = "idle"
    BY <1>8, <2>1 DEF Reports
  <2>2. CASE x = "fetched"
    <3>1. coord.step = "fetching" /\ R = Benchmark!get_report
      BY <1>4, <1>7, <2>2
    <3>2. R.phases = metrics.completed
      BY <3>1 DEF Benchmark!get_report
    <3>3. coord.at = Len(coord.todo) + 1 /\ Len(sent) = coord.at - 1 /\ Len(coord.todo) \in Nat
      <4>1. coord.todo \in Seq(PhaseSet)
        BY DEF BenchInv, BenchTypes, Coordinators
      <4>2. QED
        BY <3>1, <4>1, LenProperties DEF BenchInv, Flow
    <3>4. Now.n = coord.at - 1 /\ Now.n = Len(metrics.completed)
      BY <1>15, <3>1, CurrentPhase DEF Arrives
    <3>5. Len(R.phases) = Len(coord.todo) /\ Len(sent) = Len(coord.todo)
      BY <3>2, <3>3, <3>4
    <3>6. Benchmark!CountsAll(coord.final_report.phases)'
      <4>1. Benchmark!CountsAll(metrics.completed)
        BY DEF BenchInv, Counts
      <4>2. coord'.final_report.phases = metrics.completed
        BY <1>8, <3>2
      <4>3. QED
        BY <1>1, <4>1, <4>2 DEF Benchmark!CountsAll, Benchmark!Sent
    <3>7. QED
      BY <1>1, <1>8, <3>5, <3>6 DEF Reports
  <2>3. QED
    BY <1>8, <2>1, <2>2
<1>18. QED
  BY <1>9, <1>10, <1>11, <1>12, <1>13, <1>14, <1>16, <1>17 DEF BenchInv

\* Before the first benchmark.
LEMMA BenchStarts == ASSUME Benchmark!Init PROVE BenchInv
<1>1. /\ inbox \in [Benchmark!Boxes -> Seq(Notes)] /\ \A b \in Benchmark!Boxes : inbox[b] = <<>>
  <2>1. <<>> \in Seq(Notes)
    BY EmptySeq
  <2>2. \A b \in Benchmark!Boxes : Benchmark!FreshInbox(<<>>)[b] = <<>>
    BY DEF Benchmark!FreshInbox
  <2>3. Benchmark!FreshInbox(<<>>) \in [Benchmark!Boxes -> Seq(Notes)]
    BY <2>1 DEF Benchmark!FreshInbox
  <2>4. inbox = Benchmark!FreshInbox(<<>>)
    BY DEF Benchmark!Init
  <2>5. QED
    BY <2>2, <2>3, <2>4
<1>2. /\ inbox["coordinator"] = <<>> /\ inbox["scheduler"] = <<>> /\ inbox["metrics"] = <<>>
      /\ \A w \in Benchmark!Workers : inbox[w] = <<>>
  BY <1>1, BoxNames
<1>3. PICK nil : nil = <<>> /\ nil \in Seq(PhaseSet)
  BY EmptySeq
<1>4. coord = [step |-> "idle", state |-> "Idle", run |-> Benchmark!NoRun, todo |-> nil, at |-> 0,
               refs |-> {}, final_report |-> Benchmark!NoReport]
  BY <1>3 DEF Benchmark!Init
<1>5. coord.step = "idle" /\ coord.state = "Idle" /\ coord.at = 0 /\ coord.refs = {}
      /\ coord.final_report = Benchmark!NoReport
  BY <1>4
<1>6. coord \in Coordinators
  BY <1>3, <1>4, <1>5 DEF Coordinators
<1>7. sched = [step |-> "idle", config |-> Benchmark!NoPhase, is_active |-> FALSE, elapsed |-> FALSE,
               sent |-> 0, active_vus |-> 0]
  BY DEF Benchmark!Init
<1>8. sched \in Schedulers /\ sched.step = "idle"
  BY <1>7 DEF Schedulers
<1>9. task \in [Benchmark!Tasks -> {"none", "ask", "waiting", "answered", "done"}] /\ \A t \in Benchmark!Tasks : task[t] = "none"
  BY DEF Benchmark!Init
<1>10. /\ worker \in [Benchmark!Workers -> [task : Benchmark!Tasks \cup {0}, step : {"idle", "executing", "replying"}]]
       /\ \A w \in Benchmark!Workers : worker[w].step = "idle"
  <2>1. PICK x : x = [task |-> 0, step |-> "idle"]
    OBVIOUS
  <2>2. x \in [task : Benchmark!Tasks \cup {0}, step : {"idle", "executing", "replying"}] /\ x.step = "idle"
    BY <2>1
  <2>3. worker = [w \in Benchmark!Workers |-> x]
    BY <2>1 DEF Benchmark!Init
  <2>4. QED
    BY <2>2, <2>3
<1>11. PICK none : none = <<>> /\ none \in Seq(Stats) /\ none \in Seq(Nat) /\ Len(none) = 0
  BY EmptySeq
<1>12. metrics = [run |-> Benchmark!NoRun, current |-> Benchmark!NoStats, completed |-> none] /\ sent = none
  BY <1>11 DEF Benchmark!Init
<1>13. metrics.run = Benchmark!NoRun /\ metrics.current = Benchmark!NoStats /\ metrics.completed = none
  BY <1>12
<1>14. Benchmark!NoStats \in Stats /\ Benchmark!NoStats.successful = 0 /\ Benchmark!NoStats.failed = 0
  BY DEF Benchmark!NoStats, Stats
<1>15. metrics \in [run : {metrics.run}, current : Stats, completed : Seq(Stats)]
  BY <1>11, <1>12, <1>13, <1>14
<1>16. BenchTypes
  BY <1>1, <1>6, <1>8, <1>9, <1>10, <1>11, <1>12, <1>15 DEF BenchTypes
<1>17. Requested /\ Flow /\ Replies /\ Placed /\ Reports
  BY <1>2, <1>5, <1>8, <1>10 DEF Requested, Flow, Replies, Placed, Reports
<1>18. Fresh /\ Gauge
  BY <1>2, <1>5, <1>8, <1>9, <1>11, <1>13 DEF Fresh, Gauge
<1>19. Counts
  <2>1. PICK e : e = [n |-> 0, open |-> FALSE, k |-> 0]
    OBVIOUS
  <2>2. Benchmark!Counted(Benchmark!NoStats) = 0
    BY <1>14 DEF Benchmark!Counted
  <2>3. Now = e
    BY <1>11, <1>13, <2>1, <2>2 DEF Now
  <2>4. e \in Spot /\ Fits(e, sent)
    BY <2>1 DEF Spot, Fits
  <2>5. Arrives(e)
    BY <1>5, <2>1 DEF Arrives
  <2>6. Ahead(<<>>, e, e, sent, coord.at)
    BY <2>4, AheadEmpty
  <2>7. Coming
    BY <1>2, <2>3, <2>4, <2>5, <2>6 DEF Coming
  <2>8. \A i \in DOMAIN metrics.completed : FALSE
    BY <1>11, <1>13
  <2>9. QED
    BY <1>13, <2>7, <2>8 DEF Counts, Benchmark!CountsAll
<1>20. QED
  BY <1>16, <1>17, <1>18, <1>19 DEF BenchInv

\* What stays the same keeps the invariant.
LEMMA BenchStutters == ASSUME BenchInv, UNCHANGED Benchmark!vars PROVE BenchInv'
<1>1. UNCHANGED <<inbox, coord, sched, task, worker, metrics, sent>>
  BY DEF Benchmark!vars
<1>2. BenchTypes' /\ Requested' /\ Flow' /\ Fresh' /\ Replies'
  <2>1. BenchTypes'
    BY <1>1 DEF BenchInv, BenchTypes, Coordinators, Schedulers
  <2>2. Requested' /\ Replies'
    BY <1>1 DEF BenchInv, Requested, Replies
  <2>3. Flow' /\ Fresh'
    BY <1>1 DEF BenchInv, Flow, Fresh
  <2>4. QED
    BY <2>1, <2>2, <2>3
<1>3. Placed' /\ Unreported' = Unreported /\ Unfinished' = Unfinished
  BY <1>1, PlacedKept DEF BenchInv
<1>4. Gauge'
  BY <1>1, <1>3 DEF BenchInv, Gauge
<1>5. Counts' /\ Reports'
  BY <1>1, <1>3, CountsKept, ReportsKept DEF BenchInv
<1>6. QED
  BY <1>2, <1>3, <1>4, <1>5 DEF BenchInv

\* Every step of the benchmark keeps the invariant.
LEMMA BenchPreserves == ASSUME BenchInv, Benchmark!Next PROVE BenchInv'
<1>1. CASE \E r \in Runs : Benchmark!Ask(r) \/ Benchmark!CtrlC(r) \/ Benchmark!AskReport(r)
  BY <1>1, ClientPreserves
<1>2. CASE \/ Benchmark!start_benchmark \/ Benchmark!SpawnNext \/ Benchmark!run_phase \/ Benchmark!EndPhase \/ Benchmark!FetchReport \/ Benchmark!FinishRun
           \/ Benchmark!stop_benchmark \/ Benchmark!GetReport
  BY <1>2, StartPreserves, SpawnNextPreserves, RunPhasePreserves, EndPhasePreserves,
     FetchPreserves,
     FinishPreserves, StopRunPreserves, GetReportPreserves
<1>3. CASE Benchmark!configure \/ Benchmark!start_scheduling \/ Benchmark!Elapse \/ Benchmark!StopVus \/ Benchmark!JoinVus \/ Benchmark!Tick \/ Benchmark!StopRate \/ Benchmark!DrainRate
  BY <1>3, ConfigurePreserves, SchedulePreserves, ElapsePreserves, PhaseDonePreserves,
     TickPreserves
<1>4. CASE \E t \in Benchmark!Tasks : Benchmark!SendRequest(t) \/ Benchmark!VuAnswered(t) \/ Benchmark!RequestAnswered(t)
  BY <1>4, SendPreserves, VuPreserves, RequestPreserves
<1>5. CASE \E w \in Benchmark!Workers : Benchmark!Receive(w) \/ Benchmark!Report(w) \/ Benchmark!Answer(w)
  BY <1>5, ReceivePreserves, ReportPreserves, WorkerAnswers
<1>6. CASE Benchmark!Aggregate \/ Benchmark!AnswerReport
  BY <1>6, AggregatePreserves, AnswerReportPreserves
<1>7. QED
  BY <1>1, <1>2, <1>3, <1>4, <1>5, <1>6 DEF Benchmark!Next

\* The invariant says that the report counts all.
LEMMA BenchCounts == ASSUME BenchInv PROVE Benchmark!ReportCountsAll
<1>1. PICK e \in Spot : Ahead(inbox["metrics"], Now, e, sent, coord.at)
  BY DEF BenchInv, Counts, Coming
<1>2. Fits(Now, sent)
  <2>1. PICK q \in Seq(Notes) : q = inbox["metrics"]
    BY BoxNames DEF BenchInv, BenchTypes
  <2>2. Len(q) \in Nat
    BY LenProperties
  <2>3. 0 \in 0 .. Len(q)
    BY <2>2
  <2>4. QED
    BY <1>1, <2>1, <2>3 DEF Ahead
<1>3. Benchmark!Counted(metrics.current) <= Benchmark!Sent(metrics.current)
  <2>1. CASE metrics.current = Benchmark!NoStats
    <3>1. 0 \notin DOMAIN sent
      BY LenProperties DEF BenchInv, BenchTypes
    <3>2. Benchmark!NoStats.phase = 0
      BY DEF Benchmark!NoStats
    <3>3. Benchmark!Sent(metrics.current) = 0
      BY <2>1, <3>1, <3>2 DEF Benchmark!Sent
    <3>4. Benchmark!Counted(metrics.current) = 0
      BY <2>1, CurrentPhase
    <3>5. QED
      BY <3>3, <3>4
  <2>2. CASE metrics.current # Benchmark!NoStats
    <3>1. metrics.current.phase = Len(metrics.completed) + 1
      BY <2>2 DEF BenchInv, Counts
    <3>2. Now.open /\ Now.k = Benchmark!Counted(metrics.current) /\ Now.n = metrics.current.phase
      BY <2>2, <3>1, CurrentPhase
    <3>3. Benchmark!Sent(metrics.current) = SentIn(Now.n, sent)
      BY <3>2 DEF Benchmark!Sent, SentIn
    <3>4. QED
      BY <1>2, <3>2, <3>3 DEF Fits
  <2>3. QED
    BY <2>1, <2>2
<1>4. QED
  BY <1>3 DEF Benchmark!ReportCountsAll, BenchInv, Counts, Reports

-----------------------------------------------------------------------------
(* The parts together                                                      *)

\* Every selector passes the same list of workers.
OneRing == \A l, m \in Lists : l = m

ServingInv == RouteInv /\ PythonInv /\ BenchInv /\ (OneRing => RingInv)

\* The invariants of the policies, of the Python actors and of the benchmark hold of
\* every reachable state: a part steps as its own specification says, the others rest.
THEOREM ServingCorrect == ServingSpec => []ServingInv
<1>1. ServingInit => ServingInv
  <2> SUFFICES ASSUME ServingInit PROVE ServingInv
    OBVIOUS
  <2>1. Policy!Init /\ Python!Init /\ Benchmark!Init
    BY DEF ServingInit
  <2>2. QED
    BY <2>1, RouteInit, PythonInit, BenchStarts, RingInit DEF ServingInv
<1>2. ServingInv /\ [ServingNext]_servingVars => ServingInv'
  <2> SUFFICES ASSUME ServingInv, [ServingNext]_servingVars PROVE ServingInv'
    OBVIOUS
  <2>1. Policy!Next \/ UNCHANGED Policy!vars
    <3>1. Policy!Next \/ UNCHANGED policyVars
      BY DEF ServingNext, servingVars
    <3>2. QED
      BY <3>1 DEF policyVars, Policy!vars, Policy!policyVars, Policy!ghostVars
  <2>2. Python!Next \/ UNCHANGED Python!vars
    <3>1. Python!Next \/ UNCHANGED pythonVars
      BY DEF ServingNext, servingVars
    <3>2. QED
      BY <3>1 DEF pythonVars, Python!vars
  <2>3. RouteInv'
    BY <2>1, RouteStep DEF ServingInv
  <2>4. PythonInv'
    BY <2>2, PythonStep DEF ServingInv
  <2>5. OneRing => RingInv'
    BY <2>1, RingStep DEF ServingInv, OneRing
  <2>6. Benchmark!Next \/ UNCHANGED Benchmark!vars
    <3>1. Benchmark!Next \/ UNCHANGED benchVars
      BY DEF ServingNext, servingVars
    <3>2. QED
      BY <3>1 DEF benchVars, Benchmark!vars
  <2>7. BenchInv'
    BY <2>6, BenchPreserves, BenchStutters DEF ServingInv
  <2>8. QED
    BY <2>3, <2>4, <2>5, <2>7 DEF ServingInv, OneRing
<1>3. QED
  BY <1>1, <1>2, PTL DEF ServingSpec

\* However selectors, failures and recoveries interleave, no healthy worker is
\* picked twice more than another by round robin, and a worker that is chosen by any
\* policy was healthy at some time since the request came.
THEOREM PicksAreEven == ServingSpec => [](Policy!RoundRobinEven /\ Policy!ChoiceIsFit)
<1>1. ServingInv => Policy!RoundRobinEven /\ Policy!ChoiceIsFit
  BY RouteImplies DEF ServingInv
<1>2. QED
  BY ServingCorrect, <1>1, PTL

\* When all selectors pass the same list of workers, the requests of one session go
\* to one worker while all are healthy, also those that run while the ring is being
\* built by another thread; and what PicksAreEven says.
THEOREM RoutesKept == ASSUME OneRing PROVE ServingSpec => []RoutesAreKept
<1>1. ServingInv => RoutesAreKept
  BY RouteImplies, RingImplies DEF ServingInv, RoutesAreKept
<1>2. QED
  BY ServingCorrect, <1>1, PTL

\* A Python handler runs under the trace context of the call it serves, whatever
\* other calls are queued, running on other threads, suspended or being answered.
THEOREM TraceKept == ServingSpec => []TraceIsMine
<1>1. ServingInv => TraceIsMine
  BY DEF ServingInv, PythonInv, TraceIsMine
<1>2. QED
  BY ServingCorrect, <1>1, PTL

\* The report of a benchmark has one entry for each phase, in order, and counts every
\* request in the phase that sent it, and no phase ever counts more than was sent,
\* whatever the order in which workers report and the phases' marks reach the aggregator.
THEOREM ReportKept == ServingSpec => []ReportCountsAll
<1>1. ServingInv => ReportCountsAll
  BY BenchCounts DEF ServingInv, ReportCountsAll
<1>2. QED
  BY ServingCorrect, <1>1, PTL
=============================================================================
