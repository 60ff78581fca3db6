---------------------------- MODULE GossipProofs ----------------------------
(***************************************************************************)
(* Proofs about the gossip backend's member tables, for any finite set of  *)
(* nodes, any timeouts, and any number of crashes, cuts and lost answers.  *)
(***************************************************************************)
EXTENDS Gossip, FiniteSetTheorems, TLAPS

Entries == Entry \cup {Absent}

\* A node that has not joined has heard of nobody, so its Meet revives nobody
\* under an epoch it has not counted.
NewInv ==
  /\ up[Seed] # "new"
  /\ \A n \in Nodes : up[n] = "new" => \A m \in Nodes : ~CanRecover(view[n][m])

GossipInv == TypeOK /\ NewInv /\ EpochWasIssued

-----------------------------------------------------------------------------
(* What messages do to one entry                                           *)

\* The two kinds of entries.
LEMMA EntryFacts ==
  ASSUME NEW x \in Entries
  PROVE  /\ x.epoch \in Nat /\ x.age \in 0..MaxAge
         /\ x.shown \in Statuses \cup {"Absent"}
         /\ x.status # "Absent" => x \in Entry
         /\ x \in Entry => x.status \in Statuses
<1>1. MaxAge \in Nat
  BY GossipAssumption
<1>2. CASE x \in Entry
  BY <1>2 DEF Entry
<1>3. CASE x = Absent
  <2>1. x.status = "Absent" /\ x.epoch = 0 /\ x.age = 0 /\ x.shown = "Absent"
    BY <1>3 DEF Absent
  <2>2. x \notin Entry
    BY <2>1 DEF Entry, Statuses
  <2> QED
    BY <1>1, <2>1, <2>2
<1> QED
  BY <1>2, <1>3 DEF Entries

\* touch_node gives an entry a fresh epoch of the observer, or keeps its own.
LEMMA TouchFacts ==
  ASSUME NEW x \in Entries, NEW ep \in Nat
  PROVE  /\ Touch(x, ep) \in Entries
         /\ x \in Entry => Touch(x, ep) \in Entry
         /\ Touch(x, ep).epoch = IF CanRecover(x) THEN ep + 1 ELSE x.epoch
<1>0. 0 \in 0..MaxAge
  BY GossipAssumption
<1>1. CASE x = Absent
  BY <1>1 DEF Touch, Absent, Entries, Entry, Statuses, CanRecover
<1>2. CASE x \in Entry /\ CanRecover(x)
  <2>1. x.status # "Absent"
    BY <1>2 DEF Entry, Statuses
  <2>2. Touch(x, ep) = [status |-> "Online", epoch |-> ep + 1, age |-> 0, shown |-> "Online"]
    BY <1>2, <2>1 DEF Touch
  <2> QED
    BY <1>0, <1>2, <2>2 DEF Entry, Entries, Statuses
<1>3. CASE x \in Entry /\ ~CanRecover(x)
  <2>1. x.status # "Absent"
    BY <1>3 DEF Entry, Statuses
  <2>2. Touch(x, ep) = [x EXCEPT !.age = 0]
    BY <1>3, <2>1 DEF Touch
  <2> QED
    BY <1>0, <1>3, <2>2 DEF Entry, Entries
<1> QED
  BY <1>1, <1>2, <1>3 DEF Entries

\* merge_node and handle_failure take the epoch of one of the two claims.
LEMMA MergeFacts ==
  ASSUME NEW x \in Entries, NEW e \in Entries
  PROVE  /\ Merge(x, e) \in Entries
         /\ x \in Entry => Merge(x, e) \in Entry
         /\ Merge(x, e).epoch \in {x.epoch, e.epoch}
<1>1. CASE InPartialView(e) /\ Supersedes(e, x)
  <2>1. e \in Entry /\ e.status \in Statuses
    BY <1>1, EntryFacts DEF InPartialView, Statuses
  <2>2. PICK s : s = IF e.status # x.status THEN e.status ELSE x.shown
    OBVIOUS
  <2>3. s \in Statuses \cup {"Absent"}
    BY <2>1, <2>2, EntryFacts
  <2>4. Merge(x, e) = [e EXCEPT !.shown = s]
    BY <1>1, <2>2 DEF Merge
  <2> QED
    BY <2>1, <2>3, <2>4 DEF Entry, Entries
<1>2. CASE ~(InPartialView(e) /\ Supersedes(e, x))
  BY <1>2 DEF Merge
<1> QED
  BY <1>1, <1>2

\* handle_failure likewise.
LEMMA FailureFacts ==
  ASSUME NEW x \in Entries, NEW e \in Entries
  PROVE  /\ HandleFailure(x, e) \in Entries
         /\ x \in Entry => HandleFailure(x, e) \in Entry
         /\ HandleFailure(x, e).epoch \in {x.epoch, e.epoch}
<1> DEFINE takes == /\ InFailures(e) /\ x.status # "Absent"
                    /\ e.epoch >= x.epoch /\ Rank[e.status] > Rank[x.status]
<1>1. CASE takes
  <2>1. x \in Entry /\ e.status \in Statuses /\ e.epoch \in Nat
    BY <1>1, EntryFacts DEF InFailures, Statuses
  <2>2. HandleFailure(x, e) = [x EXCEPT !.status = e.status, !.epoch = e.epoch, !.shown = e.status]
    BY <1>1 DEF HandleFailure
  <2> QED
    BY <2>1, <2>2 DEF Entry, Entries
<1>2. CASE ~takes
  BY <1>2 DEF HandleFailure
<1> QED
  BY <1>1, <1>2

\* And one after the other.
LEMMA ToldFacts ==
  ASSUME NEW x \in Entries, NEW e \in Entries
  PROVE  /\ Told(x, e) \in Entries
         /\ x \in Entry => Told(x, e) \in Entry
         /\ Told(x, e).epoch \in {x.epoch, e.epoch}
<1>1. PICK y : y = Merge(x, e)
  OBVIOUS
<1>2. y \in Entries /\ (x \in Entry => y \in Entry) /\ y.epoch \in {x.epoch, e.epoch}
  BY <1>1, MergeFacts
<1>3. /\ HandleFailure(y, e) \in Entries
      /\ y \in Entry => HandleFailure(y, e) \in Entry
      /\ HandleFailure(y, e).epoch \in {y.epoch, e.epoch}
  BY <1>2, FailureFacts
<1> QED
  BY <1>1, <1>2, <1>3 DEF Told

-----------------------------------------------------------------------------
(* What the steps do to the tables                                         *)

\* The part of the invariant about tables and epochs.
TablesOK ==
  /\ view \in [Nodes -> [Nodes -> Entries]] /\ epoch \in [Nodes -> Nat]
  /\ \A n \in Nodes : view[n][n] \in Entry
  /\ EpochWasIssued

\* An epoch some node has issued at the time of the epochs E.
Issued(e, E) == \E k \in Nodes : e.epoch <= E[k]

\* Epochs only grow, so what was issued stays issued.
LEMMA IssuedStays ==
  ASSUME NEW E \in [Nodes -> Nat], NEW F \in [Nodes -> Nat], \A k \in Nodes : E[k] <= F[k],
         NEW e \in Entries, Issued(e, E)
  PROVE  Issued(e, F)
<1>1. PICK k \in Nodes : e.epoch <= E[k]
  BY DEF Issued
<1>2. e.epoch \in Nat /\ E[k] \in Nat /\ F[k] \in Nat /\ E[k] <= F[k]
  BY EntryFacts
<1>3. e.epoch <= F[k]
  BY <1>1, <1>2
<1> QED
  BY <1>3 DEF Issued

\* A table after a message whose claims were issued has issued epochs.
LEMMA ToldIssued ==
  ASSUME NEW x \in Entries, NEW e \in Entries, NEW E, Issued(x, E), Issued(e, E)
  PROVE  Issued(Told(x, e), E)
BY ToldFacts DEF Issued

\* The tables, read entry by entry.
LEMMA TablesFacts ==
  ASSUME TablesOK
  PROVE  /\ \A n, m \in Nodes : view[n][m] \in Entries /\ Issued(view[n][m], epoch)
         /\ \A n \in Nodes : epoch[n] \in Nat /\ view[n] \in [Nodes -> Entries]
BY DEF TablesOK, EpochWasIssued, Issued

\* And put together.
LEMMA TablesIntro ==
  ASSUME view' \in [Nodes -> [Nodes -> Entries]], epoch' \in [Nodes -> Nat],
         \A n \in Nodes : view'[n][n] \in Entry,
         \A n, m \in Nodes : Issued(view'[n][m], epoch')
  PROVE  TablesOK'
BY DEF TablesOK, EpochWasIssued, Issued

\* The table after a Ping, a Pong or a Meet's answer: the epoch a touch gives
\* must be counted.
LEMMA HeardFacts ==
  ASSUME NEW v \in [Nodes -> Entries], NEW w \in [Nodes -> Entries], NEW s, NEW E,
         NEW ep \in Nat, NEW from \in Nodes,
         \A k \in Nodes : Issued(v[k], E) /\ Issued(w[k], E),
         CanRecover(v[from]) => \E k \in Nodes : ep + 1 <= E[k]
  PROVE  LET h == Heard(v, ep, GossipMessage(from, w, s))
         IN /\ h \in [Nodes -> Entries]
            /\ \A k \in Nodes : (v[k] \in Entry => h[k] \in Entry) /\ Issued(h[k], E)
<1> DEFINE h == Heard(v, ep, GossipMessage(from, w, s))
<1>1. h = [k \in Nodes |-> Told(IF k = from THEN Touch(v[k], ep) ELSE v[k], w[k])]
  BY DEF Heard, GossipMessage
<1>2. ASSUME NEW k \in Nodes
      PROVE  h[k] \in Entries /\ (v[k] \in Entry => h[k] \in Entry) /\ Issued(h[k], E)
  <2>1. PICK x : x = IF k = from THEN Touch(v[k], ep) ELSE v[k]
    OBVIOUS
  <2>2. x \in Entries /\ (v[k] \in Entry => x \in Entry)
    BY <2>1, TouchFacts
  <2>3. Issued(x, E)
    <3>1. CASE k = from /\ CanRecover(v[k])
      <4>1. x.epoch = ep + 1
        BY <2>1, <3>1, TouchFacts
      <4> QED
        BY <3>1, <4>1 DEF Issued
    <3>2. CASE ~(k = from /\ CanRecover(v[k]))
      <4>1. x.epoch = v[k].epoch
        BY <2>1, <3>2, TouchFacts
      <4>2. Issued(v[k], E)
        OBVIOUS
      <4> QED
        BY <4>1, <4>2 DEF Issued
    <3> QED
      BY <3>1, <3>2
  <2>4. h[k] = Told(x, w[k])
    BY <1>1, <2>1
  <2>5. w[k] \in Entries /\ Issued(w[k], E)
    OBVIOUS
  <2>6. Told(x, w[k]) \in Entries /\ (x \in Entry => Told(x, w[k]) \in Entry)
    BY <2>2, <2>5, ToldFacts
  <2>7. Issued(Told(x, w[k]), E)
    BY <2>2, <2>3, <2>5, ToldIssued
  <2> QED
    BY <2>2, <2>4, <2>6, <2>7
<1> HIDE DEF h
<1>3. h \in [Nodes -> Entries]
  BY <1>1, <1>2
<1>4. \A k \in Nodes : (v[k] \in Entry => h[k] \in Entry) /\ Issued(h[k], E)
  BY <1>2
<1> QED
  BY <1>3, <1>4 DEF h

\* The sender's table after the answer.
LEMMA MergedFacts ==
  ASSUME NEW v \in [Nodes -> Entries], NEW w \in [Nodes -> Entries], NEW s, NEW E,
         NEW from \in Nodes,
         \A k \in Nodes : Issued(v[k], E) /\ Issued(w[k], E)
  PROVE  LET h == Merged(v, GossipMessage(from, w, s))
         IN /\ h \in [Nodes -> Entries]
            /\ \A k \in Nodes : (v[k] \in Entry => h[k] \in Entry) /\ Issued(h[k], E)
<1> DEFINE h == Merged(v, GossipMessage(from, w, s))
<1>1. h = [k \in Nodes |-> Told(v[k], w[k])]
  BY DEF Merged, GossipMessage
<1>2. ASSUME NEW k \in Nodes
      PROVE  h[k] \in Entries /\ (v[k] \in Entry => h[k] \in Entry) /\ Issued(h[k], E)
  <2>1. /\ v[k] \in Entries /\ Issued(v[k], E) /\ w[k] \in Entries /\ Issued(w[k], E)
    OBVIOUS
  <2>2. Told(v[k], w[k]) \in Entries /\ (v[k] \in Entry => Told(v[k], w[k]) \in Entry)
    BY <2>1, ToldFacts
  <2>3. Issued(Told(v[k], w[k]), E)
    BY <2>1, ToldIssued
  <2> QED
    BY <1>1, <2>2, <2>3
<1> HIDE DEF h
<1>3. h \in [Nodes -> Entries]
  BY <1>1, <1>2
<1>4. \A k \in Nodes : (v[k] \in Entry => h[k] \in Entry) /\ Issued(h[k], E)
  BY <1>2
<1> QED
  BY <1>3, <1>4 DEF h

\* Two tables change, each to sound ones.
LEMMA TwoTables ==
  ASSUME TablesOK, epoch' \in [Nodes -> Nat], \A k \in Nodes : epoch[k] <= epoch'[k],
         NEW a \in Nodes, NEW b \in Nodes, a # b,
         NEW s \in [Nodes -> Entries], NEW t \in [Nodes -> Entries],
         \A k \in Nodes : Issued(s[k], epoch') /\ Issued(t[k], epoch'),
         s[a] \in Entry, t[b] \in Entry,
         view' = [view EXCEPT ![a] = s, ![b] = t]
  PROVE  TablesOK'
<1>1. view \in [Nodes -> [Nodes -> Entries]]
  BY DEF TablesOK
<1>2. view' \in [Nodes -> [Nodes -> Entries]]
  BY <1>1
<1>3. view'[a] = s /\ view'[b] = t /\ \A n \in Nodes \ {a, b} : view'[n] = view[n]
  BY <1>1
<1>4. \A n \in Nodes : view'[n][n] \in Entry
  BY <1>3 DEF TablesOK
<1>5. ASSUME NEW n \in Nodes, NEW m \in Nodes PROVE Issued(view'[n][m], epoch')
  <2>1. CASE n \in {a, b}
    BY <2>1, <1>3
  <2>2. CASE n \notin {a, b}
    <3>1. view'[n][m] = view[n][m]
      BY <2>2, <1>3
    <3>2. view[n][m] \in Entries /\ Issued(view[n][m], epoch) /\ epoch \in [Nodes -> Nat]
      BY TablesFacts DEF TablesOK
    <3>3. Issued(view[n][m], epoch')
      BY <3>2, IssuedStays
    <3> QED
      BY <3>1, <3>3
  <2> QED
    BY <2>1, <2>2
<1> QED
  BY <1>2, <1>4, <1>5, TablesIntro

\* Joining through the seed.
LEMMA JoinTables == ASSUME TablesOK, NewInv, NEW n \in Nodes, Join(n) PROVE TablesOK'
<1>0. Seed \in Nodes /\ n # Seed /\ epoch' = epoch /\ 0 \in 0..MaxAge
  BY GossipAssumption DEF Join, NewInv
<1>1. PICK met : met = Met(view[Seed], n, epoch[n])
  OBVIOUS
<1>2. PICK heard : heard = Heard(view[n], epoch[n], GossipMessage(Seed, met, named[Seed]))
  OBVIOUS
<1>3. view' = [view EXCEPT ![Seed] = met, ![n] = heard]
  BY <1>1, <1>2 DEF Join
<1>4. /\ view[Seed] \in [Nodes -> Entries] /\ view[n] \in [Nodes -> Entries] /\ epoch[n] \in Nat
      /\ \A k \in Nodes : Issued(view[Seed][k], epoch) /\ Issued(view[n][k], epoch)
  BY <1>0, TablesFacts
<1>5. PICK e : e = [status |-> "Online", age |-> 0, shown |-> "Online",
                    epoch |-> IF view[Seed][n].epoch < epoch[n] THEN epoch[n] ELSE view[Seed][n].epoch]
  OBVIOUS
<1>6. met = [view[Seed] EXCEPT ![n] = e]
  BY <1>1, <1>5 DEF Met
<1>7. e \in Entry /\ Issued(e, epoch)
  <2>1. view[Seed][n] \in Entries /\ view[Seed][n].epoch \in Nat
    BY <1>4, EntryFacts
  <2>2. e \in Entry
    BY <1>0, <1>4, <1>5, <2>1 DEF Entry, Statuses
  <2>3. CASE view[Seed][n].epoch < epoch[n]
    <3>1. e.epoch <= epoch[n]
      BY <1>4, <1>5, <2>3
    <3> QED
      BY <2>2, <3>1 DEF Issued
  <2>4. CASE ~(view[Seed][n].epoch < epoch[n])
    <3>1. e.epoch = view[Seed][n].epoch
      BY <1>5, <2>4
    <3>2. Issued(view[Seed][n], epoch)
      BY <1>4
    <3>3. Issued(e, epoch)
      BY <3>1, <3>2 DEF Issued
    <3> QED
      BY <2>2, <3>3
  <2> QED
    BY <2>3, <2>4
<1>8. met \in [Nodes -> Entries] /\ \A k \in Nodes : Issued(met[k], epoch)
  BY <1>4, <1>6, <1>7 DEF Entries
<1>9. met[Seed] \in Entry
  BY <1>0, <1>4, <1>6 DEF TablesOK
<1>10. ~CanRecover(view[n][Seed])
  BY <1>0 DEF NewInv, Join
<1>11. /\ heard \in [Nodes -> Entries]
       /\ \A k \in Nodes : (view[n][k] \in Entry => heard[k] \in Entry) /\ Issued(heard[k], epoch)
  BY <1>0, <1>2, <1>4, <1>8, <1>10, HeardFacts
<1>12. heard[n] \in Entry
  BY <1>11 DEF TablesOK
<1>13. epoch' \in [Nodes -> Nat] /\ \A k \in Nodes : epoch[k] <= epoch'[k]
  BY <1>0, TablesFacts DEF TablesOK
<1> QED
  BY <1>0, <1>3, <1>8, <1>9, <1>11, <1>12, <1>13, TwoTables

\* A ping and its answer: the handler counts the epoch it gives the sender.
LEMMA PingTables == ASSUME TablesOK, NEW n \in Nodes, NEW m \in Nodes, Ping(n, m) PROVE TablesOK'
<1>0. n # m /\ epoch' = [epoch EXCEPT ![m] = @ + Touches(view[m][n])]
  BY DEF Ping
<1>1. PICK mine : mine = Heard(view[m], epoch[m], GossipMessage(n, view[n], named[n]))
  OBVIOUS
<1>a. PICK lost \in BOOLEAN : \E said :
        view' = [view EXCEPT ![m] = mine,
                   ![n] = IF lost THEN view[n] ELSE Merged(view[n], GossipMessage(m, mine, said))]
  <2>1. view \in [Nodes -> [Nodes -> Entries]]
    BY DEF TablesOK
  <2>2. PICK lost \in {FALSE, Lossy} :
          LET ping == GossipMessage(n, view[n], named[n])
              pong == GossipMessage(m, Heard(view[m], epoch[m], ping),
                                    MergeInstances(named[m], ping.named))
          IN view' = [view EXCEPT ![m] = pong.table, ![n] = IF lost THEN @ ELSE Merged(@, pong)]
    BY DEF Ping
  <2>3. PICK said : said = MergeInstances(named[m], GossipMessage(n, view[n], named[n]).named)
    OBVIOUS
  <2>4. GossipMessage(m, mine, said).table = mine
    BY DEF GossipMessage
  <2>5. view' = [view EXCEPT ![m] = mine,
                   ![n] = IF lost THEN @ ELSE Merged(@, GossipMessage(m, mine, said))]
    BY <1>1, <2>2, <2>3, <2>4
  <2>6. view' = [view EXCEPT ![m] = mine,
                   ![n] = IF lost THEN view[n] ELSE Merged(view[n], GossipMessage(m, mine, said))]
    BY <1>0, <2>1, <2>5
  <2>7. CASE lost
    BY <2>6, <2>7
  <2>8. CASE ~lost
    BY <2>6, <2>8
  <2> QED
    BY <2>7, <2>8
<1>2. PICK said :
        view' = [view EXCEPT ![m] = mine,
                   ![n] = IF lost THEN view[n] ELSE Merged(view[n], GossipMessage(m, mine, said))]
  BY <1>a
<1>3. /\ view[m] \in [Nodes -> Entries] /\ view[n] \in [Nodes -> Entries] /\ epoch[m] \in Nat
      /\ epoch \in [Nodes -> Nat] /\ view[m][m] \in Entry /\ view[n][n] \in Entry
      /\ \A k \in Nodes : /\ view[m][k] \in Entries /\ Issued(view[m][k], epoch)
                          /\ view[n][k] \in Entries /\ Issued(view[n][k], epoch)
  BY TablesFacts DEF TablesOK
<1>4. /\ epoch' \in [Nodes -> Nat] /\ \A k \in Nodes : epoch[k] <= epoch'[k]
      /\ CanRecover(view[m][n]) => epoch[m] + 1 <= epoch'[m]
  <2>1. Touches(view[m][n]) \in {0, 1} /\ (CanRecover(view[m][n]) => Touches(view[m][n]) = 1)
    BY DEF Touches
  <2> QED
    BY <1>0, <1>3, <2>1
<1>5. \A k \in Nodes : Issued(view[m][k], epoch') /\ Issued(view[n][k], epoch')
  BY <1>3, <1>4, IssuedStays
<1>6. /\ mine \in [Nodes -> Entries]
      /\ \A k \in Nodes : (view[m][k] \in Entry => mine[k] \in Entry) /\ Issued(mine[k], epoch')
  <2>1. CanRecover(view[m][n]) => \E k \in Nodes : epoch[m] + 1 <= epoch'[k]
    BY <1>4
  <2> QED
    BY <1>1, <1>3, <1>5, <2>1, HeardFacts
<1>7. PICK his : his = IF lost THEN view[n] ELSE Merged(view[n], GossipMessage(m, mine, said))
  OBVIOUS
<1>8. /\ his \in [Nodes -> Entries] /\ his[n] \in Entry /\ \A k \in Nodes : Issued(his[k], epoch')
  <2>1. CASE lost
    BY <1>3, <1>5, <1>7, <2>1
  <2>2. CASE ~lost
    <3>1. PICK merged : merged = Merged(view[n], GossipMessage(m, mine, said))
      OBVIOUS
    <3>2. /\ merged \in [Nodes -> Entries]
          /\ \A k \in Nodes : (view[n][k] \in Entry => merged[k] \in Entry) /\ Issued(merged[k], epoch')
      BY <1>3, <1>5, <1>6, <3>1, MergedFacts
    <3>3. his = merged
      BY <1>7, <2>2, <3>1
    <3> QED
      BY <1>3, <3>2, <3>3
  <2> QED
    BY <2>1, <2>2
<1>9. view' = [view EXCEPT ![m] = mine, ![n] = his]
  BY <1>2, <1>7
<1>10. mine[m] \in Entry
  BY <1>3, <1>6
<1> QED
  BY <1>0, <1>4, <1>6, <1>8, <1>9, <1>10, TwoTables

\* One table changes, to a sound one.
LEMMA OneTable ==
  ASSUME TablesOK, epoch' \in [Nodes -> Nat], \A k \in Nodes : epoch[k] <= epoch'[k],
         NEW a \in Nodes, NEW s \in [Nodes -> Entries],
         \A k \in Nodes : Issued(s[k], epoch'), s[a] \in Entry,
         view' = [view EXCEPT ![a] = s]
  PROVE  TablesOK'
<1>1. view \in [Nodes -> [Nodes -> Entries]]
  BY DEF TablesOK
<1>2. view' \in [Nodes -> [Nodes -> Entries]]
  BY <1>1
<1>3. view'[a] = s /\ \A n \in Nodes \ {a} : view'[n] = view[n]
  BY <1>1
<1>4. \A n \in Nodes : view'[n][n] \in Entry
  BY <1>3 DEF TablesOK
<1>5. ASSUME NEW n \in Nodes, NEW m \in Nodes PROVE Issued(view'[n][m], epoch')
  <2>1. CASE n = a
    BY <2>1, <1>3
  <2>2. CASE n # a
    <3>1. view'[n][m] = view[n][m]
      BY <2>2, <1>3
    <3>2. view[n][m] \in Entries /\ Issued(view[n][m], epoch) /\ epoch \in [Nodes -> Nat]
      BY TablesFacts DEF TablesOK
    <3>3. Issued(view[n][m], epoch')
      BY <3>2, IssuedStays
    <3> QED
      BY <3>1, <3>3
  <2> QED
    BY <2>1, <2>2
<1> QED
  BY <1>2, <1>4, <1>5, TablesIntro

\* What the detector collects: one verdict per node, and none on itself.
FoundOK ==
  /\ found \in [Nodes -> [Nodes -> Verdicts]]
  /\ \A n \in Nodes : found[n][n] = "keep"

\* A verdict that still holds changes an entry the table has.
LEMMA ValidFacts ==
  ASSUME NEW x \in Entries, NEW w \in Verdicts, StillValid(x, w)
  PROVE  /\ x \in Entry /\ w # "keep"
         /\ w # "remove" => Gives[w] \in Statuses
<1>1. w \in {"recover", "pfail", "fail", "tombstone", "remove", "keep"}
  BY DEF Verdicts
<1>2. CASE w = "recover"
  BY <1>2, EntryFacts DEF StillValid, CanRecover, Gives, Statuses
<1>3. CASE w = "pfail"
  BY <1>3, EntryFacts DEF StillValid, Gives, Statuses
<1>4. CASE w = "fail"
  BY <1>4, EntryFacts DEF StillValid, Gives, Statuses
<1>5. CASE w = "tombstone"
  BY <1>5, EntryFacts DEF StillValid, Gives, Statuses
<1>6. CASE w = "remove"
  BY <1>6, EntryFacts DEF StillValid
<1>7. CASE w = "keep"
  BY <1>7 DEF StillValid
<1> QED
  BY <1>1, <1>2, <1>3, <1>4, <1>5, <1>6, <1>7

\* The detector's second half: the epochs it gives are the ones it counts.
LEMMA ApplyTables == ASSUME TablesOK, FoundOK, NEW n \in Nodes, Apply(n) PROVE TablesOK'
<1> DEFINE valid0   == {m \in Nodes : StillValid(view[n][m], found[n][m])}
           gone0    == {m \in valid0 : found[n][m] = "remove"}
           changed0 == valid0 \ gone0
<1>1. PICK what : what = found[n]
  OBVIOUS
<1>2. PICK v : v = view[n]
  OBVIOUS
<1>3. PICK valid : valid = valid0
  OBVIOUS
<1>4. PICK gone : gone = gone0
  OBVIOUS
<1>5. PICK changed : changed = changed0
  OBVIOUS
<1>6. epoch' = [epoch EXCEPT ![n] = @ + Cardinality(changed)]
  BY <1>5 DEF Apply
<1>a. PICK pos \in Orders(changed, what) : \E s :
        /\ view' = [view EXCEPT ![n] = s]
        /\ s = [m \in Nodes |->
             IF m \in gone THEN Absent
             ELSE IF m \in changed
                  THEN [status |-> Gives[what[m]], epoch |-> epoch[n] + pos[m],
                        age |-> v[m].age, shown |-> Gives[what[m]]]
                  ELSE v[m]]
  <2>1. \E pos \in Orders(changed0, found[n]) :
        view' = [view EXCEPT ![n] = [m \in Nodes |->
             IF m \in gone0 THEN Absent
             ELSE IF m \in changed0
                  THEN [status |-> Gives[found[n][m]], epoch |-> epoch[n] + pos[m],
                        age |-> view[n][m].age, shown |-> Gives[found[n][m]]]
                  ELSE view[n][m]]]
    BY Zenon DEF Apply
  <2>2. PICK pos \in Orders(changed0, found[n]) :
        view' = [view EXCEPT ![n] = [m \in Nodes |->
             IF m \in gone0 THEN Absent
             ELSE IF m \in changed0
                  THEN [status |-> Gives[found[n][m]], epoch |-> epoch[n] + pos[m],
                        age |-> view[n][m].age, shown |-> Gives[found[n][m]]]
                  ELSE view[n][m]]]
    BY <2>1
  <2> HIDE DEF changed0, gone0, valid0
  <2>3. pos \in Orders(changed, what)
    BY <1>1, <1>5, <2>2
  <2> DEFINE t == [m \in Nodes |->
             IF m \in gone THEN Absent
             ELSE IF m \in changed
                  THEN [status |-> Gives[what[m]], epoch |-> epoch[n] + pos[m],
                        age |-> v[m].age, shown |-> Gives[what[m]]]
                  ELSE v[m]]
  <2>4. view' = [view EXCEPT ![n] = t]
    BY <1>1, <1>2, <1>4, <1>5, <2>2, Zenon
  <2> QED
    BY <2>3, <2>4, Zenon
<1>7. PICK s :
        /\ view' = [view EXCEPT ![n] = s]
        /\ s = [m \in Nodes |->
             IF m \in gone THEN Absent
             ELSE IF m \in changed
                  THEN [status |-> Gives[what[m]], epoch |-> epoch[n] + pos[m],
                        age |-> v[m].age, shown |-> Gives[what[m]]]
                  ELSE v[m]]
  BY <1>a
<1>8. changed \subseteq Nodes /\ Cardinality(changed) \in Nat
  <2>1. IsFiniteSet(Nodes)
    BY GossipAssumption
  <2>2. changed \subseteq Nodes
    BY <1>3, <1>4, <1>5
  <2>3. IsFiniteSet(changed)
    BY <2>1, <2>2, FS_Subset
  <2> QED
    BY <2>2, <2>3, FS_CardinalityType
<1>9. PICK c \in Nat : c = Cardinality(changed)
  BY <1>8
<1>10. pos \in [changed -> 1..c]
  BY <1>9 DEF Orders
<1>11. /\ v \in [Nodes -> Entries] /\ epoch \in [Nodes -> Nat] /\ epoch[n] \in Nat /\ v[n] \in Entry
       /\ \A k \in Nodes : v[k] \in Entries /\ Issued(v[k], epoch)
  BY <1>2, TablesFacts DEF TablesOK
<1>12. what \in [Nodes -> Verdicts] /\ what[n] = "keep"
  BY <1>1 DEF FoundOK
<1>13. epoch' \in [Nodes -> Nat] /\ (\A k \in Nodes : epoch[k] <= epoch'[k]) /\ epoch'[n] = epoch[n] + c
  BY <1>6, <1>9, <1>11
<1>14. ASSUME NEW k \in Nodes
       PROVE  s[k] \in Entries /\ Issued(s[k], epoch') /\ (k = n => s[k] \in Entry)
  <2>1. v[k] \in Entries /\ what[k] \in Verdicts /\ Issued(v[k], epoch)
    BY <1>11, <1>12
  <2>2. k \in valid => StillValid(v[k], what[k])
    BY <1>1, <1>2, <1>3
  <2>3. k \in valid => k # n
    BY <2>1, <2>2, <1>12, ValidFacts
  <2>4. CASE k \in gone
    <3>1. s[k] = Absent /\ k # n
      BY <1>3, <1>4, <1>7, <2>3, <2>4
    <3>2. Absent.epoch = 0
      BY DEF Absent
    <3>3. 0 <= epoch'[n]
      BY <1>11, <1>13
    <3>4. Issued(s[k], epoch')
      BY <3>1, <3>2, <3>3 DEF Issued
    <3> QED
      BY <3>1, <3>4 DEF Entries
  <2>5. CASE k \in changed
    <3>1. k \in valid /\ what[k] # "remove" /\ k \notin gone
      BY <1>1, <1>3, <1>4, <1>5, <2>5
    <3>2. Gives[what[k]] \in Statuses
      BY <2>1, <2>2, <3>1, ValidFacts
    <3>3. PICK g \in Statuses : g = Gives[what[k]]
      BY <3>2
    <3>4. PICK a \in 0..MaxAge : a = v[k].age
      BY <2>1, EntryFacts
    <3>5. PICK p \in 1..c : p = pos[k]
      BY <1>10, <2>5
    <3>6. PICK q \in Nat : q = epoch[n] + p
      BY <1>9, <1>11, <3>5
    <3>7. s[k] = [status |-> g, epoch |-> q, age |-> a, shown |-> g]
      BY <1>7, <2>5, <3>1, <3>3, <3>4, <3>5, <3>6
    <3>8. s[k] \in Entry
      BY <3>3, <3>4, <3>6, <3>7 DEF Entry
    <3>9. q <= epoch'[n]
      BY <1>9, <1>11, <1>13, <3>5, <3>6
    <3>10. Issued(s[k], epoch')
      BY <3>7, <3>9 DEF Issued
    <3> QED
      BY <3>8, <3>10 DEF Entries
  <2>6. CASE k \notin gone /\ k \notin changed
    <3>1. s[k] = v[k]
      BY <1>7, <2>6
    <3>2. Issued(v[k], epoch')
      BY <1>11, <1>13, <2>1, IssuedStays
    <3> QED
      BY <1>11, <2>1, <3>1, <3>2
  <2> QED
    BY <2>4, <2>5, <2>6
<1>15. s \in [Nodes -> Entries]
  BY <1>7, <1>14
<1> QED
  BY <1>7, <1>13, <1>14, <1>15, OneTable

\* Time passes: entries get older, nothing else.
LEMMA TickTables == ASSUME TablesOK, Tick PROVE TablesOK'
<1>0. MaxAge \in Nat
  BY GossipAssumption
<1>1. epoch' = epoch
  BY DEF Tick
<1>2. ASSUME NEW n \in Nodes, NEW m \in Nodes
      PROVE  /\ view'[n][m] \in Entries /\ Issued(view'[n][m], epoch)
             /\ view[n][m] \in Entry => view'[n][m] \in Entry
  <2>1. PICK x : x = view[n][m]
    OBVIOUS
  <2>2. x \in Entries /\ Issued(x, epoch)
    BY <2>1, TablesFacts
  <2>3. view'[n][m] = IF x # Absent /\ x.age < MaxAge THEN [x EXCEPT !.age = @ + 1] ELSE x
    BY <2>1 DEF Tick
  <2>4. CASE x # Absent /\ x.age < MaxAge
    <3>1. x \in Entry /\ x.age \in 0..MaxAge
      BY <2>2, <2>4, EntryFacts DEF Entries
    <3>2. PICK a \in 0..MaxAge : a = x.age + 1
      BY <1>0, <2>4, <3>1
    <3>3. view'[n][m] = [x EXCEPT !.age = a]
      BY <2>3, <2>4, <3>2
    <3>4. view'[n][m] \in Entry /\ view'[n][m].epoch = x.epoch
      BY <3>1, <3>2, <3>3 DEF Entry
    <3> QED
      BY <2>2, <3>4 DEF Entries, Issued
  <2>5. CASE ~(x # Absent /\ x.age < MaxAge)
    BY <2>1, <2>2, <2>3, <2>5
  <2> QED
    BY <2>4, <2>5
<1>3. view' = [n \in Nodes |-> view'[n]] /\ \A n \in Nodes : view'[n] = [m \in Nodes |-> view'[n][m]]
  BY DEF Tick
<1>4. view' \in [Nodes -> [Nodes -> Entries]]
  <2>1. \A n \in Nodes : view'[n] \in [Nodes -> Entries]
    BY <1>2, <1>3
  <2> QED
    BY <1>3, <2>1
<1>5. \A n \in Nodes : view'[n][n] \in Entry
  BY <1>2 DEF TablesOK
<1>6. epoch' \in [Nodes -> Nat]
  BY <1>1 DEF TablesOK
<1>7. \A n, m \in Nodes : Issued(view'[n][m], epoch')
  BY <1>1, <1>2
<1> QED
  BY <1>4, <1>5, <1>6, <1>7, TablesIntro

-----------------------------------------------------------------------------
(* The other variables                                                     *)

OtherOK ==
  /\ up \in [Nodes -> {"off", "new", "up", "crashed"}] /\ cut \subseteq Nodes
  /\ faults \in 0..MaxFaults
  /\ named \in [Nodes -> SUBSET Nodes]
  /\ running \in [Nodes -> {"no", "yes", "stopped"}]
  /\ pinged \in [Nodes -> SUBSET Nodes]
  /\ phase \in [Nodes -> {"todo", "judged", "done"}]
  /\ FoundOK

\* The invariant, part by part.
LEMMA Parts == GossipInv <=> TablesOK /\ OtherOK /\ NewInv
BY DEF GossipInv, TypeOK, TablesOK, OtherOK, FoundOK, Entries

\* And after a step.
LEMMA PartsNext == ASSUME TablesOK', OtherOK', NewInv' PROVE GossipInv'
BY DEF GossipInv, TypeOK, TablesOK, OtherOK, FoundOK, Entries

\* Every verdict is one of the six.
LEMMA VerdictType == ASSUME NEW e PROVE Verdict(e) \in Verdicts
BY DEF Verdict, Verdicts

\* Joining.
LEMMA JoinOther == ASSUME OtherOK, NEW n \in Nodes, Join(n) PROVE OtherOK'
<1>1. Seed \in Nodes
  BY GossipAssumption
<1>2. up' = [up EXCEPT ![n] = "up"]
  BY DEF Join
<1>3. up' \in [Nodes -> {"off", "new", "up", "crashed"}]
  BY <1>2 DEF OtherOK
<1>4. named' = [named EXCEPT ![n] = @ \cup named[Seed]]
  BY DEF Join, GossipMessage, MergeInstances
<1>5. named' \in [Nodes -> SUBSET Nodes]
  BY <1>1, <1>4 DEF OtherOK
<1>6. UNCHANGED <<cut, faults, running, pinged, phase, found>>
  BY DEF Join, clock
<1> QED
  BY <1>3, <1>5, <1>6 DEF OtherOK, FoundOK

\* A ping.
LEMMA PingOther ==
  ASSUME OtherOK, NEW n \in Nodes, NEW m \in Nodes, Ping(n, m) PROVE OtherOK'
<1>1. PICK lost \in {FALSE, Lossy} :
        named' = [named EXCEPT ![m] = named[m] \cup named[n],
                               ![n] = IF lost THEN @ ELSE @ \cup (named[m] \cup named[n])]
  BY DEF Ping, GossipMessage, MergeInstances
<1>2. named' \in [Nodes -> SUBSET Nodes]
  BY <1>1 DEF OtherOK
<1>3. pinged' = [pinged EXCEPT ![n] = @ \cup {m}]
  BY DEF Ping
<1>4. pinged' \in [Nodes -> SUBSET Nodes]
  BY <1>3 DEF OtherOK
<1>5. UNCHANGED <<up, cut, faults, running, phase, found>>
  BY DEF Ping, net
<1> QED
  BY <1>2, <1>4, <1>5 DEF OtherOK, FoundOK

\* The detector's first half judges the others only.
LEMMA CollectOther == ASSUME OtherOK, NEW n \in Nodes, Collect(n) PROVE OtherOK'
<1>1. PICK w : w = [m \in Nodes |-> IF m = n THEN "keep" ELSE Verdict(view[n][m])]
  OBVIOUS
<1>2. w \in [Nodes -> Verdicts] /\ w[n] = "keep"
  <2>1. \A m \in Nodes : Verdict(view[n][m]) \in Verdicts
    BY VerdictType
  <2>2. "keep" \in Verdicts
    BY DEF Verdicts
  <2> QED
    BY <1>1, <2>1, <2>2
<1>3. found' = [found EXCEPT ![n] = w]
  BY <1>1 DEF Collect
<1>4. FoundOK'
  BY <1>2, <1>3 DEF FoundOK, OtherOK
<1>5. phase' = [phase EXCEPT ![n] = "judged"]
  BY DEF Collect
<1>6. phase' \in [Nodes -> {"todo", "judged", "done"}]
  BY <1>5 DEF OtherOK
<1>7. UNCHANGED <<up, cut, faults, named, running, pinged>>
  BY DEF Collect, net, actors
<1> QED
  BY <1>4, <1>6, <1>7 DEF OtherOK

\* Its second half.
LEMMA ApplyOther == ASSUME OtherOK, NEW n \in Nodes, Apply(n) PROVE OtherOK'
<1>1. PICK w : w = [m \in Nodes |-> "keep"]
  OBVIOUS
<1>2. w \in [Nodes -> Verdicts] /\ w[n] = "keep"
  BY <1>1 DEF Verdicts
<1>3. found' = [found EXCEPT ![n] = w]
  BY <1>1 DEF Apply
<1>4. FoundOK'
  BY <1>2, <1>3 DEF FoundOK, OtherOK
<1>5. phase' = [phase EXCEPT ![n] = "done"]
  BY DEF Apply
<1>6. phase' \in [Nodes -> {"todo", "judged", "done"}]
  BY <1>5 DEF OtherOK
<1>7. PICK dropped : named' = [named EXCEPT ![n] = @ \ dropped]
  BY DEF Apply
<1>8. named' \in [Nodes -> SUBSET Nodes]
  BY <1>7 DEF OtherOK
<1>9. UNCHANGED <<up, cut, faults, running, pinged>>
  BY DEF Apply, net
<1> QED
  BY <1>4, <1>6, <1>8, <1>9 DEF OtherOK

\* The named actor starts or stops.
LEMMA ActorOther ==
  ASSUME OtherOK, NEW n \in Nodes, Register(n) \/ Unregister(n) PROVE OtherOK'
<1>1. CASE Register(n)
  <2>1. PICK ts : named' = HandleRegistered(ts, n)
    BY <1>1 DEF Register
  <2>2. named' \in [Nodes -> SUBSET Nodes]
    BY <2>1 DEF OtherOK, HandleRegistered, AddInstance
  <2>3. running' = [running EXCEPT ![n] = "yes"]
    BY <1>1 DEF Register
  <2>4. running' \in [Nodes -> {"no", "yes", "stopped"}]
    BY <2>3 DEF OtherOK
  <2>5. UNCHANGED <<up, cut, faults, pinged, phase, found>>
    BY <1>1 DEF Register, net, clock
  <2> QED
    BY <2>2, <2>4, <2>5 DEF OtherOK, FoundOK
<1>2. CASE Unregister(n)
  <2>1. PICK ts : named' = HandleUnregistered(ts, n)
    BY <1>2 DEF Unregister
  <2>2. named' \in [Nodes -> SUBSET Nodes]
    BY <2>1 DEF OtherOK, HandleUnregistered, RemoveInstance
  <2>3. running' = [running EXCEPT ![n] = "stopped"]
    BY <1>2 DEF Unregister
  <2>4. running' \in [Nodes -> {"no", "yes", "stopped"}]
    BY <2>3 DEF OtherOK
  <2>5. UNCHANGED <<up, cut, faults, pinged, phase, found>>
    BY <1>2 DEF Unregister, net, clock
  <2> QED
    BY <2>2, <2>4, <2>5 DEF OtherOK, FoundOK
<1> QED
  BY <1>1, <1>2

\* Crashes, cuts and time.
LEMMA WorldOther ==
  ASSUME OtherOK, (\E n \in Nodes : Crash(n) \/ CutOff(n) \/ Reconnect(n)) \/ Tick
  PROVE  OtherOK'
<1>0. MaxFaults \in Nat
  BY GossipAssumption
<1>1. ASSUME NEW n \in Nodes, Crash(n) PROVE OtherOK'
  <2>1. up' = [up EXCEPT ![n] = "crashed"] /\ faults' = faults - 1 /\ faults > 0
    BY <1>1 DEF Crash
  <2>2. up' \in [Nodes -> {"off", "new", "up", "crashed"}]
    BY <2>1 DEF OtherOK
  <2>3. faults' \in 0..MaxFaults
    BY <1>0, <2>1 DEF OtherOK
  <2>4. UNCHANGED <<cut, named, running, pinged, phase, found>>
    BY <1>1 DEF Crash, actors, clock
  <2> QED
    BY <2>2, <2>3, <2>4 DEF OtherOK, FoundOK
<1>2. ASSUME NEW n \in Nodes, CutOff(n) PROVE OtherOK'
  <2>1. cut' = cut \cup {n} /\ faults' = faults - 1 /\ faults > 0
    BY <1>2 DEF CutOff
  <2>2. cut' \subseteq Nodes
    BY <2>1 DEF OtherOK
  <2>3. faults' \in 0..MaxFaults
    BY <1>0, <2>1 DEF OtherOK
  <2>4. UNCHANGED <<up, named, running, pinged, phase, found>>
    BY <1>2 DEF CutOff, actors, clock
  <2> QED
    BY <2>2, <2>3, <2>4 DEF OtherOK, FoundOK
<1>3. ASSUME NEW n \in Nodes, Reconnect(n) PROVE OtherOK'
  <2>1. cut' = cut \ {n}
    BY <1>3 DEF Reconnect
  <2>2. cut' \subseteq Nodes
    BY <2>1 DEF OtherOK
  <2>4. UNCHANGED <<up, faults, named, running, pinged, phase, found>>
    BY <1>3 DEF Reconnect, actors, clock
  <2> QED
    BY <2>2, <2>4 DEF OtherOK, FoundOK
<1>4. CASE Tick
  <2>1. pinged' \in [Nodes -> SUBSET Nodes] /\ phase' \in [Nodes -> {"todo", "judged", "done"}]
    BY <1>4 DEF Tick
  <2>2. UNCHANGED <<up, cut, faults, named, running, found>>
    BY <1>4 DEF Tick, net, actors
  <2> QED
    BY <2>1, <2>2 DEF OtherOK, FoundOK
<1> QED
  BY <1>1, <1>2, <1>3, <1>4

-----------------------------------------------------------------------------
(* Nodes that have not joined                                              *)

\* A step that leaves the tables of the nodes that have not joined alone, and
\* makes no node a new one.
LEMMA NewKept ==
  ASSUME NewInv, \A n \in Nodes : up'[n] = "new" => up[n] = "new" /\ view'[n] = view[n]
  PROVE  NewInv'
<1>1. Seed \in Nodes
  BY GossipAssumption
<1>2. up'[Seed] # "new"
  BY <1>1 DEF NewInv
<1>3. ASSUME NEW n \in Nodes, up'[n] = "new", NEW m \in Nodes
      PROVE  ~CanRecover(view'[n][m])
  <2>1. up[n] = "new" /\ view'[n][m] = view[n][m]
    BY <1>3
  <2> QED
    BY <2>1, <1>3 DEF NewInv
<1> QED
  BY <1>2, <1>3 DEF NewInv

LEMMA NewNext == ASSUME TablesOK, OtherOK, NewInv, Next PROVE NewInv'
<1> SUFFICES \A n \in Nodes : up'[n] = "new" => up[n] = "new" /\ view'[n] = view[n]
  BY NewKept
<1> TAKE k \in Nodes
<1> HAVE up'[k] = "new"
<1>0. view \in [Nodes -> [Nodes -> Entries]] /\ up \in [Nodes -> {"off", "new", "up", "crashed"}]
  BY DEF TablesOK, OtherOK
<1>1. ASSUME NEW n \in Nodes, Join(n) PROVE up[k] = "new" /\ view'[k] = view[k]
  <2>1. up' = [up EXCEPT ![n] = "up"]
    BY <1>1 DEF Join
  <2>2. k # n /\ up[k] = "new"
    BY <1>0, <2>1
  <2>3. k # Seed
    BY <2>2 DEF NewInv
  <2>4. PICK s, t : view' = [view EXCEPT ![Seed] = s, ![n] = t]
    BY <1>1 DEF Join
  <2> QED
    BY <1>0, <2>2, <2>3, <2>4
<1>2. ASSUME NEW n \in Nodes, NEW m \in Nodes, Ping(n, m)
      PROVE  up[k] = "new" /\ view'[k] = view[k]
  <2>1. up' = up /\ n \in Up /\ m \in Up
    BY <1>2 DEF Ping, net, Connected
  <2>2. k # n /\ k # m
    BY <2>1 DEF Up
  <2>3. PICK s, t : view' = [view EXCEPT ![m] = s, ![n] = t]
    BY <1>2 DEF Ping
  <2> QED
    BY <1>0, <2>1, <2>2, <2>3
<1>3. ASSUME NEW n \in Nodes, Apply(n) PROVE up[k] = "new" /\ view'[k] = view[k]
  <2>1. up' = up /\ n \in Up
    BY <1>3 DEF Apply, net
  <2>2. k # n
    BY <2>1 DEF Up
  <2>3. PICK s : view' = [view EXCEPT ![n] = s]
    BY <1>3 DEF Apply
  <2> QED
    BY <1>0, <2>1, <2>2, <2>3
<1>4. CASE Tick
  BY <1>4 DEF Tick, net
<1>5. ASSUME NEW n \in Nodes, Crash(n) PROVE up[k] = "new" /\ view'[k] = view[k]
  <2>1. up' = [up EXCEPT ![n] = "crashed"] /\ view' = view
    BY <1>5 DEF Crash, tables
  <2> QED
    BY <1>0, <2>1
<1>6. ASSUME NEW n \in Nodes,
             Collect(n) \/ Register(n) \/ Unregister(n) \/ CutOff(n) \/ Reconnect(n)
      PROVE  up[k] = "new" /\ view'[k] = view[k]
  <2>1. up' = up /\ view' = view
    BY <1>6 DEF Collect, Register, Unregister, CutOff, Reconnect, tables, net
  <2> QED
    BY <2>1
<1> QED
  BY <1>1, <1>2, <1>3, <1>4, <1>5, <1>6 DEF Next, NodeStep

-----------------------------------------------------------------------------
(* The theorem                                                             *)

LEMMA InvInit == Init => GossipInv
<1> SUFFICES ASSUME Init PROVE GossipInv
  OBVIOUS
<1>0. Seed \in Nodes /\ MaxAge \in Nat /\ MaxFaults \in Nat
  BY GossipAssumption
<1>1. PICK e : e = [Absent EXCEPT !.status = "Online"]
  OBVIOUS
<1>2. e \in Entry /\ e.epoch = 0 /\ e.status = "Online" /\ Absent.epoch = 0 /\ Absent.status = "Absent"
  BY <1>0, <1>1 DEF Absent, Entry, Statuses
<1>3. view = [n \in Nodes |-> [m \in Nodes |-> IF m = n THEN e ELSE Absent]]
  BY <1>1 DEF Init
<1>4. epoch = [n \in Nodes |-> 0]
  BY DEF Init
<1>5. TablesOK
  <2>1. view \in [Nodes -> [Nodes -> Entries]] /\ epoch \in [Nodes -> Nat]
    BY <1>2, <1>3, <1>4 DEF Entries
  <2>2. \A n \in Nodes : view[n][n] \in Entry
    BY <1>2, <1>3
  <2>3. \A n, m \in Nodes : view[n][m].epoch <= epoch[n]
    BY <1>2, <1>3, <1>4
  <2> QED
    BY <2>1, <2>2, <2>3 DEF TablesOK, EpochWasIssued
<1>6. PICK others : up = [n \in Nodes |-> IF n = Seed THEN "up"
                                          ELSE IF n \in others THEN "new" ELSE "off"]
  BY DEF Init
<1>7. OtherOK
  BY <1>0, <1>6 DEF Init, OtherOK, FoundOK, Verdicts
<1>8. NewInv
  BY <1>0, <1>2, <1>3, <1>6 DEF NewInv, CanRecover
<1> QED
  BY <1>5, <1>7, <1>8, Parts

LEMMA InvNext == GossipInv /\ [Next]_vars => GossipInv'
<1> SUFFICES ASSUME GossipInv, [Next]_vars PROVE GossipInv'
  OBVIOUS
<1>0. TablesOK /\ OtherOK /\ NewInv
  BY Parts
<1>1. FoundOK
  BY <1>0 DEF OtherOK
<1>2. CASE Next
  <2>1. NewInv'
    BY <1>0, <1>2, NewNext
  <2>2. OtherOK'
    BY <1>0, <1>2, JoinOther, PingOther, CollectOther, ApplyOther, ActorOther, WorldOther
      DEF Next, NodeStep
  <2>3. ASSUME UNCHANGED tables PROVE TablesOK'
    BY <1>0, <2>3 DEF TablesOK, EpochWasIssued, tables
  <2>4. TablesOK'
    <3>1. ASSUME NEW n \in Nodes,
                 \/ Collect(n) \/ Register(n) \/ Unregister(n)
                 \/ Crash(n) \/ CutOff(n) \/ Reconnect(n)
          PROVE  UNCHANGED tables
      BY <3>1 DEF Collect, Register, Unregister, Crash, CutOff, Reconnect
    <3> QED
      BY <1>0, <1>1, <1>2, <2>3, <3>1, JoinTables, PingTables, ApplyTables, TickTables
        DEF Next, NodeStep
  <2> QED
    BY <2>1, <2>2, <2>4, PartsNext
<1>3. CASE UNCHANGED vars
  <2>1. TablesOK'
    BY <1>0, <1>3 DEF TablesOK, EpochWasIssued, vars, tables
  <2>2. OtherOK'
    BY <1>0, <1>3 DEF OtherOK, FoundOK, vars, net, actors, clock
  <2>3. NewInv'
    BY <1>0, <1>3, NewKept DEF vars, net, tables
  <2> QED
    BY <2>1, <2>2, <2>3, PartsNext
<1> QED
  BY <1>2, <1>3

\* The member tables keep their shape: a node never loses the entry for
\* itself and never judges itself (gossip.rs:1020-1130), a node that has not
\* joined has revived nobody, and every epoch in a table was issued.
THEOREM GossipCorrect == Spec => []GossipInv
BY InvInit, InvNext, PTL DEF Spec

\* Whatever a node's table claims of another, some node has issued the claim's
\* epoch, so a later claim can supersede it (gossip.rs:151, :205, :463):
\* crashes, cuts, lost answers and stale pings included.
THEOREM EpochsAreIssued == Spec => []EpochWasIssued
BY GossipCorrect, PTL DEF GossipInv

=============================================================================
