------------------------- MODULE NodeControlProofs -------------------------
(***************************************************************************)
(* Proofs about what runs on a node: its control plane and shared memory,  *)
(* for any number of regions, leases, names, requests and callers of       *)
(* shutdown; the pooled tensor connections, for any number of clients and  *)
(* connections; the remote calls, for any number of messages, retries and  *)
(* mailbox slots; and the registry's shard locks, for any number of        *)
(* threads and shards.                                                     *)
(***************************************************************************)
EXTENDS MCNode, SequenceTheorems, TLAPS

-----------------------------------------------------------------------------
(* The inductive invariant of the shared memory                            *)

Tables(S, T) == UNION {[D -> T] : D \in SUBSET S}
Regions == [bytes : Nat, published_name : ShmNames \cup {NoName}, leases : SUBSET Nat]
Shm == [next_region_id : Nat, next_lease_id : Nat, created : Nat,
        regions : Tables(Nat, Regions), published_names : Tables(ShmNames, Nat)]
Descriptors == [region : Nat, lease : Nat, bytes : Nat, revoked : BOOLEAN]

\* The counters are ahead of every id in use.
Counted(s) ==
  \A r \in DOMAIN s.regions :
     r <= s.next_region_id /\ \A l \in s.regions[r].leases : l <= s.next_lease_id

\* A published name leads to a region, and that region knows its name.
Published(s) ==
  \A n \in DOMAIN s.published_names :
     /\ s.published_names[n] \in DOMAIN s.regions
     /\ s.regions[s.published_names[n]].published_name = n

\* d's region still has d's lease, and its deadline has not passed.
Live(s, late, d) ==
  /\ d.region \in DOMAIN s.regions
  /\ d.lease \in s.regions[d.region].leases
  /\ d.lease \notin late

\* The ids of a descriptor were issued, and while it is live it is not revoked
\* and its region is the one it was handed out for.
Honest(s, late, d) ==
  /\ d.region <= s.next_region_id /\ d.lease <= s.next_lease_id
  /\ Live(s, late, d) => s.regions[d.region].bytes = d.bytes /\ ~d.revoked

ShmInv ==
  /\ shm \in Shm /\ Counted(shm) /\ Published(shm)
  /\ handed \in Seq(Descriptors)
  /\ \A i \in DOMAIN handed : Honest(shm, overdue, handed[i])

-----------------------------------------------------------------------------
(* Finite tables                                                           *)

\* What is known of a table.
LEMMA TableFacts ==
  ASSUME NEW S, NEW T, NEW f \in Tables(S, T)
  PROVE  /\ DOMAIN f \subseteq S
         /\ \A x \in DOMAIN f : f[x] \in T
         /\ f \in [DOMAIN f -> T]
<1>1. PICK D \in SUBSET S : f \in [D -> T]
  BY DEF Tables
<1> QED
  BY <1>1

\* What makes a table.
LEMMA TableIntro ==
  ASSUME NEW S, NEW T, NEW D \in SUBSET S, NEW f \in [D -> T]
  PROVE  f \in Tables(S, T)
BY DEF Tables

\* Without (HashMap::remove, retain) takes keys out and keeps the rest.
LEMMA WithoutFacts ==
  ASSUME NEW S, NEW T, NEW f \in Tables(S, T), NEW keys
  PROVE  /\ Without(f, keys) \in Tables(S, T)
         /\ DOMAIN Without(f, keys) = DOMAIN f \ keys
         /\ \A x \in DOMAIN f \ keys : Without(f, keys)[x] = f[x]
<1>1. Without(f, keys) \in [DOMAIN f \ keys -> T]
  BY TableFacts DEF Without, Restrict
<1>2. DOMAIN f \ keys \in SUBSET S
  BY TableFacts
<1>3. Without(f, keys) \in Tables(S, T)
  BY <1>1, <1>2, TableIntro
<1> QED
  BY <1>3 DEF Without, Restrict

\* The same for the map of regions.
LEMMA RegionsWithout ==
  ASSUME NEW f \in Tables(Nat, Regions), NEW keys
  PROVE  /\ Without(f, keys) \in Tables(Nat, Regions)
         /\ DOMAIN Without(f, keys) = DOMAIN f \ keys
         /\ \A x \in DOMAIN f \ keys : Without(f, keys)[x] = f[x]
BY WithoutFacts

\* And for the map of names.
LEMMA NamesWithout ==
  ASSUME NEW f \in Tables(ShmNames, Nat), NEW keys
  PROVE  /\ Without(f, keys) \in Tables(ShmNames, Nat)
         /\ DOMAIN Without(f, keys) = DOMAIN f \ keys
         /\ \A x \in DOMAIN f \ keys : Without(f, keys)[x] = f[x]
BY WithoutFacts

\* The empty table (HashMap::clear).
LEMMA EmptyTable == \A S, T : <<>> \in Tables(S, T)
<1> SUFFICES ASSUME NEW S, NEW T PROVE <<>> \in Tables(S, T)
  OBVIOUS
<1>1. PICK D \in SUBSET S : D = {}
  OBVIOUS
<1>2. PICK f : f = <<>>
  OBVIOUS
<1>3. f \in [D -> T]
  BY <1>1, <1>2
<1>4. f \in Tables(S, T)
  BY <1>3, TableIntro
<1> QED
  BY <1>2, <1>4

\* Inserted (HashMap::insert) adds one key and keeps the rest: the regions.
LEMMA RegionsInserted ==
  ASSUME NEW f \in Tables(Nat, Regions), NEW key \in Nat, NEW value \in Regions
  PROVE  /\ Inserted(f, key, value) \in Tables(Nat, Regions)
         /\ DOMAIN Inserted(f, key, value) = DOMAIN f \cup {key}
         /\ Inserted(f, key, value)[key] = value
         /\ \A x \in DOMAIN f : x # key => Inserted(f, key, value)[x] = f[x]
<1>1. f \in [DOMAIN f -> Regions] /\ DOMAIN f \subseteq Nat
  BY TableFacts
<1>2. Inserted(f, key, value) \in [DOMAIN f \cup {key} -> Regions]
  BY <1>1 DEF Inserted
<1>3. DOMAIN f \cup {key} \in SUBSET Nat
  BY <1>1
<1>4. Inserted(f, key, value) \in Tables(Nat, Regions)
  BY <1>2, <1>3, TableIntro
<1> QED
  BY <1>4 DEF Inserted

\* The names.
LEMMA NamesInserted ==
  ASSUME NEW f \in Tables(ShmNames, Nat), NEW key \in ShmNames, NEW value \in Nat
  PROVE  /\ Inserted(f, key, value) \in Tables(ShmNames, Nat)
         /\ DOMAIN Inserted(f, key, value) = DOMAIN f \cup {key}
         /\ Inserted(f, key, value)[key] = value
         /\ \A x \in DOMAIN f : x # key => Inserted(f, key, value)[x] = f[x]
<1>1. f \in [DOMAIN f -> Nat] /\ DOMAIN f \subseteq ShmNames
  BY TableFacts
<1>2. Inserted(f, key, value) \in [DOMAIN f \cup {key} -> Nat]
  BY <1>1 DEF Inserted
<1>3. DOMAIN f \cup {key} \in SUBSET ShmNames
  BY <1>1
<1>4. Inserted(f, key, value) \in Tables(ShmNames, Nat)
  BY <1>2, <1>3, TableIntro
<1> QED
  BY <1>4 DEF Inserted

-----------------------------------------------------------------------------
(* Steps that only take away                                               *)

\* t is a sound state with nothing in its regions that is not in s.
Fades(s, t) ==
  /\ t \in Shm /\ Counted(t) /\ Published(t)
  /\ t.next_region_id = s.next_region_id /\ t.next_lease_id = s.next_lease_id
  /\ t.created = s.created
  /\ \A r \in DOMAIN t.regions :
       /\ r \in DOMAIN s.regions
       /\ t.regions[r].bytes = s.regions[r].bytes
       /\ t.regions[r].leases \subseteq s.regions[r].leases

\* What takes away keeps every descriptor honest.
LEMMA FadedIsHonest ==
  ASSUME NEW s, NEW t, Fades(s, t), NEW late, NEW d, Honest(s, late, d)
  PROVE  Honest(t, late, d)
BY DEF Fades, Honest, Live

\* The regions of t are some of those of s, each with some of its leases; a
\* published region is there and has kept its name.
LEMMA FadesIntro ==
  ASSUME NEW s \in Shm, Counted(s), NEW t \in Shm, Published(t),
         t.next_region_id = s.next_region_id, t.next_lease_id = s.next_lease_id,
         t.created = s.created,
         \A r \in DOMAIN t.regions :
           /\ r \in DOMAIN s.regions
           /\ t.regions[r].bytes = s.regions[r].bytes
           /\ t.regions[r].leases \subseteq s.regions[r].leases
  PROVE  Fades(s, t)
<1>1. Counted(t)
  BY DEF Counted
<1> QED
  BY <1>1 DEF Fades

\* reclaim_expired_locked only takes away, and never a published region.
LEMMA ReclaimFades ==
  ASSUME NEW s \in Shm, Counted(s), Published(s)
  PROVE  /\ Fades(s, reclaim_expired_locked(s))
         /\ reclaim_expired_locked(s).published_names = s.published_names
<1> DEFINE kept == [r \in DOMAIN s.regions |-> [s.regions[r] EXCEPT !.leases = @ \ overdue]]
           bare == {r \in DOMAIN kept : Bare(kept[r])}
           t == [s EXCEPT !.regions = Without(kept, bare)]
<1>0. reclaim_expired_locked(s) = t
  BY DEF reclaim_expired_locked
<1>1. s.regions \in Tables(Nat, Regions) /\ s.published_names \in Tables(ShmNames, Nat)
  BY DEF Shm
<1>2. DOMAIN s.regions \subseteq Nat /\ \A r \in DOMAIN s.regions : s.regions[r] \in Regions
  BY <1>1, TableFacts
<1>3. \A r \in DOMAIN s.regions :
        /\ kept[r] \in Regions
        /\ kept[r].bytes = s.regions[r].bytes
        /\ kept[r].published_name = s.regions[r].published_name
        /\ kept[r].leases \subseteq s.regions[r].leases
  BY <1>2 DEF Regions
<1>4. kept \in [DOMAIN s.regions -> Regions]
  BY <1>3
<1>7. DOMAIN kept = DOMAIN s.regions
  OBVIOUS
<1> HIDE DEF kept
<1>5. kept \in Tables(Nat, Regions)
  <2>1. DOMAIN s.regions \in SUBSET Nat
    BY <1>2
  <2> QED
    BY <2>1, <1>4, TableIntro
<1>6. /\ Without(kept, bare) \in Tables(Nat, Regions)
      /\ DOMAIN Without(kept, bare) = DOMAIN kept \ bare
      /\ \A r \in DOMAIN kept \ bare : Without(kept, bare)[r] = kept[r]
  <2> HIDE DEF bare
  <2> QED
    BY <1>5, RegionsWithout
<1>8. /\ t \in Shm /\ t.regions = Without(kept, bare)
      /\ t.published_names = s.published_names /\ t.created = s.created
      /\ t.next_region_id = s.next_region_id /\ t.next_lease_id = s.next_lease_id
  BY <1>6 DEF Shm
<1>9. \A n \in DOMAIN s.published_names : s.published_names[n] \in DOMAIN kept \ bare
  <2> SUFFICES ASSUME NEW n \in DOMAIN s.published_names
               PROVE  s.published_names[n] \in DOMAIN kept \ bare
    OBVIOUS
  <2>1. n \in ShmNames
    BY <1>1, TableFacts
  <2>2. s.published_names[n] \in DOMAIN s.regions /\ s.regions[s.published_names[n]].published_name = n
    BY DEF Published
  <2>3. kept[s.published_names[n]].published_name # NoName
    BY <2>1, <2>2, <1>3, ShmAssumption
  <2> QED
    BY <2>2, <2>3, <1>7 DEF Bare
<1> HIDE DEF bare
<1>10. \A r \in DOMAIN kept \ bare : t.regions[r] = kept[r]
  BY <1>6, <1>8
<1>11. DOMAIN t.regions = DOMAIN kept \ bare
  BY <1>6, <1>8
<1> HIDE DEF t
<1>12. Published(t)
  BY <1>3, <1>7, <1>8, <1>9, <1>10, <1>11 DEF Published
<1>13. \A r \in DOMAIN t.regions :
          /\ r \in DOMAIN s.regions
          /\ t.regions[r].bytes = s.regions[r].bytes
          /\ t.regions[r].leases \subseteq s.regions[r].leases
  BY <1>3, <1>7, <1>10, <1>11
<1>14. Fades(s, t)
  BY <1>8, <1>12, <1>13, FadesIntro
<1> QED
  BY <1>0, <1>8, <1>14

\* A lease is dropped, and with it its region if nothing keeps that any more:
\* map on a lease that is overdue, and release.
LEMMA UnleasedFades ==
  ASSUME shm \in Shm, Counted(shm), Published(shm), NEW d, d.region \in DOMAIN shm.regions
  PROVE  /\ Fades(shm, Unleased(d))
         /\ \A late : ~Live(Unleased(d), late, d)
<1> DEFINE r == d.region
           s == [shm EXCEPT !.regions[r].leases = @ \ {d.lease}]
           t == Unleased(d)
<1>1. shm.regions \in Tables(Nat, Regions) /\ shm.published_names \in Tables(ShmNames, Nat)
  BY DEF Shm
<1>2. DOMAIN shm.regions \subseteq Nat /\ \A q \in DOMAIN shm.regions : shm.regions[q] \in Regions
  BY <1>1, TableFacts
<1>3. shm.regions \in [DOMAIN shm.regions -> Regions]
  BY <1>1, TableFacts
<1>4. s.regions = [shm.regions EXCEPT ![r] = [shm.regions[r] EXCEPT !.leases = @ \ {d.lease}]]
  BY DEF Shm
<1>5. [shm.regions[r] EXCEPT !.leases = @ \ {d.lease}] \in Regions
  BY <1>2 DEF Regions
<1>6. s.regions \in [DOMAIN shm.regions -> Regions]
  BY <1>3, <1>4, <1>5
<1>7. s.regions \in Tables(Nat, Regions)
  <2>1. DOMAIN shm.regions \in SUBSET Nat
    BY <1>2
  <2> HIDE DEF s
  <2> QED
    BY <2>1, <1>6, TableIntro
<1>8. /\ s = [shm EXCEPT !.regions = s.regions]
      /\ s.published_names = shm.published_names /\ s.created = shm.created
      /\ s.next_region_id = shm.next_region_id /\ s.next_lease_id = shm.next_lease_id
  BY DEF Shm
<1>9. DOMAIN s.regions = DOMAIN shm.regions
  BY <1>6
<1>10. \A q \in DOMAIN shm.regions :
         /\ s.regions[q].bytes = shm.regions[q].bytes
         /\ s.regions[q].published_name = shm.regions[q].published_name
         /\ s.regions[q].leases \subseteq shm.regions[q].leases
  BY <1>2, <1>3, <1>4 DEF Regions
<1>11. d.lease \notin s.regions[r].leases
  BY <1>2, <1>3, <1>4 DEF Regions
<1>12. Unleased(d) = Settle(s, r)
  BY DEF Unleased
<1> HIDE DEF s
<1>13. s \in Shm
  BY <1>7, <1>8 DEF Shm
<1>14. Published(s)
  BY <1>8, <1>9, <1>10 DEF Published
<1>15. Fades(shm, s)
  BY <1>8, <1>9, <1>10, <1>13, <1>14, FadesIntro
<1>16. CASE Bare(s.regions[r])
  <2> DEFINE u == [s EXCEPT !.regions = Without(@, {r})]
  <2>1. t = u
    BY <1>12, <1>16 DEF Settle
  <2>2. /\ Without(s.regions, {r}) \in Tables(Nat, Regions)
        /\ DOMAIN Without(s.regions, {r}) = DOMAIN s.regions \ {r}
        /\ \A q \in DOMAIN s.regions \ {r} : Without(s.regions, {r})[q] = s.regions[q]
    <3> DEFINE keys == {r}
    <3> HIDE DEF keys
    <3>1. /\ Without(s.regions, keys) \in Tables(Nat, Regions)
          /\ DOMAIN Without(s.regions, keys) = DOMAIN s.regions \ keys
          /\ \A q \in DOMAIN s.regions \ keys : Without(s.regions, keys)[q] = s.regions[q]
      BY <1>7, RegionsWithout
    <3> QED
      BY <3>1 DEF keys
  <2>3. /\ u \in Shm /\ u.regions = Without(s.regions, {r})
        /\ u.published_names = s.published_names /\ u.created = s.created
        /\ u.next_region_id = s.next_region_id /\ u.next_lease_id = s.next_lease_id
    BY <1>13, <2>2 DEF Shm
  <2> HIDE DEF u
  <2>4. \A n \in DOMAIN s.published_names : s.published_names[n] # r
    <3>1. \A n \in DOMAIN s.published_names : n \in ShmNames
      BY <1>1, <1>8, TableFacts
    <3>2. s.regions[r].published_name = NoName
      BY <1>16 DEF Bare
    <3> QED
      BY <3>1, <3>2, <1>14, ShmAssumption DEF Published
  <2>5. Published(u)
    <3> SUFFICES ASSUME NEW n \in DOMAIN s.published_names
                 PROVE  /\ s.published_names[n] \in DOMAIN u.regions
                        /\ u.regions[s.published_names[n]].published_name = n
      BY <2>3 DEF Published
    <3>1. s.published_names[n] \in DOMAIN s.regions \ {r}
      BY <1>14, <2>4 DEF Published
    <3>2. u.regions[s.published_names[n]] = s.regions[s.published_names[n]]
      BY <3>1, <2>2, <2>3
    <3> QED
      BY <1>14, <3>1, <3>2, <2>2, <2>3 DEF Published
  <2>6. \A q \in DOMAIN u.regions :
          /\ q \in DOMAIN shm.regions
          /\ u.regions[q].bytes = shm.regions[q].bytes
          /\ u.regions[q].leases \subseteq shm.regions[q].leases
    BY <1>9, <1>10, <2>2, <2>3
  <2>7. Fades(shm, u)
    BY <1>8, <2>3, <2>5, <2>6, FadesIntro
  <2>8. \A late : ~Live(u, late, d)
    BY <2>2, <2>3 DEF Live
  <2> QED
    BY <2>1, <2>7, <2>8
<1>17. CASE ~Bare(s.regions[r])
  <2>1. t = s
    BY <1>12, <1>17 DEF Settle
  <2> QED
    BY <2>1, <1>15, <1>11 DEF Live
<1> QED
  BY <1>16, <1>17

-----------------------------------------------------------------------------
(* The operations of the manager                                           *)

AllHonest(s, late, h) == \A i \in DOMAIN h : Honest(s, late, h[i])

\* Revoking descriptors that are not live keeps all of them honest.
LEMMA RevokeHonest ==
  ASSUME handed \in Seq(Descriptors), NEW which, Revoke(which), NEW s, NEW late,
         AllHonest(s, late, handed),
         \A i \in DOMAIN handed : i \in which => ~Live(s, late, handed[i])
  PROVE  handed' \in Seq(Descriptors) /\ AllHonest(s, late, handed')
<1>1. DOMAIN handed = 1..Len(handed) /\ Len(handed) \in Nat
  OBVIOUS
<1>2. handed' = [i \in DOMAIN handed |-> [handed[i] EXCEPT !.revoked = @ \/ i \in which]]
  BY DEF Revoke
<1>3. ASSUME NEW i \in DOMAIN handed
      PROVE  /\ handed'[i] \in Descriptors
             /\ handed'[i].region = handed[i].region /\ handed'[i].lease = handed[i].lease
             /\ handed'[i].bytes = handed[i].bytes
             /\ handed'[i].revoked <=> handed[i].revoked \/ i \in which
  <2>1. handed[i] \in Descriptors
    OBVIOUS
  <2>2. handed'[i] = [handed[i] EXCEPT !.revoked = @ \/ i \in which]
    BY <1>2
  <2>3. (handed[i].revoked \/ i \in which) \in BOOLEAN
    OBVIOUS
  <2> QED
    BY <2>1, <2>2, <2>3 DEF Descriptors
<1>4. DOMAIN handed' = 1..Len(handed)
  BY <1>1, <1>2
<1>5. handed' \in Seq(Descriptors)
  <2>1. \A i \in 1..Len(handed) : handed'[i] \in Descriptors
    BY <1>1, <1>3
  <2>2. handed' \in [1..Len(handed) -> Descriptors]
    BY <1>1, <1>2, <2>1
  <2> QED
    BY <1>1, <2>2
<1>6. ASSUME NEW i \in DOMAIN handed PROVE Honest(s, late, handed'[i])
  <2>1. Honest(s, late, handed[i])
    BY DEF AllHonest
  <2>2. Live(s, late, handed'[i]) <=> Live(s, late, handed[i])
    BY <1>3 DEF Live
  <2> QED
    BY <1>3, <2>1, <2>2 DEF Honest
<1> QED
  BY <1>1, <1>4, <1>5, <1>6 DEF AllHonest

\* A descriptor for a region that is there is honest when it is handed out.
LEMMA HandHonest ==
  ASSUME handed \in Seq(Descriptors), NEW s \in Shm, NEW late, AllHonest(s, late, handed),
         NEW lease \in Nat, NEW region \in DOMAIN s.regions,
         lease <= s.next_lease_id, region <= s.next_region_id, Hand(s, lease, region)
  PROVE  handed' \in Seq(Descriptors) /\ AllHonest(s, late, handed')
<1> DEFINE d == [region |-> region, lease |-> lease, bytes |-> s.regions[region].bytes,
                 revoked |-> FALSE]
<1>1. handed' = Append(handed, d)
  BY DEF Hand
<1>2. s.regions \in Tables(Nat, Regions)
  BY DEF Shm
<1>3. region \in Nat /\ s.regions[region] \in Regions
  BY <1>2, TableFacts
<1>4. d \in Descriptors
  BY <1>3 DEF Descriptors, Regions
<1>5. Honest(s, late, d)
  BY DEF Honest
<1> HIDE DEF d
<1>6. handed' \in Seq(Descriptors)
  BY <1>1, <1>4
<1>7. /\ DOMAIN handed' = 1..(Len(handed) + 1) /\ handed'[Len(handed) + 1] = d
      /\ \A i \in 1..Len(handed) : handed'[i] = handed[i]
  BY <1>1, <1>4
<1> QED
  BY <1>5, <1>6, <1>7 DEF AllHonest

\* What reclaims before it does anything else starts from a sound state.
LEMMA Reclaimed ==
  ASSUME ShmInv
  PROVE  LET s == reclaim_expired_locked(shm)
         IN /\ s \in Shm /\ Counted(s) /\ Published(s) /\ AllHonest(s, overdue, handed)
            /\ s.created = shm.created
<1>1. Fades(shm, reclaim_expired_locked(shm))
  BY ReclaimFades DEF ShmInv
<1>2. AllHonest(reclaim_expired_locked(shm), overdue, handed)
  BY <1>1, FadedIsHonest DEF ShmInv, AllHonest
<1> QED
  BY <1>1, <1>2 DEF Fades

\* A region under a new id changes nothing for the descriptors there are.
LEMMA NewRegion ==
  ASSUME NEW s \in Shm, Counted(s), NEW n \in Shm, NEW value,
         n.regions = Inserted(s.regions, s.next_region_id + 1, value),
         n.next_region_id = s.next_region_id + 1, n.next_lease_id \in {s.next_lease_id, s.next_lease_id + 1},
         value \in Regions, \A l \in value.leases : l <= n.next_lease_id,
         AllHonest(s, overdue, handed), handed \in Seq(Descriptors)
  PROVE  Counted(n) /\ AllHonest(n, overdue, handed)
<1> DEFINE region == s.next_region_id + 1
<1>1. s.regions \in Tables(Nat, Regions) /\ s.next_region_id \in Nat /\ s.next_lease_id \in Nat
  BY DEF Shm
<1>2. region \in Nat
  BY <1>1
<1>3. /\ DOMAIN n.regions = DOMAIN s.regions \cup {region} /\ n.regions[region] = value
      /\ \A x \in DOMAIN s.regions : x # region => n.regions[x] = s.regions[x]
  <2>1. n.regions = Inserted(s.regions, region, value)
    OBVIOUS
  <2> HIDE DEF region
  <2>2. DOMAIN Inserted(s.regions, region, value) = DOMAIN s.regions \cup {region}
    BY <1>1, <1>2, RegionsInserted
  <2>3. Inserted(s.regions, region, value)[region] = value
    BY <1>1, <1>2, RegionsInserted
  <2>4. \A x \in DOMAIN s.regions : x # region => Inserted(s.regions, region, value)[x] = s.regions[x]
    BY <1>1, <1>2, RegionsInserted
  <2> QED
    BY <2>1, <2>2, <2>3, <2>4
<1>4. \A r \in DOMAIN s.regions : r \in Nat /\ s.regions[r] \in Regions
  BY <1>1, TableFacts
<1>5. Counted(n)
  <2> SUFFICES ASSUME NEW r \in DOMAIN n.regions
               PROVE  r <= n.next_region_id /\ \A l \in n.regions[r].leases : l <= n.next_lease_id
    BY DEF Counted
  <2>1. CASE r = region
    BY <2>1, <1>1, <1>3
  <2>2. CASE r # region
    <3>1. r \in DOMAIN s.regions /\ n.regions[r] = s.regions[r]
      BY <2>2, <1>3
    <3>2. r <= s.next_region_id /\ \A l \in s.regions[r].leases : l <= s.next_lease_id
      BY <3>1 DEF Counted
    <3>3. \A l \in s.regions[r].leases : l \in Nat
      BY <3>1, <1>4 DEF Regions
    <3> QED
      BY <1>1, <1>4, <3>1, <3>2, <3>3
  <2> QED
    BY <2>1, <2>2
<1>6. ASSUME NEW i \in DOMAIN handed PROVE Honest(n, overdue, handed[i])
  <2>1. Honest(s, overdue, handed[i]) /\ handed[i] \in Descriptors
    BY DEF AllHonest
  <2>2. /\ handed[i].region \in Nat /\ handed[i].lease \in Nat
        /\ handed[i].region <= s.next_region_id /\ handed[i].lease <= s.next_lease_id
    BY <2>1 DEF Honest, Descriptors
  <2>3. handed[i].region # region
    BY <2>2, <1>1
  <2>4. /\ handed[i].region \in DOMAIN n.regions <=> handed[i].region \in DOMAIN s.regions
        /\ handed[i].region \in DOMAIN s.regions => n.regions[handed[i].region] = s.regions[handed[i].region]
    BY <1>3, <2>3
  <2>5. handed[i].region <= n.next_region_id /\ handed[i].lease <= n.next_lease_id
    BY <1>1, <2>2
  <2> HIDE DEF region
  <2> QED
    BY <2>1, <2>4, <2>5 DEF Honest, Live
<1> QED
  BY <1>5, <1>6 DEF AllHonest

\* offer keeps the invariant.
LEMMA OfferStep == ShmInv /\ offer => ShmInv'
<1> SUFFICES ASSUME ShmInv, offer PROVE ShmInv'
  OBVIOUS
<1>a. PICK s : s = reclaim_expired_locked(shm)
  OBVIOUS
<1>b. PICK region : region = s.next_region_id + 1
  OBVIOUS
<1>c. PICK lease : lease = s.next_lease_id + 1
  OBVIOUS
<1>d. PICK value : value = Region(NoName, {lease})
  OBVIOUS
<1> DEFINE new == [s EXCEPT !.next_region_id = region, !.next_lease_id = lease, !.created = @ + 1,
          !.regions = Inserted(@, region, value)]
<1>1. shm' = new /\ Hand(new, lease, region) /\ overdue' = overdue
  BY <1>a, <1>b, <1>c, <1>d DEF offer
<1>2. /\ s \in Shm /\ Counted(s) /\ Published(s) /\ AllHonest(s, overdue, handed)
      /\ handed \in Seq(Descriptors) /\ shm.created \in Nat
  BY <1>a, Reclaimed DEF ShmInv, Shm
<1>3. /\ s.next_region_id \in Nat /\ s.next_lease_id \in Nat /\ s.created \in Nat
      /\ s.regions \in Tables(Nat, Regions) /\ s.published_names \in Tables(ShmNames, Nat)
  BY <1>2 DEF Shm
<1>4. region \in Nat /\ lease \in Nat
  BY <1>b, <1>c, <1>3
<1>5. value \in Regions /\ value.leases = {lease} /\ value.published_name = NoName
  BY <1>d, <1>2, <1>4 DEF Region, Regions
<1>6. /\ Inserted(s.regions, region, value) \in Tables(Nat, Regions)
      /\ DOMAIN Inserted(s.regions, region, value) = DOMAIN s.regions \cup {region}
      /\ Inserted(s.regions, region, value)[region] = value
      /\ \A x \in DOMAIN s.regions : x # region => Inserted(s.regions, region, value)[x] = s.regions[x]
  <2>a. s.regions \in Tables(Nat, Regions)
    BY <1>3
  <2>b. region \in Nat
    BY <1>4
  <2>c. value \in Regions
    BY <1>5
  <2>1. Inserted(s.regions, region, value) \in Tables(Nat, Regions)
    BY <2>a, <2>b, <2>c, RegionsInserted
  <2>2. DOMAIN Inserted(s.regions, region, value) = DOMAIN s.regions \cup {region}
    BY <2>a, <2>b, <2>c, RegionsInserted
  <2>3. Inserted(s.regions, region, value)[region] = value
    BY <2>a, <2>b, <2>c, RegionsInserted
  <2>4. \A x \in DOMAIN s.regions : x # region => Inserted(s.regions, region, value)[x] = s.regions[x]
    BY <2>a, <2>b, <2>c, RegionsInserted
  <2> QED
    BY <2>1, <2>2, <2>3, <2>4
<1>7. /\ new \in Shm /\ new.next_region_id = region /\ new.next_lease_id = lease
      /\ new.regions = Inserted(s.regions, region, value) /\ new.published_names = s.published_names
  <2>1. s \in Shm /\ s.created + 1 \in Nat /\ region \in Nat /\ lease \in Nat
    BY <1>2, <1>3, <1>4
  <2>2. PICK table : table = Inserted(s.regions, region, value)
    OBVIOUS
  <2>3. table \in Tables(Nat, Regions)
    BY <1>6, <2>2
  <2>4. new = [s EXCEPT !.next_region_id = region, !.next_lease_id = lease,
                        !.created = s.created + 1, !.regions = table]
    BY <2>2
  <2> HIDE DEF new
  <2> QED
    BY <2>1, <2>2, <2>3, <2>4 DEF Shm
<1> HIDE DEF new
<1>8. Counted(new) /\ AllHonest(new, overdue, handed)
  <2>1. new.next_region_id = s.next_region_id + 1 /\ new.next_lease_id \in {s.next_lease_id, s.next_lease_id + 1}
    BY <1>b, <1>c, <1>7
  <2>2. \A l \in value.leases : l <= new.next_lease_id
    BY <1>4, <1>5, <1>7
  <2>3. new.regions = Inserted(s.regions, s.next_region_id + 1, value)
    BY <1>b, <1>7
  <2> QED
    BY <1>2, <1>5, <1>7, <2>1, <2>2, <2>3, NewRegion
<1>9. Published(new)
  <2>1. region \notin DOMAIN s.regions
    <3>1. \A r \in DOMAIN s.regions : r <= s.next_region_id
      BY <1>2 DEF Counted
    <3> QED
      BY <3>1, <1>b, <1>3
  <2> QED
    BY <2>1, <1>2, <1>6, <1>7 DEF Published
<1>10. handed' \in Seq(Descriptors) /\ AllHonest(new, overdue, handed')
  <2>1. region \in DOMAIN new.regions
    BY <1>6, <1>7
  <2>2. lease <= new.next_lease_id /\ region <= new.next_region_id
    BY <1>4, <1>7
  <2> QED
    BY <1>1, <1>2, <1>4, <1>7, <1>8, <2>1, <2>2, HandHonest
<1> QED
  BY <1>1, <1>7, <1>8, <1>9, <1>10 DEF ShmInv, AllHonest

\* publish keeps the invariant: a name that is taken is refused.
LEMMA PublishStep == ASSUME ShmInv, NEW name \in ShmNames, publish(name) PROVE ShmInv'
<1>a. PICK s : s = reclaim_expired_locked(shm)
  OBVIOUS
<1>b. PICK region : region = s.next_region_id + 1
  OBVIOUS
<1>c. PICK value : value = Region(name, {})
  OBVIOUS
<1> DEFINE new == [s EXCEPT !.next_region_id = region, !.created = @ + 1,
                     !.published_names = Inserted(@, name, region),
                     !.regions = Inserted(@, region, value)]
<1>1. /\ shm' = IF name \in DOMAIN s.published_names THEN s ELSE new
      /\ overdue' = overdue /\ handed' = handed
  BY <1>a, <1>b, <1>c DEF publish
<1>2. /\ s \in Shm /\ Counted(s) /\ Published(s) /\ AllHonest(s, overdue, handed)
      /\ handed \in Seq(Descriptors) /\ shm.created \in Nat
  BY <1>a, Reclaimed DEF ShmInv, Shm
<1>3. /\ s.next_region_id \in Nat /\ s.next_lease_id \in Nat /\ s.created \in Nat
      /\ s.regions \in Tables(Nat, Regions) /\ s.published_names \in Tables(ShmNames, Nat)
  BY <1>2 DEF Shm
<1>4. region \in Nat
  BY <1>b, <1>3
<1>5. value \in Regions /\ value.leases = {} /\ value.published_name = name
  BY <1>c, <1>2 DEF Region, Regions
<1>6. /\ Inserted(s.regions, region, value) \in Tables(Nat, Regions)
      /\ DOMAIN Inserted(s.regions, region, value) = DOMAIN s.regions \cup {region}
      /\ Inserted(s.regions, region, value)[region] = value
      /\ \A x \in DOMAIN s.regions : x # region => Inserted(s.regions, region, value)[x] = s.regions[x]
  <2>a. s.regions \in Tables(Nat, Regions)
    BY <1>3
  <2>b. region \in Nat
    BY <1>4
  <2>c. value \in Regions
    BY <1>5
  <2>1. Inserted(s.regions, region, value) \in Tables(Nat, Regions)
    BY <2>a, <2>b, <2>c, RegionsInserted
  <2>2. DOMAIN Inserted(s.regions, region, value) = DOMAIN s.regions \cup {region}
    BY <2>a, <2>b, <2>c, RegionsInserted
  <2>3. Inserted(s.regions, region, value)[region] = value
    BY <2>a, <2>b, <2>c, RegionsInserted
  <2>4. \A x \in DOMAIN s.regions : x # region => Inserted(s.regions, region, value)[x] = s.regions[x]
    BY <2>a, <2>b, <2>c, RegionsInserted
  <2> QED
    BY <2>1, <2>2, <2>3, <2>4
<1>7. /\ Inserted(s.published_names, name, region) \in Tables(ShmNames, Nat)
      /\ DOMAIN Inserted(s.published_names, name, region) = DOMAIN s.published_names \cup {name}
      /\ Inserted(s.published_names, name, region)[name] = region
      /\ \A x \in DOMAIN s.published_names :
             x # name => Inserted(s.published_names, name, region)[x] = s.published_names[x]
  <2>1. s.published_names \in Tables(ShmNames, Nat)
    BY <1>3
  <2>2. region \in Nat
    BY <1>4
  <2>3. Inserted(s.published_names, name, region) \in Tables(ShmNames, Nat)
    BY <2>1, <2>2, NamesInserted
  <2>4. DOMAIN Inserted(s.published_names, name, region) = DOMAIN s.published_names \cup {name}
    BY <2>1, <2>2, NamesInserted
  <2>5. Inserted(s.published_names, name, region)[name] = region
    BY <2>1, <2>2, NamesInserted
  <2>6. \A x \in DOMAIN s.published_names :
             x # name => Inserted(s.published_names, name, region)[x] = s.published_names[x]
    BY <2>1, <2>2, NamesInserted
  <2> QED
    BY <2>3, <2>4, <2>5, <2>6
<1>8. /\ new \in Shm /\ new.next_region_id = region /\ new.next_lease_id = s.next_lease_id
      /\ new.regions = Inserted(s.regions, region, value)
      /\ new.published_names = Inserted(s.published_names, name, region)
  <2>1. s \in Shm /\ s.created + 1 \in Nat /\ region \in Nat
    BY <1>2, <1>3, <1>4
  <2>2. PICK table : table = Inserted(s.regions, region, value)
    OBVIOUS
  <2>3. PICK published : published = Inserted(s.published_names, name, region)
    OBVIOUS
  <2>4. table \in Tables(Nat, Regions) /\ published \in Tables(ShmNames, Nat)
    BY <1>6, <1>7, <2>2, <2>3
  <2>5. new = [s EXCEPT !.next_region_id = region, !.created = s.created + 1,
                        !.published_names = published, !.regions = table]
    BY <2>2, <2>3
  <2> HIDE DEF new
  <2> QED
    BY <2>1, <2>2, <2>3, <2>4, <2>5 DEF Shm
<1> HIDE DEF new
<1>9. Counted(new) /\ AllHonest(new, overdue, handed)
  <2>1. new.next_region_id = s.next_region_id + 1 /\ new.next_lease_id \in {s.next_lease_id, s.next_lease_id + 1}
    BY <1>b, <1>8
  <2>2. \A l \in value.leases : l <= new.next_lease_id
    BY <1>5
  <2>3. new.regions = Inserted(s.regions, s.next_region_id + 1, value)
    BY <1>b, <1>8
  <2> QED
    BY <1>2, <1>5, <1>8, <2>1, <2>2, <2>3, NewRegion
<1>10. Published(new)
  <2>1. region \notin DOMAIN s.regions
    <3>1. \A r \in DOMAIN s.regions : r <= s.next_region_id
      BY <1>2 DEF Counted
    <3> QED
      BY <3>1, <1>b, <1>3
  <2> SUFFICES ASSUME NEW n \in DOMAIN new.published_names
               PROVE  /\ new.published_names[n] \in DOMAIN new.regions
                      /\ new.regions[new.published_names[n]].published_name = n
    BY DEF Published
  <2>2. CASE n = name
    BY <2>2, <1>5, <1>6, <1>7, <1>8
  <2>3. CASE n # name
    <3>1. n \in DOMAIN s.published_names /\ new.published_names[n] = s.published_names[n]
      BY <2>3, <1>7, <1>8
    <3>2. /\ s.published_names[n] \in DOMAIN s.regions
          /\ s.regions[s.published_names[n]].published_name = n
      BY <1>2, <3>1 DEF Published
    <3> QED
      BY <2>1, <3>1, <3>2, <1>6, <1>8
  <2> QED
    BY <2>2, <2>3
<1> QED
  BY <1>1, <1>2, <1>8, <1>9, <1>10 DEF ShmInv, AllHonest

\* open keeps the invariant: the name leads to a region that is there.
LEMMA OpenStep == ASSUME ShmInv, NEW name \in ShmNames, open(name) PROVE ShmInv'
<1> DEFINE s == reclaim_expired_locked(shm)
           lease == s.next_lease_id + 1
           region == s.published_names[name]
           new == [s EXCEPT !.next_lease_id = lease, !.regions[region].leases = @ \cup {lease}]
<1>1. /\ IF name \notin DOMAIN s.published_names
           THEN shm' = s /\ handed' = handed
           ELSE shm' = new /\ Hand(new, lease, region)
      /\ overdue' = overdue
  BY DEF open
<1>2. /\ s \in Shm /\ Counted(s) /\ Published(s) /\ AllHonest(s, overdue, handed)
      /\ handed \in Seq(Descriptors)
  BY Reclaimed DEF ShmInv
<1> HIDE DEF s
<1>3. CASE name \notin DOMAIN s.published_names
  BY <1>1, <1>2, <1>3 DEF ShmInv, AllHonest
<1>4. CASE name \in DOMAIN s.published_names
  <2>1. /\ s.next_region_id \in Nat /\ s.next_lease_id \in Nat
        /\ s.regions \in Tables(Nat, Regions)
    BY <1>2 DEF Shm
  <2>2. region \in DOMAIN s.regions /\ lease \in Nat
    BY <1>2, <1>4, <2>1 DEF Published
  <2>3. s.regions \in [DOMAIN s.regions -> Regions] /\ DOMAIN s.regions \in SUBSET Nat
    BY <2>1, TableFacts
  <2>4. \A r \in DOMAIN s.regions : r \in Nat /\ s.regions[r] \in Regions
    BY <2>3
  <2> HIDE DEF lease, region
  <2>5. /\ new.regions = [s.regions EXCEPT ![region] = [s.regions[region] EXCEPT !.leases = @ \cup {lease}]]
        /\ new.next_lease_id = lease /\ new.next_region_id = s.next_region_id
        /\ new.published_names = s.published_names
    BY <1>2 DEF Shm
  <2>6. /\ [s.regions[region] EXCEPT !.leases = @ \cup {lease}] \in Regions
        /\ [s.regions[region] EXCEPT !.leases = @ \cup {lease}].bytes = s.regions[region].bytes
        /\ [s.regions[region] EXCEPT !.leases = @ \cup {lease}].published_name = s.regions[region].published_name
        /\ [s.regions[region] EXCEPT !.leases = @ \cup {lease}].leases = s.regions[region].leases \cup {lease}
    BY <2>2, <2>4 DEF Regions
  <2>7. /\ new.regions \in [DOMAIN s.regions -> Regions]
        /\ \A r \in DOMAIN s.regions :
             /\ new.regions[r].bytes = s.regions[r].bytes
             /\ new.regions[r].published_name = s.regions[r].published_name
             /\ new.regions[r].leases \subseteq s.regions[r].leases \cup {lease}
    BY <2>2, <2>3, <2>5, <2>6
  <2>8. new \in Shm
    <3>1. new.regions \in Tables(Nat, Regions)
      <4> HIDE DEF new
      <4> QED
        BY <2>3, <2>7, TableIntro
    <3>2. new = [s EXCEPT !.next_lease_id = lease, !.regions = new.regions]
      BY <1>2 DEF Shm
    <3> HIDE DEF new
    <3> QED
      BY <3>1, <3>2, <1>2, <2>2 DEF Shm
  <2> HIDE DEF new
  <2>9. DOMAIN new.regions = DOMAIN s.regions
    BY <2>7
  <2>10. Published(new)
    BY <1>2, <2>5, <2>7, <2>9 DEF Published
  <2>11. lease = s.next_lease_id + 1
    BY DEF lease
  <2>12. Counted(new)
    <3> SUFFICES ASSUME NEW r \in DOMAIN s.regions
                 PROVE  r <= s.next_region_id /\ \A l \in new.regions[r].leases : l <= lease
      BY <2>5, <2>9 DEF Counted
    <3>1. r <= s.next_region_id /\ \A l \in s.regions[r].leases : l <= s.next_lease_id
      BY <1>2 DEF Counted
    <3>2. \A l \in s.regions[r].leases : l \in Nat
      BY <2>4 DEF Regions
    <3>3. \A l \in new.regions[r].leases : l \in s.regions[r].leases \/ l = lease
      BY <2>7
    <3> QED
      BY <2>1, <2>11, <3>1, <3>2, <3>3
  <2>13. AllHonest(new, overdue, handed)
    <3> SUFFICES ASSUME NEW i \in DOMAIN handed PROVE Honest(new, overdue, handed[i])
      BY DEF AllHonest
    <3>1. Honest(s, overdue, handed[i]) /\ handed[i] \in Descriptors
      BY <1>2 DEF AllHonest
    <3>2. handed[i].lease \in Nat /\ handed[i].lease <= s.next_lease_id
      BY <3>1 DEF Honest, Descriptors
    <3>3. handed[i].lease # lease /\ handed[i].lease <= lease
      BY <3>2, <2>1, <2>11
    <3> QED
      BY <3>1, <3>3, <2>5, <2>7, <2>9 DEF Honest, Live
  <2>14. handed' \in Seq(Descriptors) /\ AllHonest(new, overdue, handed')
    <3>1. Hand(new, lease, region)
      BY <1>1, <1>4
    <3>2. region <= new.next_region_id /\ region \in DOMAIN new.regions
      BY <1>2, <2>2, <2>5, <2>9 DEF Counted
    <3>3. lease <= new.next_lease_id
      BY <2>2, <2>5
    <3> QED
      BY <1>2, <2>2, <2>8, <2>13, <3>1, <3>2, <3>3, HandHonest
  <2>15. shm' = new
    BY <1>1, <1>4
  <2> QED
    BY <1>1, <2>8, <2>10, <2>12, <2>14, <2>15 DEF ShmInv, AllHonest
<1> QED
  BY <1>3, <1>4

\* A step that only takes away and leaves the descriptors alone.
LEMMA FadeStep ==
  ASSUME ShmInv, Fades(shm, shm'), UNCHANGED <<overdue, handed>>
  PROVE  ShmInv'
<1>1. \A i \in DOMAIN handed : Honest(shm', overdue, handed[i])
  BY FadedIsHonest DEF ShmInv
<1> QED
  BY <1>1 DEF ShmInv, Fades

\* release keeps the invariant, also the second time.
LEMMA ReleaseStep == ASSUME ShmInv, NEW i \in DOMAIN handed, release(i) PROVE ShmInv'
<1>1. /\ shm' = IF handed[i].region \in DOMAIN shm.regions THEN Unleased(handed[i]) ELSE shm
      /\ Revoke({i}) /\ overdue' = overdue
  BY DEF release
<1>2. handed \in Seq(Descriptors) /\ AllHonest(shm, overdue, handed)
  BY DEF ShmInv, AllHonest
<1>3. /\ shm' \in Shm /\ Counted(shm') /\ Published(shm')
      /\ AllHonest(shm', overdue, handed) /\ ~Live(shm', overdue, handed[i])
  <2>1. CASE handed[i].region \in DOMAIN shm.regions
    <3>1. Fades(shm, shm') /\ ~Live(shm', overdue, handed[i])
      BY <1>1, <2>1, UnleasedFades DEF ShmInv
    <3> QED
      BY <3>1, <1>2, FadedIsHonest DEF Fades, AllHonest
  <2>2. CASE handed[i].region \notin DOMAIN shm.regions
    BY <1>1, <1>2, <2>2 DEF ShmInv, Live
  <2> QED
    BY <2>1, <2>2
<1>4. handed' \in Seq(Descriptors) /\ AllHonest(shm', overdue, handed')
  <2>1. \A j \in DOMAIN handed : j \in {i} => ~Live(shm', overdue, handed[j])
    BY <1>3
  <2> QED
    BY <1>1, <1>2, <1>3, <2>1, RevokeHonest
<1> QED
  BY <1>1, <1>3, <1>4 DEF ShmInv, AllHonest

\* unpublish keeps the invariant: the region lives on while a lease keeps it.
LEMMA UnpublishStep == ASSUME ShmInv, NEW name \in ShmNames, unpublish(name) PROVE ShmInv'
<1>a. PICK r : r = shm.published_names[name]
  OBVIOUS
<1>1. /\ shm \in Shm /\ Counted(shm) /\ Published(shm) /\ name \in DOMAIN shm.published_names
      /\ shm.regions \in Tables(Nat, Regions) /\ shm.published_names \in Tables(ShmNames, Nat)
  BY DEF ShmInv, unpublish, Shm
<1>2. r \in DOMAIN shm.regions /\ shm.regions[r].published_name = name
  BY <1>a, <1>1 DEF Published
<1>b. PICK rest : rest = Without(shm.published_names, {name})
  OBVIOUS
<1>3. /\ rest \in Tables(ShmNames, Nat)
      /\ DOMAIN rest = DOMAIN shm.published_names \ {name}
      /\ \A n \in DOMAIN rest : rest[n] = shm.published_names[n]
  <2>1. PICK keys : keys = {name}
    OBVIOUS
  <2>2. shm.published_names \in Tables(ShmNames, Nat)
    BY <1>1
  <2>3. /\ Without(shm.published_names, keys) \in Tables(ShmNames, Nat)
        /\ DOMAIN Without(shm.published_names, keys) = DOMAIN shm.published_names \ keys
        /\ \A x \in DOMAIN shm.published_names \ keys :
              Without(shm.published_names, keys)[x] = shm.published_names[x]
    BY <2>2, NamesWithout
  <2> QED
    BY <1>b, <2>1, <2>3
<1>c. PICK region : region = [shm.regions[r] EXCEPT !.published_name = NoName]
  OBVIOUS
<1>4. /\ shm.regions \in [DOMAIN shm.regions -> Regions] /\ DOMAIN shm.regions \in SUBSET Nat
      /\ \A q \in DOMAIN shm.regions : shm.regions[q] \in Regions
  BY <1>1, TableFacts
<1>5. /\ region \in Regions /\ region.bytes = shm.regions[r].bytes
      /\ region.leases = shm.regions[r].leases
  BY <1>2, <1>4, <1>c DEF Regions
<1>d. PICK table : table = [shm.regions EXCEPT ![r] = region]
  OBVIOUS
<1>6. table \in [DOMAIN shm.regions -> Regions]
  BY <1>4, <1>5, <1>d
<1>7. table \in Tables(Nat, Regions)
  BY <1>4, <1>6, TableIntro
<1>e. PICK s : s = [shm EXCEPT !.published_names = rest, !.regions = table]
  OBVIOUS
<1>8. /\ s \in Shm /\ s.regions = table /\ s.published_names = rest /\ s.created = shm.created
      /\ s.next_region_id = shm.next_region_id /\ s.next_lease_id = shm.next_lease_id
  BY <1>1, <1>3, <1>7, <1>e DEF Shm
<1>9. shm' = Settle(s, r)
  <2>1. [[shm EXCEPT !.published_names = Without(@, {name})] EXCEPT !.regions[r].published_name = NoName]
          = s
    BY <1>1, <1>b, <1>c, <1>d, <1>e DEF Shm
  <2> QED
    BY <1>a, <1>2, <2>1 DEF unpublish
<1>10. \A q \in DOMAIN shm.regions :
         /\ table[q].bytes = shm.regions[q].bytes
         /\ table[q].leases \subseteq shm.regions[q].leases
         /\ q # r => table[q] = shm.regions[q]
  BY <1>2, <1>4, <1>5, <1>d
<1>11. \A n \in DOMAIN rest :
         /\ rest[n] \in DOMAIN shm.regions /\ rest[n] # r
         /\ table[rest[n]].published_name = n
  <2> SUFFICES ASSUME NEW n \in DOMAIN rest
               PROVE  /\ rest[n] \in DOMAIN shm.regions /\ rest[n] # r
                      /\ table[rest[n]].published_name = n
    OBVIOUS
  <2>1. n \in DOMAIN shm.published_names /\ n # name /\ rest[n] = shm.published_names[n]
    BY <1>3
  <2>2. rest[n] \in DOMAIN shm.regions /\ shm.regions[rest[n]].published_name = n
    BY <1>1, <2>1 DEF Published
  <2>3. rest[n] # r
    BY <1>2, <2>1, <2>2
  <2> QED
    BY <1>10, <2>2, <2>3
<1>12. Fades(shm, shm')
  <2>1. CASE Bare(table[r])
    <3>a. PICK fewer : fewer = Without(table, {r})
      OBVIOUS
    <3>1. /\ fewer \in Tables(Nat, Regions) /\ DOMAIN fewer = DOMAIN shm.regions \ {r}
          /\ \A q \in DOMAIN fewer : fewer[q] = table[q]
      <4>1. PICK keys : keys = {r}
        OBVIOUS
      <4>2. /\ Without(table, keys) \in Tables(Nat, Regions)
            /\ DOMAIN Without(table, keys) = DOMAIN table \ keys
            /\ \A x \in DOMAIN table \ keys : Without(table, keys)[x] = table[x]
        BY <1>7, RegionsWithout
      <4>3. DOMAIN table = DOMAIN shm.regions
        BY <1>6
      <4> QED
        BY <3>a, <4>1, <4>2, <4>3
    <3>2. shm' = [s EXCEPT !.regions = fewer]
      BY <1>8, <1>9, <2>1, <3>a DEF Settle
    <3>3. /\ shm' \in Shm /\ shm'.regions = fewer /\ shm'.published_names = rest
          /\ shm'.created = shm.created
          /\ shm'.next_region_id = shm.next_region_id /\ shm'.next_lease_id = shm.next_lease_id
      BY <1>8, <3>1, <3>2 DEF Shm
    <3>4. Published(shm')
      BY <1>11, <3>1, <3>3 DEF Published
    <3>5. \A q \in DOMAIN shm'.regions :
            /\ q \in DOMAIN shm.regions
            /\ shm'.regions[q].bytes = shm.regions[q].bytes
            /\ shm'.regions[q].leases \subseteq shm.regions[q].leases
      BY <1>10, <3>1, <3>3
    <3> QED
      BY <1>1, <3>3, <3>4, <3>5, FadesIntro
  <2>2. CASE ~Bare(table[r])
    <3>1. shm' = s
      BY <1>8, <1>9, <2>2 DEF Settle
    <3>2. DOMAIN table = DOMAIN shm.regions
      BY <1>6
    <3>3. Published(shm')
      BY <1>8, <1>11, <3>1, <3>2 DEF Published
    <3>4. \A q \in DOMAIN shm'.regions :
            /\ q \in DOMAIN shm.regions
            /\ shm'.regions[q].bytes = shm.regions[q].bytes
            /\ shm'.regions[q].leases \subseteq shm.regions[q].leases
      BY <1>8, <1>10, <3>1, <3>2
    <3> QED
      BY <1>1, <1>8, <3>1, <3>3, <3>4, FadesIntro
  <2> QED
    BY <2>1, <2>2
<1> QED
  BY <1>12, FadeStep DEF unpublish

\* clear keeps the invariant: nothing is live, and the counters go on.
LEMMA ClearStep == ShmInv /\ clear => ShmInv'
<1> SUFFICES ASSUME ShmInv, clear PROVE ShmInv'
  OBVIOUS
<1>2. shm' = [shm EXCEPT !.regions = <<>>, !.published_names = <<>>]
  BY DEF clear, cleared
<1>3. /\ shm' \in Shm /\ shm'.regions = <<>> /\ shm'.published_names = <<>>
      /\ shm'.next_region_id = shm.next_region_id /\ shm'.next_lease_id = shm.next_lease_id
      /\ shm'.created = shm.created
  BY <1>2, EmptyTable DEF ShmInv, Shm
<1>4. DOMAIN shm'.regions = {} /\ DOMAIN shm'.published_names = {}
  BY <1>3
<1>5. Counted(shm') /\ Published(shm')
  BY <1>4 DEF Counted, Published
<1>6. handed \in Seq(Descriptors) /\ AllHonest(shm', overdue, handed)
  BY <1>3, <1>4 DEF ShmInv, AllHonest, Honest, Live
<1>7. \A i \in DOMAIN handed : i \in DOMAIN handed => ~Live(shm', overdue, handed[i])
  BY <1>4 DEF Live
<1>8. handed' \in Seq(Descriptors) /\ AllHonest(shm', overdue, handed')
  BY <1>6, <1>7, RevokeHonest DEF clear
<1> QED
  BY <1>3, <1>5, <1>8 DEF ShmInv, AllHonest, clear

\* The passing of a deadline keeps the invariant.
LEMMA ExpireStep == ASSUME ShmInv, NEW i \in DOMAIN handed, Expire(i) PROVE ShmInv'
<1>1. /\ overdue' = overdue \cup {handed[i].lease} /\ Revoke({i}) /\ shm' = shm
  BY DEF Expire
<1>2. handed \in Seq(Descriptors) /\ AllHonest(shm, overdue', handed)
  BY <1>1 DEF ShmInv, AllHonest, Honest, Live
<1>3. \A j \in DOMAIN handed : j \in {i} => ~Live(shm, overdue', handed[j])
  BY <1>1 DEF Live
<1>4. handed' \in Seq(Descriptors) /\ AllHonest(shm, overdue', handed')
  BY <1>1, <1>2, <1>3, RevokeHonest
<1> QED
  BY <1>1, <1>4 DEF ShmInv, AllHonest

\* reclaim_expired keeps the invariant.
LEMMA ReclaimStep == ShmInv /\ reclaim_expired => ShmInv'
BY ReclaimFades, FadeStep DEF reclaim_expired, ShmInv

\* Every operation of the manager keeps the invariant.
LEMMA ShmStep == ShmInv /\ ShmNext => ShmInv'
<1> SUFFICES ASSUME ShmInv, ShmNext PROVE ShmInv'
  OBVIOUS
<1>1. CASE offer
  BY <1>1, OfferStep
<1>2. CASE reclaim_expired
  BY <1>2, ReclaimStep
<1>3. ASSUME NEW name \in ShmNames, publish(name) \/ open(name) \/ unpublish(name) PROVE ShmInv'
  BY <1>3, PublishStep, OpenStep, UnpublishStep
<1>4. ASSUME NEW i \in DOMAIN handed, map(handed[i]) PROVE ShmInv'
  <2>1. handed[i].region \in DOMAIN shm.regions
    BY <1>4 DEF map, Holds
  <2>2. Fades(shm, shm')
    BY <1>4, <2>1, UnleasedFades DEF map, ShmInv
  <2> QED
    BY <1>4, <2>2, FadeStep DEF map
<1>5. ASSUME NEW i \in DOMAIN handed, release(i) \/ Expire(i) PROVE ShmInv'
  BY <1>5, ReleaseStep, ExpireStep
<1> QED
  BY <1>1, <1>2, <1>3, <1>4, <1>5 DEF ShmNext

\* The invariant implies that no descriptor maps what it was not handed out for.
LEMMA InvNoStaleMap == ShmInv => NoStaleMap
<1> SUFFICES ASSUME ShmInv, NEW i \in DOMAIN handed, Mapping(handed[i]) # Refused
             PROVE  Mapping(handed[i]) = handed[i].bytes /\ ~handed[i].revoked
  BY DEF NoStaleMap
<1>1. Holds(handed[i], 1..shm.next_lease_id \ overdue)
  BY DEF Mapping
<1>2. Live(shm, overdue, handed[i])
  BY <1>1 DEF Holds, Live
<1> QED
  BY <1>1, <1>2 DEF Mapping, ShmInv, Honest

-----------------------------------------------------------------------------
(* The lifecycle, and the node                                             *)

States == {"Booting", "Starting", "Ready", "Draining", "Failed", "Stopped"}

\* A shutdown that returned ok left the node in a state that nothing leaves.
NodeInv ==
  /\ node \in States
  /\ halt \in [Callers -> {"none", "stopping", "leaving", "ok", "error"}]
  /\ ShutdownOkIsStopped

\* transition goes to a state, and never away from Stopped.
LEMMA TransitionStep ==
  ASSUME node \in States, NEW next \in States, transition(next)
  PROVE  node' \in States /\ (node = "Stopped" => node' = "Stopped")
BY DEF transition, Allowed, can_transition_to, States

\* So does begin_draining.
LEMMA DrainStep ==
  ASSUME node \in States, begin_draining
  PROVE  node' \in States /\ (node = "Stopped" => node' = "Stopped")
<1>1. "Draining" \in States
  BY DEF States
<1> QED
  BY <1>1, TransitionStep DEF begin_draining

\* A step that keeps a stopped node stopped and returns from no shutdown.
LEMMA QuietStep ==
  ASSUME NodeInv, node' \in States, node = "Stopped" => node' = "Stopped", halt' = halt
  PROVE  NodeInv'
BY DEF NodeInv, ShutdownOkIsStopped

\* The inductive invariant of the node: its lifecycle and its shared memory.
Inv == ShmInv /\ NodeInv

\* The initial state.
LEMMA InvInit == Init => Inv
<1> SUFFICES ASSUME Init PROVE Inv
  OBVIOUS
<1>1. NodeInv
  BY DEF Init, NodeInv, States, ShutdownOkIsStopped
<1>3. shm \in Shm /\ DOMAIN shm.regions = {} /\ DOMAIN shm.published_names = {}
  BY EmptyTable DEF Init, ShmInit, Shm
<1>4. handed \in Seq(Descriptors) /\ DOMAIN handed = {}
  BY DEF Init, ShmInit
<1>5. ShmInv
  BY <1>3, <1>4 DEF ShmInv, Counted, Published
<1> QED
  BY <1>1, <1>5 DEF Inv

\* Every step of the node keeps the lifecycle's part of the invariant.
LEMMA NodeStep == Inv /\ Next => NodeInv'
<1> SUFFICES ASSUME NodeInv, Next PROVE NodeInv'
  BY DEF Inv
<1>0. /\ node \in States
      /\ {"Starting", "Ready", "Failed", "Stopped", "Draining"} \subseteq States
  BY DEF NodeInv, States
<1>1. CASE Join \/ spawn_system_actor \/ Became \/ StopWaited
  BY <1>0, <1>1, QuietStep DEF Join, spawn_system_actor, Became, StopWaited
<1>2. CASE DidNotBecome \/ cleanup_failed_bootstrap
  BY <1>0, <1>2, TransitionStep, QuietStep DEF DidNotBecome, cleanup_failed_bootstrap
<1>3. CASE OnStart \/ BecomeReady \/ StartFailed
  BY <1>0, <1>3, TransitionStep, QuietStep DEF OnStart, BecomeReady, StartFailed
<1>4. CASE StartService \/ StopService \/ handle \/ receive \/ Request \/ StopCore
  BY <1>0, <1>4, QuietStep DEF StartService, StopService, handle, receive, Request, StopCore
<1>5. CASE Stopped
  BY <1>0, <1>5, TransitionStep, QuietStep DEF Stopped
<1>6. CASE OnStop
  BY <1>0, <1>6, DrainStep, QuietStep DEF OnStop
<1>7. ASSUME NEW c \in Callers, shutdown(c) PROVE NodeInv'
  <2>1. node' \in States /\ (node = "Stopped" => node' = "Stopped")
    BY <1>0, <1>7, DrainStep DEF shutdown
  <2>2. halt' = [halt EXCEPT ![c] = "stopping"]
    BY <1>7 DEF shutdown
  <2> QED
    BY <2>1, <2>2 DEF NodeInv, ShutdownOkIsStopped
<1>8. ASSUME NEW c \in Callers, ClearAll(c) PROVE NodeInv'
  BY <1>8 DEF ClearAll, NodeInv, ShutdownOkIsStopped
<1>9. ASSUME NEW c \in Callers, LeaveFails(c) PROVE NodeInv'
  <2>1. node' \in States /\ (node = "Stopped" => node' = "Stopped")
    BY <1>0, <1>9, TransitionStep DEF LeaveFails
  <2>2. halt' = [halt EXCEPT ![c] = "error"]
    BY <1>9 DEF LeaveFails
  <2> QED
    BY <2>1, <2>2 DEF NodeInv, ShutdownOkIsStopped
<1>10. ASSUME NEW c \in Callers, BecomeStopped(c) PROVE NodeInv'
  <2>1. node' \in States /\ (node = "Stopped" => node' = "Stopped")
    BY <1>0, <1>10, TransitionStep DEF BecomeStopped
  <2>2. /\ halt' = [halt EXCEPT ![c] = IF Allowed("Stopped") THEN "ok" ELSE "error"]
        /\ Allowed("Stopped") => node' = "Stopped"
    BY <1>10 DEF BecomeStopped, transition
  <2> QED
    BY <2>1, <2>2 DEF NodeInv, ShutdownOkIsStopped
<1>11. CASE ShmNext /\ UNCHANGED nodeVars
  BY <1>0, <1>11, QuietStep DEF nodeVars
<1> QED
  BY <1>1, <1>2, <1>3, <1>4, <1>5, <1>6, <1>7, <1>8, <1>9, <1>10, <1>11
     DEF Next, Bootstrap, Root, Shutdown

\* Every step of the node keeps the shared memory's part of the invariant.
LEMMA MemoryStep == Inv /\ Next => ShmInv'
<1> SUFFICES ASSUME ShmInv, Next PROVE ShmInv'
  BY DEF Inv
<1>0. ASSUME UNCHANGED shmVars PROVE ShmInv'
  BY <1>0 DEF shmVars, ShmInv
<1>1. CASE Bootstrap
  BY <1>0, <1>1, ClearStep DEF Bootstrap, Join, spawn_system_actor, Became, DidNotBecome, StopWaited,
                               cleanup_failed_bootstrap
<1>2. CASE OnStart \/ StartService \/ BecomeReady \/ StartFailed \/ Stopped
  BY <1>0, <1>2 DEF OnStart, StartService, BecomeReady, StartFailed, Stopped
<1>3. CASE StopService
  <2>1. clear \/ UNCHANGED shmVars
    BY <1>3 DEF StopService
  <2> QED
    BY <2>1, <1>0, ClearStep
<1>4. CASE handle
  <2>1. reclaim_expired \/ UNCHANGED shmVars
    BY <1>4 DEF handle
  <2> QED
    BY <2>1, <1>0, ReclaimStep
<1>5. CASE receive \/ OnStop \/ Request \/ StopCore
  BY <1>0, <1>5 DEF receive, OnStop, Request, StopCore
<1>6. ASSUME NEW c \in Callers, shutdown(c) \/ Shutdown(c) PROVE ShmInv'
  BY <1>0, <1>6, ClearStep DEF shutdown, Shutdown, ClearAll, LeaveFails, BecomeStopped
<1>7. CASE ShmNext
  BY <1>7, ShmStep
<1> QED
  BY <1>1, <1>2, <1>3, <1>4, <1>5, <1>6, <1>7 DEF Next, Root

\* The invariant holds throughout: of the lifecycle (node, halt) and of the shared
\* memory, whose counters are ahead of all ids, whose names lead to regions that
\* know their names, and whose live descriptors are the ones that were not revoked.
THEOREM NodeCorrect == Spec => []Inv
<1>1. Inv /\ UNCHANGED vars => Inv'
  BY DEF vars, nodeVars, shmVars, Inv, ShmInv, NodeInv, ShutdownOkIsStopped
<1>2. Inv /\ [Next]_vars => Inv'
  BY <1>1, NodeStep, MemoryStep DEF Inv
<1> QED
  BY <1>2, InvInit, PTL DEF Spec

\* A descriptor maps the bytes it was handed out for, or nothing (ShmManager::map):
\* after release, deadline, or a clear by shutdown or by a service's stop, and
\* however many regions are created afterwards.
THEOREM DescriptorsAreSafe == Spec => []NoStaleMap
<1>1. Inv => NoStaleMap
  BY InvNoStaleMap DEF Inv
<1> QED
  BY <1>1, NodeCorrect, PTL

\* A shutdown that returned ok left the node stopped for good (ActorSystem::shutdown),
\* whatever other shutdowns, the bootstrap and the system actor's task do.
THEOREM ShutdownIsFinal == Spec => []ShutdownOkIsStopped
<1>1. Inv => ShutdownOkIsStopped
  BY DEF Inv, NodeInv
<1> QED
  BY <1>1, NodeCorrect, PTL


-----------------------------------------------------------------------------
(* Tensor connections                                                      *)

UpFrames == [id : Clients, kind : Tensor!Kinds]
DownFrames == [id : Clients \cup {0}, kind : {"tensor", "single", "ack", "failed"}]
ConnRecords ==
  [client : {"none", "lent", "pooled"}, server : {"none", "reading", "ask", "tell", "closed"},
   request : Clients \cup {0}, served : Nat, up : Seq(UpFrames), down : Seq(DownFrames),
   eof : BOOLEAN]
ClientRecords ==
  [step : {"idle", "take", "write", "read"}, conn : Conns \cup {0}, kind : Tensor!Kinds]

Answers(kind) == IF kind = "ask" THEN {"tensor", "single", "failed"} ELSE {"ack", "failed"}

\* Nothing is under way on connection r.
Idle(r) == r.up = <<>> /\ r.down = <<>> /\ r.server \notin Tensor!Kinds

\* What is under way on r is c's request, c's request being handled, or its
\* answer; or the server has closed, and nothing is.
UnderWay(r, c, kind) ==
  \/ r.up = <<[id |-> c, kind |-> kind]>> /\ r.down = <<>> /\ r.server \notin Tensor!Kinds
  \/ r.up = <<>> /\ r.down = <<>> /\ r.server = kind /\ r.request = c
  \/ r.up = <<>> /\ r.down = <<>> /\ r.server \notin Tensor!Kinds
  \/ /\ r.up = <<>> /\ r.server \notin Tensor!Kinds
     /\ \E a \in Answers(kind) : r.down = <<[id |-> c, kind |-> a]>>

Lends(c) == client[c].step \in {"write", "read"}

TensorInv ==
  /\ pool \in Seq(Conns) /\ conn \in [Conns -> ConnRecords] /\ client \in [Clients -> ClientRecords]
  /\ \A i \in 1..Len(pool) : conn[pool[i]].client = "pooled"
  /\ \A i, j \in 1..Len(pool) : pool[i] = pool[j] => i = j
  /\ \A c \in Clients : Lends(c) => client[c].conn \in Conns /\ conn[client[c].conn].client = "lent"
  /\ \A c, d \in Clients : Lends(c) /\ Lends(d) /\ client[c].conn = client[d].conn => c = d
  /\ \A k \in Conns : conn[k].client # "lent" => Idle(conn[k])
  /\ \A c \in Clients : client[c].step = "write" => Idle(conn[client[c].conn])
  /\ \A c \in Clients : client[c].step = "read" =>
                           UnderWay(conn[client[c].conn], c, client[c].kind)

\* A connection that was never made, or was dropped.
LEMMA NoConnFacts ==
  /\ Tensor!NoConn \in ConnRecords /\ Tensor!NoConn.client = "none" /\ Idle(Tensor!NoConn)
<1>1. Tensor!NoConn = [client |-> "none", server |-> "none", request |-> 0, served |-> 0,
                       up |-> <<>>, down |-> <<>>, eof |-> FALSE]
  BY DEF Tensor!NoConn
<1>2. <<>> \in Seq(UpFrames) /\ <<>> \in Seq(DownFrames)
  OBVIOUS
<1>3. Tensor!NoConn \in ConnRecords
  BY <1>1, <1>2 DEF ConnRecords
<1> QED
  BY <1>1, <1>3 DEF Idle, Tensor!Kinds

\* A caller that has nothing to do with connections.
LEMMA NoCallFacts ==
  /\ Tensor!NoCall \in ClientRecords /\ Tensor!NoCall.step = "idle"
BY DEF Tensor!NoCall, ClientRecords, Tensor!Kinds

\* A caller does something to a connection that no other caller uses.
LEMMA ClientChange ==
  ASSUME TensorInv, NEW c \in Clients, NEW k \in Conns, NEW r \in ConnRecords,
         NEW x \in ClientRecords, NEW p \in Seq(Conns),
         \A d \in Clients \ {c} : Lends(d) => client[d].conn # k,
         x.step \in {"write", "read"} => x.conn = k /\ r.client = "lent",
         r.client # "lent" => Idle(r),
         x.step = "write" => Idle(r), x.step = "read" => UnderWay(r, c, x.kind),
         \A i \in 1..Len(p) : IF p[i] = k THEN r.client = "pooled" ELSE conn[p[i]].client = "pooled",
         \A i, j \in 1..Len(p) : p[i] = p[j] => i = j,
         pool' = p, conn' = [conn EXCEPT ![k] = r], client' = [client EXCEPT ![c] = x]
  PROVE  TensorInv'
<1>1. conn \in [Conns -> ConnRecords] /\ client \in [Clients -> ClientRecords]
  BY DEF TensorInv
<1>2. conn' \in [Conns -> ConnRecords] /\ client' \in [Clients -> ClientRecords] /\ pool' \in Seq(Conns)
  BY <1>1
<1>3. conn'[k] = r /\ \A m \in Conns \ {k} : conn'[m] = conn[m]
  BY <1>1
<1>4. client'[c] = x /\ \A d \in Clients \ {c} : client'[d] = client[d]
  BY <1>1
<1>5. \A i \in 1..Len(p) : p[i] \in Conns
  OBVIOUS
<1>6. \A i \in 1..Len(p) : conn'[p[i]].client = "pooled"
  BY <1>3, <1>5
<1>7. ASSUME NEW d \in Clients, client'[d].step \in {"write", "read"}
      PROVE  /\ client'[d].conn \in Conns /\ conn'[client'[d].conn].client = "lent"
             /\ client'[d].step = "write" => Idle(conn'[client'[d].conn])
             /\ client'[d].step = "read" => UnderWay(conn'[client'[d].conn], d, client'[d].kind)
             /\ d # c => client'[d].conn # k
  <2>1. CASE d = c
    BY <1>3, <1>4, <1>7, <2>1
  <2>2. CASE d # c
    <3>1. client'[d] = client[d] /\ Lends(d)
      BY <1>4, <1>7, <2>2 DEF Lends
    <3>2. client[d].conn \in Conns /\ client[d].conn # k /\ conn[client[d].conn].client = "lent"
      BY <2>2, <3>1 DEF TensorInv
    <3>3. conn'[client[d].conn] = conn[client[d].conn]
      BY <1>3, <3>2
    <3>4. client[d].step = "write" => Idle(conn[client[d].conn])
      BY DEF TensorInv
    <3>5. client[d].step = "read" => UnderWay(conn[client[d].conn], d, client[d].kind)
      BY DEF TensorInv
    <3> QED
      BY <3>1, <3>2, <3>3, <3>4, <3>5
  <2> QED
    BY <2>1, <2>2
<1>8. ASSUME NEW d \in Clients, NEW e \in Clients,
             client'[d].step \in {"write", "read"}, client'[e].step \in {"write", "read"},
             client'[d].conn = client'[e].conn
      PROVE  d = e
  <2>1. CASE d = c \/ e = c
    BY <1>4, <1>7, <1>8, <2>1
  <2>2. CASE d # c /\ e # c
    <3>1. client'[d] = client[d] /\ client'[e] = client[e]
      BY <1>4, <2>2
    <3> QED
      BY <1>8, <3>1 DEF TensorInv, Lends
  <2> QED
    BY <2>1, <2>2
<1>9. \A m \in Conns : conn'[m].client # "lent" => Idle(conn'[m])
  BY <1>3 DEF TensorInv
<1> QED
  BY <1>2, <1>6, <1>7, <1>8, <1>9 DEF TensorInv, Lends

\* The server, or the network, does something to a connection.
LEMMA ServerChange ==
  ASSUME TensorInv, NEW k \in Conns, NEW r \in ConnRecords, r.client = conn[k].client,
         Idle(conn[k]) => Idle(r),
         \A c \in Clients, kind \in Tensor!Kinds : UnderWay(conn[k], c, kind) => UnderWay(r, c, kind),
         conn' = [conn EXCEPT ![k] = r], UNCHANGED <<pool, client>>
  PROVE  TensorInv'
<1>1. conn \in [Conns -> ConnRecords] /\ client \in [Clients -> ClientRecords] /\ pool \in Seq(Conns)
  BY DEF TensorInv
<1>2. conn' \in [Conns -> ConnRecords]
  BY <1>1
<1>3. conn'[k] = r /\ \A m \in Conns \ {k} : conn'[m] = conn[m]
  BY <1>1
<1>4. \A m \in Conns : conn'[m].client = conn[m].client /\ (Idle(conn[m]) => Idle(conn'[m]))
  BY <1>3
<1>5. \A m \in Conns, c \in Clients, kind \in Tensor!Kinds :
         UnderWay(conn[m], c, kind) => UnderWay(conn'[m], c, kind)
  BY <1>3
<1>6. \A c \in Clients : client[c].kind \in Tensor!Kinds
  BY <1>1 DEF ClientRecords
<1>7. \A i \in 1..Len(pool) : pool[i] \in Conns
  BY <1>1
<1>8. \A c \in Clients : Lends(c) => client[c].conn \in Conns /\ conn[client[c].conn].client = "lent"
  BY DEF TensorInv
<1>9. \A c \in Clients : client[c].step = "read" => UnderWay(conn'[client[c].conn], c, client[c].kind)
  BY <1>5, <1>6, <1>8 DEF TensorInv, Lends
<1>10. \A c \in Clients : client[c].step = "write" => Idle(conn'[client[c].conn])
  BY <1>4, <1>8 DEF TensorInv, Lends
<1>11. \A m \in Conns : conn'[m].client # "lent" => Idle(conn'[m])
  BY <1>4 DEF TensorInv
<1>12. \A i \in 1..Len(pool) : conn'[pool[i]].client = "pooled"
  BY <1>4, <1>7 DEF TensorInv
<1>13. \A c \in Clients : Lends(c) => conn'[client[c].conn].client = "lent"
  BY <1>4, <1>8
<1> QED
  BY <1>1, <1>2, <1>8, <1>9, <1>10, <1>11, <1>12, <1>13 DEF TensorInv, Lends

\* Whoever lends a connection is alone with it.
LEMMA Alone ==
  ASSUME TensorInv, NEW c \in Clients, Lends(c)
  PROVE  /\ client[c].conn \in Conns /\ conn[client[c].conn] \in ConnRecords
         /\ \A d \in Clients \ {c} : Lends(d) => client[d].conn # client[c].conn
         /\ \A i \in 1..Len(pool) : pool[i] # client[c].conn
         /\ client[c] \in ClientRecords
BY DEF TensorInv

\* Nobody lends a connection that is pooled or none.
LEMMA NotLent ==
  ASSUME TensorInv, NEW k \in Conns, conn[k].client # "lent"
  PROVE  /\ \A d \in Clients : Lends(d) => client[d].conn # k
         /\ Idle(conn[k]) /\ conn[k] \in ConnRecords
BY DEF TensorInv

\* The pool as it is.
LEMMA PoolFacts ==
  ASSUME TensorInv
  PROVE  /\ pool \in Seq(Conns)
         /\ \A i \in 1..Len(pool) : pool[i] \in Conns /\ conn[pool[i]].client = "pooled"
         /\ \A i, j \in 1..Len(pool) : pool[i] = pool[j] => i = j
BY DEF TensorInv

\* A call ends and its connection is dropped.
LEMMA CallDrops ==
  ASSUME TensorInv, NEW c \in Clients, Lends(c), Tensor!Ends(c),
         conn' = [conn EXCEPT ![client[c].conn] = Tensor!NoConn], UNCHANGED pool
  PROVE  TensorInv'
<1>1. PICK k : k = client[c].conn
  OBVIOUS
<1>2. k \in Conns /\ (\A d \in Clients \ {c} : Lends(d) => client[d].conn # k)
      /\ \A i \in 1..Len(pool) : pool[i] # k
  BY <1>1, Alone
<1>3. client' = [client EXCEPT ![c] = Tensor!NoCall]
  BY DEF Tensor!Ends
<1>4. PICK r \in ConnRecords : r = Tensor!NoConn /\ r.client = "none" /\ Idle(r)
  BY NoConnFacts
<1>5. PICK x \in ClientRecords : x = Tensor!NoCall /\ x.step = "idle"
  BY NoCallFacts
<1>6. conn' = [conn EXCEPT ![k] = r] /\ client' = [client EXCEPT ![c] = x]
  BY <1>1, <1>3, <1>4, <1>5
<1>7. \A i \in 1..Len(pool) : IF pool[i] = k THEN r.client = "pooled" ELSE conn[pool[i]].client = "pooled"
  BY <1>2, PoolFacts
<1> QED
  <2>1. pool \in Seq(Conns) /\ (\A i, j \in 1..Len(pool) : pool[i] = pool[j] => i = j) /\ pool' = pool
    BY PoolFacts
  <2>2. x.step \notin {"write", "read"} /\ Idle(r)
    BY <1>4, <1>5
  <2> QED
    BY <1>2, <1>6, <1>7, <2>1, <2>2, ClientChange

\* exchange_raw_tensor begins.
LEMMA BeginPreserves ==
  ASSUME TensorInv, NEW c \in Clients, Tensor!Begin(c) PROVE TensorInv'
<1>1. PICK kind \in Tensor!Kinds :
        client' = [client EXCEPT ![c] = [Tensor!NoCall EXCEPT !.step = "take", !.kind = kind]]
  BY DEF Tensor!Begin
<1>2. PICK x : x = [Tensor!NoCall EXCEPT !.step = "take", !.kind = kind]
  OBVIOUS
<1>3. x \in ClientRecords /\ x.step = "take"
  BY <1>2 DEF Tensor!NoCall, ClientRecords
<1>4. client \in [Clients -> ClientRecords] /\ client' = [client EXCEPT ![c] = x]
  BY <1>1, <1>2 DEF TensorInv
<1>5. client' \in [Clients -> ClientRecords] /\ client'[c] = x
      /\ \A d \in Clients \ {c} : client'[d] = client[d]
  BY <1>3, <1>4
<1>6. \A d \in Clients : client'[d].step \in {"write", "read"} => client'[d] = client[d]
  BY <1>3, <1>5
<1>7. UNCHANGED <<pool, conn>>
  BY DEF Tensor!Begin
<1> QED
  BY <1>5, <1>6, <1>7 DEF TensorInv, Lends

\* A connection is taken from the pool, or a stale one is dropped.
LEMMA TakePreserves ==
  ASSUME TensorInv, NEW c \in Clients, Tensor!take_tensor_connection(c) PROVE TensorInv'
<1>1. PICK k : k = pool[Len(pool)]
  OBVIOUS
<1>2. PICK p : p = SubSeq(pool, 1, Len(pool) - 1)
  OBVIOUS
<1>3. pool \in Seq(Conns) /\ pool # <<>> /\ Len(pool) \in Nat /\ Len(pool) # 0
  BY PoolFacts DEF Tensor!take_tensor_connection
<1>4. k \in Conns /\ conn[k].client = "pooled"
  BY <1>1, <1>3, PoolFacts
<1>5. /\ p \in Seq(Conns) /\ Len(p) = Len(pool) - 1
      /\ \A i \in 1..Len(p) : p[i] = pool[i]
  <2>1. PICK n \in Nat : n = Len(pool) - 1
    BY <1>3
  <2>2. 1 \in 1..(Len(pool) + 1) /\ n \in 0..Len(pool) /\ n - 1 + 1 = n
    BY <1>3, <2>1
  <2>3. p = SubSeq(pool, 1, n)
    BY <1>2, <2>1
  <2>4. p = [i \in 1..n |-> pool[i]]
    BY <1>3, <2>1, <2>3
  <2>5. \A i \in 1..n : pool[i] \in Conns
    BY <1>3, <2>1
  <2>6. p \in Seq(Conns) /\ Len(p) = n
    BY <2>1, <2>4, <2>5
  <2> QED
    BY <2>1, <2>4, <2>6
<1>6. \A i \in 1..Len(p) : i \in 1..Len(pool) /\ i # Len(pool) /\ Len(pool) \in 1..Len(pool)
  BY <1>3, <1>5
<1>7. \A i \in 1..Len(p) : p[i] # k /\ conn[p[i]].client = "pooled"
  BY <1>1, <1>5, <1>6, PoolFacts
<1>8. \A i, j \in 1..Len(p) : p[i] = p[j] => i = j
  BY <1>5, <1>6, PoolFacts
<1>9. pool' = p /\ client[c].step = "take"
  BY <1>2 DEF Tensor!take_tensor_connection, Tensor!At
<1>10. (\A d \in Clients : Lends(d) => client[d].conn # k) /\ Idle(conn[k]) /\ conn[k] \in ConnRecords
  BY <1>4, NotLent
<1>11. client \in [Clients -> ClientRecords] /\ client[c] \in ClientRecords
  BY DEF TensorInv
<1>12. CASE ~conn[k].eof /\ conn[k].down = <<>>
  <2>1. PICK r : r = [conn[k] EXCEPT !.client = "lent"]
    OBVIOUS
  <2>2. r \in ConnRecords /\ r.client = "lent" /\ Idle(r)
    BY <1>10, <2>1 DEF ConnRecords, Idle
  <2>3. PICK x : x = [client[c] EXCEPT !.step = "write", !.conn = k]
    OBVIOUS
  <2>4. x \in ClientRecords /\ x.step = "write" /\ x.conn = k
    BY <1>4, <1>11, <2>3 DEF ClientRecords
  <2>5. conn' = [conn EXCEPT ![k] = r] /\ client' = [client EXCEPT ![c] = x]
    BY <1>1, <1>11, <1>12, <2>1, <2>3 DEF Tensor!take_tensor_connection
  <2>6. \A i \in 1..Len(p) : IF p[i] = k THEN r.client = "pooled" ELSE conn[p[i]].client = "pooled"
    BY <1>7
  <2>7. p \in Seq(Conns) /\ (\A d \in Clients \ {c} : Lends(d) => client[d].conn # k) /\ pool' = p
    BY <1>5, <1>9, <1>10
  <2> QED
    BY <1>4, <1>8, <2>2, <2>4, <2>5, <2>6, <2>7, ClientChange
<1>13. CASE ~(~conn[k].eof /\ conn[k].down = <<>>)
  <2>1. PICK r \in ConnRecords : r = Tensor!NoConn /\ r.client = "none" /\ Idle(r)
    BY NoConnFacts
  <2>2. PICK x \in ClientRecords : x = client[c] /\ x.step = "take"
    BY <1>9, <1>11
  <2>3. conn' = [conn EXCEPT ![k] = r] /\ client' = client
    BY <1>1, <1>13, <2>1 DEF Tensor!take_tensor_connection
  <2>4. client' = [client EXCEPT ![c] = x]
    BY <1>11, <2>2, <2>3
  <2>5. \A i \in 1..Len(p) : IF p[i] = k THEN r.client = "pooled" ELSE conn[p[i]].client = "pooled"
    BY <1>7
  <2>6. p \in Seq(Conns) /\ (\A d \in Clients \ {c} : Lends(d) => client[d].conn # k) /\ pool' = p
    BY <1>5, <1>9, <1>10
  <2>7. x.step \notin {"write", "read"} /\ Idle(r) /\ conn' = [conn EXCEPT ![k] = r]
    BY <2>1, <2>2, <2>3
  <2> QED
    BY <1>4, <1>8, <2>4, <2>5, <2>6, <2>7, ClientChange
<1> QED
  BY <1>12, <1>13

\* A new connection, or none.
LEMMA ConnectPreserves ==
  ASSUME TensorInv, NEW c \in Clients, Tensor!Connect(c) PROVE TensorInv'
<1>0. pool' = pool /\ client \in [Clients -> ClientRecords] /\ client[c] \in ClientRecords
      /\ client[c].step = "take"
  BY DEF Tensor!Connect, Tensor!At, TensorInv
<1>1. ASSUME NEW k \in Conns, conn[k] = Tensor!NoConn,
             conn' = [conn EXCEPT ![k] = [Tensor!NoConn EXCEPT !.client = "lent", !.server = "reading"]],
             client' = [client EXCEPT ![c].step = "write", ![c].conn = k]
      PROVE  TensorInv'
  <2>1. PICK r : r = [Tensor!NoConn EXCEPT !.client = "lent", !.server = "reading"]
    OBVIOUS
  <2>2. r \in ConnRecords /\ r.client = "lent" /\ Idle(r)
    BY <2>1, NoConnFacts DEF Tensor!NoConn, ConnRecords, Idle, Tensor!Kinds
  <2>3. PICK x : x = [client[c] EXCEPT !.step = "write", !.conn = k]
    OBVIOUS
  <2>4. x \in ClientRecords /\ x.step = "write" /\ x.conn = k
    BY <1>0, <2>3 DEF ClientRecords
  <2>5. conn' = [conn EXCEPT ![k] = r] /\ client' = [client EXCEPT ![c] = x]
    BY <1>0, <1>1, <2>1, <2>3
  <2>6. conn[k].client = "none"
    BY <1>1, NoConnFacts
  <2>7. \A d \in Clients : Lends(d) => client[d].conn # k
    BY <2>6, NotLent
  <2>8. \A i \in 1..Len(pool) : pool[i] # k /\ conn[pool[i]].client = "pooled"
    BY <2>6, PoolFacts
  <2> QED
    BY <1>0, <2>2, <2>4, <2>5, <2>7, <2>8, PoolFacts, ClientChange
<1>2. ASSUME Tensor!Ends(c), UNCHANGED conn PROVE TensorInv'
  <2>1. client' = [client EXCEPT ![c] = Tensor!NoCall]
    BY <1>2 DEF Tensor!Ends
  <2>2. client' \in [Clients -> ClientRecords] /\ client'[c].step = "idle"
        /\ \A d \in Clients \ {c} : client'[d] = client[d]
    BY <1>0, <2>1, NoCallFacts
  <2>3. \A d \in Clients : client'[d].step \in {"write", "read"} => client'[d] = client[d]
    BY <2>2
  <2> QED
    BY <1>0, <1>2, <2>2, <2>3 DEF TensorInv, Lends
<1> QED
  BY <1>1, <1>2 DEF Tensor!Connect

\* The request is written, or refused with its connection.
LEMMA WritePreserves ==
  ASSUME TensorInv, NEW c \in Clients, Tensor!Write(c) PROVE TensorInv'
<1>0. Lends(c) /\ client[c].step = "write" /\ pool' = pool
  BY DEF Tensor!Write, Tensor!At, Lends
<1>1. PICK k : k = client[c].conn
  OBVIOUS
<1>2. k \in Conns /\ (\A d \in Clients \ {c} : Lends(d) => client[d].conn # k)
      /\ (\A i \in 1..Len(pool) : pool[i] # k) /\ conn[k] \in ConnRecords /\ client[c] \in ClientRecords
  BY <1>0, <1>1, Alone
<1>3. conn \in [Conns -> ConnRecords] /\ client \in [Clients -> ClientRecords]
      /\ conn[k].client = "lent" /\ Idle(conn[k])
  BY <1>0, <1>1 DEF TensorInv
<1>4. ASSUME client' = [client EXCEPT ![c].step = "read"],
             conn' = [conn EXCEPT ![k].up = Append(@, [id |-> c, kind |-> client[c].kind])]
      PROVE  TensorInv'
  <2>1. PICK kind \in Tensor!Kinds : kind = client[c].kind
    BY <1>2 DEF ClientRecords
  <2>2. PICK f \in UpFrames : f = [id |-> c, kind |-> kind]
    BY DEF UpFrames
  <2>3. PICK r : r = [conn[k] EXCEPT !.up = <<f>>]
    OBVIOUS
  <2>4. conn[k].up = <<>> /\ Append(conn[k].up, f) = <<f>>
    BY <1>3 DEF Idle
  <2>5. <<f>> \in Seq(UpFrames)
    OBVIOUS
  <2>6. r \in ConnRecords /\ r.client = "lent"
    BY <1>2, <1>3, <2>3, <2>5 DEF ConnRecords
  <2>7. UnderWay(r, c, kind)
    <3>1. r.up = <<f>> /\ r.down = conn[k].down /\ r.server = conn[k].server
      BY <1>2, <2>3 DEF ConnRecords
    <3> QED
      BY <1>3, <2>2, <3>1 DEF UnderWay, Idle
  <2>8. PICK x : x = [client[c] EXCEPT !.step = "read"]
    OBVIOUS
  <2>9. x \in ClientRecords /\ x.step = "read" /\ x.conn = k /\ x.kind = kind
    BY <1>1, <1>2, <2>1, <2>8 DEF ClientRecords
  <2>10. conn' = [conn EXCEPT ![k] = r] /\ client' = [client EXCEPT ![c] = x]
    BY <1>2, <1>3, <1>4, <2>1, <2>2, <2>3, <2>4, <2>8
  <2>11. \A i \in 1..Len(pool) : IF pool[i] = k THEN r.client = "pooled" ELSE conn[pool[i]].client = "pooled"
    BY <1>2, PoolFacts
  <2> QED
    BY <1>0, <1>2, <2>6, <2>7, <2>9, <2>10, <2>11, PoolFacts, ClientChange
<1>5. ASSUME Tensor!Ends(c), conn' = [conn EXCEPT ![k] = Tensor!NoConn] PROVE TensorInv'
  BY <1>0, <1>1, <1>5, CallDrops
<1> QED
  BY <1>1, <1>4, <1>5 DEF Tensor!Write

\* The answer is read: the connection has carried all there was.
LEMMA ReadPreserves ==
  ASSUME TensorInv, NEW c \in Clients, Tensor!Read(c) PROVE TensorInv'
<1>0. Lends(c) /\ client[c].step = "read" /\ Tensor!Ends(c)
  BY DEF Tensor!Read, Tensor!At, Lends
<1>1. PICK k : k = client[c].conn
  OBVIOUS
<1>2. k \in Conns /\ (\A d \in Clients \ {c} : Lends(d) => client[d].conn # k)
      /\ (\A i \in 1..Len(pool) : pool[i] # k) /\ conn[k] \in ConnRecords
  BY <1>0, <1>1, Alone
<1>3. conn[k].down # <<>> /\ Tensor!Returned(k)
  BY <1>1 DEF Tensor!Read
<1>4. CASE Len(pool) < MaxPooled
  <2>1. pool' = Append(pool, k) /\ conn' = [conn EXCEPT ![k].client = "pooled", ![k].down = Tail(@)]
    BY <1>3, <1>4 DEF Tensor!Returned
  <2>2. UnderWay(conn[k], c, client[c].kind)
    BY <1>0, <1>1 DEF TensorInv
  <2>3. PICK f : conn[k].up = <<>> /\ conn[k].server \notin Tensor!Kinds /\ conn[k].down = <<f>>
    BY <1>3, <2>2 DEF UnderWay
  <2>4. Tail(conn[k].down) = <<>>
    BY <2>3
  <2>5. PICK r : r = [conn[k] EXCEPT !.client = "pooled", !.down = <<>>]
    OBVIOUS
  <2>6. <<>> \in Seq(DownFrames)
    OBVIOUS
  <2>7. r \in ConnRecords /\ r.client = "pooled" /\ Idle(r)
    BY <1>2, <2>3, <2>5, <2>6 DEF ConnRecords, Idle
  <2>8. conn \in [Conns -> ConnRecords]
    BY DEF TensorInv
  <2>9. conn' = [conn EXCEPT ![k] = r]
    BY <1>2, <2>1, <2>4, <2>5, <2>8
  <2>10. PICK x \in ClientRecords : x = Tensor!NoCall /\ x.step \notin {"write", "read"}
    BY NoCallFacts
  <2>11. client' = [client EXCEPT ![c] = x]
    BY <1>0, <2>10 DEF Tensor!Ends
  <2>12. PICK p : p = Append(pool, k)
    OBVIOUS
  <2>13. /\ p \in Seq(Conns) /\ Len(p) = Len(pool) + 1 /\ Len(pool) \in Nat
         /\ p[Len(pool) + 1] = k /\ \A i \in 1..Len(pool) : p[i] = pool[i]
    BY <1>2, <2>12, PoolFacts
  <2>14. \A i \in 1..Len(p) : i = Len(pool) + 1 \/ i \in 1..Len(pool)
    BY <2>13
  <2>15. \A i \in 1..Len(p) : IF p[i] = k THEN r.client = "pooled" ELSE conn[p[i]].client = "pooled"
    BY <2>7, <2>13, <2>14, PoolFacts
  <2>16. \A i, j \in 1..Len(p) : p[i] = p[j] => i = j
    BY <1>2, <2>13, <2>14, PoolFacts
  <2>17. pool' = p
    BY <2>1, <2>12
  <2> QED
    BY <1>2, <2>7, <2>9, <2>10, <2>11, <2>13, <2>15, <2>16, <2>17, ClientChange
<1>5. CASE ~(Len(pool) < MaxPooled)
  <2>1. pool' = pool /\ conn' = [conn EXCEPT ![client[c].conn] = Tensor!NoConn]
    BY <1>1, <1>3, <1>5 DEF Tensor!Returned
  <2> QED
    BY <1>0, <2>1, CallDrops
<1> QED
  BY <1>4, <1>5

\* The server reads a request.
LEMMA ServePreserves ==
  ASSUME TensorInv, NEW k \in Conns, Tensor!ServeRequest(k) PROVE TensorInv'
<1>1. conn \in [Conns -> ConnRecords] /\ conn[k] \in ConnRecords
  BY DEF TensorInv
<1>2. PICK u \in Seq(UpFrames) : u = conn[k].up
  BY <1>1 DEF ConnRecords
<1>3. u # <<>> /\ conn[k].server = "reading"
  BY <1>2 DEF Tensor!ServeRequest
<1>4. PICK f \in UpFrames : f = Head(u)
  BY <1>2, <1>3
<1>5. Tail(u) \in Seq(UpFrames)
  BY <1>2, <1>3
<1>6. PICK r : r = [conn[k] EXCEPT !.server = f.kind, !.request = f.id, !.up = Tail(u)]
  OBVIOUS
<1>7. conn' = [conn EXCEPT ![k] = r]
  BY <1>1, <1>2, <1>4, <1>6 DEF Tensor!ServeRequest
<1>8. f.kind \in {"ask", "tell"} /\ f.id \in Clients
  BY <1>4 DEF UpFrames, Tensor!Kinds
<1>9. /\ r \in ConnRecords /\ r.client = conn[k].client
      /\ r.server = f.kind /\ r.request = f.id /\ r.up = Tail(u) /\ r.down = conn[k].down
  BY <1>1, <1>5, <1>6, <1>8 DEF ConnRecords
<1>10. ~Idle(conn[k])
  BY <1>2, <1>3 DEF Idle
<1>11. ASSUME NEW c \in Clients, NEW kind \in Tensor!Kinds, UnderWay(conn[k], c, kind)
       PROVE  UnderWay(r, c, kind)
  <2>1. u = <<[id |-> c, kind |-> kind]>> /\ conn[k].down = <<>>
    BY <1>2, <1>3, <1>11 DEF UnderWay, Tensor!Kinds
  <2>2. PICK g : g = [id |-> c, kind |-> kind]
    OBVIOUS
  <2>3. u = <<g>> /\ g.id = c /\ g.kind = kind
    BY <2>1, <2>2
  <2>4. f = g /\ Tail(u) = <<>>
    BY <1>4, <2>3
  <2> QED
    BY <1>9, <2>1, <2>3, <2>4 DEF UnderWay
<1>12. UNCHANGED <<pool, client>>
  BY DEF Tensor!ServeRequest
<1> QED
  BY <1>7, <1>9, <1>10, <1>11, <1>12, ServerChange

\* It answers.
LEMMA AnswerPreserves ==
  ASSUME TensorInv, NEW k \in Conns, Tensor!Answer(k) PROVE TensorInv'
<1>1. conn \in [Conns -> ConnRecords] /\ conn[k] \in ConnRecords
  BY DEF TensorInv
<1>2. conn[k].server \in {"ask", "tell"}
  BY DEF Tensor!Answer, Tensor!Kinds
<1>3. PICK a \in Answers(conn[k].server) :
        conn' = [conn EXCEPT ![k] =
                  [conn[k] EXCEPT !.down = Append(@, [id |-> conn[k].request, kind |-> a]),
                            !.request = 0, !.served = @ + 1,
                            !.server = IF conn[k].served + 1 >= MaxServed THEN "closed" ELSE "reading"]]
  BY DEF Tensor!Answer, Answers
<1>4. PICK f : f = [id |-> conn[k].request, kind |-> a]
  OBVIOUS
<1>5. PICK server \in {"closed", "reading"} :
        server = IF conn[k].served + 1 >= MaxServed THEN "closed" ELSE "reading"
  OBVIOUS
<1>6. PICK d \in Seq(DownFrames), n \in Nat : d = conn[k].down /\ n = conn[k].served
  BY <1>1 DEF ConnRecords
<1>7. f \in DownFrames /\ f.id = conn[k].request /\ f.kind = a
  <2>1. conn[k].request \in Clients \cup {0}
    BY <1>1 DEF ConnRecords
  <2>2. a \in {"tensor", "single", "ack", "failed"}
    BY <1>3 DEF Answers
  <2> QED
    BY <1>4, <2>1, <2>2 DEF DownFrames
<1>8. PICK e \in Seq(DownFrames), m \in Nat : e = Append(d, f) /\ m = n + 1
  <2>1. Append(d, f) \in Seq(DownFrames)
    BY <1>6, <1>7
  <2>2. n + 1 \in Nat
    BY <1>6
  <2> QED
    BY <2>1, <2>2
<1>9. PICK r : r = [conn[k] EXCEPT !.down = e, !.request = 0, !.served = m, !.server = server]
  OBVIOUS
<1>10. conn' = [conn EXCEPT ![k] = r]
  <2>1. r = [conn[k] EXCEPT !.down = Append(@, [id |-> conn[k].request, kind |-> a]),
                            !.request = 0, !.served = @ + 1,
                            !.server = IF conn[k].served + 1 >= MaxServed THEN "closed" ELSE "reading"]
    BY <1>1, <1>6, <1>8, <1>9, <1>4, <1>5 DEF ConnRecords
  <2> QED
    BY <1>3, <2>1, Zenon
<1>11. /\ r \in ConnRecords /\ r.client = conn[k].client
      /\ r.server = server /\ r.up = conn[k].up /\ r.down = e
  BY <1>1, <1>5, <1>8, <1>9 DEF ConnRecords
<1>12. ~Idle(conn[k])
  BY <1>2 DEF Idle, Tensor!Kinds
<1>13. ASSUME NEW c \in Clients, NEW kind \in Tensor!Kinds, UnderWay(conn[k], c, kind)
       PROVE  UnderWay(r, c, kind)
  <2>1. conn[k].up = <<>> /\ conn[k].down = <<>> /\ conn[k].server = kind /\ conn[k].request = c
    BY <1>2, <1>13 DEF UnderWay, Tensor!Kinds
  <2>2. Append(d, f) = <<f>>
    BY <1>6, <2>1
  <2>3. f = [id |-> c, kind |-> a] /\ a \in Answers(kind)
    BY <1>3, <1>4, <2>1
  <2>4. r.server \notin Tensor!Kinds
    BY <1>5, <1>11 DEF Tensor!Kinds
  <2>5. r.down = <<[id |-> c, kind |-> a]>> /\ r.up = <<>>
    BY <1>8, <1>11, <2>1, <2>2, <2>3
  <2> QED
    BY <2>3, <2>4, <2>5 DEF UnderWay
<1>14. UNCHANGED <<pool, client>>
  BY DEF Tensor!Answer
<1> QED
  BY <1>10, <1>11, <1>12, <1>13, <1>14, ServerChange

\* It closes, and the client's end hears of it.
LEMMA ClosePreserves ==
  ASSUME TensorInv, NEW k \in Conns, Tensor!Close(k) \/ Tensor!HearClose(k) PROVE TensorInv'
<1>1. conn \in [Conns -> ConnRecords] /\ conn[k] \in ConnRecords
  BY DEF TensorInv
<1>2. PICK r \in ConnRecords :
        /\ conn' = [conn EXCEPT ![k] = r]
        /\ r.client = conn[k].client /\ r.up = conn[k].up /\ r.down = conn[k].down
        /\ r.server \notin Tensor!Kinds
  <2>1. CASE Tensor!Close(k)
    <3>1. PICK r : r = [conn[k] EXCEPT !.server = "closed", !.request = 0]
      OBVIOUS
    <3>2. r \in ConnRecords /\ r.client = conn[k].client /\ r.up = conn[k].up
          /\ r.down = conn[k].down /\ r.server = "closed"
      BY <1>1, <3>1 DEF ConnRecords
    <3>3. conn' = [conn EXCEPT ![k] = r]
      BY <1>1, <2>1, <3>1 DEF Tensor!Close
    <3> QED
      BY <3>2, <3>3 DEF Tensor!Kinds
  <2>2. CASE Tensor!HearClose(k)
    <3>1. PICK r : r = [conn[k] EXCEPT !.eof = TRUE]
      OBVIOUS
    <3>2. r \in ConnRecords /\ r.client = conn[k].client /\ r.up = conn[k].up
          /\ r.down = conn[k].down /\ r.server = "closed"
      BY <1>1, <2>2, <3>1 DEF ConnRecords, Tensor!HearClose
    <3>3. conn' = [conn EXCEPT ![k] = r]
      BY <1>1, <2>2, <3>1 DEF Tensor!HearClose
    <3> QED
      BY <3>2, <3>3 DEF Tensor!Kinds
  <2> QED
    BY <2>1, <2>2
<1>3. Idle(conn[k]) => Idle(r)
  BY <1>2 DEF Idle
<1>4. \A c \in Clients, kind \in Tensor!Kinds : UnderWay(conn[k], c, kind) => UnderWay(r, c, kind)
  BY <1>2 DEF UnderWay
<1>5. UNCHANGED <<pool, client>>
  BY DEF Tensor!Close, Tensor!HearClose
<1> QED
  BY <1>2, <1>3, <1>4, <1>5, ServerChange

LEMMA TensorNext == TensorInv /\ Tensor!Next => TensorInv'
<1> SUFFICES ASSUME TensorInv, Tensor!Next PROVE TensorInv'
  OBVIOUS
<1>1. ASSUME NEW c \in Clients, Tensor!ReadFails(c) \/ Tensor!TimesOut(c) PROVE TensorInv'
  <2>1. Lends(c) /\ Tensor!Ends(c) /\ pool' = pool
        /\ conn' = [conn EXCEPT ![client[c].conn] = Tensor!NoConn]
    BY <1>1 DEF Tensor!ReadFails, Tensor!TimesOut, Tensor!At, Lends
  <2> QED
    BY <2>1, CallDrops
<1> QED
  BY <1>1, BeginPreserves, TakePreserves, ConnectPreserves, WritePreserves, ReadPreserves,
     ServePreserves, AnswerPreserves, ClosePreserves
    DEF Tensor!Next

LEMMA TensorInit == Tensor!Init => TensorInv
<1> SUFFICES ASSUME Tensor!Init PROVE TensorInv
  OBVIOUS
<1>1. pool = <<>> /\ Len(pool) = 0 /\ pool \in Seq(Conns)
  BY DEF Tensor!Init
<1>2. conn = [k \in Conns |-> Tensor!NoConn] /\ client = [c \in Clients |-> Tensor!NoCall]
  BY DEF Tensor!Init
<1>3. conn \in [Conns -> ConnRecords] /\ client \in [Clients -> ClientRecords]
  BY <1>2, NoConnFacts, NoCallFacts
<1>4. \A c \in Clients : client[c].step = "idle"
  BY <1>2, NoCallFacts
<1>5. \A k \in Conns : Idle(conn[k])
  BY <1>2, NoConnFacts
<1> QED
  BY <1>1, <1>3, <1>4, <1>5 DEF TensorInv, Lends

\* The invariant says whose answer is on the way.
LEMMA TensorAnswer == TensorInv => Tensor!AnswerIsMine
<1> SUFFICES ASSUME TensorInv, NEW c \in Clients, client[c].step = "read",
                    NEW frame \in Tensor!Range(conn[client[c].conn].down)
             PROVE  frame.id = c /\ frame.kind \in Answers(client[c].kind)
  BY DEF Tensor!AnswerIsMine, Tensor!At, Answers
<1>1. PICK d : d = conn[client[c].conn].down
  OBVIOUS
<1>2. UnderWay(conn[client[c].conn], c, client[c].kind)
  BY DEF TensorInv
<1>3. PICK i \in DOMAIN d : frame = d[i]
  BY <1>1 DEF Tensor!Range
<1>4. d # <<>>
  BY <1>3
<1>5. PICK a \in Answers(client[c].kind) : d = <<[id |-> c, kind |-> a]>>
  BY <1>1, <1>2, <1>4 DEF UnderWay
<1>6. frame = [id |-> c, kind |-> a]
  BY <1>3, <1>5
<1> QED
  BY <1>5, <1>6

\* A step of another part leaves the connections alone.
LEMMA TensorStep ==
  TensorInv /\ [PackNext]_<<part, vars, lockVars, remoteVars, tensorVars>> => TensorInv'
<1> SUFFICES ASSUME TensorInv, [PackNext]_<<part, vars, lockVars, remoteVars, tensorVars>>
             PROVE  TensorInv'
  OBVIOUS
<1>1. ASSUME UNCHANGED tensorVars PROVE TensorInv'
  BY <1>1 DEF TensorInv, Lends, tensorVars
<1> QED
  BY <1>1, TensorNext DEF PackNext

\* What a caller reads from a pooled tensor connection is the answer to its own
\* request (take_tensor_connection, return_tensor_connection, serve_raw_tensor),
\* for any number of callers, connections and requests per connection.
THEOREM AnswersAreMine == PackSpec => []AnswerIsMine
<1>1. PackInit => TensorInv
  BY TensorInit DEF PackInit
<1>2. TensorInv => AnswerIsMine
  BY TensorAnswer DEF AnswerIsMine
<1> QED
  BY <1>1, <1>2, TensorStep, PTL DEF PackSpec


-----------------------------------------------------------------------------
(* Remote calls                                                            *)

CallRecords ==
  [step : {"idle", "connect", "dial", "sleep", "sent"}, kind : Remote!Kinds, attempt : Nat,
   sleep : Int, reply : {"none", "ok", "error"}, lost : BOOLEAN]

\* Where mailbox m holds messages of call c.
Slots(m, c) == {i \in 1..Len(m) : m[i][1] = c}

\* With requests w at the server, mailbox m and h handlings: c's message was not
\* sent, or is in one place only and was handled at most once.
Unsent(w, m, h, c) == w = {} /\ Slots(m, c) = {} /\ h = 0
Single(w, m, h, c) ==
  /\ \A a, b \in w : a = b
  /\ \A i, j \in Slots(m, c) : i = j
  /\ w # {} => Slots(m, c) = {} /\ h = 0
  /\ Slots(m, c) # {} => h = 0
  /\ h <= 1

\* A message that is not gossip, and whose connection has not broken if it is a
\* tell, is sent once; before that, it is nowhere.
Once(k, w, m, h, c) ==
  k.kind # "gossip" /\ (k.kind = "message" \/ ~k.lost) =>
    /\ Single(w, m, h, c)
    /\ k.step \in {"connect", "dial", "sleep"} => Unsent(w, m, h, c)

RemoteInv ==
  /\ call \in [Messages -> CallRecords] /\ wire \in [Messages -> SUBSET Nat]
  /\ mailbox \in Seq(Messages \X Nat) /\ handled \in [Messages -> Nat]
  /\ \A c \in Messages : Once(call[c], wire[c], mailbox, handled[c], c)

\* The call of c is k from now on, and nothing else happens to messages.
LEMMA CallChange ==
  ASSUME RemoteInv, NEW c \in Messages, NEW k \in CallRecords,
         Once(k, wire[c], mailbox, handled[c], c),
         call' = [call EXCEPT ![c] = k], UNCHANGED <<wire, mailbox, handled>>
  PROVE  RemoteInv'
<1>1. call \in [Messages -> CallRecords]
  BY DEF RemoteInv
<1>2. call' \in [Messages -> CallRecords] /\ call'[c] = k
      /\ \A d \in Messages \ {c} : call'[d] = call[d]
  BY <1>1
<1>3. ASSUME NEW d \in Messages PROVE Once(call'[d], wire[d], mailbox, handled[d], d)
  BY <1>2 DEF RemoteInv
<1> QED
  BY <1>2, <1>3 DEF RemoteInv

\* One call's fields, and where its message is.
LEMMA CallFacts ==
  ASSUME RemoteInv, NEW c \in Messages
  PROVE  /\ call \in [Messages -> CallRecords] /\ call[c] \in CallRecords
         /\ wire[c] \subseteq Nat /\ handled[c] \in Nat
         /\ Once(call[c], wire[c], mailbox, handled[c], c)
BY DEF RemoteInv

\* What was not sent is in no place.
LEMMA UnsentIsSingle ==
  ASSUME NEW w, NEW m, NEW h, NEW c, Unsent(w, m, h, c) PROVE Single(w, m, h, c)
BY DEF Unsent, Single

\* An attempt fails: a tell or an ask of an actor is tried again only if it was
\* not sent, or if it is a tell and the connection is gone (is_retryable).
LEMMA FailureOnce ==
  ASSUME NEW k \in CallRecords, NEW w, NEW m, NEW h, NEW c, Once(k, w, m, h, c),
         NEW class, class = "Connection" => k.lost \/ k.step \in {"connect", "dial"},
         NEW delay \in Int
  PROVE  /\ Remote!AfterFailure(k, class, delay) \in CallRecords
         /\ Once(Remote!AfterFailure(k, class, delay), w, m, h, c)
<1>1. PICK x : x = Remote!AfterFailure(k, class, delay)
  OBVIOUS
<1> DEFINE again == k.kind # "message" /\ k.attempt < MaxRetries /\ Remote!is_retryable(class, k.kind)
<1>2. CASE again
  <2>1. PICK a \in Nat : a = k.attempt + 1
    BY DEF CallRecords
  <2>2. x = [k EXCEPT !.step = "sleep", !.attempt = a, !.sleep = delay, !.reply = "none"]
    BY <1>1, <1>2, <2>1 DEF Remote!AfterFailure
  <2>3. x \in CallRecords /\ x.kind = k.kind /\ x.lost = k.lost
    BY <2>1, <2>2 DEF CallRecords
  <2>4. k.kind = "gossip" \/ class = "Connection"
    BY <1>2 DEF Remote!is_retryable
  <2>5. Once(x, w, m, h, c)
    BY <1>2, <2>3, <2>4 DEF Once
  <2> QED
    BY <1>1, <2>3, <2>5
<1>3. CASE ~again
  <2>1. x = [k EXCEPT !.step = "idle", !.reply = "none"]
    BY <1>1, <1>3 DEF Remote!AfterFailure
  <2>2. x \in CallRecords /\ x.kind = k.kind /\ x.lost = k.lost /\ x.step = "idle"
    BY <2>1 DEF CallRecords
  <2>3. Once(x, w, m, h, c)
    BY <2>2 DEF Once
  <2> QED
    BY <1>1, <2>2, <2>3
<1> QED
  BY <1>2, <1>3

\* So a failure preserves the invariant.
LEMMA FailsPreserves ==
  ASSUME RemoteInv, NEW c \in Messages, NEW k \in CallRecords,
         Once(k, wire[c], mailbox, handled[c], c),
         NEW class, class = "Connection" => k.lost \/ k.step \in {"connect", "dial"},
         Remote!Fails(c, k, class), UNCHANGED <<wire, mailbox, handled>>
  PROVE  RemoteInv'
<1>1. PICK delay \in Remote!Delays(k.attempt + 1) :
        call' = [call EXCEPT ![c] = Remote!AfterFailure(k, class, delay)]
  BY DEF Remote!Fails
<1>2. delay \in Int
  BY DEF Remote!Delays
<1>3. PICK x : x = Remote!AfterFailure(k, class, delay)
  OBVIOUS
<1>4. x \in CallRecords /\ Once(x, wire[c], mailbox, handled[c], c)
  BY <1>2, <1>3, FailureOnce
<1>5. call' = [call EXCEPT ![c] = x]
  BY <1>1, <1>3
<1> QED
  BY <1>4, <1>5, CallChange

\* A request goes out: nothing of it was anywhere before.
LEMMA SendsPreserves ==
  ASSUME RemoteInv, NEW c \in Messages, Remote!Sends(c, call[c]),
         call[c].step \in {"connect", "dial"}
  PROVE  RemoteInv'
<1>1. PICK k : k = [call[c] EXCEPT !.step = "sent"]
  OBVIOUS
<1>2. PICK a \in Nat : a = call[c].attempt
  BY CallFacts DEF CallRecords
<1>3. k \in CallRecords /\ k.kind = call[c].kind /\ k.lost = call[c].lost /\ k.step = "sent"
  BY <1>1, CallFacts DEF CallRecords
<1>4. call' = [call EXCEPT ![c] = k] /\ wire' = [wire EXCEPT ![c] = @ \cup {a}]
      /\ UNCHANGED <<mailbox, handled>>
  BY <1>1, <1>2 DEF Remote!Sends
<1>5. call \in [Messages -> CallRecords] /\ wire \in [Messages -> SUBSET Nat]
  BY DEF RemoteInv
<1>6. call' \in [Messages -> CallRecords] /\ wire' \in [Messages -> SUBSET Nat]
  BY <1>2, <1>3, <1>4, <1>5
<1>7. call'[c] = k /\ wire'[c] = wire[c] \cup {a}
      /\ \A d \in Messages \ {c} : call'[d] = call[d] /\ wire'[d] = wire[d]
  BY <1>4, <1>5
<1>8. Once(k, wire[c] \cup {a}, mailbox, handled[c], c)
  <2>1. SUFFICES ASSUME k.kind # "gossip" /\ (k.kind = "message" \/ ~k.lost)
                 PROVE  Single(wire[c] \cup {a}, mailbox, handled[c], c)
    BY <1>3 DEF Once
  <2>2. Unsent(wire[c], mailbox, handled[c], c)
    BY <1>3, <2>1, CallFacts DEF Once
  <2> QED
    BY <2>2 DEF Unsent, Single
<1>9. ASSUME NEW d \in Messages PROVE Once(call'[d], wire'[d], mailbox', handled'[d], d)
  <2>1. CASE d = c
    BY <1>4, <1>7, <1>8, <2>1
  <2>2. CASE d # c
    <3>1. call'[d] = call[d] /\ wire'[d] = wire[d] /\ mailbox' = mailbox /\ handled' = handled
      BY <1>4, <1>7, <2>2
    <3>2. Once(call[d], wire[d], mailbox, handled[d], d)
      BY CallFacts
    <3> QED
      BY <3>1, <3>2
  <2> QED
    BY <2>1, <2>2
<1> QED
  BY <1>4, <1>6, <1>9 DEF RemoteInv

\* A new call, once nothing of the last one is on the way.
LEMMA CallBegins == ASSUME RemoteInv, NEW c \in Messages, Remote!Begin(c) PROVE RemoteInv'
<1>1. PICK kind \in Remote!Kinds :
        call' = [call EXCEPT ![c] = [Remote!NoCall EXCEPT !.step = "connect", !.kind = kind]]
  BY DEF Remote!Begin
<1>2. PICK k : k = [Remote!NoCall EXCEPT !.step = "connect", !.kind = kind]
  OBVIOUS
<1>3. k \in CallRecords
  <2>1. k = [step |-> "connect", kind |-> kind, attempt |-> 0, sleep |-> 0,
             reply |-> "none", lost |-> FALSE]
    BY <1>2 DEF Remote!NoCall
  <2> QED
    BY <2>1 DEF CallRecords
<1>4. call \in [Messages -> CallRecords] /\ handled \in [Messages -> Nat]
  BY DEF RemoteInv
<1>5. call' = [call EXCEPT ![c] = k] /\ handled' = [handled EXCEPT ![c] = 0]
      /\ UNCHANGED <<wire, mailbox>>
  BY <1>1, <1>2 DEF Remote!Begin
<1>6. call' \in [Messages -> CallRecords] /\ handled' \in [Messages -> Nat]
      /\ call'[c] = k /\ handled'[c] = 0
      /\ \A d \in Messages \ {c} : call'[d] = call[d] /\ handled'[d] = handled[d]
  BY <1>3, <1>4, <1>5
<1>7. wire[c] = {} /\ Slots(mailbox, c) = {}
  <2>1. mailbox \in Seq(Messages \X Nat)
    BY DEF RemoteInv
  <2> QED
    BY <2>1 DEF Remote!Begin, Remote!Queued, Slots
<1>8. Unsent(wire[c], mailbox, 0, c)
  BY <1>7 DEF Unsent
<1>9. Once(k, wire[c], mailbox, 0, c)
  BY <1>8, UnsentIsSingle DEF Once
<1>10. ASSUME NEW d \in Messages PROVE Once(call'[d], wire[d], mailbox, handled'[d], d)
  BY <1>6, <1>9, CallFacts
<1> QED
  BY <1>5, <1>6, <1>10 DEF RemoteInv

\* The client's own steps.
LEMMA ClientPreserves == ASSUME RemoteInv, NEW c \in Messages, Remote!ClientStep(c) PROVE RemoteInv'
<1>0. /\ call \in [Messages -> CallRecords] /\ call[c] \in CallRecords
      /\ Once(call[c], wire[c], mailbox, handled[c], c)
  BY CallFacts
<1>1. ASSUME NEW step \in {"idle", "connect", "dial", "sleep", "sent"},
             Remote!Go(c, step), UNCHANGED <<wire, mailbox, handled>>,
             step = "idle" \/ call[c].step \in {"connect", "dial", "sleep"}
      PROVE  RemoteInv'
  <2>1. PICK k : k = [call[c] EXCEPT !.step = step]
    OBVIOUS
  <2>2. k \in CallRecords /\ k.kind = call[c].kind /\ k.lost = call[c].lost /\ k.step = step
    BY <1>0, <2>1 DEF CallRecords
  <2>3. call' = [call EXCEPT ![c] = k]
    BY <1>0, <1>1, <2>1 DEF Remote!Go
  <2>4. Once(k, wire[c], mailbox, handled[c], c)
    BY <1>0, <1>1, <2>2 DEF Once
  <2> QED
    BY <1>1, <2>2, <2>3, <2>4, CallChange
<1>2. CASE Remote!Reuse(c)
  BY <1>2, SendsPreserves DEF Remote!Reuse, Remote!At
<1>3. CASE Remote!CheckBackoff(c)
  <2>1. call[c].step = "connect" /\ UNCHANGED <<wire, mailbox, handled>>
        /\ (Remote!Fails(c, call[c], "Unknown") \/ Remote!Go(c, "dial"))
    BY <1>3 DEF Remote!CheckBackoff, Remote!At, Remote!serverVars
  <2>2. CASE Remote!Go(c, "dial")
    BY <1>1, <2>1, <2>2
  <2>3. CASE Remote!Fails(c, call[c], "Unknown")
    BY <1>0, <2>1, <2>3, FailsPreserves
  <2> QED
    BY <2>1, <2>2, <2>3
<1>4. CASE Remote!Dial(c)
  BY <1>4, SendsPreserves DEF Remote!Dial, Remote!At
<1>5. CASE Remote!DialFails(c)
  <2>1. call[c].step = "dial" /\ UNCHANGED <<wire, mailbox, handled>>
        /\ Remote!Fails(c, call[c], "Connection")
    BY <1>5 DEF Remote!DialFails, Remote!At, Remote!serverVars
  <2> QED
    BY <1>0, <2>1, FailsPreserves
<1>6. CASE Remote!Answered(c)
  <2>1. UNCHANGED <<wire, mailbox, handled>>
    BY <1>6 DEF Remote!Answered, Remote!serverVars
  <2>2. ASSUME call' = [call EXCEPT ![c].step = "idle"] PROVE RemoteInv'
    <3>1. Remote!Go(c, "idle")
      BY <2>2 DEF Remote!Go
    <3> QED
      BY <1>1, <2>1, <3>1
  <2>3. ASSUME NEW class,
               Remote!Fails(c, [call[c] EXCEPT !.lost = @ \/ class = "Connection"], class)
        PROVE  RemoteInv'
    <3>1. PICK l \in BOOLEAN : l = (call[c].lost \/ class = "Connection")
      BY <1>0 DEF CallRecords
    <3>2. PICK k : k = [call[c] EXCEPT !.lost = l]
      OBVIOUS
    <3>3. k \in CallRecords /\ k.kind = call[c].kind /\ k.step = call[c].step /\ k.lost = l
      BY <1>0, <3>1, <3>2 DEF CallRecords
    <3>4. k = [call[c] EXCEPT !.lost = @ \/ class = "Connection"]
      BY <1>0, <3>1, <3>2 DEF CallRecords
    <3>5. Remote!Fails(c, k, class)
      BY <2>3, <3>4
    <3>6. Once(k, wire[c], mailbox, handled[c], c)
      BY <1>0, <3>1, <3>3 DEF Once
    <3> QED
      BY <2>1, <3>1, <3>3, <3>5, <3>6, FailsPreserves
  <2> QED
    BY <1>6, <2>2, <2>3 DEF Remote!Answered
<1>7. CASE Remote!Lost(c)
  <2>1. UNCHANGED <<wire, mailbox, handled>>
    BY <1>7 DEF Remote!Lost, Remote!serverVars
  <2>2. PICK class : Remote!Fails(c, [call[c] EXCEPT !.lost = TRUE], class)
    BY <1>7 DEF Remote!Lost
  <2>3. PICK k : k = [call[c] EXCEPT !.lost = TRUE]
    OBVIOUS
  <2>4. k \in CallRecords /\ k.kind = call[c].kind /\ k.step = call[c].step /\ k.lost
    BY <1>0, <2>3 DEF CallRecords
  <2>5. Once(k, wire[c], mailbox, handled[c], c)
    BY <1>0, <2>4 DEF Once
  <2>6. Remote!Fails(c, k, class)
    BY <2>2, <2>3
  <2> QED
    BY <2>1, <2>4, <2>5, <2>6, FailsPreserves
<1>8. CASE Remote!TimedOut(c)
  <2>1. UNCHANGED <<wire, mailbox, handled>> /\ Remote!Fails(c, call[c], "Timeout")
    BY <1>8 DEF Remote!TimedOut, Remote!serverVars
  <2> QED
    BY <1>0, <2>1, FailsPreserves
<1>9. CASE Remote!Awake(c)
  <2>1. call[c].step = "sleep" /\ Remote!Go(c, "connect") /\ UNCHANGED <<wire, mailbox, handled>>
    BY <1>9 DEF Remote!Awake, Remote!At, Remote!serverVars
  <2> QED
    BY <1>1, <2>1
<1> QED
  BY <1>2, <1>3, <1>4, <1>5, <1>6, <1>7, <1>8, <1>9 DEF Remote!ClientStep

-----------------------------------------------------------------------------

\* The mailbox after an envelope of c came in.
LEMMA SlotsAppend ==
  ASSUME NEW m \in Seq(Messages \X Nat), NEW c \in Messages, NEW a \in Nat
  PROVE  LET n == Append(m, <<c, a>>)
         IN /\ n \in Seq(Messages \X Nat)
            /\ \A d \in Messages \ {c} : Slots(n, d) = Slots(m, d)
            /\ Slots(n, c) = Slots(m, c) \cup {Len(m) + 1}
<1>1. PICK e \in Messages \X Nat : e = <<c, a>> /\ e[1] = c
  <2>1. <<c, a>> \in Messages \X Nat /\ <<c, a>>[1] = c
    OBVIOUS
  <2> QED
    BY <2>1
<1>2. PICK n : n = Append(m, e)
  OBVIOUS
<1>3. /\ n \in Seq(Messages \X Nat) /\ Len(n) = Len(m) + 1 /\ Len(m) \in Nat
      /\ n[Len(m) + 1] = e /\ \A i \in 1..Len(m) : n[i] = m[i]
  BY <1>1, <1>2
<1>4. \A i : i \in 1..Len(n) <=> i \in 1..Len(m) \/ i = Len(m) + 1
  BY <1>3
<1>5. \A d \in Messages \ {c} : Slots(n, d) = Slots(m, d)
  BY <1>1, <1>3, <1>4 DEF Slots
<1>6. Slots(n, c) = Slots(m, c) \cup {Len(m) + 1}
  BY <1>1, <1>3, <1>4 DEF Slots
<1> QED
  BY <1>1, <1>2, <1>3, <1>5, <1>6

\* And after the first envelope was taken.
LEMMA SlotsTail ==
  ASSUME NEW m \in Seq(Messages \X Nat), m # <<>>
  PROVE  /\ Tail(m) \in Seq(Messages \X Nat)
         /\ \A d \in Messages : \A i \in Slots(Tail(m), d) : i \in Nat /\ i # 0 /\ i + 1 \in Slots(m, d)
         /\ 1 \in Slots(m, m[1][1]) /\ m[1] \in Messages \X Nat
<1>1. PICK n : n = Tail(m)
  OBVIOUS
<1>2. /\ n \in Seq(Messages \X Nat) /\ Len(n) = Len(m) - 1 /\ Len(m) \in Nat /\ Len(m) # 0
      /\ Len(n) \in Nat /\ m[1] \in Messages \X Nat /\ 1 \in 1..Len(m)
  BY <1>1
<1>3. \A i \in 1..Len(n) : n[i] = m[i + 1] /\ i + 1 \in 1..Len(m) /\ i \in Nat /\ i # 0
  BY <1>1, <1>2
<1>4. \A d \in Messages : \A i \in Slots(n, d) : i \in Nat /\ i # 0 /\ i + 1 \in Slots(m, d)
  BY <1>3 DEF Slots
<1>5. 1 \in Slots(m, m[1][1])
  BY <1>2 DEF Slots
<1> QED
  BY <1>1, <1>2, <1>4, <1>5

\* Fewer envelopes, and no more requests: what was sent once stays so.
LEMMA OnceKept ==
  ASSUME NEW k, NEW j, NEW w, NEW v, NEW m, NEW n, NEW h, NEW c,
         Once(k, w, m, h, c), v \subseteq w,
         j.kind = k.kind, j.lost = k.lost, j.step = k.step,
         Slots(m, c) = {} => Slots(n, c) = {},
         (\A a, b \in Slots(m, c) : a = b) => (\A a, b \in Slots(n, c) : a = b)
  PROVE  Once(j, v, n, h, c)
BY DEF Once, Single, Unsent

\* A reply changes nothing but the reply.
LEMMA ReplyFacts ==
  ASSUME RemoteInv, NEW c \in Messages, NEW a, NEW r \in {"ok", "error"},
         Remote!Reply(c, a, r) \/ UNCHANGED call
  PROVE  /\ call' \in [Messages -> CallRecords]
         /\ \A d \in Messages : /\ call'[d].kind = call[d].kind /\ call'[d].lost = call[d].lost
                                /\ call'[d].step = call[d].step
<1>0. call \in [Messages -> CallRecords] /\ call[c] \in CallRecords
  BY CallFacts
<1>1. CASE UNCHANGED call
  BY <1>0, <1>1
<1>2. CASE call' # call
  <2>1. call' = [call EXCEPT ![c].reply = r]
    BY <1>2 DEF Remote!Reply
  <2>2. PICK k : k = [call[c] EXCEPT !.reply = r]
    OBVIOUS
  <2>3. k \in CallRecords /\ k.kind = call[c].kind /\ k.lost = call[c].lost /\ k.step = call[c].step
    BY <1>0, <2>2 DEF CallRecords
  <2>4. call' = [call EXCEPT ![c] = k]
    BY <1>0, <2>1, <2>2
  <2>5. call' \in [Messages -> CallRecords] /\ call'[c] = k
        /\ \A d \in Messages \ {c} : call'[d] = call[d]
    BY <1>0, <2>3, <2>4
  <2> QED
    BY <2>3, <2>5
<1> QED
  BY <1>1, <1>2

\* The server's steps: a request is handled, enters the mailbox, or is dropped.
LEMMA ServerPreserves == ASSUME RemoteInv, NEW c \in Messages, Remote!ServerStep(c) PROVE RemoteInv'
<1>0. /\ wire \in [Messages -> SUBSET Nat] /\ mailbox \in Seq(Messages \X Nat)
      /\ handled \in [Messages -> Nat]
  BY DEF RemoteInv
<1>1. PICK a \in wire[c] :
        /\ wire' = [wire EXCEPT ![c] = @ \ {a}]
        /\ \/ Remote!Reply(c, a, "ok") \/ Remote!Reply(c, a, "error") \/ UNCHANGED call
        /\ \/ /\ call[c].kind = "gossip" /\ handled' = [handled EXCEPT ![c] = @ + 1]
              /\ mailbox' = mailbox
           \/ mailbox' = Append(mailbox, <<c, a>>) /\ handled' = handled
           \/ UNCHANGED <<mailbox, handled>>
  BY DEF Remote!ServerStep, Remote!HandleGossip, Remote!Dispatch, Remote!NotFound, Remote!Dropped
<1>2. /\ call' \in [Messages -> CallRecords]
      /\ \A d \in Messages : /\ call'[d].kind = call[d].kind /\ call'[d].lost = call[d].lost
                             /\ call'[d].step = call[d].step
  BY <1>1, ReplyFacts
<1>3. /\ wire' \in [Messages -> SUBSET Nat] /\ a \in Nat
      /\ \A d \in Messages : wire'[d] \subseteq wire[d]
  BY <1>0, <1>1
<1>4. CASE call[c].kind = "gossip" /\ handled' = [handled EXCEPT ![c] = @ + 1] /\ mailbox' = mailbox
  <2>1. handled' \in [Messages -> Nat] /\ \A d \in Messages \ {c} : handled'[d] = handled[d]
    BY <1>0, <1>4
  <2>2. ASSUME NEW d \in Messages PROVE Once(call'[d], wire'[d], mailbox, handled'[d], d)
    <3>1. CASE d = c
      BY <1>2, <1>4, <3>1 DEF Once
    <3>2. CASE d # c
      <4>1. handled'[d] = handled[d] /\ Once(call[d], wire[d], mailbox, handled[d], d)
        BY <2>1, <3>2, CallFacts
      <4>2. Once(call'[d], wire'[d], mailbox, handled[d], d)
        BY <1>2, <1>3, <4>1, OnceKept
      <4> QED
        BY <4>1, <4>2
    <3> QED
      BY <3>1, <3>2
  <2> QED
    BY <1>0, <1>2, <1>3, <1>4, <2>1, <2>2 DEF RemoteInv
<1>5. CASE mailbox' = Append(mailbox, <<c, a>>) /\ handled' = handled
  <2>1. /\ mailbox' \in Seq(Messages \X Nat)
        /\ \A d \in Messages \ {c} : Slots(mailbox', d) = Slots(mailbox, d)
        /\ Slots(mailbox', c) = Slots(mailbox, c) \cup {Len(mailbox) + 1}
    <3>1. LET n == Append(mailbox, <<c, a>>)
          IN /\ n \in Seq(Messages \X Nat)
             /\ \A d \in Messages \ {c} : Slots(n, d) = Slots(mailbox, d)
             /\ Slots(n, c) = Slots(mailbox, c) \cup {Len(mailbox) + 1}
      BY <1>0, <1>3, SlotsAppend
    <3> QED
      BY <1>5, <3>1
  <2>2. ASSUME NEW d \in Messages PROVE Once(call'[d], wire'[d], mailbox', handled[d], d)
    <3>1. CASE d = c
      <4>1. SUFFICES ASSUME call[c].kind # "gossip" /\ (call[c].kind = "message" \/ ~call[c].lost)
                     PROVE  /\ Single(wire'[c], mailbox', handled[c], c)
                            /\ call[c].step \notin {"connect", "dial", "sleep"}
        BY <1>2, <3>1 DEF Once
      <4>2. Single(wire[c], mailbox, handled[c], c) /\ wire[c] # {}
            /\ (call[c].step \in {"connect", "dial", "sleep"} => wire[c] = {})
        BY <1>1, <4>1, CallFacts DEF Once, Unsent
      <4>3. Slots(mailbox, c) = {} /\ handled[c] = 0 /\ wire'[c] = {}
        BY <1>0, <1>1, <4>2 DEF Single
      <4>4. Slots(mailbox', c) = {Len(mailbox) + 1}
        BY <2>1, <4>3
      <4>5. Single(wire'[c], mailbox', handled[c], c)
        BY <4>3, <4>4 DEF Single
      <4> QED
        BY <4>2, <4>5
    <3>2. CASE d # c
      <4>1. Slots(mailbox', d) = Slots(mailbox, d) /\ Once(call[d], wire[d], mailbox, handled[d], d)
        BY <2>1, <3>2, CallFacts
      <4> QED
        BY <1>2, <1>3, <4>1, OnceKept
    <3> QED
      BY <3>1, <3>2
  <2> QED
    BY <1>0, <1>2, <1>3, <1>5, <2>1, <2>2 DEF RemoteInv
<1>6. CASE UNCHANGED <<mailbox, handled>>
  <2>1. ASSUME NEW d \in Messages PROVE Once(call'[d], wire'[d], mailbox, handled[d], d)
    BY <1>2, <1>3, CallFacts, OnceKept
  <2> QED
    BY <1>0, <1>2, <1>3, <1>6, <2>1 DEF RemoteInv
<1> QED
  BY <1>1, <1>4, <1>5, <1>6

\* The actor takes an envelope.
LEMMA ReceivePreserves == ASSUME RemoteInv, Remote!Receive PROVE RemoteInv'
<1>0. /\ wire \in [Messages -> SUBSET Nat] /\ mailbox \in Seq(Messages \X Nat)
      /\ handled \in [Messages -> Nat] /\ mailbox # <<>>
  BY DEF RemoteInv, Remote!Receive
<1>a. PICK c \in Messages : c = mailbox[1][1]
  BY <1>0, SlotsTail
<1>b. PICK a : a = mailbox[1][2]
  OBVIOUS
<1>1. c = mailbox[1][1] /\ a = mailbox[1][2]
  BY <1>a, <1>b
<1>2. /\ mailbox' = Tail(mailbox) /\ handled' = [handled EXCEPT ![c] = @ + 1] /\ wire' = wire
      /\ Remote!Reply(c, a, "ok") \/ Remote!Reply(c, a, "error") \/ UNCHANGED call
  BY <1>1 DEF Remote!Receive
<1>3. /\ call' \in [Messages -> CallRecords]
      /\ \A d \in Messages : /\ call'[d].kind = call[d].kind /\ call'[d].lost = call[d].lost
                             /\ call'[d].step = call[d].step
  BY <1>2, ReplyFacts
<1>4. /\ mailbox' \in Seq(Messages \X Nat) /\ 1 \in Slots(mailbox, c)
      /\ \A d \in Messages : \A i \in Slots(mailbox', d) : i \in Nat /\ i # 0 /\ i + 1 \in Slots(mailbox, d)
  BY <1>0, <1>1, <1>2, SlotsTail
<1>5. /\ handled' \in [Messages -> Nat] /\ handled'[c] = handled[c] + 1
      /\ \A d \in Messages \ {c} : handled'[d] = handled[d]
  BY <1>0, <1>2
<1>6. ASSUME NEW d \in Messages PROVE Once(call'[d], wire[d], mailbox', handled'[d], d)
  <2>1. CASE d = c
    <3>1. SUFFICES ASSUME call[c].kind # "gossip" /\ (call[c].kind = "message" \/ ~call[c].lost)
                   PROVE  /\ Single(wire[c], mailbox', handled'[c], c)
                          /\ call[c].step \notin {"connect", "dial", "sleep"}
      BY <1>3, <2>1 DEF Once
    <3>2. Single(wire[c], mailbox, handled[c], c)
          /\ (call[c].step \in {"connect", "dial", "sleep"} => Slots(mailbox, c) = {})
      BY <3>1, CallFacts DEF Once, Unsent
    <3>3. handled[c] = 0 /\ wire[c] = {} /\ \A i \in Slots(mailbox, c) : i = 1
      BY <1>4, <3>2 DEF Single
    <3>4. Slots(mailbox', c) = {}
      <4>1. ASSUME NEW i \in Slots(mailbox', c) PROVE FALSE
        <5>1. i \in Nat /\ i # 0 /\ i + 1 = 1
          BY <1>4, <3>3, <4>1
        <5> QED
          BY <5>1
      <4> QED
        BY <4>1
    <3>5. handled'[c] = 1
      BY <1>5, <3>3
    <3>6. Single(wire[c], mailbox', handled'[c], c)
      BY <3>3, <3>4, <3>5 DEF Single
    <3> QED
      BY <1>4, <3>2, <3>6
  <2>2. CASE d # c
    <3>1. handled'[d] = handled[d] /\ Once(call[d], wire[d], mailbox, handled[d], d)
      BY <1>5, <2>2, CallFacts
    <3>2. Slots(mailbox, d) = {} => Slots(mailbox', d) = {}
      BY <1>4
    <3>3. ASSUME \A i, j \in Slots(mailbox, d) : i = j, NEW i \in Slots(mailbox', d), NEW j \in Slots(mailbox', d)
          PROVE  i = j
      <4>1. i \in Nat /\ j \in Nat /\ i + 1 = j + 1
        BY <1>4, <3>3
      <4> QED
        BY <4>1
    <3>4. Once(call'[d], wire[d], mailbox', handled[d], d)
      BY <1>3, <3>1, <3>2, <3>3, OnceKept
    <3> QED
      BY <3>1, <3>4
  <2> QED
    BY <2>1, <2>2
<1> QED
  BY <1>0, <1>2, <1>3, <1>4, <1>5, <1>6 DEF RemoteInv

\* The actor stops: its mailbox is emptied and the waiting calls get an error.
LEMMA StopPreserves == ASSUME RemoteInv, Remote!ActorStops PROVE RemoteInv'
<1>0. call \in [Messages -> CallRecords]
  BY DEF RemoteInv
<1>1. mailbox' = <<>> /\ UNCHANGED <<wire, handled>>
  BY DEF Remote!ActorStops
<1>2. ASSUME NEW c \in Messages
      PROVE  /\ call'[c] \in CallRecords /\ call'[c].kind = call[c].kind
             /\ call'[c].lost = call[c].lost /\ call'[c].step = call[c].step
  <2>1. call'[c] = call[c] \/ call'[c] = [call[c] EXCEPT !.reply = "error"]
    BY DEF Remote!ActorStops
  <2>2. call[c] \in CallRecords
    BY <1>0
  <2> QED
    BY <2>1, <2>2 DEF CallRecords
<1>3. call' \in [Messages -> CallRecords]
  <2>1. call' = [c \in Messages |-> call'[c]]
    BY DEF Remote!ActorStops
  <2> QED
    BY <1>2, <2>1
<1>4. <<>> \in Seq(Messages \X Nat) /\ \A c \in Messages : Slots(<<>>, c) = {}
  BY DEF Slots
<1>5. ASSUME NEW c \in Messages PROVE Once(call'[c], wire[c], <<>>, handled[c], c)
  BY <1>2, <1>4, CallFacts, OnceKept
<1> QED
  BY <1>1, <1>3, <1>4, <1>5 DEF RemoteInv

\* Time passes.
LEMMA TickPreserves == ASSUME RemoteInv, Remote!Tick PROVE RemoteInv'
<1>0. call \in [Messages -> CallRecords]
  BY DEF RemoteInv
<1>1. UNCHANGED <<wire, mailbox, handled>>
  BY DEF Remote!Tick, Remote!serverVars
<1>2. ASSUME NEW c \in Messages
      PROVE  /\ call'[c] \in CallRecords /\ call'[c].kind = call[c].kind
             /\ call'[c].lost = call[c].lost /\ call'[c].step = call[c].step
  <2>1. call'[c] = call[c] \/ call'[c] = [call[c] EXCEPT !.sleep = @ - 1]
    BY DEF Remote!Tick
  <2>2. call[c] \in CallRecords
    BY <1>0
  <2> QED
    BY <2>1, <2>2 DEF CallRecords
<1>3. call' \in [Messages -> CallRecords]
  <2>1. call' = [c \in Messages |-> call'[c]]
    BY DEF Remote!Tick
  <2> QED
    BY <1>2, <2>1
<1>4. ASSUME NEW c \in Messages PROVE Once(call'[c], wire[c], mailbox, handled[c], c)
  BY <1>2, CallFacts, OnceKept
<1> QED
  BY <1>1, <1>3, <1>4 DEF RemoteInv

LEMMA RemoteNext == RemoteInv /\ Remote!Next => RemoteInv'
<1> SUFFICES ASSUME RemoteInv, Remote!Next PROVE RemoteInv'
  OBVIOUS
<1>1. ASSUME Remote!ActorStarts \/ Remote!ActorRemoved \/ Remote!ConnectionCloses PROVE RemoteInv'
  <2>1. UNCHANGED <<call, wire, mailbox, handled>>
    BY <1>1 DEF Remote!ActorStarts, Remote!ActorRemoved, Remote!ConnectionCloses, Remote!serverVars
  <2> QED
    BY <2>1 DEF RemoteInv
<1> QED
  BY <1>1, CallBegins, ClientPreserves, ServerPreserves, ReceivePreserves, StopPreserves,
     TickPreserves
    DEF Remote!Next

LEMMA RemoteInit == Remote!Init => RemoteInv
<1> SUFFICES ASSUME Remote!Init PROVE RemoteInv
  OBVIOUS
<1>1. Remote!NoCall \in CallRecords
  BY DEF Remote!NoCall, CallRecords, Remote!Kinds
<1>2. call = [c \in Messages |-> Remote!NoCall] /\ wire = [c \in Messages |-> {}]
      /\ mailbox = <<>> /\ handled = [c \in Messages |-> 0]
  BY DEF Remote!Init
<1>3. call \in [Messages -> CallRecords] /\ wire \in [Messages -> SUBSET Nat]
      /\ mailbox \in Seq(Messages \X Nat) /\ handled \in [Messages -> Nat]
  BY <1>1, <1>2
<1>4. ASSUME NEW c \in Messages PROVE Once(call[c], wire[c], mailbox, handled[c], c)
  <2>1. Unsent(wire[c], mailbox, handled[c], c)
    BY <1>2 DEF Unsent, Slots
  <2> QED
    BY <2>1, UnsentIsSingle DEF Once
<1> QED
  BY <1>3, <1>4 DEF RemoteInv

LEMMA RemoteTwice == RemoteInv => Remote!TwiceOnlyIfLost
<1> SUFFICES ASSUME RemoteInv, NEW c \in Messages, call[c].kind # "gossip", handled[c] > 1
             PROVE  call[c].kind = "tell" /\ call[c].lost
  BY DEF Remote!TwiceOnlyIfLost
<1>1. call[c].kind \in {"tell", "gossip", "message"} /\ handled[c] \in Nat
  BY CallFacts DEF CallRecords, Remote!Kinds
<1>2. ~Single(wire[c], mailbox, handled[c], c)
  BY <1>1 DEF Single
<1> QED
  BY <1>1, <1>2, CallFacts DEF Once

\* A step of another part leaves the calls alone.
LEMMA RemoteStep ==
  RemoteInv /\ [PackNext]_<<part, vars, lockVars, remoteVars, tensorVars>> => RemoteInv'
<1> SUFFICES ASSUME RemoteInv, [PackNext]_<<part, vars, lockVars, remoteVars, tensorVars>>
             PROVE  RemoteInv'
  OBVIOUS
<1>1. ASSUME UNCHANGED remoteVars PROVE RemoteInv'
  BY <1>1 DEF RemoteInv, remoteVars
<1> QED
  BY <1>1, RemoteNext DEF PackNext

\* A message to an actor is handled twice only if it was a tell and its connection
\* broke, or an error read as if one had (RetryExecutor::execute, is_retryable), for
\* any number of calls, retries and any mailbox; a request that timed out, and may
\* still be handled, is not sent again.
THEOREM HandledOnce == PackSpec => []TwiceOnlyIfLost
<1>1. PackInit => RemoteInv
  BY RemoteInit DEF PackInit
<1>2. RemoteInv => TwiceOnlyIfLost
  BY RemoteTwice DEF TwiceOnlyIfLost
<1> QED
  BY <1>1, <1>2, RemoteStep, PTL DEF PackSpec


-----------------------------------------------------------------------------
(* Shard locks                                                             *)

\* No listing of the handles runs beside a spawn whose name is taken.  Together
\* they can block each other (spawn.rs:80), and the theorem is about the rest.
Apart ==
  /\ Shards \in Nat
  /\ \A S \in Scenarios : "list" \notin S \/ "spawn_refused" \notin S

RegistryMaps == {"actor_names", "local_actors"}
ReadSteps == [lock : RegistryMaps \X Int, mode : {"read", "release"}]

Drops(s, lock) == s.mode = "release" /\ s.lock = lock

\* What is left of the program, and the locks held, of a listing or a lookup:
\* they only ever read, and what is held or will be taken is released later.
ReadShape(p, h) ==
  /\ p \in Seq(ReadSteps)
  /\ \A g \in h : g.mode = "read" /\ \E i \in 1..Len(p) : Drops(p[i], g.lock)
  /\ \A i \in 1..Len(p) :
       p[i].mode = "read" => \E j \in 1..Len(p) : i < j /\ Drops(p[j], p[i].lock)

\* Of a lookup or a refused spawn: the name's lock first, the handle's inside it.
NestedShape(p, h) ==
  \E n, a \in 1..Shards, mode \in {"read", "write"} :
    LET takeN == Locks!Acquire("actor_names", n, mode)
        takeA == Locks!Acquire("local_actors", a, mode)
        dropN == Locks!Release("actor_names", n)
        dropA == Locks!Release("local_actors", a)
    IN \/ p = <<takeN, takeA, dropA, dropN>> /\ h = {}
       \/ p = <<takeA, dropA, dropN>> /\ h = {takeN}
       \/ p = <<dropA, dropN>> /\ h = {takeN, takeA}
       \/ p = <<dropN>> /\ h = {takeN}

\* Of a stop: one lock after the other.
StopShape(p, h) ==
  \E n, a \in 1..Shards :
    LET takeN == Locks!Acquire("actor_names", n, "write")
        takeA == Locks!Acquire("local_actors", a, "write")
        dropN == Locks!Release("actor_names", n)
        dropA == Locks!Release("local_actors", a)
    IN \/ p = <<takeN, dropN, takeA, dropA>> /\ h = {}
       \/ p = <<dropN, takeA, dropA>> /\ h = {takeN}
       \/ p = <<takeA, dropA>> /\ h = {}
       \/ p = <<dropA>> /\ h = {takeA}

AtRest(p, h) == p = <<>> /\ h = {}

Shape(p, h) ==
  \/ AtRest(p, h)
  \/ StopShape(p, h)
  \/ "list" \in operations /\ ReadShape(p, h)
  \/ "list" \notin operations /\ NestedShape(p, h)

LocksInv ==
  /\ Apart /\ operations \in Scenarios
  /\ program = [t \in Threads |-> program[t]] /\ held = [t \in Threads |-> held[t]]
  /\ \A t \in Threads : Shape(program[t], held[t])

\* After an acquisition and after a release.
Taken(p, h) == h \cup {Head(p)}
Dropped(p, h) == {g \in h : g.lock # Head(p).lock}

LEMMA ReadStep ==
  ASSUME NEW p, NEW h, ReadShape(p, h), p # <<>>
  PROVE  /\ Head(p).mode \in {"read", "release"}
         /\ Head(p).mode # "release" => ReadShape(Tail(p), Taken(p, h))
         /\ Head(p).mode = "release" => ReadShape(Tail(p), Dropped(p, h))
<1>1. p \in Seq(ReadSteps) /\ Head(p) \in ReadSteps /\ Tail(p) \in Seq(ReadSteps)
  BY DEF ReadShape
<1>2. Head(p).mode \in {"read", "release"}
  BY <1>1 DEF ReadSteps
<1>a. PICK q \in Seq(ReadSteps) : q = Tail(p)
  BY <1>1
<1>b. PICK k \in Nat : k = Len(q)
  BY LenProperties
<1>3. q = Tail(p) /\ k = Len(q)
  BY <1>a, <1>b
<1>4. Len(p) = k + 1 /\ p[1] = Head(p) /\ \A i \in 1..k : q[i] = p[i + 1]
  BY <1>1, <1>3
<1>5. \A i \in 1..(k + 1) :
        p[i].mode = "read" => \E j \in 1..(k + 1) : i < j /\ Drops(p[j], p[i].lock)
  BY <1>4 DEF ReadShape
<1>6. \A g \in h : g.mode = "read" /\ \E i \in 1..(k + 1) : Drops(p[i], g.lock)
  BY <1>4 DEF ReadShape
\* A later release stays in the rest of the program.
<1>7. \A i \in 1..(k + 1) : i > 1 => i - 1 \in 1..k /\ q[i - 1] = p[i]
  BY <1>4
<1>8. ASSUME NEW i \in 1..k, q[i].mode = "read"
      PROVE  \E j \in 1..k : i < j /\ Drops(q[j], q[i].lock)
  <2>1. i + 1 \in 1..(k + 1) /\ q[i] = p[i + 1]
    BY <1>4
  <2>2. PICK j \in 1..(k + 1) : i + 1 < j /\ Drops(p[j], p[i + 1].lock)
    BY <1>5, <1>8, <2>1
  <2>3. j - 1 \in 1..k /\ q[j - 1] = p[j] /\ i < j - 1
    BY <1>7, <2>2
  <2> QED
    BY <2>1, <2>2, <2>3
<1>9. ASSUME NEW g, NEW i \in 1..(k + 1), Drops(p[i], g.lock), ~Drops(Head(p), g.lock)
      PROVE  \E j \in 1..k : Drops(q[j], g.lock)
  <2>1. i > 1
    BY <1>4, <1>9
  <2> QED
    BY <1>7, <1>9, <2>1
<1>10. CASE Head(p).mode = "read"
  <2>1. PICK j \in 1..(k + 1) : 1 < j /\ Drops(p[j], p[1].lock)
    BY <1>4, <1>5, <1>10
  <2>2. \E i \in 1..k : Drops(q[i], Head(p).lock)
    BY <1>4, <1>7, <2>1
  <2>3. ASSUME NEW g \in Taken(p, h)
        PROVE  g.mode = "read" /\ \E i \in 1..k : Drops(q[i], g.lock)
    <3>1. CASE g = Head(p)
      BY <1>10, <2>2, <3>1
    <3>2. CASE g \in h
      <4>1. PICK i \in 1..(k + 1) : Drops(p[i], g.lock)
        BY <1>6, <3>2
      <4>2. ~Drops(Head(p), g.lock)
        BY <1>10 DEF Drops
      <4> QED
        BY <1>6, <1>9, <3>2, <4>1, <4>2
    <3> QED
      BY <3>1, <3>2 DEF Taken
  <2>4. ReadShape(q, Taken(p, h))
    BY <1>3, <1>8, <2>3 DEF ReadShape
  <2> QED
    BY <1>3, <1>10, <2>4
<1>11. CASE Head(p).mode = "release"
  <2>1. ASSUME NEW g \in Dropped(p, h)
        PROVE  g.mode = "read" /\ \E i \in 1..k : Drops(q[i], g.lock)
    <3>1. g \in h /\ ~Drops(Head(p), g.lock)
      BY DEF Dropped, Drops
    <3>2. PICK i \in 1..(k + 1) : Drops(p[i], g.lock)
      BY <1>6, <3>1
    <3> QED
      BY <1>6, <1>9, <3>1, <3>2
  <2>2. ReadShape(q, Dropped(p, h))
    BY <1>3, <1>8, <2>1 DEF ReadShape
  <2> QED
    BY <1>3, <1>11, <2>2
<1> QED
  BY <1>2, <1>10, <1>11

LEMMA StopSteps ==
  ASSUME NEW p, NEW h, StopShape(p, h)
  PROVE  /\ p # <<>>
         /\ Head(p).mode # "release" =>
              h = {} /\ (StopShape(Tail(p), Taken(p, h)) \/ AtRest(Tail(p), Taken(p, h)))
         /\ Head(p).mode = "release" =>
              StopShape(Tail(p), Dropped(p, h)) \/ AtRest(Tail(p), Dropped(p, h))
<1>1. PICK n, a, takeN, takeA, dropN, dropA :
        /\ n \in 1..Shards /\ a \in 1..Shards
        /\ takeN = Locks!Acquire("actor_names", n, "write")
        /\ takeA = Locks!Acquire("local_actors", a, "write")
        /\ dropN = Locks!Release("actor_names", n)
        /\ dropA = Locks!Release("local_actors", a)
        /\ \/ p = <<takeN, dropN, takeA, dropA>> /\ h = {}
           \/ p = <<dropN, takeA, dropA>> /\ h = {takeN}
           \/ p = <<takeA, dropA>> /\ h = {}
           \/ p = <<dropA>> /\ h = {takeA}
  BY Zenon DEF StopShape
<1>2. /\ takeN.mode = "write" /\ takeA.mode = "write" /\ dropN.mode = "release" /\ dropA.mode = "release"
      /\ takeN.lock = dropN.lock /\ takeA.lock = dropA.lock
  BY <1>1 DEF Locks!Acquire, Locks!Release
<1>3. CASE p = <<takeN, dropN, takeA, dropA>> /\ h = {}
  <2>1. Head(p) = takeN /\ Tail(p) = <<dropN, takeA, dropA>> /\ p # <<>>
    BY <1>3
  <2>2. StopShape(Tail(p), Taken(p, h))
    BY <1>1, <1>3, <2>1 DEF StopShape, Taken
  <2> QED
    BY <1>2, <1>3, <2>1, <2>2
<1>4. CASE p = <<dropN, takeA, dropA>> /\ h = {takeN}
  <2>1. Head(p) = dropN /\ Tail(p) = <<takeA, dropA>> /\ p # <<>>
    BY <1>4
  <2>2. Dropped(p, h) = {}
    BY <1>2, <1>4, <2>1 DEF Dropped
  <2>3. StopShape(Tail(p), Dropped(p, h))
    BY <1>1, <2>1, <2>2 DEF StopShape
  <2> QED
    BY <1>2, <2>1, <2>3
<1>5. CASE p = <<takeA, dropA>> /\ h = {}
  <2>1. Head(p) = takeA /\ Tail(p) = <<dropA>> /\ p # <<>>
    BY <1>5
  <2>2. StopShape(Tail(p), Taken(p, h))
    BY <1>1, <1>5, <2>1 DEF StopShape, Taken
  <2> QED
    BY <1>2, <1>5, <2>1, <2>2
<1>6. CASE p = <<dropA>> /\ h = {takeA}
  <2>1. Head(p) = dropA /\ Tail(p) = <<>> /\ p # <<>>
    BY <1>6
  <2>2. Dropped(p, h) = {}
    BY <1>2, <1>6, <2>1 DEF Dropped
  <2> QED
    BY <1>2, <2>1, <2>2 DEF AtRest
<1> QED
  BY <1>1, <1>3, <1>4, <1>5, <1>6

LEMMA NestedSteps ==
  ASSUME NEW p, NEW h, NestedShape(p, h)
  PROVE  /\ p # <<>>
         /\ Head(p).mode # "release" =>
              /\ NestedShape(Tail(p), Taken(p, h))
              /\ \A g \in h : g.lock[1] = "actor_names"
              /\ h # {} => Head(p).lock[1] = "local_actors"
         /\ Head(p).mode = "release" =>
              NestedShape(Tail(p), Dropped(p, h)) \/ AtRest(Tail(p), Dropped(p, h))
<1>1. PICK n, a, mode, takeN, takeA, dropN, dropA :
        /\ n \in 1..Shards /\ a \in 1..Shards /\ mode \in {"read", "write"}
        /\ takeN = Locks!Acquire("actor_names", n, mode)
        /\ takeA = Locks!Acquire("local_actors", a, mode)
        /\ dropN = Locks!Release("actor_names", n)
        /\ dropA = Locks!Release("local_actors", a)
        /\ \/ p = <<takeN, takeA, dropA, dropN>> /\ h = {}
           \/ p = <<takeA, dropA, dropN>> /\ h = {takeN}
           \/ p = <<dropA, dropN>> /\ h = {takeN, takeA}
           \/ p = <<dropN>> /\ h = {takeN}
  BY Zenon DEF NestedShape
<1>2. /\ takeN.mode = mode /\ takeA.mode = mode /\ dropN.mode = "release" /\ dropA.mode = "release"
      /\ takeN.lock = dropN.lock /\ takeA.lock = dropA.lock
      /\ takeN.lock[1] = "actor_names" /\ takeA.lock[1] = "local_actors"
  BY <1>1 DEF Locks!Acquire, Locks!Release
<1>3. CASE p = <<takeN, takeA, dropA, dropN>> /\ h = {}
  <2>1. Head(p) = takeN /\ Tail(p) = <<takeA, dropA, dropN>> /\ p # <<>>
    BY <1>3
  <2>2. NestedShape(Tail(p), Taken(p, h))
    BY <1>1, <1>3, <2>1 DEF NestedShape, Taken
  <2> QED
    BY <1>1, <1>2, <1>3, <2>1, <2>2
<1>4. CASE p = <<takeA, dropA, dropN>> /\ h = {takeN}
  <2>1. Head(p) = takeA /\ Tail(p) = <<dropA, dropN>> /\ p # <<>>
    BY <1>4
  <2>2. Taken(p, h) = {takeN, takeA}
    BY <1>4, <2>1 DEF Taken
  <2>3. NestedShape(Tail(p), Taken(p, h))
    BY <1>1, <2>1, <2>2 DEF NestedShape
  <2> QED
    BY <1>1, <1>2, <1>4, <2>1, <2>3
<1>5. CASE p = <<dropA, dropN>> /\ h = {takeN, takeA}
  <2>1. Head(p) = dropA /\ Tail(p) = <<dropN>> /\ p # <<>>
    BY <1>5
  <2>2. Dropped(p, h) = {takeN}
    BY <1>2, <1>5, <2>1 DEF Dropped
  <2>3. NestedShape(Tail(p), Dropped(p, h))
    BY <1>1, <2>1, <2>2 DEF NestedShape
  <2> QED
    BY <1>2, <2>1, <2>3
<1>6. CASE p = <<dropN>> /\ h = {takeN}
  <2>1. Head(p) = dropN /\ Tail(p) = <<>> /\ p # <<>>
    BY <1>6
  <2>2. Dropped(p, h) = {}
    BY <1>2, <1>6, <2>1 DEF Dropped
  <2> QED
    BY <1>2, <2>1, <2>2 DEF AtRest
<1> QED
  BY <1>1, <1>3, <1>4, <1>5, <1>6

\* The programs the operations start with.
LEMMA ReadPrograms ==
  ASSUME Shards \in Nat, NEW n \in 1..Shards, NEW a \in 1..Shards
  PROVE  /\ ReadShape(Locks!ListProgram(n, a), {})
         /\ ReadShape(Locks!LookupProgram(n, a), {})
<1>1. \A table \in RegistryMaps, i \in Int, mode \in {"read", "release"} :
        [lock |-> <<table, i>>, mode |-> mode] \in ReadSteps
  BY DEF ReadSteps
<1>2. \A table \in RegistryMaps, i \in Int :
        Locks!Acquire(table, i, "read") \in ReadSteps /\ Locks!Release(table, i) \in ReadSteps
  BY <1>1 DEF Locks!Acquire, Locks!Release
<1>3. "actor_names" \in RegistryMaps /\ "local_actors" \in RegistryMaps /\ n \in Int /\ a \in Int
  BY DEF RegistryMaps
<1>4. PICK takeA \in ReadSteps, dropA \in ReadSteps, takeN \in ReadSteps, dropN \in ReadSteps :
        /\ takeA = Locks!Acquire("local_actors", a, "read") /\ dropA = Locks!Release("local_actors", a)
        /\ takeN = Locks!Acquire("actor_names", n, "read") /\ dropN = Locks!Release("actor_names", n)
  BY <1>2, <1>3
<1>5. Locks!NamesScan \in Seq(ReadSteps)
  <2>1. PICK m \in Nat : m = 2 * Shards
    OBVIOUS
  <2>2. \A s \in 1..m : (s + 1) \div 2 \in Int /\ s \div 2 \in Int
    OBVIOUS
  <2>3. \A s \in 1..m : /\ Locks!Acquire("actor_names", (s + 1) \div 2, "read") \in ReadSteps
                        /\ Locks!Release("actor_names", s \div 2) \in ReadSteps
    BY <1>2, <1>3, <2>2
  <2>4. Locks!NamesScan = [s \in 1..m |->
                 IF s % 2 = 1 THEN Locks!Acquire("actor_names", (s + 1) \div 2, "read")
                              ELSE Locks!Release("actor_names", s \div 2)]
    BY <2>1 DEF Locks!NamesScan
  <2>5. Locks!NamesScan \in [1..m -> ReadSteps]
    BY <2>3, <2>4
  <2> QED
    BY <2>1, <2>5
<1>6. Locks!ListProgram(n, a) = <<takeA>> \o Locks!NamesScan \o <<dropA>>
  BY <1>4 DEF Locks!ListProgram
<1>7. <<takeA>> \in Seq(ReadSteps) /\ <<dropA>> \in Seq(ReadSteps)
  OBVIOUS
<1>a. PICK m \in Nat : m = 2 * Shards
  OBVIOUS
<1>b. PICK scan \in Seq(ReadSteps) : scan = Locks!NamesScan
  BY <1>5
<1>c. scan = [s \in 1..m |->
                 IF s % 2 = 1 THEN Locks!Acquire("actor_names", (s + 1) \div 2, "read")
                              ELSE Locks!Release("actor_names", s \div 2)]
  BY <1>a, <1>b DEF Locks!NamesScan
<1>d. Len(scan) = m
  BY <1>c, LenProperties
<1>8. /\ scan = Locks!NamesScan /\ m = 2 * Shards /\ Len(scan) = m
      /\ \A s \in 1..m : scan[s] = IF s % 2 = 1
                                    THEN Locks!Acquire("actor_names", (s + 1) \div 2, "read")
                                    ELSE Locks!Release("actor_names", s \div 2)
  BY <1>a, <1>b, <1>c, <1>d
<1>9. PICK p : p = Locks!ListProgram(n, a)
  OBVIOUS
<1>10. p = <<takeA>> \o scan \o <<dropA>>
  BY <1>6, <1>8, <1>9
<1>11. /\ p \in Seq(ReadSteps) /\ Len(p) = m + 2 /\ p[1] = takeA /\ p[m + 2] = dropA
       /\ \A s \in 1..m : p[s + 1] = scan[s]
  <2>0. PICK one \in Seq(ReadSteps), last \in Seq(ReadSteps) :
          /\ one = <<takeA>> /\ Len(one) = 1 /\ one[1] = takeA
          /\ last = <<dropA>> /\ Len(last) = 1 /\ last[1] = dropA
    BY <1>7
  <2>1. PICK front \in Seq(ReadSteps) : front = one \o scan
    BY ConcatProperties
  <2>2. /\ Len(front) = m + 1 /\ front[1] = takeA
        /\ \A s \in 1..m : front[s + 1] = scan[s]
    <3>1. /\ Len(front) = Len(one) + Len(scan)
          /\ \A i \in 1..(Len(one) + Len(scan)) : front[i] =
               IF i <= Len(one) THEN one[i] ELSE scan[i - Len(one)]
      BY <2>1, ConcatProperties
    <3>2. Len(front) = 1 + m
          /\ \A i \in 1..(1 + m) : front[i] = IF i <= 1 THEN one[i] ELSE scan[i - 1]
      BY <1>8, <2>0, <3>1
    <3> QED
      BY <2>0, <3>2
  <2>3. p = front \o last
    BY <1>10, <2>0, <2>1
  <2>6. /\ Len(p) = Len(front) + Len(last) /\ p \in Seq(ReadSteps)
        /\ \A i \in 1..(Len(front) + Len(last)) : p[i] =
             IF i <= Len(front) THEN front[i] ELSE last[i - Len(front)]
    BY <2>3, ConcatProperties
  <2>7. /\ Len(p) = m + 2
        /\ \A i \in 1..(m + 2) : p[i] = IF i <= m + 1 THEN front[i] ELSE last[i - (m + 1)]
    BY <2>0, <2>2, <2>6
  <2>8. p[m + 2] = last[1]
    BY <2>7
  <2>4. p \in Seq(ReadSteps) /\ Len(p) = m + 2 /\ p[m + 2] = dropA
    BY <2>0, <2>6, <2>7, <2>8
  <2>5. \A s \in 1..(m + 1) : p[s] = front[s]
    BY <2>7
  <2> QED
    BY <1>8, <2>2, <2>4, <2>5
<1>12. ASSUME NEW i \in 1..(m + 2), p[i].mode = "read"
       PROVE  \E j \in 1..(m + 2) : i < j /\ Drops(p[j], p[i].lock)
  <2>1. CASE i = 1
    <3>1. Drops(dropA, takeA.lock)
      BY <1>4 DEF Drops, Locks!Acquire, Locks!Release
    <3> QED
      BY <1>11, <2>1, <3>1
  <2>2. CASE i = m + 2
    <3>1. p[i].mode = "release"
      BY <1>4, <1>11, <2>2 DEF Locks!Release
    <3> QED
      BY <1>12, <3>1
  <2>3. CASE i > 1 /\ i < m + 2
    <3>1. PICK s \in 1..m : s = i - 1
      BY <2>3
    <3>2. p[i] = scan[s]
      BY <1>11, <3>1
    <3>3. s % 2 = 1
      <4>1. CASE s % 2 # 1
        <5>1. scan[s].mode = "release"
          BY <1>8, <4>1 DEF Locks!Release
        <5> QED
          BY <1>12, <3>2, <5>1
      <4> QED
        BY <4>1
    <3>4. s + 1 \in 1..m /\ (s + 1) % 2 # 1
      <4>1. m = 2 * Shards /\ m \in Nat
        BY <1>8
      <4>2. PICK d \in Nat : s = 2 * d + 1
        BY <3>3, s \in Nat
      <4>3. s + 1 <= m
        BY <4>1, <4>2
      <4> QED
        BY <4>1, <4>2, <4>3
    <3>5. scan[s + 1] = Locks!Release("actor_names", (s + 1) \div 2)
      BY <1>8, <3>4
    <3>6. scan[s] = Locks!Acquire("actor_names", (s + 1) \div 2, "read")
      BY <1>8, <3>3
    <3>7. Drops(scan[s + 1], scan[s].lock)
      BY <3>5, <3>6 DEF Drops, Locks!Acquire, Locks!Release
    <3>8. p[i + 1] = scan[s + 1] /\ i + 1 \in 1..(m + 2) /\ i < i + 1
      BY <1>11, <3>1, <3>4
    <3> QED
      BY <3>2, <3>7, <3>8
  <2> QED
    BY <2>1, <2>2, <2>3
<1>13. ReadShape(p, {})
  BY <1>11, <1>12 DEF ReadShape
<1>14. PICK q : q = Locks!LookupProgram(n, a)
  OBVIOUS
<1>15. q = <<takeN, takeA, dropA, dropN>>
  BY <1>4, <1>14 DEF Locks!LookupProgram
<1>16. q \in Seq(ReadSteps) /\ Len(q) = 4 /\ q[1] = takeN /\ q[2] = takeA /\ q[3] = dropA /\ q[4] = dropN
  BY <1>15
<1>17. /\ dropN.mode = "release" /\ dropA.mode = "release"
       /\ Drops(dropN, takeN.lock) /\ Drops(dropA, takeA.lock)
  BY <1>4 DEF Drops, Locks!Acquire, Locks!Release
<1>18. \A i \in 1..4 : q[i].mode = "read" => \E j \in 1..4 : i < j /\ Drops(q[j], q[i].lock)
  <2>1. Drops(q[4], q[1].lock) /\ Drops(q[3], q[2].lock) /\ q[3].mode # "read" /\ q[4].mode # "read"
    BY <1>16, <1>17
  <2> QED
    BY <2>1
<1>19. ReadShape(q, {})
  BY <1>16, <1>18 DEF ReadShape
<1> QED
  BY <1>9, <1>13, <1>14, <1>19

\* A lookup and a refused spawn nest their locks, a stop does not.
LEMMA OtherPrograms ==
  ASSUME NEW n \in 1..Shards, NEW a \in 1..Shards
  PROVE  /\ NestedShape(Locks!LookupProgram(n, a), {})
         /\ NestedShape(Locks!SpawnRefusedProgram(n, a), {})
         /\ StopShape(Locks!StopProgram(n, a), {})
BY DEF NestedShape, StopShape, Locks!LookupProgram, Locks!SpawnRefusedProgram, Locks!StopProgram

\* An operation starts.
LEMMA StartShape ==
  ASSUME LocksInv, NEW operation \in Locks!AllOperations, operation \in operations,
         NEW n \in 1..Shards, NEW a \in 1..Shards
  PROVE  Shape(Locks!Program(operation, n, a), {})
<1>0. Shards \in Nat /\ ("list" \notin operations \/ "spawn_refused" \notin operations)
  BY DEF LocksInv, Apart
<1>1. CASE operation = "spawn_refused"
  BY <1>0, <1>1, OtherPrograms DEF Locks!Program, Shape
<1>2. CASE operation = "list"
  BY <1>0, <1>2, ReadPrograms DEF Locks!Program, Shape
<1>3. CASE operation = "lookup"
  BY <1>0, <1>3, ReadPrograms, OtherPrograms DEF Locks!Program, Shape
<1>4. CASE operation = "stop"
  BY <1>4, OtherPrograms DEF Locks!Program, Shape
<1> QED
  BY <1>1, <1>2, <1>3, <1>4 DEF Locks!AllOperations

\* One thread's program and locks change.
LEMMA ThreadChange ==
  ASSUME LocksInv, NEW t \in Threads, NEW p, NEW h, Shape(p, h), UNCHANGED operations,
         program' = [program EXCEPT ![t] = p], held' = [held EXCEPT ![t] = h]
  PROVE  LocksInv'
<1>1. program = [u \in Threads |-> program[u]] /\ held = [u \in Threads |-> held[u]]
  BY DEF LocksInv
<1>2. program' = [u \in Threads |-> IF u = t THEN p ELSE program[u]]
      /\ held' = [u \in Threads |-> IF u = t THEN h ELSE held[u]]
  BY <1>1
<1>3. program' = [u \in Threads |-> program'[u]] /\ held' = [u \in Threads |-> held'[u]]
  BY <1>2
<1>4. ASSUME NEW u \in Threads PROVE Shape(program'[u], held'[u])
  BY <1>2 DEF LocksInv
<1>5. ASSUME NEW u \in Threads PROVE Shape(program[u], held[u])'
  BY <1>4 DEF Shape
<1> QED
  BY <1>3, <1>5 DEF LocksInv, Apart

LEMMA LocksNext == LocksInv /\ Locks!Next => LocksInv'
<1> SUFFICES ASSUME LocksInv, Locks!Next PROVE LocksInv'
  OBVIOUS
<1>1. PICK t \in Threads :
        \/ \E operation \in Locks!AllOperations, n, a \in 1..Shards : Locks!Start(t, operation, n, a)
        \/ Locks!Lock(t)
        \/ Locks!Unlock(t)
  BY DEF Locks!Next
<1>2. PICK p, h : p = program[t] /\ h = held[t]
  OBVIOUS
<1>3. Shape(p, h) /\ held = [u \in Threads |-> held[u]]
  BY <1>2 DEF LocksInv
<1>4. ASSUME NEW operation \in Locks!AllOperations, NEW n \in 1..Shards, NEW a \in 1..Shards,
             Locks!Start(t, operation, n, a)
      PROVE  LocksInv'
  <2>1. p = <<>> /\ operation \in operations /\ UNCHANGED <<operations, held>>
        /\ program' = [program EXCEPT ![t] = Locks!Program(operation, n, a)]
    BY <1>2, <1>4 DEF Locks!Start
  <2>2. PICK q : q = Locks!Program(operation, n, a)
    OBVIOUS
  <2>3. Shape(q, {})
    BY <2>1, <2>2, StartShape
  <2>4. CASE h = {}
    <3>1. held' = [held EXCEPT ![t] = {}]
      BY <1>2, <1>3, <2>1, <2>4
    <3> QED
      BY <2>1, <2>2, <2>3, <3>1, ThreadChange
  <2>5. CASE h # {}
    <3>1. "list" \in operations /\ ReadShape(p, h)
      BY <1>3, <2>1, <2>5, StopSteps, NestedSteps DEF Shape, AtRest
    <3>2. Len(p) = 0
      BY <2>1
    <3> QED
      BY <2>5, <3>1, <3>2 DEF ReadShape
  <2> QED
    BY <2>4, <2>5
<1>5. ASSUME Locks!Lock(t) PROVE LocksInv'
  <2>1. p # <<>> /\ Head(p).mode # "release" /\ UNCHANGED operations
        /\ program' = [program EXCEPT ![t] = Tail(p)] /\ held' = [held EXCEPT ![t] = Taken(p, h)]
    BY <1>2, <1>5 DEF Locks!Lock, Taken
  <2>2. Shape(Tail(p), Taken(p, h))
    BY <1>3, <2>1, ReadStep, StopSteps, NestedSteps DEF Shape, AtRest
  <2>3. PICK q, g : q = Tail(p) /\ g = Taken(p, h)
    OBVIOUS
  <2> QED
    BY <2>1, <2>2, <2>3, ThreadChange
<1>6. ASSUME Locks!Unlock(t) PROVE LocksInv'
  <2>1. p # <<>> /\ Head(p).mode = "release" /\ UNCHANGED operations
        /\ program' = [program EXCEPT ![t] = Tail(p)] /\ held' = [held EXCEPT ![t] = Dropped(p, h)]
    BY <1>2, <1>6 DEF Locks!Unlock, Dropped
  <2>2. Shape(Tail(p), Dropped(p, h))
    BY <1>3, <2>1, ReadStep, StopSteps, NestedSteps DEF Shape, AtRest
  <2>3. PICK q, g : q = Tail(p) /\ g = Dropped(p, h)
    OBVIOUS
  <2> QED
    BY <2>1, <2>2, <2>3, ThreadChange
<1> QED
  BY <1>1, <1>4, <1>5, <1>6

LEMMA LocksInit == Apart /\ PackInit => LocksInv
<1> SUFFICES ASSUME Apart, PackInit PROVE LocksInv
  OBVIOUS
<1>1. /\ operations \in Scenarios
      /\ program = [t \in Threads |-> <<>>] /\ held = [t \in Threads |-> {}]
  BY DEF PackInit, Locks!Init
<1> QED
  BY <1>1 DEF LocksInv, Shape, AtRest

\* A thread that waits holds nothing it could be waited for with: under a listing
\* only read guards, and it waits to read; otherwise only guards of names, and it
\* waits for the guard of a handle.
LEMMA WaitingHolds ==
  ASSUME LocksInv, NEW t \in Threads, program[t] # <<>>, Head(program[t]).mode # "release",
         held[t] # {}
  PROVE  \/ "list" \in operations /\ Head(program[t]).mode = "read"
            /\ \A g \in held[t] : g.mode = "read"
         \/ "list" \notin operations /\ Head(program[t]).lock[1] = "local_actors"
            /\ \A g \in held[t] : g.lock[1] = "actor_names"
<1>1. PICK p, h : p = program[t] /\ h = held[t]
  OBVIOUS
<1>2. Shape(p, h) /\ p # <<>> /\ Head(p).mode # "release" /\ h # {}
  BY <1>1 DEF LocksInv
<1>3. ~AtRest(p, h) /\ ~StopShape(p, h)
  BY <1>2, StopSteps DEF AtRest
<1>4. CASE "list" \in operations /\ ReadShape(p, h)
  BY <1>1, <1>2, <1>4, ReadStep DEF ReadShape
<1>5. CASE "list" \notin operations /\ NestedShape(p, h)
  BY <1>1, <1>2, <1>5, NestedSteps
<1> QED
  BY <1>2, <1>3, <1>4, <1>5 DEF Shape

LEMMA LocksInvImplies == LocksInv => Locks!NoDeadlock
<1> SUFFICES ASSUME LocksInv, NEW D \in SUBSET Threads, D # {},
                    \A t \in D : \E u \in D : Locks!Blocks(u, t)
             PROVE  FALSE
  BY DEF Locks!NoDeadlock
<1>1. PICK t \in D, u \in D, v \in D, w \in D :
        Locks!Blocks(u, t) /\ Locks!Blocks(v, u) /\ Locks!Blocks(w, v)
  OBVIOUS
<1>2. PICK g \in held[v] :
        /\ g.lock = Head(program[u]).lock
        /\ Head(program[u]).mode = "write" \/ (Head(program[u]).mode = "read" /\ g.mode = "write")
  BY <1>1 DEF Locks!Blocks
<1>3. /\ program[u] # <<>> /\ Head(program[u]).mode # "release" /\ held[u] # {}
      /\ program[v] # <<>> /\ Head(program[v]).mode # "release" /\ held[v] # {}
  BY <1>1 DEF Locks!Blocks
<1>4. u \in Threads /\ v \in Threads
  OBVIOUS
<1>5. \/ "list" \in operations /\ Head(program[u]).mode = "read"
      \/ "list" \notin operations /\ Head(program[u]).lock[1] = "local_actors"
  BY <1>3, <1>4, WaitingHolds
<1>6. \/ "list" \in operations /\ \A x \in held[v] : x.mode = "read"
      \/ "list" \notin operations /\ \A x \in held[v] : x.lock[1] = "actor_names"
  BY <1>3, <1>4, WaitingHolds
<1> QED
  BY <1>2, <1>5, <1>6

\* The operations on the registry's two maps never wait for each other in a
\* circle, however many threads and shards there are, as long as no listing of
\* the handles (health_check, shutdown) runs beside a spawn whose name is taken:
\* that pair takes the two maps in opposite orders.
THEOREM NoCircularWait == Apart /\ PackSpec => []NoDeadlock
<1>1. Apart /\ PackInit => LocksInv
  BY LocksInit
<1>2. LocksInv /\ [PackNext]_<<part, vars, lockVars, remoteVars, tensorVars>> => LocksInv'
  <2>1. ASSUME LocksInv, UNCHANGED lockVars PROVE LocksInv'
    BY <2>1 DEF lockVars, LocksInv, Apart, Shape, AtRest, ReadShape, StopShape, NestedShape
  <2> QED
    BY <2>1, LocksNext DEF PackNext
<1>3. LocksInv => NoDeadlock
  BY LocksInvImplies DEF NoDeadlock
<1> QED
  BY <1>1, <1>2, <1>3, PTL DEF PackSpec

=============================================================================
