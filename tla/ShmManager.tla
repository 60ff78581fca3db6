----------------------------- MODULE ShmManager -----------------------------
(***************************************************************************)
(* Shared-memory regions and the leases on them (system_actor/shm.rs).     *)
(* Every operation runs under the manager's lock.  A descriptor is plain   *)
(* data: it can be copied, kept, mapped and released at any later time.    *)
(***************************************************************************)
EXTENDS Naturals, Sequences, FiniteSets, Functions

CONSTANTS
  ShmNames,      \* the names regions are published under
  MaxRegions,    \* bound: regions created
  MaxLeases      \* bound: leases created

VARIABLES
  shm,        \* ShmState
  overdue,    \* the leases whose deadline has passed
  handed      \* history: the descriptors, each with its bytes and if it was revoked

shmVars == <<shm, overdue, handed>>

NoName == "none"

\* Option<String>: None is no name.
ASSUME ShmAssumption == NoName \notin ShmNames

\* A region is identified by its id; its bytes by how many were created before.
ShmInit ==
  /\ shm = [next_region_id |-> 0, next_lease_id |-> 0, regions |-> <<>>, published_names |-> <<>>,
            created |-> 0]
  /\ overdue = {}
  /\ handed = <<>>

\* The generation is 1 in every descriptor and every region.
Region(name, leases) == [bytes |-> shm.created + 1, published_name |-> name, leases |-> leases]

Without(f, keys) == Restrict(f, DOMAIN f \ keys)
Inserted(f, key, value) == [k \in DOMAIN f \cup {key} |-> IF k = key THEN value ELSE f[k]]

Bare(region) == region.leases = {} /\ region.published_name = NoName

\* reclaim_expired_locked: overdue leases go, then the regions nothing keeps.
reclaim_expired_locked(s) ==
  LET kept == [r \in DOMAIN s.regions |-> [s.regions[r] EXCEPT !.leases = @ \ overdue]]
  IN [s EXCEPT !.regions = Without(kept, {r \in DOMAIN kept : Bare(kept[r])})]

\* A region, without what was kept of it if nothing keeps it any more.
Settle(s, r) == IF Bare(s.regions[r]) THEN [s EXCEPT !.regions = Without(@, {r})] ELSE s

Hand(s, lease, region) ==
  handed' = Append(handed, [region |-> region, lease |-> lease, bytes |-> s.regions[region].bytes,
                            revoked |-> FALSE])

Revoke(which) ==
  handed' = [i \in DOMAIN handed |-> [handed[i] EXCEPT !.revoked = @ \/ i \in which]]

-----------------------------------------------------------------------------

offer ==
  /\ shm.created < MaxRegions /\ Len(handed) < MaxLeases
  /\ LET s == reclaim_expired_locked(shm)
         region == s.next_region_id + 1
         lease == s.next_lease_id + 1
         new == [s EXCEPT !.next_region_id = region, !.next_lease_id = lease, !.created = @ + 1,
                   !.regions = Inserted(@, region, Region(NoName, {lease}))]
     IN shm' = new /\ Hand(new, lease, region)
  /\ UNCHANGED overdue

\* A name that is taken is refused; the reclaiming before that is kept.
publish(name) ==
  /\ shm.created < MaxRegions
  /\ LET s == reclaim_expired_locked(shm)
         region == s.next_region_id + 1
     IN shm' = IF name \in DOMAIN s.published_names THEN s
               ELSE [s EXCEPT !.next_region_id = region, !.created = @ + 1,
                       !.published_names = Inserted(@, name, region),
                       !.regions = Inserted(@, region, Region(name, {}))]
  /\ UNCHANGED <<overdue, handed>>

open(name) ==
  /\ Len(handed) < MaxLeases
  /\ LET s == reclaim_expired_locked(shm)
         lease == s.next_lease_id + 1
     IN IF name \notin DOMAIN s.published_names
          THEN shm' = s /\ UNCHANGED handed
          ELSE LET region == s.published_names[name]
                   new == [s EXCEPT !.next_lease_id = lease, !.regions[region].leases = @ \cup {lease}]
               IN shm' = new /\ Hand(new, lease, region)
  /\ UNCHANGED overdue

\* What map answers for a descriptor: the bytes, or nothing.
Refused == 0
Holds(d, leases) == d.region \in DOMAIN shm.regions /\ d.lease \in shm.regions[d.region].leases \cap leases
Mapping(d) == IF Holds(d, 1..shm.next_lease_id \ overdue) THEN shm.regions[d.region].bytes ELSE Refused

Unleased(d) == Settle([shm EXCEPT !.regions[d.region].leases = @ \ {d.lease}], d.region)

\* map changes state only when it meets a lease that is overdue.
map(d) ==
  /\ Holds(d, overdue)
  /\ shm' = Unleased(d)
  /\ UNCHANGED <<overdue, handed>>

\* release is idempotent.
release(i) ==
  /\ shm' = IF handed[i].region \in DOMAIN shm.regions THEN Unleased(handed[i]) ELSE shm
  /\ Revoke({i})
  /\ UNCHANGED overdue

unpublish(name) ==
  /\ name \in DOMAIN shm.published_names
  /\ LET region == shm.published_names[name]
         hidden == [shm EXCEPT !.published_names = Without(@, {name})]
     IN shm' = IF region \in DOMAIN shm.regions
                 THEN Settle([hidden EXCEPT !.regions[region].published_name = NoName], region)
                 ELSE hidden
  /\ UNCHANGED <<overdue, handed>>

\* reclaim_expired, and stats before it counts.
reclaim_expired ==
  /\ shm' = reclaim_expired_locked(shm)
  /\ UNCHANGED <<overdue, handed>>

\* Mutant of cleared: the whole state is made anew.
ClearedAnew == [next_region_id |-> 0, next_lease_id |-> 0, regions |-> <<>>, published_names |-> <<>>,
                created |-> shm.created]

\* The counters survive.
cleared == [shm EXCEPT !.regions = <<>>, !.published_names = <<>>]

clear ==
  /\ shm' = cleared
  /\ Revoke(DOMAIN handed)
  /\ UNCHANGED overdue

\* The deadline of a lease passes (a TTL beyond the clock's range never ends).
Expire(i) ==
  /\ handed[i].lease \notin overdue
  /\ overdue' = overdue \cup {handed[i].lease}
  /\ Revoke({i})
  /\ UNCHANGED shm

ShmNext ==
  \/ offer \/ reclaim_expired
  \/ \E name \in ShmNames : publish(name) \/ open(name) \/ unpublish(name)
  \/ \E i \in DOMAIN handed : map(handed[i]) \/ release(i) \/ Expire(i)

-----------------------------------------------------------------------------

(* A descriptor maps the bytes it was handed out for, or nothing: after its *)
(* release, its deadline or a clear it maps nothing, and a region created   *)
(* later never answers to it.                                               *)
NoStaleMap ==
  \A i \in DOMAIN handed :
    Mapping(handed[i]) # Refused => Mapping(handed[i]) = handed[i].bytes /\ ~handed[i].revoked

=============================================================================
