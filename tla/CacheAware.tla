----------------------------- MODULE CacheAware -----------------------------
(***************************************************************************)
(* The cache-aware policy (policies/cache_aware.rs) and its radix tree     *)
(* (policies/tree.rs).  All of it runs under the policy's mutex, so every  *)
(* operation is a step.                                                    *)
(*                                                                         *)
(* A tree node is named by the text from the root to its end; its own text *)
(* is what it adds to its parent's.  Access times decide which tenant of a *)
(* node is named and which leaf is evicted first; here any may be.         *)
(***************************************************************************)
EXTENDS Naturals, Sequences, FiniteSets, SequencesExt

CONSTANTS
  LastWorker,    \* the workers are 1 .. LastWorker
  Texts,         \* request texts: sequences of characters
  ModelOf,       \* per worker, the model it serves
  BalanceAbs,    \* balance_abs_threshold
  MaxSize,       \* max_tree_size
  Loads          \* the loads of the workers that are told apart

Workers == 1 .. LastWorker
Models == {ModelOf[w] : w \in Workers}

VARIABLES
  tree,      \* per model: held, from nodes to the tenants they list, and count,
             \* the characters of each tenant that is known (tenant_char_count)
  last       \* the last selection, if the cache decided it

vars == <<tree, last>>

-----------------------------------------------------------------------------
(* Tree                                                                    *)

\* Tree::new
EmptyTree == [held |-> <<>> :> {}, count |-> [w \in {} |-> 0]]

\* shared_prefix_count, as the prefix itself.
Shared(p, q) ==
  LET n == CHOOSE n \in 0 .. Len(p) :
             /\ n <= Len(q) /\ SubSeq(p, 1, n) = SubSeq(q, 1, n)
             /\ n = Len(p) \/ n = Len(q) \/ p[n + 1] # q[n + 1]
  IN SubSeq(p, 1, n)

\* The nodes between the root and a text, and the children of a node.
Parent(held, q) ==
  SubSeq(q, 1, Max({n \in 0 .. Len(q) - 1 : SubSeq(q, 1, n) \in DOMAIN held}))

Children(held, p) ==
  {q \in DOMAIN held : Len(q) > Len(p) /\ IsPrefix(p, q) /\ Parent(held, q) = p}

\* The child for the next character of the text, if there is one.
Towards(held, p, text) ==
  {q \in Children(held, p) : Len(p) < Len(text) /\ q[Len(p) + 1] = text[Len(p) + 1]}

Extend(count, w, n) == (w :> (IF w \in DOMAIN count THEN count[w] + n ELSE n)) @@ count

\* insert, from the node p on: a new leaf for the rest of the text, a node that
\* matches in full, or the shared part of one split off with its tenants.
RECURSIVE InsertFrom(_, _, _, _)
InsertFrom(t, p, text, w) ==
  IF p = text THEN t
  ELSE IF Towards(t.held, p, text) = {}
    THEN [held |-> (text :> {w}) @@ t.held, count |-> Extend(t.count, w, Len(text) - Len(p))]
  ELSE LET q == CHOOSE q \in Towards(t.held, p, text) : TRUE
           s == Shared(q, text)
           n == IF w \in t.held[q] THEN 0 ELSE Len(s) - Len(p)
       IN InsertFrom([held |-> (s :> (t.held[q] \cup {w})) @@ t.held,
                      count |-> Extend(t.count, w, n)], s, text, w)

insert(t, text, w) ==
  InsertFrom([held |-> [t.held EXCEPT ![<<>>] = @ \cup {w}], count |-> Extend(t.count, w, 0)],
             <<>>, text, w)

\* prefix_match, from the node p on: the text matched and the node it ended in.
RECURSIVE MatchFrom(_, _, _)
MatchFrom(held, p, text) ==
  IF Towards(held, p, text) = {} THEN [matched |-> p, node |-> p]
  ELSE LET q == CHOOSE q \in Towards(held, p, text) : TRUE
           s == Shared(q, text)
       IN IF s = q THEN MatchFrom(held, q, text) ELSE [matched |-> s, node |-> q]

\* The tenant named gets a new access time on the whole path to the root.
Touch(t, node, w) ==
  [t EXCEPT !.held = [p \in DOMAIN t.held |->
                        IF IsPrefix(p, node) THEN t.held[p] \cup {w} ELSE t.held[p]]]

Length(held, q) == IF q = <<>> THEN 0 ELSE Len(q) - Len(Parent(held, q))
Nodes(t, w) == {p \in DOMAIN t.held : w \in t.held[p]}
leaf_of(t, q) == {w \in t.held[q] : \A p \in Children(t.held, q) : w \notin t.held[p]}

\* One turn of the eviction or of remove_tenant: the tenant leaves a leaf, its
\* characters are taken off, and a node without tenants and children goes.
TakeAway(t, q, w) ==
  LET left == t.held[q] \ {w}
      held == [t.held EXCEPT ![q] = left]
      n == Length(t.held, q)
  IN [held |-> IF left = {} /\ q # <<>> /\ Children(t.held, q) = {}
                 THEN [p \in DOMAIN held \ {q} |-> held[p]] ELSE held,
      count |-> [t.count EXCEPT ![w] = IF @ > n THEN @ - n ELSE 0]]

\* evict_tenant_by_size: the set of trees it can end with, leaf by leaf in any
\* order, until no tenant that has a leaf is above the limit.
RECURSIVE EvictTenants(_, _)
EvictTenants(ts, size) ==
  LET todo(t) == {<<q, w>> \in (DOMAIN t.held) \X (DOMAIN t.count) :
                    w \in leaf_of(t, q) /\ t.count[w] > size}
      next == UNION {IF todo(t) = {} THEN {t} ELSE {TakeAway(t, x[1], x[2]) : x \in todo(t)} : t \in ts}
  IN IF next = ts THEN ts ELSE EvictTenants(next, size)

evict_tenant_by_size(t) == EvictTenants({t}, MaxSize)

\* remove_tenant: the tenant leaves every node, leaf by leaf, and the counts.
RECURSIVE RemoveLeaves(_, _)
RemoveLeaves(t, w) ==
  LET leaves == {q \in DOMAIN t.held : w \in leaf_of(t, q)}
  IN IF leaves = {} THEN t ELSE RemoveLeaves(TakeAway(t, CHOOSE q \in leaves : TRUE, w), w)

remove_tenant(t, w) ==
  LET r == RemoveLeaves([t EXCEPT !.count = (w :> 0) @@ @], w)
  IN [r EXCEPT !.count = [v \in DOMAIN @ \ {w} |-> @[v]]]

-----------------------------------------------------------------------------
(* CacheAwarePolicy                                                        *)

NoHit == [text |-> <<>>, worker |-> 0]

Init ==
  /\ tree = [m \in Models |-> EmptyTree]
  /\ last = NoHit

\* init_workers, add_worker
add_worker(w) ==
  /\ tree' = [tree EXCEPT ![ModelOf[w]] = insert(@, <<>>, w)]
  /\ UNCHANGED last

remove_worker(w) ==
  /\ tree' = [tree EXCEPT ![ModelOf[w]] = remove_tenant(@, w)]
  /\ UNCHANGED last

\* evict_cache, and the background thread
evict_cache ==
  /\ \E ts \in [Models -> UNION {evict_tenant_by_size(tree[m]) : m \in Models}] :
       /\ \A m \in Models : ts[m] \in evict_tenant_by_size(tree[m])
       /\ tree' = ts
  /\ UNCHANGED last

LeastLoaded(S, load) == {w \in S : \A v \in S : load[w] <= load[v]}

\* At its default the relative threshold adds nothing to the absolute one.
Imbalanced(load) == \E v, w \in Workers : load[v] > load[w] + BalanceAbs

Serves(trees, text, w, hit) ==
  /\ tree' = [trees EXCEPT ![ModelOf[w]] = insert(@, text, w)]
  /\ last' = IF hit THEN [text |-> text, worker |-> w] ELSE NoHit

\* The system is imbalanced: the shortest queue.
SelectShortest(text, healthy, load) ==
  /\ Imbalanced(load)
  /\ \E w \in LeastLoaded(healthy, load) : Serves(tree, text, w, FALSE)

\* The tenant prefix_match names for each model that has a healthy worker, the
\* most recent of the node it ended in; 0 stands for "empty".
Named(match, healthy) ==
  {f \in [{ModelOf[w] : w \in healthy} -> Workers \cup {0}] :
     \A m \in DOMAIN f :
       LET tenants == tree[m].held[match[m].node]
       IN IF tenants = {} THEN f[m] = 0 ELSE f[m] \in tenants}

\* get_used_size_per_tenant, summed
TreeSize(t) == MapThenSumSet(LAMBDA w : t.count[w], DOMAIN t.count)

\* Mutant of SelectCached: the model with the best match, whoever the tenant is.
SelectAnyOf(text, match, healthy, load) ==
  /\ ~Imbalanced(load)
  /\ \E w \in healthy :
       /\ 2 * Len(match[ModelOf[w]].matched) > Len(text)
       /\ Serves(tree, text, w, TRUE)

\* Balanced: the healthy tenant with the best match, if it has more than half of
\* the text; else the least loaded worker of the model with the smallest tree.
\* Every model that was asked refreshes the tenant it named.
SelectCached(text, match, healthy, load) ==
  /\ ~Imbalanced(load)
  /\ \E named \in Named(match, healthy) :
       LET asked == DOMAIN named
           rate(m) == Len(match[m].matched)
           usable == {m \in asked : named[m] \in healthy /\ rate(m) > 0}
           best == {m \in usable : \A n \in usable : rate(n) <= rate(m)}
           small == {m \in asked : \A n \in asked : TreeSize(tree[m]) <= TreeSize(tree[n])}
           touched == [m \in Models |-> IF m \in asked /\ named[m] # 0
                         THEN Touch(tree[m], match[m].node, named[m]) ELSE tree[m]]
       IN \/ \E m \in best : 2 * rate(m) > Len(text) /\ Serves(touched, text, named[m], TRUE)
          \/ /\ \A m \in best : 2 * rate(m) <= Len(text)
             /\ \E m \in small : \E w \in LeastLoaded({v \in healthy : ModelOf[v] = m}, load) :
                  Serves(touched, text, w, FALSE)

\* The workers a request passes, with their health and loads, are its argument.
select_worker(text) ==
  \E match \in {[m \in Models |-> MatchFrom(tree[m].held, <<>>, text)]},
     healthy \in SUBSET Workers \ {{}}, load \in Loads :
    SelectShortest(text, healthy, load) \/ SelectCached(text, match, healthy, load)

Next ==
  \/ \E text \in Texts : select_worker(text)
  \/ \E w \in Workers : add_worker(w) \/ remove_worker(w)
  \/ evict_cache

Spec == Init /\ [][Next]_vars

-----------------------------------------------------------------------------

\* The tree as sets of prefixes: a worker has those of the nodes that list it.
Has(w) == UNION {{SubSeq(p, 1, n) : n \in 0 .. Len(p)} : p \in Nodes(tree[ModelOf[w]], w)}

Cache == INSTANCE PrefixCache WITH has <- [w \in Workers |-> Has(w)]

\* Requests go to workers as if every worker kept the set of prefixes it was
\* sent, evictions and removals included: splits, shared nodes and refreshed
\* access times never give a worker a prefix it was not sent, or lose one.
ImplementsCache == Cache!Spec
=============================================================================
