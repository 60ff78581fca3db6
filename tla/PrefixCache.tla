---------------------------- MODULE PrefixCache ----------------------------
(***************************************************************************)
(* What cache-aware routing promises: for every worker the set of prefixes *)
(* it is believed to have in its cache, and requests that go to a worker   *)
(* with the longest of them.                                               *)
(***************************************************************************)
EXTENDS Naturals, Sequences, FiniteSets

CONSTANTS
  Workers, Texts,
  ModelOf,    \* per worker, the model it serves
  MaxSize     \* characters a worker may keep after an eviction

VARIABLES
  has,        \* per worker, the prefixes it has
  last        \* the text and worker of the last request, if it was a hit

NoHit == [text |-> <<>>, worker |-> 0]

Prefixes(text) == {SubSeq(text, 1, n) : n \in 0 .. Len(text)}

\* The length of the longest prefix of the text a worker has.
Longest(w, text) ==
  LET lens == {Len(p) : p \in has[w] \cap Prefixes(text)}
  IN IF lens = {} THEN 0 ELSE CHOOSE n \in lens : \A m \in lens : m <= n

Init ==
  /\ has = [w \in Workers |-> {}]
  /\ last = NoHit

Add(w) ==
  /\ has' = [has EXCEPT ![w] = @ \cup {<<>>}]
  /\ UNCHANGED last

\* A hit is a worker with the longest match among those of its model, and with
\* more than half of the text.
Serve ==
  \E text \in Texts, w \in Workers, hit \in BOOLEAN :
    /\ hit => /\ 2 * Longest(w, text) > Len(text)
              /\ \A v \in Workers : ModelOf[v] = ModelOf[w] => Longest(v, text) <= Longest(w, text)
    /\ has' = [has EXCEPT ![w] = @ \cup Prefixes(text)]
    /\ last' = IF hit THEN [text |-> text, worker |-> w] ELSE NoHit

Remove(w) ==
  /\ has' = [has EXCEPT ![w] = {}]
  /\ UNCHANGED last

\* An eviction takes from the workers that have too much, and only from them;
\* what is left is closed under prefixes and small enough.
Evict ==
  /\ \A w \in Workers :
       /\ has'[w] \subseteq has[w] /\ Cardinality(has'[w]) <= MaxSize + 1
       /\ Cardinality(has[w]) <= MaxSize + 1 => has'[w] = has[w]
       /\ \A p \in has'[w] : Prefixes(p) \subseteq has'[w]
  /\ DOMAIN has' = Workers
  /\ UNCHANGED last

Next == Serve \/ Evict \/ \E w \in Workers : Add(w) \/ Remove(w)

Spec == Init /\ [][Next]_<<has, last>>
=============================================================================
