----------------------------- MODULE Similarity -----------------------------
(***************************************************************************)
(* What claims.normalize and relations.analyze share (similarity.rs):      *)
(* union-find, the candidate pairs of each claim's nearest neighbours, and *)
(* the batches a large set of claims is asked about in.  Items are         *)
(* numbered from 1; how alike two of them are is a number, 0 for nothing   *)
(* in common.                                                              *)
(***************************************************************************)
EXTENDS Integers, Sequences, SequencesExt, FiniteSetsExt, FiniteSets

CONSTANTS
  TopK,      \* neighbours that each item brings in
  MaxPairs,  \* MAX_CANDIDATE_PAIRS
  MaxClaims  \* max_claims_per_batch

ASSUME SimilarityAssumption == TopK \in Nat /\ MaxPairs \in Nat \ {0} /\ MaxClaims \in Nat \ {0}

---------------------------------------------------------------------------
\* The members of S in an order, which is a set of pairs: each is where as
\* many come before it.
InOrder(S, order) ==
  [k \in 1..Cardinality(S) |-> CHOOSE x \in S : Cardinality({y \in S : <<y, x>> \in order}) = k - 1]

Smaller(S) == {p \in S \X S : p[1] < p[2]}

\* What a sequence has at some of its places, and sequences one after the other.
Keep(seq, places) ==
  LET kept == InOrder(places, Smaller(places))
  IN  [k \in DOMAIN kept |-> seq[kept[k]]]

Joined(s, t) == s \o t

Flat(seqs) == FoldLeft(Joined, << >>, seqs)

\* The arithmetic order on pairs that a BTreeSet iterates in.
Before(p, q) == p[1] < q[1] \/ (p[1] = q[1] /\ p[2] < q[2])

PairsInOrder(pairs) == InOrder(pairs, {pq \in pairs \X pairs : Before(pq[1], pq[2])})

Ordered(i, j) == IF i < j THEN <<i, j>> ELSE <<j, i>>

---------------------------------------------------------------------------
(* UnionFind: parent[i] = i for a root.  Path compression moves no root. *)

Alone(n) == [i \in 1..n |-> i]

Find(parent, i) ==
  LET root[j \in DOMAIN parent] == IF parent[j] = j THEN j ELSE root[parent[j]]
  IN  root[i]

\* Mutant: the items themselves are linked, not their roots.
UnionOfItems(parent, i, j) == [parent EXCEPT ![i] = Find(parent, j)]

Union(parent, i, j) == [parent EXCEPT ![Find(parent, i)] = Find(parent, j)]

Tie(parent, link) == Union(parent, link[1], link[2])

UnionAll(parent, links) == FoldLeft(Tie, parent, links)

Roots(parent) == {Find(parent, i) : i \in DOMAIN parent}

Class(parent, root) == {i \in DOMAIN parent : Find(parent, i) = root}

---------------------------------------------------------------------------
\* The items that have something in common with i, most alike first; the sort
\* is stable.
Neighbours(score, i) ==
  LET alike == {j \in DOMAIN score : j # i /\ score[i][j] > 0}
  IN  InOrder(alike, {p \in alike \X alike :
                        \/ score[i][p[1]] > score[i][p[2]]
                        \/ score[i][p[1]] = score[i][p[2]] /\ p[1] < p[2]})

\* The pairs that i brings in.
Nearest(score, i) ==
  LET all == Neighbours(score, i)
  IN  [k \in 1..(IF Len(all) < TopK THEN Len(all) ELSE TopK) |-> Ordered(i, all[k])]

Offer(pairs, p) == IF Cardinality(pairs) >= MaxPairs THEN pairs ELSE pairs \union {p}

\* top_k_pairs: item by item, until there are MaxPairs of them.
TopPairs(score) ==
  FoldLeft(Offer, {}, Flat([i \in 1..Len(score) |-> Nearest(score, i)]))

\* The connected components of the pairs, the largest first.
Components(n, pairs) ==
  LET parent == UnionAll(Alone(n), PairsInOrder(pairs))
      size(r) == Cardinality(Class(parent, r))
      roots == InOrder(Roots(parent), {p \in Roots(parent) \X Roots(parent) :
                                         \/ size(p[1]) > size(p[2])
                                         \/ size(p[1]) = size(p[2]) /\ p[1] < p[2]})
  IN  [k \in DOMAIN roots |->
         InOrder(Class(parent, roots[k]), Smaller(Class(parent, roots[k])))]

\* First fit; what fits nowhere opens a batch of its own, however large.
Place(batches, component) ==
  LET fits == {b \in DOMAIN batches : Len(batches[b]) + Len(component) <= MaxClaims}
  IN  IF fits = {} THEN Append(batches, component)
      ELSE [batches EXCEPT ![Min(fits)] = @ \o component]

\* partition_into_batches
Batches(n, pairs) ==
  IF n <= MaxClaims THEN <<[i \in 1..n |-> i]>>
  ELSE FoldLeft(Place, << >>, Components(n, pairs))

\* chunks() of a slice.
Chunks(seq, size) ==
  [k \in 1..((Len(seq) + size - 1) \div size) |->
     SubSeq(seq, (k - 1) * size + 1, IF k * size < Len(seq) THEN k * size ELSE Len(seq))]
=============================================================================
