----------------------------- MODULE FoldLemmas -----------------------------
(***************************************************************************)
(* Induction, sums and folds, in a form the provers can use.  The theorems *)
(* of the library take what is to be proved as an operator; here it is the *)
(* set of what it holds of, which can be any set term.  The operator that  *)
(* is folded is a CONSTANT: a module that proves something about a fold    *)
(* takes an instance of this one with its own.                             *)
(***************************************************************************)
EXTENDS Integers, Sequences, FiniteSets, SequencesExt, Functions,
        FiniteSetTheorems, WellFoundedInduction, TLAPS

CONSTANT Op(_, _)  \* what is folded: an accumulator and an element

---------------------------------------------------------------------------
(* Induction *)

LEMMA LeastElement ==
  ASSUME NEW T \in SUBSET Nat, T # {}
  PROVE  \E n \in T : \A m \in T : n <= m
<1> DEFINE R == {ss \in Nat \X Nat : ss[1] < ss[2]}
<1>1. OpToRel(<, Nat) = R
  BY DEF OpToRel
<1>2. IsWellFoundedOn(R, Nat)
  BY NatLessThanWellFounded, <1>1
<1>3. \E n \in T : \A m \in T : ~(<<m, n>> \in R)
  <2> HIDE DEF R
  <2> QED BY <1>2, WFMin
<1>4. PICK n \in T : \A m \in T : ~(<<m, n>> \in R)
  BY <1>3
<1>5. ASSUME NEW m \in T PROVE n <= m
  <2>1. <<m, n>> \notin R /\ <<m, n>> \in Nat \X Nat
    BY <1>4
  <2>2. ~(<<m, n>>[1] < <<m, n>>[2])
    BY <2>1
  <2> QED BY <2>2
<1> QED BY <1>5

\* What holds of 0, and of n + 1 if of n, holds of every number.
LEMMA NatByInduction ==
  ASSUME NEW G, 0 \in G, \A n \in Nat : n \in G => n + 1 \in G
  PROVE  Nat \subseteq G
<1> DEFINE T == Nat \ G
<1> SUFFICES ASSUME T # {} PROVE FALSE
  OBVIOUS
<1>1. PICK n \in T : \A m \in T : n <= m
  BY LeastElement
<1>2. n # 0 /\ n - 1 \in Nat
  BY <1>1
<1>3. n - 1 \in G
  BY <1>1, <1>2
<1> QED
  BY <1>2, <1>3

\* What holds of a set if of every set with one element less holds of all of them.
LEMMA FiniteByInduction ==
  ASSUME NEW S, IsFiniteSet(S), NEW G,
         \A s \in SUBSET S : (\A x \in s : s \ {x} \in G) => s \in G
  PROVE  SUBSET S \subseteq G
<1> DEFINE Bad == {n \in Nat : \E s \in SUBSET S : s \notin G /\ Cardinality(s) = n}
<1> SUFFICES ASSUME NEW t \in SUBSET S, t \notin G PROVE FALSE
  OBVIOUS
<1>1. \A s \in SUBSET S : IsFiniteSet(s) /\ Cardinality(s) \in Nat
  BY FS_Subset, FS_CardinalityType
<1>2. Cardinality(t) \in Bad
  BY <1>1
<1>3. PICK n \in Bad : \A m \in Bad : n <= m
  BY <1>2, LeastElement
<1>4. PICK s \in SUBSET S : s \notin G /\ Cardinality(s) = n
  BY <1>3
<1>5. PICK x \in s : s \ {x} \notin G
  BY <1>4
<1>6. Cardinality(s \ {x}) = n - 1
  BY <1>1, <1>4, FS_RemoveElement
<1>7. n - 1 \in Bad
  BY <1>1, <1>5, <1>6
<1> QED
  BY <1>3, <1>7

(***************************************************************************)
(* A function that calls itself with an argument of a smaller measure      *)
(* exists, if the measure has a bound.                                     *)
(***************************************************************************)
Loops(f, B, Done, out, next) == f = [b \in B |-> IF b \in Done THEN out[b] ELSE f[next[b]]]

Shrinks(B, Done, next, measure) ==
  \A b \in B : b \notin Done => next[b] \in B /\ measure[next[b]] < measure[b]

LEMMA LoopExists ==
  ASSUME NEW B, NEW bound \in Nat, NEW measure \in [B -> 0..bound],
         NEW Done, NEW out, NEW next, Shrinks(B, Done, next, measure)
  PROVE  \E f : Loops(f, B, Done, out, next)
<1> DEFINE Upto(n) == {b \in B : measure[b] <= n}
           Body(g, b) == IF b \in Done THEN out[b] ELSE g[next[b]]
           G == {n \in Nat : \E g : g = [b \in Upto(n) |-> Body(g, b)]}
<1> USE DEF Shrinks
<1>1. 0 \in G
  <2> DEFINE g == [b \in Upto(0) |-> out[b]]
  <2>1. \A b \in Upto(0) : b \in Done
    <3> SUFFICES ASSUME NEW b \in Upto(0), b \notin Done PROVE FALSE
      OBVIOUS
    <3>1. measure[b] <= 0 /\ b \in B
      OBVIOUS
    <3>2. measure[next[b]] < measure[b] /\ measure[next[b]] \in 0..bound /\ measure[b] \in 0..bound
      BY <3>1
    <3> QED BY <3>1, <3>2
  <2>2. g = [b \in Upto(0) |-> Body(g, b)]
    BY <2>1
  <2> QED BY <2>2
<1>2. ASSUME NEW n \in Nat, n \in G PROVE n + 1 \in G
  <2>1. PICK g : g = [b \in Upto(n) |-> Body(g, b)]
    BY <1>2
  <2> DEFINE h == [b \in Upto(n + 1) |-> IF b \in Upto(n) THEN g[b] ELSE Body(g, b)]
  <2>2. ASSUME NEW b \in Upto(n + 1) PROVE h[b] = Body(h, b)
    <3>1. CASE b \in Done
      BY <2>1, <3>1
    <3>2. CASE b \notin Done
      <4>1. /\ next[b] \in B /\ measure[next[b]] < measure[b] /\ measure[b] <= n + 1
            /\ measure[next[b]] \in 0..bound /\ measure[b] \in 0..bound
        BY <3>2
      <4>2. next[b] \in Upto(n) /\ next[b] \in Upto(n + 1)
        BY <4>1
      <4>3. h[next[b]] = g[next[b]]
        BY <4>2
      <4>4. h[b] = Body(g, b)
        BY <2>1
      <4> QED BY <3>2, <4>3, <4>4
    <3> QED BY <3>1, <3>2
  <2>3. h = [b \in Upto(n + 1) |-> Body(h, b)]
    <3> HIDE DEF Body, Upto
    <3> QED BY <2>2
  <2> HIDE DEF h, Body, Upto
  <2> QED BY <2>3
<1>3. bound \in G
  <2> HIDE DEF G
  <2>1. Nat \subseteq G
    BY <1>1, <1>2, NatByInduction
  <2> QED BY <2>1
<1>4. Upto(bound) = B
  OBVIOUS
<1> HIDE DEF Upto
<1> QED BY <1>3, <1>4 DEF Loops

---------------------------------------------------------------------------
(* Folds *)

\* What a fold of op over the elements of f computes for each part of S.
Computes(iter, base, f, pick, S) ==
  iter = [s \in SUBSET S |->
            IF s = {} THEN base ELSE Op(iter[s \ {pick[s]}], f[pick[s]])]

LEMMA FoldExists ==
  ASSUME NEW S, IsFiniteSet(S), NEW base, NEW f, NEW pick,
         \A s \in SUBSET S : s # {} => pick[s] \in s
  PROVE  \E iter : Computes(iter, base, f, pick, S)
<1> DEFINE Upto(n) == {s \in SUBSET S : Cardinality(s) <= n}
           Body(g, s) == IF s = {} THEN base ELSE Op(g[s \ {pick[s]}], f[pick[s]])
           G == {n \in Nat : \E g : g = [s \in Upto(n) |-> Body(g, s)]}
<1>1. \A s \in SUBSET S : IsFiniteSet(s) /\ Cardinality(s) \in Nat
  BY FS_Subset, FS_CardinalityType
<1>2. 0 \in G
  <2> DEFINE g == [s \in Upto(0) |-> base]
  <2>1. \A s \in Upto(0) : s = {}
    BY <1>1, FS_EmptySet
  <2>2. g = [s \in Upto(0) |-> Body(g, s)]
    BY <2>1
  <2> QED BY <2>2
<1>3. ASSUME NEW n \in Nat, n \in G PROVE n + 1 \in G
  <2>1. PICK g : g = [s \in Upto(n) |-> Body(g, s)]
    BY <1>3
  <2> DEFINE h == [s \in Upto(n + 1) |-> IF s \in Upto(n) THEN g[s] ELSE Body(g, s)]
  <2>2. ASSUME NEW s \in Upto(n + 1) PROVE h[s] = Body(h, s)
    <3>1. CASE s = {}
      BY <2>1, <3>1
    <3>2. CASE s # {}
      <4>1. Cardinality(s \ {pick[s]}) = Cardinality(s) - 1
        BY <1>1, <3>2, FS_RemoveElement
      <4>2. s \ {pick[s]} \in Upto(n)
        BY <1>1, <4>1
      <4>3. s \ {pick[s]} \in Upto(n + 1)
        BY <1>1, <4>2
      <4>4. Body(h, s) = Body(g, s)
        BY <4>2, <4>3
      <4>5. h[s] = Body(g, s)
        BY <2>1
      <4> QED BY <4>4, <4>5
    <3> QED BY <3>1, <3>2
  <2>3. h = [s \in Upto(n + 1) |-> Body(h, s)]
    <3> HIDE DEF Body, Upto
    <3> QED BY <2>2
  <2> HIDE DEF h, Body, Upto
  <2> QED BY <2>3
<1>4. Cardinality(S) \in G
  <2> HIDE DEF G
  <2>1. Nat \subseteq G
    BY <1>2, <1>3, NatByInduction
  <2> QED BY <1>1, <2>1
<1>5. Upto(Cardinality(S)) = SUBSET S
  BY <1>1, FS_Subset
<1> QED
  BY <1>4, <1>5 DEF Computes

Step(element, acc) == Op(acc, element)

SetFold(base, f, S) == FoldFunctionOnSet(Step, base, f, S)

SequenceFold(base, seq) == FoldLeft(Op, base, seq)

(***************************************************************************)
(* FoldFunctionOnSet takes the elements in an order that is not known: one *)
(* of those of each part comes last.                                       *)
(***************************************************************************)
Accumulates(iter, base, f, S) ==
  /\ iter[{}] = base
  /\ \A s \in SUBSET S : s # {} => \E x \in s : iter[s] = Op(iter[s \ {x}], f[x])

LEMMA SetFoldUnfolds ==
  ASSUME NEW S, IsFiniteSet(S), NEW base, NEW f
  PROVE  \E iter : Accumulates(iter, base, f, S) /\ SetFold(base, f, S) = iter[S]
<1> DEFINE pick == [s \in SUBSET S |-> CHOOSE x \in s : TRUE]
           Is(iter) == iter = [s \in SUBSET S |->
                                 IF s = {} THEN base
                                 ELSE Op(iter[s \ {CHOOSE x \in s : TRUE}], f[CHOOSE x \in s : TRUE])]
           fold == CHOOSE iter : Is(iter)
<1>1. PICK iter : Computes(iter, base, f, pick, S)
  <2>1. \A s \in SUBSET S : s # {} => pick[s] \in s
    OBVIOUS
  <2> HIDE DEF pick
  <2> QED BY <2>1, FoldExists
<1>2. Is(iter)
  BY <1>1 DEF Computes
<1>3. Is(fold)
  BY <1>2
<1>4. SetFold(base, f, S) = fold[S]
  BY DEF SetFold, FoldFunctionOnSet, MapThenFoldSet, Step
<1> HIDE DEF fold
<1>5. fold[{}] = base
  BY <1>3
<1>6. ASSUME NEW s \in SUBSET S, s # {}
      PROVE  \E x \in s : fold[s] = Op(fold[s \ {x}], f[x])
  BY <1>3, <1>6
<1>7. Accumulates(fold, base, f, S)
  BY <1>5, <1>6 DEF Accumulates
<1> QED
  BY <1>4, <1>7

(***************************************************************************)
(* FoldLeft takes the elements of a sequence in turn.                      *)
(***************************************************************************)
InTurn(g, base, seq, n) == g[0] = base /\ \A i \in 1..n : g[i] = Op(g[i - 1], seq[i])

LEMMA SequenceFoldUnfolds ==
  ASSUME NEW n \in Nat, NEW seq, DOMAIN seq = 1..n, NEW base
  PROVE  \E g : InTurn(g, base, seq, n) /\ SequenceFold(base, seq) = g[n]
<1> DEFINE S == 1..n
           pick == [s \in SUBSET S |-> Max(s)]
           Is(iter) == iter = [s \in SUBSET S |->
                                 IF s = {} THEN base ELSE Op(iter[s \ {Max(s)}], seq[Max(s)])]
           fold == CHOOSE iter : Is(iter)
           g == [i \in 0..n |-> fold[1..i]]
<1>1. ASSUME NEW s \in SUBSET S, s # {} PROVE Max(s) \in s
  <2> DEFINE T == {n - i : i \in s}
  <2>1. T \subseteq Nat /\ T # {}
    <3>1. \A i \in s : n - i \in Nat
      OBVIOUS
    <3> QED BY <1>1, <3>1
  <2>2. PICK t \in T : \A u \in T : t <= u
    <3> HIDE DEF T
    <3> QED BY <2>1, LeastElement
  <2>3. \E x \in s : \A y \in s : x >= y
    <3>1. PICK x \in s : t = n - x
      BY <2>2
    <3>2. \A y \in s : n - x <= n - y
      BY <2>2, <3>1
    <3> QED BY <3>2
  <2> QED BY <2>3 DEF Max
<1>2. PICK iter : Computes(iter, base, seq, pick, S)
  <2>1. \A s \in SUBSET S : s # {} => pick[s] \in s
    BY <1>1
  <2>2. IsFiniteSet(S)
    BY FS_Interval
  <2> HIDE DEF pick, S
  <2> QED BY <2>1, <2>2, FoldExists
<1>3. Is(iter)
  BY <1>2 DEF Computes
<1>4. Is(fold)
  <2> HIDE DEF Is
  <2> QED BY <1>3
<1>5. SequenceFold(base, seq) = fold[S]
  BY DEF SequenceFold, FoldLeft, MapThenFoldSet
<1> HIDE DEF fold
<1>6. ASSUME NEW i \in 1..n PROVE g[i] = Op(g[i - 1], seq[i])
  <2>1. Max(1..i) = i
    BY DEF Max
  <2>2. (1..i) \ {i} = 1..(i - 1) /\ 1..i \in SUBSET S /\ 1..i # {}
    OBVIOUS
  <2>3. fold[1..i] = Op(fold[1..(i - 1)], seq[i])
    BY <1>4, <2>1, <2>2
  <2> QED BY <2>3
<1>7. g[0] = base
  <2>1. 1..0 = {}
    OBVIOUS
  <2> QED BY <1>4, <2>1
<1>8. g[n] = fold[S]
  OBVIOUS
<1> HIDE DEF g
<1> QED
  BY <1>5, <1>6, <1>7, <1>8 DEF InTurn

\* What every step keeps, the fold of a sequence keeps.
LEMMA SequenceFoldKeeps ==
  ASSUME NEW n \in Nat, NEW seq, DOMAIN seq = 1..n, NEW base,
         NEW G, base \in G, \A acc \in G, i \in 1..n : Op(acc, seq[i]) \in G
  PROVE  SequenceFold(base, seq) \in G
<1>1. PICK g : InTurn(g, base, seq, n) /\ SequenceFold(base, seq) = g[n]
  BY SequenceFoldUnfolds
<1> DEFINE Kept == {i \in Nat : i <= n => g[i] \in G}
<1>2. 0 \in Kept
  BY <1>1 DEF InTurn
<1>3. ASSUME NEW i \in Nat, i \in Kept PROVE i + 1 \in Kept
  <2>1. CASE i + 1 <= n
    <3>1. i + 1 \in 1..n /\ (i + 1) - 1 = i /\ g[i] \in G
      BY <1>3, <2>1
    <3>2. g[i + 1] = Op(g[i], seq[i + 1])
      BY <1>1, <3>1 DEF InTurn
    <3> QED BY <3>1, <3>2
  <2>2. CASE ~(i + 1 <= n)
    BY <2>2
  <2> QED BY <2>1, <2>2
<1> HIDE DEF Kept
<1>4. Nat \subseteq Kept
  BY <1>2, <1>3, NatByInduction
<1> QED BY <1>1, <1>4 DEF Kept

\* The same for a property that grows with the part of the sequence folded so far.
LEMMA SequenceFoldReaches ==
  ASSUME NEW n \in Nat, NEW seq, DOMAIN seq = 1..n, NEW base,
         NEW H, base \in H[0], \A i \in 1..n : \A acc \in H[i - 1] : Op(acc, seq[i]) \in H[i]
  PROVE  SequenceFold(base, seq) \in H[n]
<1>1. PICK g : InTurn(g, base, seq, n) /\ SequenceFold(base, seq) = g[n]
  BY SequenceFoldUnfolds
<1> DEFINE Reached == {i \in Nat : i <= n => g[i] \in H[i]}
<1>2. 0 \in Reached
  BY <1>1 DEF InTurn
<1>3. ASSUME NEW i \in Nat, i \in Reached PROVE i + 1 \in Reached
  <2>1. CASE i + 1 <= n
    <3>1. i + 1 \in 1..n /\ (i + 1) - 1 = i /\ g[i] \in H[i]
      BY <1>3, <2>1
    <3>2. g[i + 1] = Op(g[i], seq[i + 1])
      BY <1>1, <3>1 DEF InTurn
    <3>3. \A acc \in H[i] : Op(acc, seq[i + 1]) \in H[i + 1]
      BY <3>1
    <3> QED BY <3>1, <3>2, <3>3
  <2>2. CASE ~(i + 1 <= n)
    BY <2>2
  <2> QED BY <2>1, <2>2
<1> HIDE DEF Reached
<1>4. Nat \subseteq Reached
  BY <1>2, <1>3, NatByInduction
<1> QED BY <1>1, <1>4 DEF Reached

---------------------------------------------------------------------------
(***************************************************************************)
(* Sums: what is folded is addition.  The order does not matter then, and  *)
(* a sum over a part of S is found on the way to the sum over S.           *)
(***************************************************************************)
Total(f, S) == SetFold(0, f, S)

Adds == \A x, y \in Int : Op(x, y) = x + y

LEMMA TotalUnfolds ==
  ASSUME NEW S, IsFiniteSet(S), NEW f
  PROVE  \E iter : Accumulates(iter, 0, f, S) /\ Total(f, S) = iter[S]
BY SetFoldUnfolds DEF Total

LEMMA OpAdds ==
  ASSUME Adds, NEW x \in Int, NEW y \in Int
  PROVE  Op(x, y) = x + y
BY DEF Adds

LEMMA PartialSums ==
  ASSUME Adds, NEW S, IsFiniteSet(S), NEW f, \A x \in S : f[x] \in Int,
         NEW iter, Accumulates(iter, 0, f, S)
  PROVE  \A s \in SUBSET S : iter[s] \in Int
<1> DEFINE G == {s \in SUBSET S : iter[s] \in Int}
<1>1. ASSUME NEW s \in SUBSET S, \A x \in s : s \ {x} \in G PROVE s \in G
  <2>1. CASE s = {}
    BY <2>1 DEF Accumulates
  <2>2. CASE s # {}
    <3>1. PICK y \in s : iter[s] = Op(iter[s \ {y}], f[y])
      BY <2>2 DEF Accumulates
    <3>2. iter[s \ {y}] \in Int /\ f[y] \in Int
      BY <1>1
    <3>3. Op(iter[s \ {y}], f[y]) = iter[s \ {y}] + f[y]
      BY <3>2, OpAdds
    <3> HIDE DEF G
    <3>4. iter[s] \in Int
      BY <3>1, <3>2, <3>3
    <3> QED BY <3>4 DEF G
  <2> QED BY <2>1, <2>2
<1> HIDE DEF G
<1>2. SUBSET S \subseteq G
  BY <1>1, FiniteByInduction
<1> QED BY <1>2 DEF G

LEMMA AnyOrder ==
  ASSUME Adds, NEW S, IsFiniteSet(S), NEW f, \A x \in S : f[x] \in Int,
         NEW iter, Accumulates(iter, 0, f, S), NEW other, Accumulates(other, 0, f, S)
  PROVE  \A s \in SUBSET S : /\ iter[s] \in Int /\ other[s] = iter[s]
                             /\ \A x \in s : iter[s] = f[x] + iter[s \ {x}]
<1> DEFINE AnyIn(s) == \A x \in s : iter[s] = f[x] + iter[s \ {x}]
           G == {s \in SUBSET S : other[s] = iter[s] /\ AnyIn(s)}
<1>1. \A s \in SUBSET S : iter[s] \in Int
  BY PartialSums
<1>2. ASSUME NEW s \in SUBSET S, \A x \in s : s \ {x} \in G PROVE s \in G
  <2>1. CASE s = {}
    BY <2>1 DEF Accumulates
  <2>2. CASE s # {}
    <3>1. PICK y \in s : iter[s] = Op(iter[s \ {y}], f[y])
      BY <2>2 DEF Accumulates
    <3>2. iter[s] = f[y] + iter[s \ {y}]
      <4>1. iter[s \ {y}] \in Int /\ f[y] \in Int
        BY <1>1
      <4>2. Op(iter[s \ {y}], f[y]) = iter[s \ {y}] + f[y]
        BY <4>1, OpAdds
      <4> QED BY <3>1, <4>1, <4>2
    <3>3. ASSUME NEW x \in s PROVE iter[s] = f[x] + iter[s \ {x}]
      <4>1. CASE x = y
        BY <3>2, <4>1
      <4>2. CASE x # y
        <5>1. iter[s \ {y}] = f[x] + iter[(s \ {y}) \ {x}]
          BY <1>2, <4>2
        <5>2. iter[s \ {x}] = f[y] + iter[(s \ {x}) \ {y}]
          BY <1>2, <4>2
        <5>3. (s \ {y}) \ {x} = (s \ {x}) \ {y}
          OBVIOUS
        <5>4. iter[(s \ {x}) \ {y}] \in Int /\ f[x] \in Int /\ f[y] \in Int
          BY <1>1
        <5> DEFINE rest == iter[(s \ {x}) \ {y}]
        <5>5. iter[s \ {y}] = f[x] + rest /\ iter[s \ {x}] = f[y] + rest
          BY <5>1, <5>2, <5>3
        <5>6. rest \in Int
          BY <5>4
        <5> HIDE DEF rest
        <5>7. f[y] + (f[x] + rest) = f[x] + (f[y] + rest)
          BY <5>4, <5>6
        <5> QED BY <3>2, <5>5, <5>7
      <4> QED BY <4>1, <4>2
    <3>4. PICK z \in s : other[s] = Op(other[s \ {z}], f[z])
      BY <2>2 DEF Accumulates
    <3>5. other[s] = f[z] + iter[s \ {z}]
      <4>1. other[s \ {z}] = iter[s \ {z}]
        BY <1>2
      <4>2. iter[s \ {z}] \in Int /\ f[z] \in Int
        BY <1>1
      <4>3. Op(iter[s \ {z}], f[z]) = iter[s \ {z}] + f[z]
        BY <4>2, OpAdds
      <4> QED BY <3>4, <4>1, <4>2, <4>3
    <3>6. other[s] = iter[s]
      BY <3>3, <3>5
    <3> QED BY <3>3, <3>6
  <2> QED BY <2>1, <2>2
<1> HIDE DEF G
<1>3. SUBSET S \subseteq G
  BY <1>2, FiniteByInduction
<1> QED BY <1>1, <1>3 DEF G

---------------------------------------------------------------------------
(* What the sums of a finite set of integers are known by. *)

LEMMA TotalEmpty ==
  ASSUME NEW f PROVE Total(f, {}) = 0
BY TotalUnfolds, FS_EmptySet DEF Accumulates

LEMMA TotalRemove ==
  ASSUME Adds, NEW S, IsFiniteSet(S), NEW f, \A x \in S : f[x] \in Int, NEW x \in S
  PROVE  /\ Total(f, S) \in Int /\ Total(f, S \ {x}) \in Int
         /\ Total(f, S) = f[x] + Total(f, S \ {x})
<1>1. PICK iter : Accumulates(iter, 0, f, S) /\ Total(f, S) = iter[S]
  BY TotalUnfolds
<1>2. IsFiniteSet(S \ {x})
  BY FS_Subset
<1>3. PICK other : Accumulates(other, 0, f, S \ {x}) /\ Total(f, S \ {x}) = other[S \ {x}]
  BY <1>2, TotalUnfolds
<1>4. Accumulates(iter, 0, f, S \ {x})
  BY <1>1 DEF Accumulates
<1>5. other[S \ {x}] = iter[S \ {x}] /\ iter[S \ {x}] \in Int
  BY <1>2, <1>3, <1>4, AnyOrder
<1>6. iter[S] \in Int /\ iter[S] = f[x] + iter[S \ {x}]
  BY <1>1, AnyOrder
<1> QED
  BY <1>1, <1>3, <1>5, <1>6

LEMMA TotalAdd ==
  ASSUME Adds, NEW S, IsFiniteSet(S), NEW x, x \notin S,
         NEW f, \A y \in S \union {x} : f[y] \in Int
  PROVE  Total(f, S \union {x}) = f[x] + Total(f, S)
<1>1. IsFiniteSet(S \union {x}) /\ (S \union {x}) \ {x} = S
  BY FS_AddElement
<1> DEFINE T == S \union {x}
<1>2. x \in T
  OBVIOUS
<1> HIDE DEF T
<1> QED BY <1>1, <1>2, TotalRemove DEF T

LEMMA TotalInt ==
  ASSUME Adds, NEW S, IsFiniteSet(S), NEW f, \A x \in S : f[x] \in Int
  PROVE  Total(f, S) \in Int
<1>1. CASE S = {}
  BY <1>1, TotalEmpty
<1>2. CASE S # {}
  BY <1>2, TotalRemove
<1> QED BY <1>1, <1>2

LEMMA TotalNat ==
  ASSUME Adds, NEW S, IsFiniteSet(S), NEW f, \A x \in S : f[x] \in Nat
  PROVE  Total(f, S) \in Nat
<1> DEFINE G == {s \in SUBSET S : Total(f, s) \in Nat}
<1>1. ASSUME NEW s \in SUBSET S, \A x \in s : s \ {x} \in G PROVE s \in G
  <2>1. CASE s = {}
    BY <2>1, TotalEmpty
  <2>2. CASE s # {}
    <3>1. PICK x \in s : TRUE
      BY <2>2
    <3>2. IsFiniteSet(s) /\ \A y \in s : f[y] \in Int
      BY FS_Subset
    <3>3. Total(f, s) = f[x] + Total(f, s \ {x})
      BY <3>2, TotalRemove
    <3>4. Total(f, s \ {x}) \in Nat /\ f[x] \in Nat
      BY <1>1
    <3> QED BY <3>3, <3>4
  <2> QED BY <2>1, <2>2
<1> HIDE DEF G
<1>2. SUBSET S \subseteq G
  BY <1>1, FiniteByInduction
<1> QED BY <1>2 DEF G

\* A sum depends on what is summed only.
LEMMA TotalSame ==
  ASSUME Adds, NEW S, IsFiniteSet(S), NEW f, NEW g, \A x \in S : f[x] \in Int /\ g[x] = f[x]
  PROVE  Total(g, S) = Total(f, S)
<1> DEFINE G == {s \in SUBSET S : Total(g, s) = Total(f, s)}
<1>1. ASSUME NEW s \in SUBSET S, \A x \in s : s \ {x} \in G PROVE s \in G
  <2>1. CASE s = {}
    BY <2>1, TotalEmpty
  <2>2. CASE s # {}
    <3>1. PICK x \in s : TRUE
      BY <2>2
    <3>2. IsFiniteSet(s) /\ \A y \in s : f[y] \in Int /\ g[y] \in Int
      BY FS_Subset
    <3>3. Total(f, s) = f[x] + Total(f, s \ {x})
      BY <3>2, TotalRemove
    <3>4. Total(g, s) = g[x] + Total(g, s \ {x})
      BY <3>2, TotalRemove
    <3>5. Total(g, s \ {x}) = Total(f, s \ {x}) /\ g[x] = f[x]
      BY <1>1
    <3> QED BY <3>3, <3>4, <3>5
  <2> QED BY <2>1, <2>2
<1> HIDE DEF G
<1>2. SUBSET S \subseteq G
  BY <1>1, FiniteByInduction
<1> QED BY <1>2 DEF G

LEMMA TotalUnion ==
  ASSUME Adds, NEW S, IsFiniteSet(S), NEW T, IsFiniteSet(T), S \intersect T = {},
         NEW f, \A x \in S \union T : f[x] \in Int
  PROVE  Total(f, S \union T) = Total(f, S) + Total(f, T)
<1> DEFINE G == {s \in SUBSET S : Total(f, s \union T) = Total(f, s) + Total(f, T)}
<1>1. Total(f, T) \in Int
  BY TotalInt
<1>2. ASSUME NEW s \in SUBSET S, \A x \in s : s \ {x} \in G PROVE s \in G
  <2>1. CASE s = {}
    <3>1. s \union T = T
      BY <2>1
    <3> QED BY <1>1, <2>1, <3>1, TotalEmpty
  <2>2. CASE s # {}
    <3>1. PICK x \in s : TRUE
      BY <2>2
    <3>2. IsFiniteSet(s) /\ IsFiniteSet(s \union T) /\ IsFiniteSet(s \ {x})
      BY FS_Subset, FS_Union
    <3>3. Total(f, s) = f[x] + Total(f, s \ {x}) /\ Total(f, s \ {x}) \in Int
      BY <3>2, TotalRemove
    <3>4. Total(f, s \union T) = f[x] + Total(f, (s \union T) \ {x})
      BY <3>2, TotalRemove
    <3>5. (s \union T) \ {x} = (s \ {x}) \union T
      OBVIOUS
    <3>6. Total(f, (s \ {x}) \union T) = Total(f, s \ {x}) + Total(f, T)
      BY <1>2
    <3>7. Total(f, s \union T) = f[x] + (Total(f, s \ {x}) + Total(f, T))
      BY <3>4, <3>5, <3>6
    <3>8. f[x] \in Int
      OBVIOUS
    <3>9. Total(f, s \union T) = Total(f, s) + Total(f, T)
      BY <1>1, <3>3, <3>7, <3>8
    <3> QED BY <3>9
  <2> QED BY <2>1, <2>2
<1> HIDE DEF G
<1>3. SUBSET S \subseteq G
  BY <1>2, FiniteByInduction
<1> QED BY <1>3 DEF G

LEMMA TotalAtMost ==
  ASSUME Adds, NEW S, IsFiniteSet(S), NEW f, NEW g,
         \A x \in S : f[x] \in Int /\ g[x] \in Int /\ f[x] <= g[x]
  PROVE  Total(f, S) <= Total(g, S)
<1> DEFINE G == {s \in SUBSET S : Total(f, s) <= Total(g, s)}
<1>1. ASSUME NEW s \in SUBSET S, \A x \in s : s \ {x} \in G PROVE s \in G
  <2>1. CASE s = {}
    BY <2>1, TotalEmpty
  <2>2. CASE s # {}
    <3>1. PICK x \in s : TRUE
      BY <2>2
    <3>2. IsFiniteSet(s) /\ \A y \in s : f[y] \in Int /\ g[y] \in Int
      BY FS_Subset
    <3>3. Total(f, s) = f[x] + Total(f, s \ {x}) /\ Total(f, s \ {x}) \in Int
      BY <3>2, TotalRemove
    <3>4. Total(g, s) = g[x] + Total(g, s \ {x}) /\ Total(g, s \ {x}) \in Int
      BY <3>2, TotalRemove
    <3>5. Total(f, s \ {x}) <= Total(g, s \ {x}) /\ f[x] <= g[x] /\ f[x] \in Int /\ g[x] \in Int
      BY <1>1
    <3> QED BY <3>3, <3>4, <3>5
  <2> QED BY <2>1, <2>2
<1> HIDE DEF G
<1>2. SUBSET S \subseteq G
  BY <1>1, FiniteByInduction
<1> QED BY <1>2 DEF G

LEMMA TotalTimes ==
  ASSUME Adds, NEW S, IsFiniteSet(S), NEW k \in Int, NEW f, NEW g,
         \A x \in S : g[x] \in Int /\ f[x] = k * g[x]
  PROVE  Total(f, S) = k * Total(g, S)
<1> DEFINE G == {s \in SUBSET S : Total(f, s) = k * Total(g, s)}
<1>1. ASSUME NEW s \in SUBSET S, \A x \in s : s \ {x} \in G PROVE s \in G
  <2>1. CASE s = {}
    BY <2>1, TotalEmpty
  <2>2. CASE s # {}
    <3>1. PICK x \in s : TRUE
      BY <2>2
    <3>2. IsFiniteSet(s) /\ \A y \in s : f[y] \in Int /\ g[y] \in Int
      BY FS_Subset
    <3>3. Total(f, s) = f[x] + Total(f, s \ {x})
      BY <3>2, TotalRemove
    <3>4. Total(g, s) = g[x] + Total(g, s \ {x}) /\ Total(g, s \ {x}) \in Int
      BY <3>2, TotalRemove
    <3>5. Total(f, s \ {x}) = k * Total(g, s \ {x}) /\ f[x] = k * g[x] /\ g[x] \in Int
      BY <1>1
    <3>6. PICK a \in Int, b \in Int : a = g[x] /\ b = Total(g, s \ {x})
      BY <3>4, <3>5
    <3>7. k * a + k * b = k * (a + b)
      OBVIOUS
    <3>8. Total(f, s) = k * Total(g, s)
      BY <3>3, <3>4, <3>5, <3>6, <3>7
    <3> QED BY <3>8
  <2> QED BY <2>1, <2>2
<1> HIDE DEF G
<1>2. SUBSET S \subseteq G
  BY <1>1, FiniteByInduction
<1> QED BY <1>2 DEF G

\* What is added to each is added to the sum.
LEMMA TotalPlus ==
  ASSUME Adds, NEW S, IsFiniteSet(S), NEW f, NEW g, NEW h,
         \A x \in S : g[x] \in Int /\ h[x] \in Int /\ f[x] = g[x] + h[x]
  PROVE  Total(f, S) = Total(g, S) + Total(h, S)
<1> DEFINE G == {s \in SUBSET S : Total(f, s) = Total(g, s) + Total(h, s)}
<1>1. ASSUME NEW s \in SUBSET S, \A x \in s : s \ {x} \in G PROVE s \in G
  <2>1. CASE s = {}
    BY <2>1, TotalEmpty
  <2>2. CASE s # {}
    <3>1. PICK x \in s : TRUE
      BY <2>2
    <3>2. IsFiniteSet(s) /\ \A y \in s : f[y] \in Int /\ g[y] \in Int /\ h[y] \in Int
      BY FS_Subset
    <3>3. Total(f, s) = f[x] + Total(f, s \ {x})
      BY <3>2, TotalRemove
    <3>4. Total(g, s) = g[x] + Total(g, s \ {x}) /\ Total(g, s \ {x}) \in Int
      BY <3>2, TotalRemove
    <3>5. Total(h, s) = h[x] + Total(h, s \ {x}) /\ Total(h, s \ {x}) \in Int
      BY <3>2, TotalRemove
    <3>6. Total(f, s \ {x}) = Total(g, s \ {x}) + Total(h, s \ {x}) /\ f[x] = g[x] + h[x]
      BY <1>1
    <3>7. g[x] \in Int /\ h[x] \in Int
      OBVIOUS
    <3> QED BY <3>3, <3>4, <3>5, <3>6, <3>7
  <2> QED BY <2>1, <2>2
<1> HIDE DEF G
<1>2. SUBSET S \subseteq G
  BY <1>1, FiniteByInduction
<1> QED BY <1>2 DEF G

\* The sum of n times the same.
LEMMA TotalConstant ==
  ASSUME Adds, NEW S, IsFiniteSet(S), NEW f, NEW k \in Int, \A x \in S : f[x] = k
  PROVE  Total(f, S) = k * Cardinality(S)
<1> DEFINE G == {s \in SUBSET S : Total(f, s) = k * Cardinality(s)}
<1>1. ASSUME NEW s \in SUBSET S, \A x \in s : s \ {x} \in G PROVE s \in G
  <2>1. CASE s = {}
    BY <2>1, TotalEmpty, FS_EmptySet
  <2>2. CASE s # {}
    <3>1. PICK x \in s : TRUE
      BY <2>2
    <3>2. IsFiniteSet(s) /\ \A y \in s : f[y] \in Int
      BY FS_Subset
    <3>3. Total(f, s) = f[x] + Total(f, s \ {x})
      BY <3>2, TotalRemove
    <3>4. Cardinality(s) \in Nat /\ Cardinality(s \ {x}) = Cardinality(s) - 1
      BY <3>2, FS_RemoveElement, FS_CardinalityType
    <3>5. Total(f, s \ {x}) = k * Cardinality(s \ {x}) /\ f[x] = k
      BY <1>1
    <3>6. k + k * (Cardinality(s) - 1) = k * Cardinality(s)
      BY <3>4
    <3>7. Total(f, s) = k * Cardinality(s)
      BY <3>3, <3>4, <3>5, <3>6
    <3> QED BY <3>7
  <2> QED BY <2>1, <2>2
<1> HIDE DEF G
<1>2. SUBSET S \subseteq G
  BY <1>1, FiniteByInduction
<1> QED BY <1>2 DEF G

\* One element more is taken last.
LEMMA SequenceFoldAppend ==
  ASSUME NEW n \in Nat, NEW seq, DOMAIN seq = 1..n, NEW base, NEW longer, DOMAIN longer = 1..(n + 1),
         \A i \in 1..n : longer[i] = seq[i]
  PROVE  SequenceFold(base, longer) = Op(SequenceFold(base, seq), longer[n + 1])
<1>1. PICK g : InTurn(g, base, seq, n) /\ SequenceFold(base, seq) = g[n]
  BY SequenceFoldUnfolds
<1>2. PICK k \in Nat : k = n + 1
  OBVIOUS
<1>3. DOMAIN longer = 1..k
  BY <1>2
<1>4. PICK h : InTurn(h, base, longer, k) /\ SequenceFold(base, longer) = h[k]
  BY <1>3, SequenceFoldUnfolds
<1> DEFINE Same == {i \in Nat : i <= n => h[i] = g[i]}
<1>5. 0 \in Same
  BY <1>1, <1>4 DEF InTurn
<1>6. ASSUME NEW i \in Nat, i \in Same PROVE i + 1 \in Same
  <2>1. CASE i + 1 <= n
    <3>1. i + 1 \in 1..n /\ i + 1 \in 1..(n + 1) /\ (i + 1) - 1 = i
      BY <2>1
    <3>2. g[i + 1] = Op(g[i], seq[i + 1]) /\ h[i + 1] = Op(h[i], longer[i + 1])
      BY <1>1, <1>4, <1>2, <3>1 DEF InTurn
    <3>3. h[i] = g[i] /\ longer[i + 1] = seq[i + 1]
      BY <1>6, <2>1, <3>1
    <3> QED BY <3>2, <3>3
  <2> QED BY <2>1
<1> HIDE DEF Same
<1>7. Nat \subseteq Same
  BY <1>5, <1>6, NatByInduction
<1>8. h[n] = g[n]
  BY <1>7 DEF Same
<1>9. h[n + 1] = Op(h[n], longer[n + 1])
  <2>1. n + 1 \in 1..(n + 1) /\ (n + 1) - 1 = n
    OBVIOUS
  <2> QED BY <1>4, <1>2, <2>1 DEF InTurn
<1> QED BY <1>1, <1>4, <1>8, <1>9, <1>2

\* A finite set of numbers has a greatest.
LEMMA MaxIsGreatest ==
  ASSUME NEW S \in SUBSET Int, IsFiniteSet(S), S # {}
  PROVE  Max(S) \in S /\ \A x \in S : x <= Max(S)
<1> DEFINE G == {s \in SUBSET S : s # {} => \E m \in s : \A x \in s : x <= m}
<1>1. ASSUME NEW s \in SUBSET S, \A x \in s : s \ {x} \in G PROVE s \in G
  <2>1. CASE s = {}
    BY <2>1
  <2>2. CASE s # {}
    <3>1. PICK y \in s : TRUE
      BY <2>2
    <3>2. CASE s = {y}
      BY <3>2
    <3>3. CASE s # {y}
      <4>1. PICK m \in s \ {y} : \A x \in s \ {y} : x <= m
        BY <1>1, <3>1, <3>3
      <4>2. m \in Int /\ y \in Int /\ s \subseteq Int
        OBVIOUS
      <4>3. CASE y <= m
        BY <4>1, <4>2, <4>3
      <4>4. CASE ~(y <= m)
        <5>1. \A x \in s : x <= y
          BY <4>1, <4>2, <4>4
        <5> QED BY <5>1
      <4> QED BY <4>3, <4>4
    <3> QED BY <3>2, <3>3
  <2> QED BY <2>1, <2>2
<1> HIDE DEF G
<1>2. S \in G
  BY <1>1, FiniteByInduction
<1>3. PICK m \in S : \A x \in S : x <= m
  BY <1>2 DEF G
<1>4. \A x \in S : m >= x
  BY <1>3
<1> QED
  BY <1>4 DEF Max
=============================================================================
