---------------------------- MODULE ClaimsProofs ----------------------------
(***************************************************************************)
(* What holds of the claims on their way from the positions to the         *)
(* argument graph: of claims.extract (ClaimsExtract), for every set of     *)
(* positions, every list of candidates a provider may return and every     *)
(* repair; and of claims.normalize, options.cluster and relations.analyze  *)
(* (ClaimStages), for any inputs, any answers and any sizes of a batch.    *)
(***************************************************************************)
EXTENDS ClaimsExtract, ClaimStages, FiniteSetTheorems, SequenceTheorems, TLAPS

-----------------------------------------------------------------------------
(***************************************************************************)
(* I. claims.extract.  The invariant is stated for the values of one       *)
(* position: its claims N, its quotes Q, the premises D it was extracted   *)
(* with and E it has now, and the sort's R, G and C (remaining, grounded,  *)
(* cycle).                                                                 *)
(***************************************************************************)

\* A sort in progress: what is placed rests on what is placed, in some order.
Placed(N, E, R) ==
    /\ \A i \in N \ R : E[i] \cap R = {}
    /\ \A S \in SUBSET (N \ R) : S # {} => \E i \in S : E[i] \cap S = {}

\* Grounds follow the premises, both ways, among what is placed.
GroundFollows(N, Q, E, R, G) ==
    /\ Q \subseteq G
    /\ G \ Q \subseteq N \ R
    /\ \A i \in G \ Q : E[i] # {} /\ E[i] \subseteq G
    /\ \A i \in N \ R : E[i] # {} /\ E[i] \subseteq G => i \in G
    /\ \A S \in SUBSET N : Q \cup Derivable(E, S) \subseteq S => G \subseteq S

\* What the first sort placed stays free of cycles while edges are removed.
OutsideCycle(N, E, C) ==
    \A S \in SUBSET (N \ C) : S # {} => \E i \in S : E[i] \cap (S \cup C) = {}

Good(N, Q, D, E, R, G, C) ==
    /\ Q \subseteq N
    /\ D \in [N -> SUBSET N]
    /\ E \in [N -> SUBSET N]
    /\ R \subseteq N /\ G \subseteq N /\ C \subseteq N
    /\ Placed(N, E, R)
    /\ GroundFollows(N, Q, E, R, G)
    /\ \A i \in N \ C : E[i] = D[i]
    /\ C # {} => OutsideCycle(N, E, C)

\* A resolution that has not sorted anything is good.
LEMMA FreshIsGood ==
    ASSUME NEW N, NEW Q \in SUBSET N, NEW D \in [N -> SUBSET N]
    PROVE  Good(N, Q, D, D, N, Q, {})
BY DEF Good, Placed, GroundFollows

\* One round of the sort keeps a resolution good.
LEMMA RoundIsGood ==
    ASSUME NEW N, NEW Q, NEW D, NEW E, NEW R, NEW G, NEW C,
           Good(N, Q, D, E, R, G, C),
           NEW Y, Y = {i \in R : E[i] \cap R = {}}
    PROVE  Good(N, Q, D, E, R \ Y, G \cup (Y \cap Derivable(E, G)), C)
<1> DEFINE R2 == R \ Y
           G2 == G \cup (Y \cap Derivable(E, G))
<1>0. /\ E \in [N -> SUBSET N] /\ R \subseteq N /\ G \subseteq N /\ Y \subseteq R
      /\ Derivable(E, G) = {i \in N : E[i] # {} /\ E[i] \subseteq G}
  BY DEF Good, Derivable
<1>1. N \ R2 = (N \ R) \cup Y
  BY <1>0
<1>2. Placed(N, E, R2)
  <2>1. \A i \in N \ R2 : E[i] \cap R = {}
    BY <1>0, <1>1 DEF Good, Placed
  <2>2. ASSUME NEW S \in SUBSET (N \ R2), S # {}
        PROVE  \E i \in S : E[i] \cap S = {}
    <3>1. CASE S \cap (N \ R) = {}
      BY <3>1, <2>2, <1>0, <1>1
    <3>2. CASE S \cap (N \ R) # {}
      <4>1. PICK i \in S \cap (N \ R) : E[i] \cap (S \cap (N \ R)) = {}
        BY <3>2 DEF Good, Placed
      <4>2. E[i] \cap R = {} /\ E[i] \subseteq N
        BY <4>1, <2>1, <1>0
      <4> QED  BY <4>1, <4>2, <1>0, <1>1
    <3> QED  BY <3>1, <3>2
  <2> QED  BY <2>1, <2>2, <1>0 DEF Placed
<1>3. GroundFollows(N, Q, E, R2, G2)
  <2>0. GroundFollows(N, Q, E, R, G) /\ Placed(N, E, R)
    BY DEF Good
  <2>1. Q \subseteq G2 /\ G2 \ Q \subseteq N \ R2
    BY <2>0, <1>0, <1>1 DEF GroundFollows
  <2>2. \A i \in G2 \ Q : E[i] # {} /\ E[i] \subseteq G2
    BY <2>0, <1>0 DEF GroundFollows
  <2>3. ASSUME NEW i \in N \ R2, E[i] # {}, E[i] \subseteq G2
        PROVE  i \in G2
    <3>1. E[i] \cap R = {}
      BY <2>0, <1>0, <1>1 DEF Placed
    <3>2. E[i] \subseteq G
      BY <3>1, <2>3, <1>0
    <3>3. CASE i \in Y
      BY <3>2, <3>3, <2>3, <1>0
    <3>4. CASE i \in N \ R
      BY <3>2, <3>4, <2>3, <2>0 DEF GroundFollows
    <3> QED  BY <3>3, <3>4, <1>1
  <2>4. ASSUME NEW S \in SUBSET N, Q \cup Derivable(E, S) \subseteq S
        PROVE  G2 \subseteq S
    <3>1. G \subseteq S
      BY <2>4, <2>0 DEF GroundFollows
    <3>2. Derivable(E, G) \subseteq Derivable(E, S)
      BY <3>1 DEF Derivable
    <3> QED  BY <3>1, <3>2, <2>4
  <2> QED  BY <2>1, <2>2, <2>3, <2>4 DEF GroundFollows
<1> QED  BY <1>0, <1>2, <1>3 DEF Good

\* When the sort is stuck, its cycle is that of the first cut or lies in it.
LEMMA StuckInCycle ==
    ASSUME NEW N, NEW Q, NEW D, NEW E, NEW R, NEW G, NEW C,
           Good(N, Q, D, E, R, G, C), C # {},
           {i \in R : E[i] \cap R = {}} = {}
    PROVE  R \subseteq C
<1>1. SUFFICES ASSUME R \ C # {} PROVE FALSE
  OBVIOUS
<1>a. R \ C \in SUBSET (N \ C) /\ OutsideCycle(N, E, C)
  BY DEF Good
<1>2. PICK i \in R \ C : E[i] \cap ((R \ C) \cup C) = {}
  BY <1>1, <1>a DEF OutsideCycle
<1>3. i \in R /\ E[i] \cap R = {}
  BY <1>2
<1>4. i \in {j \in R : E[j] \cap R = {}}
  BY <1>3
<1> QED  BY <1>4

\* The first cut finds the cycle that the sort could not place.
LEMMA FirstCycle ==
    ASSUME NEW N, NEW Q, NEW D, NEW E, NEW R, NEW G, NEW C,
           Good(N, Q, D, E, R, G, C)
    PROVE  OutsideCycle(N, E, R)
<1>1. SUFFICES ASSUME NEW S \in SUBSET (N \ R), S # {}
               PROVE  \E i \in S : E[i] \cap (S \cup R) = {}
  BY DEF OutsideCycle
<1>a. Placed(N, E, R)
  BY DEF Good
<1>2. PICK i \in S : E[i] \cap S = {}
  BY <1>1, <1>a DEF Placed
<1>3. E[i] \cap R = {}
  BY <1>1, <1>a DEF Placed
<1> QED  BY <1>2, <1>3

\* Cutting an edge inside the cycle and starting over keeps it good.
LEMMA CutIsGood ==
    ASSUME NEW N, NEW Q, NEW D, NEW E, NEW R, NEW G, NEW C,
           Good(N, Q, D, E, R, G, C), R # {},
           NEW C2, C2 = IF C # {} THEN C ELSE R,
           NEW u \in N, u \in C2, NEW v
    PROVE  Good(N, Q, D, [E EXCEPT ![u] = @ \ {v}], N, Q, C2)
<1> DEFINE F == [E EXCEPT ![u] = @ \ {v}]
<1>0. /\ E \in [N -> SUBSET N] /\ C \subseteq C2 /\ C2 \subseteq N
      /\ Q \subseteq N /\ D \in [N -> SUBSET N]
  BY DEF Good
<1>1. F \in [N -> SUBSET N] /\ \A i \in N : F[i] \subseteq E[i]
  BY <1>0
<1>2. \A i \in N \ C2 : F[i] = E[i]
  BY <1>0
<1>3. \A i \in N \ C2 : F[i] = D[i]
  BY <1>2, <1>0 DEF Good
<1>4. OutsideCycle(N, E, C2)
  <2>1. CASE C # {}
    BY <2>1 DEF Good
  <2>2. CASE C = {}
    BY <2>2, FirstCycle
  <2> QED  BY <2>1, <2>2
<1>5. OutsideCycle(N, F, C2)
  <2>1. SUFFICES ASSUME NEW S \in SUBSET (N \ C2), S # {}
                 PROVE  \E i \in S : F[i] \cap (S \cup C2) = {}
    BY DEF OutsideCycle
  <2>2. PICK i \in S : E[i] \cap (S \cup C2) = {}
    BY <1>4, <2>1 DEF OutsideCycle
  <2>3. F[i] = E[i]
    BY <1>2, <2>1
  <2> QED  BY <2>2, <2>3
<1>6. Placed(N, F, N) /\ GroundFollows(N, Q, F, N, Q)
  BY DEF Placed, GroundFollows
<1>7. C2 # {} => OutsideCycle(N, F, C2)
  BY <1>5
<1>8. Good(N, Q, D, F, N, Q, C2)
  <2> HIDE DEF F
  <2> QED  BY <1>0, <1>1, <1>3, <1>6, <1>7 DEF Good
<1> QED  BY <1>8

-----------------------------------------------------------------------------
GoodAt(p) ==
    Good(Idx(candidates[p]), Quoted(candidates[p]), PremiseEdges(candidates[p]),
         premise_edges[p], remaining[p], grounded[p], cycle[p])

States == {"waiting", "extracting", "sorting", "repairing", "done"}

\* The inductive invariant, one position: before the extraction there is
\* nothing, a repair is only sent before the first cut, and the claims are
\* those of a finished sort.
PInv(p) ==
    /\ pc[p] \in States
    /\ candidates[p] \in Seq(Candidate)
    /\ GoodAt(p)
    /\ pc[p] \in {"waiting", "extracting"} => candidates[p] = << >>
    /\ pc[p] = "repairing" => cycle[p] = {}
    /\ pc[p] # "done" => returned[p] = << >>
    /\ returned[p] # << >> => remaining[p] = {} /\ returned[p] = Built(p)

Shapes ==
    /\ pc \in [Position -> States]
    /\ DOMAIN candidates = Position /\ DOMAIN premise_edges = Position
    /\ DOMAIN remaining = Position /\ DOMAIN grounded = Position
    /\ DOMAIN cycle = Position /\ DOMAIN returned = Position
    /\ candidates = [p \in Position |-> candidates[p]]
    /\ premise_edges = [p \in Position |-> premise_edges[p]]
    /\ remaining = [p \in Position |-> remaining[p]]
    /\ grounded = [p \in Position |-> grounded[p]]
    /\ cycle = [p \in Position |-> cycle[p]]
    /\ returned = [p \in Position |-> returned[p]]

IInv ==
    /\ Shapes
    /\ cancelled \in BOOLEAN /\ status \in {"running", "completed"}
    /\ \A p \in Position : PInv(p)

\* A candidate list and the premises read off it fit together.
LEMMA ListFacts ==
    ASSUME NEW list \in Seq(Candidate)
    PROVE  /\ Quoted(list) \in SUBSET Idx(list)
           /\ PremiseEdges(list) \in [Idx(list) -> SUBSET Idx(list)]
           /\ Idx(list) \subseteq Nat
<1>1. Idx(list) \subseteq Nat
  BY DEF Idx
<1>2. Quoted(list) \in SUBSET Idx(list)
  BY DEF Quoted
<1>3. PremiseEdges(list) \in [Idx(list) -> SUBSET Idx(list)]
  BY DEF PremiseEdges
<1> QED  BY <1>1, <1>2, <1>3

\* What a step leaves alone at a position keeps the position's invariant.
LEMMA OtherPosition ==
    ASSUME NEW q \in Position, PInv(q),
           pc'[q] = pc[q], candidates'[q] = candidates[q],
           premise_edges'[q] = premise_edges[q], remaining'[q] = remaining[q],
           grounded'[q] = grounded[q], cycle'[q] = cycle[q], returned'[q] = returned[q]
    PROVE  PInv(q)'
<1>1. GoodAt(q)' <=> GoodAt(q)
  BY DEF GoodAt
<1>2. Built(q)' = Built(q)
  BY DEF Built
<1> QED  BY <1>1, <1>2 DEF PInv

\* Starting a resolution of any list is good at the position.
LEMMA ResolveGood ==
    ASSUME NEW p \in Position, NEW list \in Seq(Candidate), IInv, Resolve(p, list),
           cycle' = cycle, cycle[p] = {}, returned' = returned, returned[p] = << >>
    PROVE  PInv(p)' /\ \A q \in Position \ {p} : PInv(q)'
<1>1. /\ candidates'[p] = list /\ premise_edges'[p] = PremiseEdges(list)
      /\ remaining'[p] = Idx(list) /\ grounded'[p] = Quoted(list)
      /\ pc'[p] = "sorting"
  BY DEF IInv, Shapes, Resolve
<1>2. Good(Idx(list), Quoted(list), PremiseEdges(list), PremiseEdges(list), Idx(list),
           Quoted(list), {})
  BY ListFacts, FreshIsGood
<1>3. GoodAt(p)'
  BY <1>1, <1>2 DEF GoodAt
<1>4. PInv(p)'
  BY <1>1, <1>3 DEF PInv, States
<1>5. ASSUME NEW q \in Position \ {p} PROVE PInv(q)'
  <2>1. /\ pc'[q] = pc[q] /\ candidates'[q] = candidates[q]
        /\ premise_edges'[q] = premise_edges[q] /\ remaining'[q] = remaining[q]
        /\ grounded'[q] = grounded[q]
    BY DEF IInv, Shapes, Resolve
  <2>2. PInv(q)
    BY DEF IInv
  <2> QED  BY <2>1, <2>2, OtherPosition
<1> QED  BY <1>4, <1>5

LEMMA InitIInv == ASSUME ExtractAssumption, ExtractInit PROVE IInv
<1>1. Shapes /\ cancelled \in BOOLEAN /\ status \in {"running", "completed"}
  BY DEF ExtractInit, Shapes, States
<1>2. ASSUME NEW p \in Position PROVE PInv(p)
  <2>1. /\ candidates[p] = << >> /\ premise_edges[p] = << >> /\ remaining[p] = {}
        /\ grounded[p] = {} /\ cycle[p] = {} /\ returned[p] = << >> /\ pc[p] = "waiting"
    BY DEF ExtractInit
  <2>2. << >> \in Seq(Candidate) /\ Idx(<< >>) = {}
    BY DEF Idx
  <2>3. Quoted(<< >>) = {} /\ PremiseEdges(<< >>) = << >>
    BY <2>2 DEF Quoted, PremiseEdges
  <2>4. Good({}, {}, << >>, << >>, {}, {}, {})
    BY <2>2, <2>3, ListFacts, FreshIsGood
  <2>5. GoodAt(p)
    BY <2>1, <2>2, <2>3, <2>4 DEF GoodAt
  <2> QED  BY <2>1, <2>2, <2>5 DEF PInv, States
<1> QED  BY <1>1, <1>2 DEF IInv

\* Steps that only move pc or the claims keep a finished or unstarted list.
LEMMA RoundStep ==
    ASSUME NEW p \in Position, IInv, SortRound(p)
    PROVE  Shapes' /\ \A q \in Position : PInv(q)'
<1> DEFINE Y == Ready(p)
<1>0. Shapes /\ PInv(p)
  BY DEF IInv
<1>1. /\ remaining' = [remaining EXCEPT ![p] = @ \ Y]
      /\ grounded' = [grounded EXCEPT ![p] = @ \cup (Y \cap Derivable(premise_edges[p], @))]
      /\ pc' = pc /\ candidates' = candidates /\ premise_edges' = premise_edges
      /\ cycle' = cycle /\ returned' = returned /\ pc[p] = "sorting"
  BY DEF SortRound
<1>2. Shapes'
  BY <1>0, <1>1 DEF Shapes
<1>3. /\ remaining'[p] = remaining[p] \ Y
      /\ grounded'[p] = grounded[p] \cup (Y \cap Derivable(premise_edges[p], grounded[p]))
  BY <1>0, <1>1 DEF Shapes
<1>4. GoodAt(p)'
  <2>1. GoodAt(p)
    BY <1>0 DEF PInv
  <2>2. Y = {i \in remaining[p] : premise_edges[p][i] \cap remaining[p] = {}}
    BY DEF Ready
  <2>3. Good(Idx(candidates[p]), Quoted(candidates[p]), PremiseEdges(candidates[p]),
             premise_edges[p], remaining[p] \ Y,
             grounded[p] \cup (Y \cap Derivable(premise_edges[p], grounded[p])), cycle[p])
    BY <2>1, <2>2, RoundIsGood DEF GoodAt
  <2> QED  BY <2>3, <1>1, <1>3 DEF GoodAt
<1>5. PInv(p)'
  BY <1>0, <1>1, <1>4 DEF PInv
<1>6. ASSUME NEW q \in Position, q # p PROVE PInv(q)'
  <2>1. remaining'[q] = remaining[q] /\ grounded'[q] = grounded[q]
    BY <1>0, <1>1, <1>6 DEF Shapes
  <2>2. PInv(q)
    BY DEF IInv
  <2> QED  BY <1>1, <2>1, <2>2, OtherPosition
<1> QED  BY <1>2, <1>5, <1>6

LEMMA CutStep ==
    ASSUME NEW p \in Position, IInv, CutEdge(p)
    PROVE  Shapes' /\ \A q \in Position : PInv(q)'
<1> DEFINE C2 == IF cycle[p] # {} THEN cycle[p] ELSE remaining[p]
<1>0. Shapes /\ PInv(p) /\ GoodAt(p)
  BY DEF IInv, PInv
<1>1. PICK e \in Weakest(p) :
        premise_edges' = [premise_edges EXCEPT ![p][e[1]] = @ \ {e[2]}]
  BY DEF CutEdge
<1>2. /\ remaining' = [remaining EXCEPT ![p] = Idx(candidates[p])]
      /\ grounded' = [grounded EXCEPT ![p] = Quoted(candidates[p])]
      /\ cycle' = [cycle EXCEPT ![p] = C2]
      /\ pc' = pc /\ candidates' = candidates /\ returned' = returned
      /\ pc[p] = "sorting" /\ remaining[p] # {} /\ Ready(p) = {}
  BY DEF CutEdge, Cutting, Sorted
<1>3. Shapes'
  <2>1. premise_edges' = [premise_edges EXCEPT
                            ![p] = [premise_edges[p] EXCEPT ![e[1]] = @ \ {e[2]}]]
    BY <1>1
  <2> QED  BY <1>0, <1>2, <2>1 DEF Shapes
<1>4. /\ remaining'[p] = Idx(candidates[p]) /\ grounded'[p] = Quoted(candidates[p])
      /\ cycle'[p] = C2
      /\ premise_edges'[p] = [premise_edges[p] EXCEPT ![e[1]] = @ \ {e[2]}]
  BY <1>0, <1>1, <1>2 DEF Shapes
<1>5. e[1] \in remaining[p]
  BY DEF Weakest, InsideCycle
<1>6. e[1] \in C2 /\ e[1] \in Idx(candidates[p])
  <2>1. CASE cycle[p] = {}
    BY <2>1, <1>0, <1>5 DEF GoodAt, Good
  <2>2. CASE cycle[p] # {}
    <3>1. remaining[p] \subseteq cycle[p]
      BY <2>2, <1>0, <1>2, StuckInCycle DEF GoodAt, Ready
    <3> QED  BY <3>1, <2>2, <1>0, <1>5 DEF GoodAt, Good
  <2> QED  BY <2>1, <2>2
<1>7. GoodAt(p)'
  <2>1. Good(Idx(candidates[p]), Quoted(candidates[p]), PremiseEdges(candidates[p]),
             [premise_edges[p] EXCEPT ![e[1]] = @ \ {e[2]}],
             Idx(candidates[p]), Quoted(candidates[p]), C2)
    BY <1>0, <1>2, <1>6, CutIsGood DEF GoodAt
  <2> QED  BY <2>1, <1>2, <1>4 DEF GoodAt
<1>8. PInv(p)'
  BY <1>0, <1>2, <1>7 DEF PInv
<1>9. ASSUME NEW q \in Position, q # p PROVE PInv(q)'
  <2>1. /\ remaining'[q] = remaining[q] /\ grounded'[q] = grounded[q]
        /\ cycle'[q] = cycle[q] /\ premise_edges'[q] = premise_edges[q]
    BY <1>0, <1>1, <1>2, <1>9 DEF Shapes
  <2>2. PInv(q)
    BY DEF IInv
  <2> QED  BY <1>2, <2>1, <2>2, OtherPosition
<1> QED  BY <1>3, <1>8, <1>9

LEMMA FinishStep ==
    ASSUME NEW p \in Position, IInv, Finish(p)
    PROVE  Shapes' /\ \A q \in Position : PInv(q)'
<1>0. Shapes /\ PInv(p)
  BY DEF IInv
<1>1. /\ returned' = [returned EXCEPT ![p] = Built(p)] /\ pc' = [pc EXCEPT ![p] = "done"]
      /\ candidates' = candidates /\ premise_edges' = premise_edges
      /\ remaining' = remaining /\ grounded' = grounded /\ cycle' = cycle
      /\ remaining[p] = {}
  BY DEF Finish, work
<1>2. Shapes'
  BY <1>0, <1>1 DEF Shapes, States
<1>3. returned'[p] = Built(p) /\ pc'[p] = "done" /\ Built(p)' = Built(p) /\ GoodAt(p)' = GoodAt(p)
  BY <1>0, <1>1 DEF Shapes, Built, GoodAt
<1>4. PInv(p)'
  BY <1>0, <1>1, <1>3 DEF PInv, States
<1>5. ASSUME NEW q \in Position, q # p PROVE PInv(q)'
  <2>1. returned'[q] = returned[q] /\ pc'[q] = pc[q]
    BY <1>0, <1>1, <1>5 DEF Shapes
  <2>2. PInv(q)
    BY DEF IInv
  <2> QED  BY <1>1, <2>1, <2>2, OtherPosition
<1> QED  BY <1>2, <1>4, <1>5

\* A step that moves pc alone.
LEMMA MoveStep ==
    ASSUME NEW p \in Position, IInv, work' = work, returned' = returned,
           NEW s \in States, pc' = [pc EXCEPT ![p] = s],
           s # "done" => returned[p] = << >>,
           s \in {"waiting", "extracting"} => candidates[p] = << >>,
           s = "repairing" => cycle[p] = {}
    PROVE  Shapes' /\ \A q \in Position : PInv(q)'
<1>0. Shapes /\ PInv(p)
  BY DEF IInv
<1>1. /\ candidates' = candidates /\ premise_edges' = premise_edges
      /\ remaining' = remaining /\ grounded' = grounded /\ cycle' = cycle
  BY DEF work
<1>2. Shapes'
  BY <1>0, <1>1 DEF Shapes
<1>3. pc'[p] = s /\ Built(p)' = Built(p) /\ GoodAt(p)' = GoodAt(p)
  BY <1>0, <1>1 DEF Shapes, Built, GoodAt
<1>4. PInv(p)'
  BY <1>0, <1>1, <1>3 DEF PInv
<1>5. ASSUME NEW q \in Position, q # p PROVE PInv(q)'
  <2>1. pc'[q] = pc[q]
    BY <1>0, <1>5 DEF Shapes
  <2>2. PInv(q)
    BY DEF IInv
  <2> QED  BY <1>1, <2>1, <2>2, OtherPosition
<1> QED  BY <1>2, <1>4, <1>5

LEMMA ExtractStep ==
    ASSUME ExtractAssumption, NEW p \in Position, IInv, Extract(p)
    PROVE  Shapes' /\ \A q \in Position : PInv(q)'
<1>0. Shapes /\ PInv(p)
  BY DEF IInv
<1>1. PICK list \in Extractions[p] : Resolve(p, list)
  BY DEF Extract
<1>2. list \in Seq(Candidate)
  BY DEF ExtractAssumption
<1>3. cycle' = cycle /\ returned' = returned /\ pc[p] = "extracting"
  BY DEF Extract
<1>4. cycle[p] = {}
  <2>1. candidates[p] = << >> /\ cycle[p] \subseteq Idx(candidates[p])
    BY <1>0, <1>3 DEF PInv, GoodAt, Good
  <2>2. Idx(<< >>) = {}
    BY DEF Idx
  <2> QED  BY <2>1, <2>2
<1>5. returned[p] = << >>
  BY <1>0, <1>3 DEF PInv
<1>6. Shapes'
  BY <1>0, <1>1, <1>3 DEF Shapes, Resolve, States
<1> QED  BY <1>1, <1>2, <1>3, <1>4, <1>5, <1>6, ResolveGood

LEMMA RepairStep ==
    ASSUME ExtractAssumption, NEW p \in Position, IInv, ApplyRepairs(p)
    PROVE  Shapes' /\ \A q \in Position : PInv(q)'
<1>0. Shapes /\ PInv(p)
  BY DEF IInv
<1>1. PICK r \in Repairs :
        Resolve(p, [i \in Idx(candidates[p]) |->
                      IF i \in DOMAIN r THEN r[i] ELSE candidates[p][i]])
  BY DEF ApplyRepairs
<1> DEFINE list == [i \in Idx(candidates[p]) |->
                      IF i \in DOMAIN r THEN r[i] ELSE candidates[p][i]]
<1>2. list \in Seq(Candidate)
  <2>1. candidates[p] \in Seq(Candidate)
    BY <1>0 DEF PInv
  <2>2. Len(candidates[p]) \in Nat /\ candidates[p] \in [1..Len(candidates[p]) -> Candidate]
    BY <2>1
  <2>3. list \in [1..Len(candidates[p]) -> Candidate]
    BY <2>2 DEF ExtractAssumption, Idx
  <2> QED  BY <2>2, <2>3
<1>3. cycle' = cycle /\ returned' = returned /\ pc[p] = "repairing"
  BY DEF ApplyRepairs
<1>4. cycle[p] = {} /\ returned[p] = << >>
  BY <1>0, <1>3 DEF PInv
<1>5. Resolve(p, list)
  BY <1>1
<1> HIDE DEF list
<1>6. Shapes'
  BY <1>0, <1>5, <1>3 DEF Shapes, Resolve, States
<1> QED  BY <1>2, <1>3, <1>4, <1>5, <1>6, ResolveGood

\* Every step keeps the invariant.
LEMMA NextIInv == ASSUME ExtractAssumption, IInv, [ExtractNext]_extractVars PROVE IInv'
<1>0. Shapes /\ \A q \in Position : PInv(q)
  BY DEF IInv
<1>1. cancelled' \in BOOLEAN /\ status' \in {"running", "completed"}
  <2>1. cancelled \in BOOLEAN /\ status \in {"running", "completed"}
    BY DEF IInv
  <2> QED
    BY <2>1 DEF ExtractNext, extractVars, Cancel, Collect, ExtractOne, Start, ExtractFails, Extract,
        SortRound, SendRepair, RepairFails, ApplyRepairs, CutEdge, Finish
<1>2. Shapes' /\ \A q \in Position : PInv(q)'
  <2>1. CASE Cancel \/ Collect \/ UNCHANGED extractVars
    <3>1. pc' = pc /\ work' = work /\ returned' = returned
      BY <2>1 DEF Cancel, Collect, extractVars
    <3>2. /\ candidates' = candidates /\ premise_edges' = premise_edges
          /\ remaining' = remaining /\ grounded' = grounded /\ cycle' = cycle
      BY <3>1 DEF work
    <3>3. Shapes'
      BY <1>0, <3>1, <3>2 DEF Shapes
    <3>4. ASSUME NEW q \in Position PROVE PInv(q)'
      BY <1>0, <3>1, <3>2, OtherPosition
    <3> QED  BY <3>3, <3>4
  <2>2. ASSUME NEW p \in Position, Start(p) PROVE Shapes' /\ \A q \in Position : PInv(q)'
    <3>1. pc[p] = "waiting" /\ work' = work /\ returned' = returned
      BY <2>2 DEF Start
    <3>2. returned[p] = << >> /\ candidates[p] = << >>
      BY <1>0, <3>1 DEF PInv
    <3>3. PICK s \in {"done", "extracting"} : pc' = [pc EXCEPT ![p] = s]
      BY <2>2 DEF Start
    <3> QED  BY <3>1, <3>2, <3>3, MoveStep DEF States
  <2>3. ASSUME NEW p \in Position, ExtractFails(p)
        PROVE  Shapes' /\ \A q \in Position : PInv(q)'
    <3>1. pc' = [pc EXCEPT ![p] = "done"] /\ work' = work /\ returned' = returned
      BY <2>3 DEF ExtractFails
    <3> QED  BY <3>1, MoveStep DEF States
  <2>4. ASSUME NEW p \in Position, SendRepair(p)
        PROVE  Shapes' /\ \A q \in Position : PInv(q)'
    <3>1. /\ pc' = [pc EXCEPT ![p] = "repairing"] /\ work' = work /\ returned' = returned
          /\ pc[p] = "sorting" /\ cycle[p] = {}
      BY <2>4 DEF SendRepair, Sorted, PastRepair, Cutting
    <3>2. returned[p] = << >>
      BY <1>0, <3>1 DEF PInv
    <3> QED  BY <3>1, <3>2, MoveStep DEF States
  <2>5. ASSUME NEW p \in Position, RepairFails(p)
        PROVE  Shapes' /\ \A q \in Position : PInv(q)'
    <3>1. /\ pc' = [pc EXCEPT ![p] = "sorting"] /\ work' = work /\ returned' = returned
          /\ pc[p] = "repairing"
      BY <2>5 DEF RepairFails
    <3>2. returned[p] = << >>
      BY <1>0, <3>1 DEF PInv
    <3> QED  BY <3>1, <3>2, MoveStep DEF States
  <2> QED
    BY <2>1, <2>2, <2>3, <2>4, <2>5, ExtractStep, RepairStep, RoundStep, CutStep, FinishStep
    DEF ExtractNext, ExtractOne
<1> QED  BY <1>1, <1>2 DEF IInv

LEMMA Inductive == ASSUME ExtractAssumption PROVE ExtractSpec => []IInv
BY InitIInv, NextIInv, PTL DEF ExtractSpec

-----------------------------------------------------------------------------
\* A finished position's claims, read off its invariant.
LEMMA Finished ==
    ASSUME IInv, NEW p \in Position, Extracted(p)
    PROVE  /\ remaining[p] = {} /\ returned[p] = Built(p) /\ GoodAt(p)
           /\ candidates[p] \in Seq(Candidate)
           /\ DOMAIN returned[p] = Idx(candidates[p])
           /\ \A i \in Idx(candidates[p]) :
                /\ returned[p][i].grounding = "unsupported" <=> i \notin grounded[p]
                /\ returned[p][i].grounding = "derived"
                     <=> i \in grounded[p] \ Quoted(candidates[p])
                /\ returned[p][i].grounding = "derived"
                     => returned[p][i].premises = premise_edges[p][i]
<1>1. PInv(p) /\ returned[p] # << >>
  BY DEF IInv, Extracted
<1>2. /\ remaining[p] = {} /\ returned[p] = Built(p) /\ GoodAt(p)
      /\ candidates[p] \in Seq(Candidate)
  BY <1>1 DEF PInv
<1>3. Quoted(candidates[p]) \subseteq grounded[p]
  BY <1>2 DEF GoodAt, Good, GroundFollows
<1>4. DOMAIN returned[p] = Idx(candidates[p])
  BY <1>2 DEF Built
<1>5. ASSUME NEW i \in Idx(candidates[p])
      PROVE  /\ returned[p][i].grounding = "unsupported" <=> i \notin grounded[p]
             /\ returned[p][i].grounding = "derived"
                  <=> i \in grounded[p] \ Quoted(candidates[p])
             /\ returned[p][i].grounding = "derived"
                  => returned[p][i].premises = premise_edges[p][i]
  BY <1>2, <1>3 DEF Built
<1> QED  BY <1>2, <1>4, <1>5

(***************************************************************************)
(* No claim is its own ground, for any extraction and any repair.          *)
(***************************************************************************)
THEOREM NeverSelfSupported == ASSUME ExtractAssumption PROVE ExtractSpec => []Supported
<1>1. ASSUME IInv PROVE Supported
  <2>1. SUFFICES ASSUME NEW p \in Position, Extracted(p)
        PROVE /\ \A i \in DerivedIn(p) :
                    /\ returned[p][i].premises # {}
                    /\ \A j \in returned[p][i].premises : returned[p][j].grounding # "unsupported"
              /\ \A S \in SUBSET DerivedIn(p) :
                    S # {} => \E i \in S : returned[p][i].premises \cap S = {}
    BY DEF Supported
  <2>2. /\ remaining[p] = {} /\ GoodAt(p) /\ DOMAIN returned[p] = Idx(candidates[p])
        /\ \A i \in Idx(candidates[p]) :
                /\ returned[p][i].grounding = "unsupported" <=> i \notin grounded[p]
                /\ returned[p][i].grounding = "derived"
                     <=> i \in grounded[p] \ Quoted(candidates[p])
                /\ returned[p][i].grounding = "derived"
                     => returned[p][i].premises = premise_edges[p][i]
    BY <1>1, <2>1, Finished
  <2>3. /\ Placed(Idx(candidates[p]), premise_edges[p], {})
        /\ \A i \in grounded[p] \ Quoted(candidates[p]) :
              premise_edges[p][i] # {} /\ premise_edges[p][i] \subseteq grounded[p]
        /\ grounded[p] \subseteq Idx(candidates[p])
    BY <2>2 DEF GoodAt, Good, GroundFollows
  <2>4. DerivedIn(p) = grounded[p] \ Quoted(candidates[p])
    BY <2>2, <2>3 DEF DerivedIn
  <2>5. ASSUME NEW i \in DerivedIn(p)
        PROVE  /\ returned[p][i].premises # {}
               /\ \A j \in returned[p][i].premises : returned[p][j].grounding # "unsupported"
    <3>1. returned[p][i].premises = premise_edges[p][i]
      BY <2>2, <2>3, <2>4
    <3>2. premise_edges[p][i] # {} /\ premise_edges[p][i] \subseteq grounded[p]
      BY <2>3, <2>4
    <3> QED  BY <3>1, <3>2, <2>2, <2>3
  <2>6. ASSUME NEW S \in SUBSET DerivedIn(p), S # {}
        PROVE  \E i \in S : returned[p][i].premises \cap S = {}
    <3>1. S \in SUBSET (Idx(candidates[p]) \ {})
      BY <2>3, <2>4
    <3>2. PICK i \in S : premise_edges[p][i] \cap S = {}
      BY <3>1, <2>6, <2>3 DEF Placed
    <3>3. returned[p][i].premises = premise_edges[p][i]
      BY <2>2, <2>3, <2>4
    <3> QED  BY <3>2, <3>3
  <2> QED  BY <2>5, <2>6
<1> QED  BY <1>1, Inductive, PTL

(***************************************************************************)
(* The sort's single pass finds the least set of grounded claims.          *)
(***************************************************************************)
THEOREM GroundIsLeast == ASSUME ExtractAssumption PROVE ExtractSpec => []GroundsExactly
<1>1. ASSUME IInv PROVE GroundsExactly
  <2>1. SUFFICES ASSUME NEW p \in Position, Extracted(p)
        PROVE {i \in DOMAIN returned[p] : returned[p][i].grounding # "unsupported"} = LeastGround(p)
    BY DEF GroundsExactly
  <2>2. /\ remaining[p] = {} /\ GoodAt(p) /\ DOMAIN returned[p] = Idx(candidates[p])
        /\ \A i \in Idx(candidates[p]) :
                returned[p][i].grounding = "unsupported" <=> i \notin grounded[p]
    BY <1>1, <2>1, Finished
  <2> DEFINE N == Idx(candidates[p])
             Q == Quoted(candidates[p])
             E == premise_edges[p]
             G == grounded[p]
  <2>3. GroundFollows(N, Q, E, {}, G) /\ G \subseteq N /\ E \in [N -> SUBSET N]
    BY <2>2 DEF GoodAt, Good
  <2>4. {i \in DOMAIN returned[p] : returned[p][i].grounding # "unsupported"} = G
    BY <2>2, <2>3
  <2>5. LeastGround(p) = {i \in N : \A S \in SUBSET N : Q \cup Derivable(E, S) \subseteq S => i \in S}
    BY DEF LeastGround
  <2> HIDE DEF N, Q, E, G
  <2>6. Q \cup Derivable(E, G) \subseteq G
    BY <2>3 DEF GroundFollows, Derivable
  <2>7. G = LeastGround(p)
    <3>1. \A i \in LeastGround(p) : i \in G
      BY <2>3, <2>5, <2>6
    <3>2. \A i \in G : i \in LeastGround(p)
      BY <2>3, <2>5 DEF GroundFollows
    <3> QED  BY <3>1, <3>2
  <2> QED  BY <2>4, <2>7
<1> QED  BY <1>1, Inductive, PTL

(***************************************************************************)
(* Only claims the first sort could not place ever lose a premise.         *)
(***************************************************************************)
THEOREM PremisesKept == ASSUME ExtractAssumption PROVE ExtractSpec => []PlacedKeepPremises
<1>1. ASSUME IInv PROVE PlacedKeepPremises
  BY <1>1, Finished DEF PlacedKeepPremises, GoodAt, Good
<1> QED  BY <1>1, Inductive, PTL

CutFindsEdge ==
    \A p \in Position : Sorted(p) /\ remaining[p] # {} => InsideCycle(p) # {}

(***************************************************************************)
(* The cut never gives up: while the sort is stuck there is an edge inside *)
(* the cycle to remove, so the early return of cut_cycle_edges that would  *)
(* leave a cycle behind is never taken.                                    *)
(***************************************************************************)
THEOREM NeverGivesUp == ASSUME ExtractAssumption PROVE ExtractSpec => []CutFindsEdge
<1>1. ASSUME IInv PROVE CutFindsEdge
  <2>1. SUFFICES ASSUME NEW p \in Position, Sorted(p), remaining[p] # {}
                 PROVE  InsideCycle(p) # {}
    BY DEF CutFindsEdge
  <2>2. GoodAt(p)
    BY <1>1 DEF IInv, PInv
  <2>3. {i \in remaining[p] : premise_edges[p][i] \cap remaining[p] = {}} = {}
    BY <2>1 DEF Sorted, Ready
  <2>4. cycle[p] # {} => remaining[p] \subseteq cycle[p]
    BY <2>2, <2>3, StuckInCycle DEF GoodAt
  <2>5. PICK i \in remaining[p], j \in remaining[p] : j \in premise_edges[p][i]
    BY <2>1, <2>3
  <2>6. <<i, j>> \in InsideCycle(p)
    BY <2>4, <2>5 DEF InsideCycle, Cutting
  <2> QED  BY <2>6
<1> QED  BY <1>1, Inductive, PTL

-----------------------------------------------------------------------------
\* The money: a position is booked once, when it is sent for repair.
Booked ==
    /\ repaired \in SUBSET Position
    /\ repair_spent \in Nat
    /\ repair_spent = RepairCost * Cardinality(repaired)
    /\ repair_spent <= RepairCap

LEMMA BookedNext == ASSUME ExtractAssumption, Booked, [ExtractNext]_extractVars PROVE Booked'
<1>1. CASE \E p \in Position : SendRepair(p)
  <2>1. PICK p \in Position : SendRepair(p)
    BY <1>1
  <2>2. /\ p \notin repaired /\ repair_spent + RepairCost <= RepairCap
        /\ repair_spent' = repair_spent + RepairCost /\ repaired' = repaired \cup {p}
    BY <2>1 DEF SendRepair, PastRepair, RepairAffordable
  <2>3. IsFiniteSet(repaired)
    BY FS_Subset DEF ExtractAssumption, Booked
  <2>4. Cardinality(repaired \cup {p}) = Cardinality(repaired) + 1 /\ Cardinality(repaired) \in Nat
    BY <2>2, <2>3, FS_AddElement, FS_CardinalityType
  <2>5. \A k \in Nat : RepairCost * (k + 1) = RepairCost * k + RepairCost
    BY DEF ExtractAssumption
  <2>6. RepairCost * Cardinality(repaired \cup {p}) = RepairCost * Cardinality(repaired) + RepairCost
    BY <2>4, <2>5
  <2>7. repair_spent + RepairCost \in Nat
    BY DEF Booked, ExtractAssumption
  <2> QED  BY <2>2, <2>6, <2>7 DEF Booked
<1>2. CASE repaired' = repaired /\ repair_spent' = repair_spent
  BY <1>2 DEF Booked
<1> QED
  BY <1>1, <1>2 DEF ExtractNext, extractVars, Cancel, Collect, ExtractOne, Start, ExtractFails, Extract,
      SortRound, RepairFails, ApplyRepairs, CutEdge, Finish

LEMMA BookedAlways == ASSUME ExtractAssumption PROVE ExtractSpec => []Booked
<1>1. ASSUME ExtractInit PROVE Booked
  <2>1. Cardinality({}) = 0
    BY FS_EmptySet
  <2> QED  BY <1>1, <2>1 DEF ExtractInit, Booked, ExtractAssumption
<1> QED  BY <1>1, BookedNext, PTL DEF ExtractSpec

(***************************************************************************)
(* The repair budget bounds the stage, however many positions fail at once *)
(* and in whatever order they come to it.                                  *)
(***************************************************************************)
THEOREM RepairsBounded == ASSUME ExtractAssumption PROVE ExtractSpec => []RepairsWithinCap
BY BookedAlways, PTL DEF Booked, RepairsWithinCap

(***************************************************************************)
(* The stage's state is well typed.                                        *)
(***************************************************************************)
THEOREM TypeCorrect == ASSUME ExtractAssumption PROVE ExtractSpec => []ExtractTypeOK
<1>1. ASSUME IInv, Booked PROVE ExtractTypeOK
  <2>1. \A p \in Position : candidates[p] \in Seq(Candidate)
    BY <1>1 DEF IInv, PInv
  <2>2. /\ cancelled \in BOOLEAN /\ status \in {"running", "completed"}
        /\ pc \in [Position -> {"waiting", "extracting", "sorting", "repairing", "done"}]
        /\ repaired \subseteq Position /\ repair_spent \in Nat
        /\ DOMAIN premise_edges = Position /\ DOMAIN returned = Position
    BY <1>1 DEF IInv, Shapes, States, Booked
  <2>3. candidates \in [Position -> Seq(Candidate)]
    BY <1>1, <2>1 DEF IInv, Shapes
  <2>4. ASSUME NEW p \in Position
        PROVE  /\ premise_edges[p] \in [Idx(candidates[p]) -> SUBSET Idx(candidates[p])]
               /\ remaining[p] \cup grounded[p] \cup cycle[p] \subseteq Idx(candidates[p])
               /\ returned[p] = << >> \/ returned[p] \in [Idx(candidates[p]) -> Row]
               /\ Idx(candidates[p]) \subseteq Nat
    <3>1. PInv(p)
      BY <1>1 DEF IInv
    <3>2. GoodAt(p)
      BY <3>1 DEF PInv
    <3>3. premise_edges[p] \in [Idx(candidates[p]) -> SUBSET Idx(candidates[p])]
      BY <3>2 DEF GoodAt, Good
    <3>4. remaining[p] \cup grounded[p] \cup cycle[p] \subseteq Idx(candidates[p])
      BY <3>2 DEF GoodAt, Good
    <3>5. Idx(candidates[p]) \subseteq Nat
      BY <2>1, ListFacts
    <3>6. CASE returned[p] = Built(p)
      <4>1. ASSUME NEW i \in Idx(candidates[p]) PROVE returned[p][i] \in Row
        <5>1. candidates[p][i].kind \in Labels
          <6>1. candidates[p] \in Seq(Candidate)
            BY <2>1
          <6>2. candidates[p][i] \in Candidate
            BY <6>1 DEF Idx
          <6> QED  BY <6>2 DEF Candidate
        <5>2. DeclaredKind(candidates[p][i].kind) \in (Labels \ {"other"}) \cup {"unverified"}
          BY <5>1 DEF DeclaredKind
        <5>3. premise_edges[p][i] \in SUBSET Nat
          BY <3>3, <3>5
        <5>4. /\ returned[p][i].grounding \in {"quote", "derived", "unsupported"}
              /\ returned[p][i].premises \in SUBSET Nat
              /\ returned[p][i].kind \in (Labels \ {"other"}) \cup {"unverified"}
          <6>1. returned[p][i].grounding \in {"quote", "derived", "unsupported"}
            BY <3>6 DEF Built
          <6>2. returned[p][i].premises \in {premise_edges[p][i], {}}
            BY <3>6 DEF Built
          <6>3. returned[p][i].kind \in {"unverified", DeclaredKind(candidates[p][i].kind)}
            BY <3>6 DEF Built
          <6> QED  BY <6>1, <6>2, <6>3, <5>2, <5>3
        <5> DEFINE
              g == CASE i \in Quoted(candidates[p]) -> "quote"
                     [] i \in grounded[p] \ Quoted(candidates[p]) -> "derived"
                     [] OTHER -> "unsupported"
              d == IF g = "derived" THEN premise_edges[p][i] ELSE {}
              k == IF g = "unsupported" THEN "unverified" ELSE DeclaredKind(candidates[p][i].kind)
        <5>5. returned[p][i] = [grounding |-> g, premises |-> d, kind |-> k]
          BY <3>6 DEF Built
        <5> HIDE DEF g, d, k
        <5> QED  BY <5>4, <5>5 DEF Row
      <4>2. returned[p] = [i \in Idx(candidates[p]) |-> returned[p][i]]
        BY <3>6 DEF Built
      <4> QED  BY <4>1, <4>2, <3>3, <3>4, <3>5
    <3> QED  BY <3>1, <3>3, <3>4, <3>5, <3>6 DEF PInv
  <2>5. /\ remaining \in [Position -> SUBSET Nat]
        /\ grounded \in [Position -> SUBSET Nat]
        /\ cycle \in [Position -> SUBSET Nat]
    <3>1. \A p \in Position : remaining[p] \in SUBSET Nat /\ grounded[p] \in SUBSET Nat
                              /\ cycle[p] \in SUBSET Nat
      BY <2>4
    <3> QED  BY <1>1, <3>1 DEF IInv, Shapes
  <2> QED  BY <2>2, <2>3, <2>4, <2>5 DEF ExtractTypeOK
<1> QED  BY <1>1, Inductive, BookedAlways, PTL

(***************************************************************************)
(* claims.extract takes every position once, MaxParallelism at a time.     *)
(***************************************************************************)
THEOREM Refinement == ASSUME ExtractAssumption PROVE ExtractSpec => RefinesItems
<1> DEFINE waits == {p \in Position : pc[p] = "waiting"}
           ends == {p \in Position : pc[p] = "done"}
           seats == MaxParallelism - Cardinality(Running)
<1>0. IsFiniteSet(Running) /\ IsFiniteSet(Running') /\ Cardinality(Running) \in Nat
  <2>1. IsFiniteSet(Running)
    BY FS_Subset DEF ExtractAssumption, Running
  <2>2. IsFiniteSet(Running')
    BY FS_Subset DEF ExtractAssumption, Running
  <2> QED  BY <2>1, <2>2, FS_CardinalityType
<1>1. ASSUME ExtractInit PROVE Items!Init
  <2>1. Running = {} /\ waits = Position /\ ends = {}
    BY <1>1 DEF ExtractInit, Running
  <2>2. seats = MaxParallelism
    BY <2>1, FS_EmptySet DEF ExtractAssumption
  <2>3. (status = "completed") = FALSE
    BY <1>1 DEF ExtractInit
  <2> HIDE DEF waits, ends, seats
  <2> QED  BY <2>1, <2>2, <2>3 DEF Items!Init, waits, ends, seats
<1>2. ASSUME IInv, [ExtractNext]_extractVars PROVE [Items!Next]_(Items!vars)
  <2>0. pc \in [Position -> States]
    BY <1>2 DEF IInv, Shapes
  <2>1. CASE pc' = pc /\ status' = status
    <3>1. Running' = Running /\ waits' = waits /\ ends' = ends
      BY <2>1 DEF Running
    <3> QED  BY <2>1, <3>1 DEF Items!vars
  <2>2. CASE Collect
    <3>0. Running' = Running /\ waits' = waits /\ ends' = ends
      BY <2>2 DEF Collect, Running, work
    <3>1. ends = Position
      BY <2>0, <2>2 DEF Collect
    <3>2. status # "completed" /\ (status' = "completed") = TRUE
      BY <2>2 DEF Collect
    <3>3. Items!Collect
      BY <3>0, <3>1, <3>2 DEF Items!Collect
    <3> QED  BY <3>3 DEF Items!Next
  <2>3. ASSUME NEW p \in Position, Start(p) PROVE [Items!Next]_(Items!vars)
    <3>0. waits' = waits \ {p} /\ p \in waits /\ p \notin Running /\ status' = status
      BY <2>0, <2>3 DEF Start, States, Running
    <3>1. CASE cancelled
      <4>1. ends' = ends \cup {p} /\ Running' = Running
        BY <2>0, <2>3, <3>1 DEF Start, States, Running
      <4>2. Items!Skip(p)
        BY <3>0, <4>1 DEF Items!Skip
      <4> QED  BY <4>2 DEF Items!Next
    <3>2. CASE ~cancelled
      <4>1. ends' = ends /\ Running' = Running \cup {p} /\ Cardinality(Running) < MaxParallelism
        BY <2>0, <2>3, <3>2 DEF Start, States, Running
      <4>2. Cardinality(Running \cup {p}) = Cardinality(Running) + 1
        BY <1>0, <3>0, FS_AddElement
      <4>3. seats > 0 /\ seats' = seats - 1
        BY <1>0, <4>1, <4>2 DEF ExtractAssumption
      <4>4. Items!Begin(p)
        BY <3>0, <4>1, <4>3 DEF Items!Begin
      <4> QED  BY <4>4 DEF Items!Next
    <3> QED  BY <3>1, <3>2
  <2>4. ASSUME NEW p \in Position, ExtractFails(p) \/ Finish(p) PROVE [Items!Next]_(Items!vars)
    <3>1. pc[p] \in {"extracting", "sorting"} /\ pc' = [pc EXCEPT ![p] = "done"] /\ status' = status
      BY <2>4 DEF ExtractFails, Finish, Sorted
    <3>2. /\ p \in Running /\ Running' = Running \ {p} /\ waits' = waits
          /\ ends' = ends \cup {p}
      BY <2>0, <3>1 DEF Running, States
    <3>3. Cardinality(Running \ {p}) = Cardinality(Running) - 1
      BY <1>0, <3>2, FS_RemoveElement
    <3>4. seats' = seats + 1
      BY <1>0, <3>2, <3>3 DEF ExtractAssumption
    <3>5. Items!End(p)
      BY <3>1, <3>2, <3>4 DEF Items!End
    <3> QED  BY <3>5 DEF Items!Next
  <2>5. ASSUME NEW p \in Position,
               Extract(p) \/ SendRepair(p) \/ RepairFails(p) \/ ApplyRepairs(p)
        PROVE  [Items!Next]_(Items!vars)
    <3>1. PICK s \in {"sorting", "repairing"} : pc' = [pc EXCEPT ![p] = s]
      BY <2>5 DEF Extract, SendRepair, RepairFails, ApplyRepairs, Resolve
    <3>2. pc[p] \in {"extracting", "sorting", "repairing"} /\ status' = status
      BY <2>5 DEF Extract, SendRepair, RepairFails, ApplyRepairs, Sorted
    <3>3. Running' = Running /\ waits' = waits /\ ends' = ends
      BY <2>0, <3>1, <3>2 DEF Running, States
    <3> QED  BY <3>2, <3>3 DEF Items!vars
  <2> QED
    BY <1>2, <2>1, <2>2, <2>3, <2>4, <2>5
    DEF ExtractNext, extractVars, Cancel, ExtractOne, SortRound, CutEdge
<1> QED  BY <1>1, <1>2, Inductive, PTL DEF ExtractSpec, Items!Spec, RefinesItems

-----------------------------------------------------------------------------
(***************************************************************************)
(* II. claims.normalize, options.cluster and relations.analyze.  First     *)
(* what the helpers compute: InOrder lists the members of a set by rank,   *)
(* Keep and Flat are what they are on sequences, and the union-find holds  *)
(* the connected components of the links it was given.                     *)
(***************************************************************************)

(* Orders *)

\* A strict total order on S.
Orders(order, S) ==
  /\ \A x \in S : <<x, x>> \notin order
  /\ \A x, y \in S : x # y => <<x, y>> \in order \/ <<y, x>> \in order
  /\ \A x, y, z \in S : <<x, y>> \in order /\ <<y, z>> \in order => <<x, z>> \in order

\* Every member has its place, and there is one for each.
LEMMA InOrderLists ==
  ASSUME NEW S, IsFiniteSet(S), NEW order, Orders(order, S)
  PROVE  /\ InOrder(S, order) \in Seq(S)
         /\ Len(InOrder(S, order)) = Cardinality(S)
         /\ DOMAIN InOrder(S, order) = 1..Cardinality(S)
         /\ ToSet(InOrder(S, order)) = S
         /\ \A j, k \in DOMAIN InOrder(S, order) :
              j < k => <<InOrder(S, order)[j], InOrder(S, order)[k]>> \in order
<1> DEFINE below(x) == {y \in S : <<y, x>> \in order}
           rank == [x \in S |-> Cardinality(below(x))]
           n == Cardinality(S)
           listed == InOrder(S, order)
<1>1. n \in Nat
  BY FS_CardinalityType
<1>2. ASSUME NEW x \in S PROVE IsFiniteSet(below(x)) /\ rank[x] \in 0..(n - 1)
  <2>1. IsFiniteSet(below(x)) /\ Cardinality(below(x)) \in Nat /\ Cardinality(below(x)) <= n
    BY FS_Subset, FS_CardinalityType
  <2>2. below(x) # S
    BY DEF Orders
  <2>3. Cardinality(below(x)) # n
    <3>1. below(x) \in SUBSET S
      OBVIOUS
    <3> HIDE DEF below
    <3> QED BY <2>2, <3>1, FS_Subset
  <2> QED BY <1>1, <2>1, <2>3
<1>3. ASSUME NEW x \in S, NEW y \in S, <<x, y>> \in order PROVE rank[x] < rank[y]
  <2>1. below(x) \in SUBSET below(y)
    BY <1>3 DEF Orders
  <2>2. x \in below(y) /\ x \notin below(x)
    BY <1>3 DEF Orders
  <2>3. IsFiniteSet(below(y)) /\ Cardinality(below(x)) \in Nat /\ Cardinality(below(y)) \in Nat
    BY <1>2, FS_CardinalityType
  <2>4. Cardinality(below(x)) <= Cardinality(below(y)) /\ Cardinality(below(x)) # Cardinality(below(y))
    <3> HIDE DEF below
    <3> QED BY <2>1, <2>2, <2>3, FS_Subset
  <2> QED BY <2>3, <2>4
<1>4. rank \in Injection(S, 0..(n - 1))
  <2>1. ASSUME NEW x \in S, NEW y \in S, x # y PROVE rank[x] # rank[y]
    <3>1. rank[x] \in Int /\ rank[y] \in Int
      <4>1. rank[x] \in 0..(n - 1) /\ rank[y] \in 0..(n - 1)
        BY <1>2
      <4> HIDE DEF rank, n
      <4> QED BY <1>1, <4>1
    <3>2. <<x, y>> \in order \/ <<y, x>> \in order
      BY <2>1 DEF Orders
    <3>3. rank[x] < rank[y] \/ rank[y] < rank[x]
      BY <1>3, <3>2
    <3> QED BY <3>1, <3>3
  <2>2. rank \in [S -> 0..(n - 1)]
    BY <1>2
  <2> HIDE DEF rank
  <2> QED BY <2>1, <2>2 DEF Injection, IsInjective
<1>5. rank \in Surjection(S, 0..(n - 1))
  <2>1. IsFiniteSet(0..(n - 1)) /\ Cardinality(0..(n - 1)) = n
    BY <1>1, FS_Interval, SMTT(30)
  <2>2. n = Cardinality(S)
    OBVIOUS
  <2>3. PICK T : T = 0..(n - 1)
    OBVIOUS
  <2> HIDE DEF rank, n
  <2>4. rank \in Injection(S, T) /\ IsFiniteSet(T) /\ Cardinality(S) = Cardinality(T)
    BY <1>4, <2>1, <2>2, <2>3
  <2>5. rank \in Surjection(S, T)
    BY <2>4, FS_Injection
  <2> QED BY <2>3, <2>5
<1>6. ASSUME NEW k \in 1..n
      PROVE  listed[k] \in S /\ rank[listed[k]] = k - 1
  <2>1. k - 1 \in 0..(n - 1)
    BY <1>1
  <2>2. PICK x \in S : rank[x] = k - 1
    <3> HIDE DEF rank, n
    <3> QED BY <1>5, <2>1 DEF Surjection
  <2>3. listed[k] = CHOOSE y \in S : Cardinality(below(y)) = k - 1
    BY DEF InOrder
  <2>4. \E y \in S : Cardinality(below(y)) = k - 1
    BY <2>2
  <2>5. listed[k] \in S /\ Cardinality(below(listed[k])) = k - 1
    <3> HIDE DEF below, listed
    <3> QED BY <2>3, <2>4
  <2> QED BY <2>5
<1>7. DOMAIN listed = 1..n
  BY DEF InOrder
<1>8. listed \in [1..n -> S]
  BY <1>6, <1>7 DEF InOrder
<1>9. listed \in Seq(S) /\ Len(listed) = n
  <2> HIDE DEF listed, n
  <2> QED BY <1>1, <1>7, <1>8
<1>10. ASSUME NEW x \in S PROVE \E k \in 1..n : listed[k] = x
  <2>1. rank[x] \in 0..(n - 1)
    BY <1>2
  <2>2. PICK k \in 1..n : k - 1 = rank[x]
    <3>1. rank[x] + 1 \in 1..n /\ (rank[x] + 1) - 1 = rank[x]
      BY <1>1, <2>1
    <3> QED BY <3>1
  <2>3. listed[k] \in S /\ rank[listed[k]] = rank[x]
    BY <1>6, <2>2
  <2>4. listed[k] = x
    <3> HIDE DEF rank, listed
    <3> QED BY <1>4, <2>3 DEF Injection, IsInjective
  <2> QED BY <2>4
<1>11. ToSet(listed) = S
  <2> HIDE DEF listed, n
  <2> QED BY <1>6, <1>7, <1>10 DEF ToSet
<1>12. ASSUME NEW j \in 1..n, NEW k \in 1..n, j < k PROVE <<listed[j], listed[k]>> \in order
  <2>1. listed[j] \in S /\ listed[k] \in S /\ rank[listed[j]] = j - 1 /\ rank[listed[k]] = k - 1
    BY <1>6
  <2>2. listed[j] # listed[k]
    BY <1>1, <1>12, <2>1
  <2>3. ~(<<listed[k], listed[j]>> \in order)
    <3>1. ~(k - 1 < j - 1)
      BY <1>1, <1>12
    <3> HIDE DEF listed, rank
    <3> QED BY <1>3, <2>1, <3>1
  <2> HIDE DEF listed
  <2> QED BY <2>1, <2>2, <2>3 DEF Orders
<1> HIDE DEF listed, n
<1>13. /\ listed \in Seq(S) /\ Len(listed) = n /\ DOMAIN listed = 1..n /\ ToSet(listed) = S
       /\ \A j, k \in DOMAIN listed : j < k => <<listed[j], listed[k]>> \in order
  BY <1>7, <1>9, <1>11, <1>12
<1> QED BY <1>13 DEF listed, n

LEMMA SmallerOrders ==
  ASSUME NEW S \in SUBSET Int
  PROVE  Orders(Smaller(S), S)
<1>1. \A x, y \in S : <<x, y>> \in Smaller(S) <=> x < y
  BY DEF Smaller
<1> QED BY <1>1 DEF Orders

LEMMA LexicalOrders ==
  ASSUME NEW S \in SUBSET (Int \X Int)
  PROVE  Orders({pq \in S \X S : Before(pq[1], pq[2])}, S)
<1> DEFINE order == {pq \in S \X S : Before(pq[1], pq[2])}
<1>1. \A p, q \in S : <<p, q>> \in order <=> Before(p, q)
  OBVIOUS
<1>2. \A p \in S : p[1] \in Int /\ p[2] \in Int /\ p = <<p[1], p[2]>>
  OBVIOUS
<1> HIDE DEF order
<1>3. \A p \in S : <<p, p>> \notin order
  BY <1>1, <1>2 DEF Before
<1>4. ASSUME NEW p \in S, NEW q \in S, p # q PROVE <<p, q>> \in order \/ <<q, p>> \in order
  BY <1>1, <1>2, <1>4 DEF Before
<1>5. ASSUME NEW p \in S, NEW q \in S, NEW r \in S, <<p, q>> \in order, <<q, r>> \in order
      PROVE  <<p, r>> \in order
  <2>1. Before(p, q) /\ Before(q, r)
    BY <1>1, <1>5
  <2> QED BY <1>1, <1>2, <2>1 DEF Before
<1>6. Orders(order, S)
  BY <1>3, <1>4, <1>5 DEF Orders
<1> QED BY <1>6 DEF order

---------------------------------------------------------------------------
(* Sequences *)

Flattening == INSTANCE FoldLemmas WITH Op <- Joined

\* The folds of the model are those of the lemmas: Flat's.
LEMMA FlatteningIs ==
  ASSUME NEW base, NEW seq
  PROVE  FoldLeft(Joined, base, seq) = Flattening!SequenceFold(base, seq)
BY DEF FoldLeft, MapThenFoldSet, Max, Flattening!SequenceFold, Flattening!FoldLeft,
       Flattening!MapThenFoldSet, Flattening!Max

LEMMA SetOfSequence ==
  ASSUME NEW T, NEW s \in Seq(T)
  PROVE  /\ DOMAIN s = 1..Len(s) /\ Len(s) \in Nat
         /\ ToSet(s) = {s[i] : i \in 1..Len(s)} /\ ToSet(s) \subseteq T
         /\ IsFiniteSet(ToSet(s))
<1>1. DOMAIN s = 1..Len(s) /\ Len(s) \in Nat /\ ToSet(s) = {s[i] : i \in 1..Len(s)} /\ ToSet(s) \subseteq T
  BY DEF ToSet
<1>2. IsFiniteSet(1..Len(s))
  BY <1>1, FS_Interval
<1>3. [i \in 1..Len(s) |-> s[i]] \in Surjection(1..Len(s), ToSet(s))
  BY <1>1 DEF Surjection
<1>4. IsFiniteSet(ToSet(s))
  BY <1>2, <1>3, FS_Surjection
<1> QED BY <1>1, <1>4

LEMMA SetOfBoth ==
  ASSUME NEW T, NEW s \in Seq(T), NEW t \in Seq(T)
  PROVE  s \o t \in Seq(T) /\ ToSet(s \o t) = ToSet(s) \union ToSet(t)
<1>1. /\ s \o t \in Seq(T) /\ Len(s \o t) = Len(s) + Len(t) /\ Len(s) \in Nat /\ Len(t) \in Nat
      /\ \A i \in 1..(Len(s) + Len(t)) : (s \o t)[i] = IF i <= Len(s) THEN s[i] ELSE t[i - Len(s)]
  BY ConcatProperties
<1>2. PICK st : st = s \o t
  OBVIOUS
<1>3. DOMAIN st = 1..(Len(s) + Len(t)) /\ DOMAIN s = 1..Len(s) /\ DOMAIN t = 1..Len(t)
  BY <1>1, <1>2
<1>4. \A i \in 1..Len(s) : i \in 1..(Len(s) + Len(t)) /\ st[i] = s[i]
  BY <1>1, <1>2
<1>5. \A i \in 1..Len(t) : Len(s) + i \in 1..(Len(s) + Len(t)) /\ st[Len(s) + i] = t[i]
  BY <1>1, <1>2
<1>6. ASSUME NEW i \in 1..(Len(s) + Len(t))
      PROVE  (\E j \in 1..Len(s) : st[i] = s[j]) \/ (\E j \in 1..Len(t) : st[i] = t[j])
  <2>1. CASE i <= Len(s)
    BY <1>1, <1>2, <2>1
  <2>2. CASE i > Len(s)
    <3>1. i - Len(s) \in 1..Len(t) /\ st[i] = t[i - Len(s)]
      BY <1>1, <1>2, <2>2
    <3> QED BY <3>1
  <2> QED BY <1>1, <2>1, <2>2
<1>7. ToSet(st) = ToSet(s) \union ToSet(t)
  <2>1. ASSUME NEW x \in ToSet(st) PROVE x \in ToSet(s) \union ToSet(t)
    <3>1. PICK i \in 1..(Len(s) + Len(t)) : x = st[i]
      BY <1>3 DEF ToSet
    <3> QED BY <1>3, <1>6, <3>1 DEF ToSet
  <2>2. ASSUME NEW x \in ToSet(s) PROVE x \in ToSet(st)
    BY <1>3, <1>4 DEF ToSet
  <2>3. ASSUME NEW x \in ToSet(t) PROVE x \in ToSet(st)
    BY <1>3, <1>5 DEF ToSet
  <2> QED BY <2>1, <2>2, <2>3
<1> QED BY <1>1, <1>2, <1>7

LEMMA FlatLists ==
  ASSUME NEW T, NEW n \in Nat, NEW seqs, DOMAIN seqs = 1..n, \A i \in 1..n : seqs[i] \in Seq(T)
  PROVE  /\ Flat(seqs) \in Seq(T)
         /\ ToSet(Flat(seqs)) = UNION {ToSet(seqs[i]) : i \in 1..n}
<1> DEFINE upto(i) == UNION {ToSet(seqs[j]) : j \in 1..i}
           H == [i \in 0..n |-> {s \in Seq(T) : ToSet(s) = upto(i)}]
<1>1. << >> \in H[0]
  <2>1. upto(0) = {} /\ ToSet(<< >>) = {} /\ << >> \in Seq(T)
    BY DEF ToSet
  <2> QED BY <2>1
<1>2. ASSUME NEW i \in 1..n, NEW acc \in H[i - 1] PROVE Joined(acc, seqs[i]) \in H[i]
  <2>1. acc \in Seq(T) /\ ToSet(acc) = upto(i - 1)
    BY <1>2
  <2>2. upto(i) = upto(i - 1) \union ToSet(seqs[i])
    <3>1. 1..i = 1..(i - 1) \union {i}
      OBVIOUS
    <3> QED BY <3>1
  <2>3. acc \o seqs[i] \in Seq(T) /\ ToSet(acc \o seqs[i]) = ToSet(acc) \union ToSet(seqs[i])
    BY <2>1, SetOfBoth
  <2>4. Joined(acc, seqs[i]) \in Seq(T) /\ ToSet(Joined(acc, seqs[i])) = upto(i)
    <3> HIDE DEF upto
    <3> QED BY <2>1, <2>2, <2>3 DEF Joined
  <2>5. i \in 0..n
    OBVIOUS
  <2> HIDE DEF upto
  <2> QED BY <2>4, <2>5
<1>3. Flattening!SequenceFold(<< >>, seqs) \in H[n]
  <2> HIDE DEF H
  <2> QED BY <1>1, <1>2, Flattening!SequenceFoldReaches
<1> QED BY <1>3, FlatteningIs DEF Flat

LEMMA KeepLists ==
  ASSUME NEW T, NEW s \in Seq(T), NEW places \in SUBSET DOMAIN s
  PROVE  /\ Keep(s, places) \in Seq(T)
         /\ ToSet(Keep(s, places)) = {s[k] : k \in places}
         /\ \A k \in DOMAIN Keep(s, places) : \E m \in places : Keep(s, places)[k] = s[m]
<1>1. DOMAIN s = 1..Len(s) /\ Len(s) \in Nat
  OBVIOUS
<1>2. IsFiniteSet(places)
  <2>1. IsFiniteSet(1..Len(s)) /\ places \in SUBSET (1..Len(s))
    BY <1>1, FS_Interval
  <2> QED BY <2>1, FS_Subset
<1>3. places \in SUBSET Int
  BY <1>1
<1>4. PICK kept : kept = InOrder(places, Smaller(places))
  OBVIOUS
<1>5. kept \in Seq(places) /\ ToSet(kept) = places
  BY <1>2, <1>3, <1>4, SmallerOrders, InOrderLists
<1>6. Keep(s, places) = [k \in DOMAIN kept |-> s[kept[k]]]
  BY <1>4 DEF Keep
<1>7. DOMAIN kept = 1..Len(kept) /\ Len(kept) \in Nat /\ \A k \in DOMAIN kept : kept[k] \in places
  BY <1>5
<1>8. \A k \in DOMAIN kept : s[kept[k]] \in T
  BY <1>1, <1>7
<1> QED BY <1>5, <1>6, <1>7, <1>8 DEF ToSet

---------------------------------------------------------------------------
(* Union-find *)

Nodes(n) == 1..n

\* root has the root of each item, and ranks fall towards it.
Rooted(links, n, root) ==
  /\ links \in [1..n -> 1..n]
  /\ root \in [1..n -> 1..n]
  /\ \A j \in 1..n : root[j] = IF links[j] = j THEN j ELSE root[links[j]]
  /\ \A j \in 1..n : links[root[j]] = root[j]
  /\ \E rank \in [1..n -> Nat] : \A j \in 1..n : links[j] # j => rank[links[j]] < rank[j]

LEMMA AloneRooted ==
  ASSUME NEW n \in Nat
  PROVE  Rooted(Alone(n), n, Alone(n))
<1>1. [j \in 1..n |-> 0] \in [1..n -> Nat]
  OBVIOUS
<1> QED BY <1>1 DEF Rooted, Alone

\* A solution of the recursion's equation is root, so Find is it too.
Tying == INSTANCE FoldLemmas WITH Op <- Tie

\* UnionAll's fold is that of the lemmas.
LEMMA TyingIs ==
  ASSUME NEW base, NEW seq
  PROVE  FoldLeft(Tie, base, seq) = Tying!SequenceFold(base, seq)
BY DEF FoldLeft, MapThenFoldSet, Max, Tying!SequenceFold, Tying!FoldLeft,
       Tying!MapThenFoldSet, Tying!Max

LEMMA FindIsRoot ==
  ASSUME NEW n \in Nat, NEW links, NEW root, Rooted(links, n, root), NEW i \in 1..n
  PROVE  Find(links, i) = root[i]
<1> DEFINE Is(f) == f = [j \in DOMAIN links |-> IF links[j] = j THEN j ELSE f[links[j]]]
           found == CHOOSE f : Is(f)
<1>1. DOMAIN links = 1..n /\ \A j \in 1..n : links[j] \in 1..n
  BY DEF Rooted
<1>2. Is(root)
  BY <1>1 DEF Rooted
<1>3. Is(found)
  BY <1>2
<1>4. Find(links, i) = found[i]
  BY DEF Find
<1>5. PICK rank \in [1..n -> Nat] : \A j \in 1..n : links[j] # j => rank[links[j]] < rank[j]
  BY DEF Rooted
<1> HIDE DEF found
<1>6. \A j \in 1..n : found[j] = IF links[j] = j THEN j ELSE found[links[j]]
  BY <1>1, <1>3
<1> DEFINE G == {k \in Nat : \A j \in 1..n : rank[j] <= k => found[j] = root[j]}
<1>7. 0 \in G
  <2>1. ASSUME NEW j \in 1..n, rank[j] <= 0 PROVE found[j] = root[j]
    <3>1. ~(rank[links[j]] < rank[j])
      BY <1>1, <1>5, <2>1
    <3> QED BY <1>5, <1>6, <3>1 DEF Rooted
  <2> QED BY <2>1
<1>8. ASSUME NEW k \in Nat, k \in G PROVE k + 1 \in G
  <2>1. ASSUME NEW j \in 1..n, rank[j] <= k + 1 PROVE found[j] = root[j]
    <3>1. CASE links[j] = j
      BY <1>6, <3>1 DEF Rooted
    <3>2. CASE links[j] # j
      <4>1. links[j] \in 1..n /\ rank[links[j]] <= k
        BY <1>1, <1>5, <2>1, <3>2
      <4>2. found[links[j]] = root[links[j]]
        BY <1>8, <4>1
      <4> QED BY <1>6, <3>2, <4>2 DEF Rooted
    <3> QED BY <3>1, <3>2
  <2> QED BY <2>1
<1>9. Nat \subseteq G
  <2> HIDE DEF G
  <2> QED BY <1>7, <1>8, Tying!NatByInduction
<1>10. found[i] = root[i]
  <2>1. rank[i] \in G /\ rank[i] \in Nat
    BY <1>5, <1>9
  <2> QED BY <2>1
<1> QED BY <1>4, <1>10

Regrouped(root, i, j) == [x \in DOMAIN root |-> IF root[x] = root[i] THEN root[j] ELSE root[x]]

LEMMA UnionRooted ==
  ASSUME NEW n \in Nat, NEW links, NEW root, Rooted(links, n, root), NEW i \in 1..n, NEW j \in 1..n
  PROVE  Rooted(Union(links, i, j), n, Regrouped(root, i, j))
<1>1. PICK a \in 1..n : a = root[i]
  BY DEF Rooted
<1>2. PICK b \in 1..n : b = root[j]
  BY DEF Rooted
<1>3. PICK after : after = [links EXCEPT ![a] = b]
  OBVIOUS
<1>4. Union(links, i, j) = after
  <2>1. Find(links, i) = root[i]
    BY FindIsRoot
  <2>2. Find(links, j) = root[j]
    BY FindIsRoot
  <2> QED BY <1>1, <1>2, <1>3, <2>1, <2>2 DEF Union
<1>5. PICK root2 : root2 = [x \in 1..n |-> IF root[x] = a THEN b ELSE root[x]]
  OBVIOUS
<1>6. Regrouped(root, i, j) = root2
  BY <1>1, <1>2, <1>5 DEF Regrouped, Rooted
<1>7. links[a] = a /\ root[a] = a /\ links[b] = b /\ root[b] = b
  BY <1>1, <1>2 DEF Rooted
<1>8. after \in [1..n -> 1..n] /\ root2 \in [1..n -> 1..n]
  BY <1>3, <1>5 DEF Rooted
<1>9. \A x \in 1..n : after[x] = IF x = a THEN b ELSE links[x]
  BY <1>3 DEF Rooted
<1>10. \A x \in 1..n : root2[x] = IF root[x] = a THEN b ELSE root[x]
  BY <1>5
<1>11. \A x \in 1..n : links[x] \in 1..n /\ root[x] \in 1..n
  BY DEF Rooted
<1>12. \A x \in 1..n : root[x] = IF links[x] = x THEN x ELSE root[links[x]]
  BY DEF Rooted
<1>13. ASSUME NEW x \in 1..n
       PROVE  root2[x] = IF after[x] = x THEN x ELSE root2[after[x]]
  <2>1. CASE x = a
    BY <1>7, <1>9, <1>10, <2>1
  <2>2. CASE x # a /\ links[x] = x
    BY <1>9, <1>10, <1>12, <2>2
  <2>3. CASE x # a /\ links[x] # x
    BY <1>9, <1>10, <1>11, <1>12, <2>3
  <2> QED BY <2>1, <2>2, <2>3
<1>14. ASSUME NEW x \in 1..n PROVE after[root2[x]] = root2[x]
  BY <1>7, <1>9, <1>10, <1>11 DEF Rooted
<1>15. \E rank2 \in [1..n -> Nat] : \A x \in 1..n : after[x] # x => rank2[after[x]] < rank2[x]
  <2>1. PICK rank \in [1..n -> Nat] : \A x \in 1..n : links[x] # x => rank[links[x]] < rank[x]
    BY DEF Rooted
  <2>2. CASE a = b
    BY <1>7, <1>9, <2>1, <2>2
  <2>3. CASE a # b
    <3>1. PICK rank2 : rank2 = [x \in 1..n |-> IF root[x] = a THEN rank[x] + rank[b] + 1 ELSE rank[x]]
      OBVIOUS
    <3>2. rank2 \in [1..n -> Nat]
      BY <2>1, <3>1
    <3>3. \A x \in 1..n : rank[x] \in Nat /\ rank2[x] = IF root[x] = a THEN rank[x] + rank[b] + 1 ELSE rank[x]
      BY <2>1, <3>1
    <3>4. ASSUME NEW x \in 1..n, after[x] # x PROVE rank2[after[x]] < rank2[x]
      <4>1. CASE x = a
        <5>1. after[x] = b /\ rank2[b] = rank[b] /\ rank2[x] = rank[a] + rank[b] + 1
          BY <1>7, <1>9, <2>3, <3>3, <4>1
        <5> QED BY <3>3, <5>1
      <4>2. CASE x # a
        <5>1. after[x] = links[x] /\ links[x] # x /\ links[x] \in 1..n
          BY <1>9, <1>11, <3>4, <4>2
        <5>2. root[links[x]] = root[x] /\ rank[links[x]] < rank[x]
          BY <1>12, <2>1, <5>1
        <5>3. PICK y \in 1..n : y = links[x]
          BY <5>1
        <5>4. rank[x] \in Nat /\ rank[y] \in Nat /\ rank[b] \in Nat /\ rank[y] < rank[x]
          BY <3>3, <5>2, <5>3
        <5>5. rank2[y] < rank2[x]
          <6>1. CASE root[x] = a
            <7>1. rank2[y] = rank[y] + rank[b] + 1 /\ rank2[x] = rank[x] + rank[b] + 1
              BY <3>3, <5>2, <5>3, <6>1
            <7> QED BY <5>4, <7>1
          <6>2. CASE root[x] # a
            <7>1. rank2[y] = rank[y] /\ rank2[x] = rank[x]
              BY <3>3, <5>2, <5>3, <6>2
            <7> QED BY <5>4, <7>1
          <6> QED BY <6>1, <6>2
        <5> QED BY <5>1, <5>3, <5>5
      <4> QED BY <4>1, <4>2
    <3> QED BY <3>2, <3>4
  <2> QED BY <2>2, <2>3
<1>16. Rooted(after, n, root2)
  BY <1>8, <1>13, <1>14, <1>15 DEF Rooted
<1> QED BY <1>4, <1>6, <1>16

---------------------------------------------------------------------------
\* Nothing in pairs leads out of S or into it.
Closed(S, pairs) == \A p \in pairs : p[1] \in S <=> p[2] \in S

\* The trees are the components of the pairs.
Represents(links, n, pairs) ==
  \E root :
    /\ Rooted(links, n, root)
    /\ \A p \in pairs : root[p[1]] = root[p[2]]
    /\ \A S \in SUBSET (1..n) : Closed(S, pairs) => \A x \in 1..n : x \in S <=> root[x] \in S

LEMMA AloneRepresents ==
  ASSUME NEW n \in Nat
  PROVE  Represents(Alone(n), n, {})
<1>1. PICK root : root = Alone(n)
  OBVIOUS
<1>2. \A x \in 1..n : root[x] = x
  BY <1>1 DEF Alone
<1>3. Rooted(Alone(n), n, root)
  BY <1>1, AloneRooted
<1> QED BY <1>2, <1>3 DEF Represents

LEMMA TieRepresents ==
  ASSUME NEW n \in Nat, NEW links, NEW pairs \in SUBSET ((1..n) \X (1..n)),
         Represents(links, n, pairs), NEW l \in (1..n) \X (1..n)
  PROVE  Represents(Tie(links, l), n, pairs \union {l})
<1>1. PICK i \in 1..n, j \in 1..n : l = <<i, j>>
  OBVIOUS
<1>2. PICK root : /\ Rooted(links, n, root)
                  /\ \A p \in pairs : root[p[1]] = root[p[2]]
                  /\ \A S \in SUBSET (1..n) :
                       Closed(S, pairs) => \A x \in 1..n : x \in S <=> root[x] \in S
  BY DEF Represents
<1>3. PICK root2 : root2 = Regrouped(root, i, j)
  OBVIOUS
<1>4. PICK after : after = Tie(links, l)
  OBVIOUS
<1>5. Rooted(after, n, root2)
  BY <1>1, <1>2, <1>3, <1>4, UnionRooted DEF Tie
<1>6. \A x \in 1..n : root2[x] = IF root[x] = root[i] THEN root[j] ELSE root[x]
  BY <1>2, <1>3 DEF Regrouped, Rooted
<1>7. \A p \in pairs : p[1] \in 1..n /\ p[2] \in 1..n
  OBVIOUS
<1>8. \A p \in pairs \union {l} : root2[p[1]] = root2[p[2]]
  BY <1>1, <1>2, <1>6, <1>7
<1>9. ASSUME NEW S \in SUBSET (1..n), Closed(S, pairs \union {l}), NEW x \in 1..n
      PROVE  x \in S <=> root2[x] \in S
  <2>1. Closed(S, pairs)
    BY <1>9 DEF Closed
  <2>2. i \in S <=> j \in S
    BY <1>1, <1>9 DEF Closed
  <2>3. \A y \in 1..n : y \in S <=> root[y] \in S
    BY <1>2, <2>1
  <2> QED BY <1>6, <2>2, <2>3
<1>10. Represents(after, n, pairs \union {l})
  BY <1>5, <1>8, <1>9 DEF Represents
<1> QED BY <1>4, <1>10

LEMMA UnionAllRepresents ==
  ASSUME NEW n \in Nat, NEW m \in Nat, NEW links, NEW pairs \in SUBSET ((1..n) \X (1..n)),
         Represents(links, n, pairs),
         NEW more, DOMAIN more = 1..m, \A k \in 1..m : more[k] \in (1..n) \X (1..n)
  PROVE  Represents(UnionAll(links, more), n, pairs \union ToSet(more))
<1> DEFINE first(k) == {more[h] : h \in 1..k}
           H == [k \in 0..m |-> {forest \in [1..n -> 1..n] : Represents(forest, n, pairs \union first(k))}]
<1>1. \A forest, some : Represents(forest, n, some) => forest \in [1..n -> 1..n]
  BY DEF Represents, Rooted
<1>2. links \in H[0]
  <2>1. pairs \union first(0) = pairs
    OBVIOUS
  <2>2. Represents(links, n, pairs \union first(0))
    BY <2>1
  <2>3. links \in [1..n -> 1..n]
    BY <1>1
  <2>4. 0 \in 0..m
    OBVIOUS
  <2> HIDE DEF first
  <2> QED BY <2>2, <2>3, <2>4
<1>3. ASSUME NEW k \in 1..m, NEW acc \in H[k - 1] PROVE Tie(acc, more[k]) \in H[k]
  <2>1. Represents(acc, n, pairs \union first(k - 1))
    <3>1. k - 1 \in 0..m
      OBVIOUS
    <3> HIDE DEF first
    <3> QED BY <1>3, <3>1
  <2>2. pairs \union first(k - 1) \in SUBSET ((1..n) \X (1..n))
    OBVIOUS
  <2>3. (pairs \union first(k - 1)) \union {more[k]} = pairs \union first(k)
    <3>1. \A h \in 1..k : h \in 1..(k - 1) \/ h = k
      OBVIOUS
    <3>2. k \in 1..k /\ \A h \in 1..(k - 1) : h \in 1..k
      OBVIOUS
    <3> QED BY <3>1, <3>2
  <2>4. more[k] \in (1..n) \X (1..n)
    OBVIOUS
  <2> HIDE DEF first
  <2>5. Represents(Tie(acc, more[k]), n, pairs \union first(k))
    BY <2>1, <2>2, <2>3, <2>4, TieRepresents, Zenon
  <2>6. k \in 0..m
    OBVIOUS
  <2> QED BY <1>1, <2>5, <2>6
<1>4. Tying!SequenceFold(links, more) \in H[m]
  <2> HIDE DEF H
  <2> QED BY <1>2, <1>3, Tying!SequenceFoldReaches
<1>5. first(m) = ToSet(more)
  BY DEF ToSet
<1>6. m \in 0..m
  OBVIOUS
<1> HIDE DEF first
<1> QED BY <1>4, <1>5, <1>6, TyingIs DEF UnionAll

\* Find tells the components apart.
LEMMA FindsComponents ==
  ASSUME NEW n \in Nat, NEW links, NEW pairs \in SUBSET ((1..n) \X (1..n)),
         Represents(links, n, pairs)
  PROVE  /\ DOMAIN links = 1..n
         /\ \A i \in 1..n : Find(links, i) \in 1..n /\ Find(links, Find(links, i)) = Find(links, i)
         /\ \A i, j \in 1..n :
              Find(links, i) = Find(links, j)
                <=> \A S \in SUBSET (1..n) : i \in S /\ Closed(S, pairs) => j \in S
<1>1. PICK root : /\ Rooted(links, n, root)
                  /\ \A p \in pairs : root[p[1]] = root[p[2]]
                  /\ \A S \in SUBSET (1..n) :
                       Closed(S, pairs) => \A x \in 1..n : x \in S <=> root[x] \in S
  BY DEF Represents
<1>2. ASSUME NEW i \in 1..n PROVE Find(links, i) = root[i] /\ root[i] \in 1..n
  <2>1. Find(links, i) = root[i]
    BY <1>1, FindIsRoot
  <2> QED BY <1>1, <2>1 DEF Rooted
<1>3. \A i \in 1..n : root[root[i]] = root[i]
  BY <1>1 DEF Rooted
<1>4. ASSUME NEW i \in 1..n, NEW j \in 1..n, root[i] = root[j],
             NEW S \in SUBSET (1..n), i \in S, Closed(S, pairs)
      PROVE  j \in S
  BY <1>1, <1>4
<1>5. ASSUME NEW i \in 1..n, NEW j \in 1..n,
             \A S \in SUBSET (1..n) : i \in S /\ Closed(S, pairs) => j \in S
      PROVE  root[i] = root[j]
  <2> DEFINE S == {x \in 1..n : root[x] = root[i]}
  <2>1. S \in SUBSET (1..n) /\ i \in S
    OBVIOUS
  <2>2. Closed(S, pairs)
    <3>1. \A p \in pairs : p[1] \in 1..n /\ p[2] \in 1..n
      OBVIOUS
    <3> QED BY <1>1, <3>1 DEF Closed
  <2> QED BY <1>5, <2>1, <2>2
<1>6. DOMAIN links = 1..n
  BY <1>1 DEF Rooted
<1> QED BY <1>2, <1>3, <1>4, <1>5, <1>6

---------------------------------------------------------------------------
(* Candidate pairs and batches *)

LEMMA MinIsLeast ==
  ASSUME NEW S \in SUBSET Nat, S # {}
  PROVE  Min(S) \in S /\ \A x \in S : Min(S) <= x
<1>1. \E m \in S : \A x \in S : m <= x
  BY Tying!LeastElement
<1> QED BY <1>1 DEF Min

LEMMA ImageFinite ==
  ASSUME NEW S, IsFiniteSet(S), NEW f
  PROVE  IsFiniteSet({f[x] : x \in S})
<1>1. [x \in S |-> f[x]] \in Surjection(S, {f[x] : x \in S})
  BY DEF Surjection
<1> QED BY <1>1, FS_Surjection

\* The pairs that are offered: of two items, the smaller first.
Couples(n) == {p \in (1..n) \X (1..n) : p[1] < p[2]}

LEMMA CouplesFinite ==
  ASSUME NEW n \in Nat, NEW pairs \in SUBSET ((1..n) \X (1..n))
  PROVE  IsFiniteSet(pairs)
<1>1. IsFiniteSet(1..n)
  BY FS_Interval
<1>2. IsFiniteSet((1..n) \X (1..n))
  BY <1>1, FS_Product
<1> QED BY <1>2, FS_Subset

LEMMA ScoresOrder ==
  ASSUME NEW S, NEW row, NEW order, \A x \in S : x \in Int /\ row[x] \in Int,
         \A x, y \in S : <<x, y>> \in order <=> row[x] > row[y] \/ (row[x] = row[y] /\ x < y)
  PROVE  Orders(order, S)
<1>1. \A x \in S : <<x, x>> \notin order
  OBVIOUS
<1>2. ASSUME NEW x \in S, NEW y \in S, x # y PROVE <<x, y>> \in order \/ <<y, x>> \in order
  BY <1>2
<1>3. ASSUME NEW x \in S, NEW y \in S, NEW z \in S, <<x, y>> \in order, <<y, z>> \in order
      PROVE  <<x, z>> \in order
  BY <1>3
<1> QED BY <1>1, <1>2, <1>3 DEF Orders

LEMMA NeighboursTyped ==
  ASSUME NEW n \in Nat, NEW score \in [1..n -> [1..n -> Nat]], NEW i \in 1..n
  PROVE  Neighbours(score, i) \in Seq((1..n) \ {i})
<1> DEFINE alike == {j \in DOMAIN score : j # i /\ score[i][j] > 0}
           order == {p \in alike \X alike :
                       \/ score[i][p[1]] > score[i][p[2]]
                       \/ score[i][p[1]] = score[i][p[2]] /\ p[1] < p[2]}
<1>1. alike \in SUBSET ((1..n) \ {i})
  OBVIOUS
<1>2. IsFiniteSet(alike)
  <2>1. IsFiniteSet(1..n) /\ alike \in SUBSET (1..n)
    BY <1>1, FS_Interval
  <2> QED BY <2>1, FS_Subset
<1>3. PICK row \in [1..n -> Nat] : row = score[i]
  OBVIOUS
<1>4. \A x, y \in alike : <<x, y>> \in order <=> row[x] > row[y] \/ (row[x] = row[y] /\ x < y)
  BY <1>3
<1>5. \A x \in alike : x \in Int /\ row[x] \in Int
  BY <1>1, <1>3
<1>6. PICK near : near = alike
  OBVIOUS
<1>7. PICK ahead : ahead = order
  OBVIOUS
<1>8. Orders(ahead, near)
  <2>1. \A x, y \in near : <<x, y>> \in ahead <=> row[x] > row[y] \/ (row[x] = row[y] /\ x < y)
    BY <1>4, <1>6, <1>7
  <2>2. \A x \in near : x \in Int /\ row[x] \in Int
    BY <1>5, <1>6
  <2> QED BY <2>1, <2>2, ScoresOrder
<1>9. InOrder(near, ahead) \in Seq(near)
  BY <1>2, <1>6, <1>8, InOrderLists
<1>10. Neighbours(score, i) = InOrder(near, ahead)
  BY <1>6, <1>7 DEF Neighbours
<1>11. InOrder(near, ahead) \in Seq((1..n) \ {i})
  BY <1>1, <1>6, <1>9, SeqMonotonic
<1> QED BY <1>10, <1>11

LEMMA NearestTyped ==
  ASSUME NEW n \in Nat, NEW score \in [1..n -> [1..n -> Nat]], NEW i \in 1..n
  PROVE  Nearest(score, i) \in Seq(Couples(n))
<1>1. PICK all \in Seq((1..n) \ {i}) : all = Neighbours(score, i)
  BY NeighboursTyped
<1>2. PICK m \in Nat : m = (IF Len(all) < TopK THEN Len(all) ELSE TopK)
  BY SimilarityAssumption
<1>3. Len(all) \in Nat /\ m <= Len(all)
  BY <1>2, SimilarityAssumption
<1>4. Nearest(score, i) = [k \in 1..m |-> Ordered(i, all[k])]
  BY <1>1, <1>2 DEF Nearest
<1>5. ASSUME NEW k \in 1..m PROVE Ordered(i, all[k]) \in Couples(n)
  <2>1. all[k] \in (1..n) \ {i}
    BY <1>3
  <2>2. PICK j \in 1..n : j = all[k] /\ j # i
    BY <2>1
  <2>3. <<i, j>> \in (1..n) \X (1..n) /\ <<j, i>> \in (1..n) \X (1..n)
    OBVIOUS
  <2>4. i < j \/ (j < i /\ ~(i < j))
    BY <2>2
  <2> QED BY <2>2, <2>3, <2>4 DEF Ordered, Couples
<1> QED BY <1>4, <1>5

Offering == INSTANCE FoldLemmas WITH Op <- Offer

\* TopPairs' fold is that of the lemmas.
LEMMA OfferingIs ==
  ASSUME NEW base, NEW seq
  PROVE  FoldLeft(Offer, base, seq) = Offering!SequenceFold(base, seq)
BY DEF FoldLeft, MapThenFoldSet, Max, Offering!SequenceFold, Offering!FoldLeft,
       Offering!MapThenFoldSet, Offering!Max

LEMMA TopPairsTyped ==
  ASSUME NEW n \in Nat, NEW score \in [1..n -> [1..n -> Nat]]
  PROVE  TopPairs(score) \in SUBSET Couples(n)
<1>1. Len(score) = n
  OBVIOUS
<1>2. PICK nearest : nearest = [i \in 1..n |-> Nearest(score, i)]
  OBVIOUS
<1>3. DOMAIN nearest = 1..n /\ \A i \in 1..n : nearest[i] \in Seq(Couples(n))
  BY <1>2, NearestTyped
<1>4. PICK offered : offered = Flat(nearest)
  OBVIOUS
<1>5. offered \in Seq(Couples(n))
  BY <1>3, <1>4, FlatLists
<1>6. PICK m \in Nat : m = Len(offered)
  BY <1>5
<1>7. DOMAIN offered = 1..m /\ \A k \in 1..m : offered[k] \in Couples(n)
  BY <1>5, <1>6
<1> DEFINE G == SUBSET Couples(n)
<1>8. {} \in G /\ \A acc \in G, k \in 1..m : Offer(acc, offered[k]) \in G
  BY <1>7 DEF Offer
<1>9. Offering!SequenceFold({}, offered) \in G
  <2> HIDE DEF G
  <2> QED BY <1>7, <1>8, Offering!SequenceFoldKeeps
<1> QED BY <1>1, <1>2, <1>4, <1>9, OfferingIs DEF TopPairs

LEMMA PairsListed ==
  ASSUME NEW n \in Nat, NEW pairs \in SUBSET ((1..n) \X (1..n))
  PROVE  /\ PairsInOrder(pairs) \in Seq((1..n) \X (1..n))
         /\ ToSet(PairsInOrder(pairs)) = pairs
<1>1. IsFiniteSet(pairs)
  BY CouplesFinite
<1>2. pairs \in SUBSET (Int \X Int)
  OBVIOUS
<1>3. PICK order : order = {pq \in pairs \X pairs : Before(pq[1], pq[2])}
  OBVIOUS
<1>4. Orders(order, pairs)
  BY <1>2, <1>3, LexicalOrders
<1>5. InOrder(pairs, order) \in Seq(pairs) /\ ToSet(InOrder(pairs, order)) = pairs
  BY <1>1, <1>4, InOrderLists
<1> QED BY <1>3, <1>5 DEF PairsInOrder

LEMMA RootsTyped ==
  ASSUME NEW n \in Nat, NEW links, NEW pairs \in SUBSET ((1..n) \X (1..n)),
         Represents(links, n, pairs)
  PROVE  /\ Roots(links) \in SUBSET (1..n) /\ IsFiniteSet(Roots(links))
         /\ \A r : Class(links, r) \in SUBSET (1..n) /\ IsFiniteSet(Class(links, r))
         /\ \A r \in Roots(links) : r \in Class(links, r)
         /\ \A i \in 1..n : Find(links, i) \in Roots(links) /\ i \in Class(links, Find(links, i))
<1>1. /\ DOMAIN links = 1..n
      /\ \A i \in 1..n : Find(links, i) \in 1..n /\ Find(links, Find(links, i)) = Find(links, i)
  BY FindsComponents
<1>2. Roots(links) \in SUBSET (1..n) /\ \A r : Class(links, r) \in SUBSET (1..n)
  BY <1>1 DEF Roots, Class
<1>3. IsFiniteSet(1..n)
  BY FS_Interval
<1>4. IsFiniteSet(Roots(links)) /\ \A r : IsFiniteSet(Class(links, r))
  BY <1>2, <1>3, FS_Subset
<1> QED BY <1>1, <1>2, <1>4 DEF Roots, Class

LEMMA ListedAscending ==
  ASSUME NEW n \in Nat, NEW S \in SUBSET (1..n)
  PROVE  InOrder(S, Smaller(S)) \in Seq(1..n) /\ ToSet(InOrder(S, Smaller(S))) = S
<1>1. IsFiniteSet(S)
  <2>1. IsFiniteSet(1..n)
    BY FS_Interval
  <2> QED BY <2>1, FS_Subset
<1>2. Orders(Smaller(S), S)
  BY SmallerOrders
<1>3. InOrder(S, Smaller(S)) \in Seq(S) /\ ToSet(InOrder(S, Smaller(S))) = S
  BY <1>1, <1>2, InOrderLists
<1>4. InOrder(S, Smaller(S)) \in Seq(1..n)
  BY <1>3, SeqMonotonic
<1> QED BY <1>3, <1>4

LEMMA ComponentsTyped ==
  ASSUME NEW n \in Nat, NEW pairs \in SUBSET ((1..n) \X (1..n))
  PROVE  Components(n, pairs) \in Seq(Seq(1..n))
<1>1. PICK list \in Seq((1..n) \X (1..n)) : list = PairsInOrder(pairs)
  BY PairsListed
<1>2. PICK links : links = UnionAll(Alone(n), list)
  OBVIOUS
<1>3. PICK m \in Nat : DOMAIN list = 1..m
  OBVIOUS
<1>4. \A k \in 1..m : list[k] \in (1..n) \X (1..n)
  BY <1>3
<1>5. Represents(links, n, {} \union ToSet(list))
  <2>1. {} \in SUBSET ((1..n) \X (1..n)) /\ Represents(Alone(n), n, {})
    BY AloneRepresents
  <2> QED BY <1>2, <1>3, <1>4, <2>1, UnionAllRepresents
<1>6. {} \union ToSet(list) \in SUBSET ((1..n) \X (1..n))
  BY SetOfSequence
<1>7. /\ Roots(links) \in SUBSET (1..n) /\ IsFiniteSet(Roots(links))
      /\ \A r : Class(links, r) \in SUBSET (1..n) /\ IsFiniteSet(Class(links, r))
  BY <1>5, <1>6, RootsTyped
<1> DEFINE size(r) == Cardinality(Class(links, r))
           order == {p \in Roots(links) \X Roots(links) :
                       \/ size(p[1]) > size(p[2])
                       \/ size(p[1]) = size(p[2]) /\ p[1] < p[2]}
<1>8. \A x, y \in Roots(links) : <<x, y>> \in order <=> size(x) > size(y) \/ (size(x) = size(y) /\ x < y)
  OBVIOUS
<1>9. \A x \in Roots(links) : x \in Int /\ size(x) \in Int
  BY <1>7, FS_CardinalityType
<1>10. PICK roots : roots = InOrder(Roots(links), order)
  OBVIOUS
<1>11. Components(n, pairs) = [k \in DOMAIN roots |-> InOrder(Class(links, roots[k]), Smaller(Class(links, roots[k])))]
  BY <1>1, <1>2, <1>10 DEF Components
<1> HIDE DEF order
<1>12. Orders(order, Roots(links))
  <2> HIDE DEF size
  <2> QED BY <1>8, <1>9 DEF Orders
<1>13. roots \in Seq(Roots(links))
  BY <1>7, <1>10, <1>12, InOrderLists
<1>14. PICK h \in Nat : DOMAIN roots = 1..h
  BY <1>13
<1>15. ASSUME NEW k \in 1..h
       PROVE  InOrder(Class(links, roots[k]), Smaller(Class(links, roots[k]))) \in Seq(1..n)
  <2>1. PICK S \in SUBSET (1..n) : S = Class(links, roots[k])
    BY <1>7
  <2> QED BY <2>1, ListedAscending
<1> QED BY <1>11, <1>14, <1>15

Placing == INSTANCE FoldLemmas WITH Op <- Place

\* Batches' fold is that of the lemmas.
LEMMA PlacingIs ==
  ASSUME NEW base, NEW seq
  PROVE  FoldLeft(Place, base, seq) = Placing!SequenceFold(base, seq)
BY DEF FoldLeft, MapThenFoldSet, Max, Placing!SequenceFold, Placing!FoldLeft,
       Placing!MapThenFoldSet, Placing!Max

LEMMA BatchesTyped ==
  ASSUME NEW n \in Nat, NEW pairs \in SUBSET ((1..n) \X (1..n))
  PROVE  Batches(n, pairs) \in Seq(Seq(1..n))
<1>1. CASE n <= MaxClaims
  <2>1. [i \in 1..n |-> i] \in Seq(1..n)
    OBVIOUS
  <2>2. PICK one \in Seq(1..n) : one = [i \in 1..n |-> i]
    BY <2>1
  <2>3. Batches(n, pairs) = <<one>>
    BY <1>1, <2>2 DEF Batches
  <2> QED BY <2>3
<1>2. CASE ~(n <= MaxClaims)
  <2>1. PICK list \in Seq(Seq(1..n)) : list = Components(n, pairs)
    BY ComponentsTyped
  <2>2. PICK m \in Nat : DOMAIN list = 1..m
    OBVIOUS
  <2>3. \A k \in 1..m : list[k] \in Seq(1..n)
    BY <2>2
  <2> DEFINE G == Seq(Seq(1..n))
  <2>4. ASSUME NEW acc \in G, NEW k \in 1..m PROVE Place(acc, list[k]) \in G
    <3>1. PICK component \in Seq(1..n) : component = list[k]
      BY <2>3
    <3>2. Append(acc, component) \in G
      OBVIOUS
    <3>3. ASSUME NEW b PROVE [acc EXCEPT ![b] = @ \o component] \in G
      <4>1. PICK h \in Nat : DOMAIN acc = 1..h /\ \A x \in 1..h : acc[x] \in Seq(1..n)
        <5>1. Len(acc) \in Nat /\ DOMAIN acc = 1..Len(acc) /\ \A x \in 1..Len(acc) : acc[x] \in Seq(1..n)
          OBVIOUS
        <5> QED BY <5>1
      <4>2. \A x \in 1..h : acc[x] \o component \in Seq(1..n)
        BY <4>1, ConcatProperties
      <4>3. PICK more : more = [acc EXCEPT ![b] = @ \o component]
        OBVIOUS
      <4>4. more \in [1..h -> Seq(1..n)]
        BY <4>1, <4>2, <4>3
      <4>5. more \in G
        BY <4>4
      <4> QED BY <4>3, <4>5
    <3> QED BY <3>1, <3>2, <3>3 DEF Place
  <2>5. << >> \in G
    OBVIOUS
  <2>6. Placing!SequenceFold(<< >>, list) \in G
    <3> HIDE DEF G
    <3> QED BY <2>2, <2>4, <2>5, Placing!SequenceFoldKeeps
  <2> QED BY <1>2, <2>1, <2>6, PlacingIs DEF Batches
<1> QED BY <1>1, <1>2

---------------------------------------------------------------------------
(* claims.normalize *)

\* What is known of an input.
LEMMA InputFacts ==
  ASSUME input \in Inputs
  PROVE  /\ Size \in Nat /\ DOMAIN input.claims = 1..Size
         /\ \A i \in 1..Size : /\ input.claims[i].id \in Nat
                               /\ input.claims[i].position \in DOMAIN input.positions
                               /\ input.claims[i].kind \in Kinds
         /\ \A i, j \in 1..Size : input.claims[i].id = input.claims[j].id => i = j
         /\ input.positions \in Seq(Model)
         /\ input.score \in [1..Size -> [1..Size -> Nat]]
<1>1. PICK in \in Inputs : in = input
  OBVIOUS
<1>2. /\ in.claims \in Seq([id : Nat, position : Nat, kind : Kinds])
      /\ \A i, j \in DOMAIN in.claims : in.claims[i].id = in.claims[j].id => i = j
      /\ in.positions \in Seq(Model)
      /\ \A i \in DOMAIN in.claims : in.claims[i].position \in DOMAIN in.positions
      /\ in.score \in [DOMAIN in.claims -> [DOMAIN in.claims -> Nat]]
  BY StagesAssumption
<1>3. PICK list \in Seq([id : Nat, position : Nat, kind : Kinds]) : list = in.claims
  BY <1>2
<1>4. /\ Len(list) \in Nat /\ DOMAIN list = 1..Len(list)
      /\ \A i \in 1..Len(list) : list[i].id \in Nat /\ list[i].kind \in Kinds
  <2>1. PICK T : T = [id : Nat, position : Nat, kind : Kinds]
    OBVIOUS
  <2>2. list \in Seq(T)
    BY <2>1
  <2>3. Len(list) \in Nat /\ DOMAIN list = 1..Len(list) /\ \A i \in 1..Len(list) : list[i] \in T
    BY <2>2
  <2>4. \A x \in T : x.id \in Nat /\ x.kind \in Kinds
    BY <2>1
  <2> QED BY <2>3, <2>4
<1>5. Size = Len(list)
  BY <1>1, <1>3 DEF Size
<1> QED BY <1>1, <1>2, <1>3, <1>4, <1>5

Stages == {"grouping", "stitching", "merging", "clustering", "attaching", "relating", "done"}

NormInv ==
  /\ input \in Inputs
  /\ stage \in Stages
  /\ linked \in SUBSET ((1..Size) \X (1..Size))
  /\ Represents(parent, Size, linked)
  /\ stage = "grouping" => todo \in Seq(Seq(1..Size))

LEMMA NamedTyped ==
  ASSUME NEW members \in Seq(Nat), NEW list
  PROVE  /\ Named(members, list) \in Seq(DOMAIN list)
         /\ Named(members, list) \in Seq(Nat)
<1>1. PICK places : places = {k \in DOMAIN members : members[k] \in DOMAIN list}
  OBVIOUS
<1>2. PICK named : named = Keep(members, places)
  OBVIOUS
<1>3. /\ named \in Seq(Nat)
      /\ \A k \in DOMAIN named : \E m \in places : named[k] = members[m]
  <2>1. places \in SUBSET DOMAIN members
    BY <1>1
  <2>2. /\ Keep(members, places) \in Seq(Nat)
        /\ \A k \in DOMAIN Keep(members, places) : \E m \in places : Keep(members, places)[k] = members[m]
    BY <2>1, KeepLists
  <2> QED BY <1>2, <2>2
<1>4. \A k \in DOMAIN named : named[k] \in DOMAIN list
  BY <1>1, <1>3
<1>5. DOMAIN named = 1..Len(named) /\ Len(named) \in Nat
  BY <1>3
<1>6. named \in Seq(DOMAIN list)
  BY <1>3, <1>4, <1>5
<1> QED BY <1>1, <1>2, <1>3, <1>6 DEF Named

LEMMA LinksTyped ==
  ASSUME NEW n \in Nat, NEW listed \in Seq(1..n), NEW group \in [members : Seq(Nat), sure : BOOLEAN]
  PROVE  Links(group, listed) \in Seq((1..n) \X (1..n))
<1>1. PICK named : named = Named(group.members, listed)
  OBVIOUS
<1>2. named \in Seq(DOMAIN listed)
  BY <1>1, NamedTyped
<1>3. Len(named) \in Nat /\ DOMAIN named = 1..Len(named)
  BY <1>2
<1>4. \A k \in 1..Len(named) : listed[named[k]] \in 1..n
  BY <1>2, SMTT(30)
<1>5. PICK pairs : pairs = [k \in 1..(Len(named) - 1) |-> <<listed[named[1]], listed[named[k + 1]]>>]
  OBVIOUS
<1>6. pairs \in Seq((1..n) \X (1..n))
  <2>1. CASE Len(named) = 0
    BY <1>5, <2>1
  <2>2. CASE Len(named) # 0
    <3> DEFINE n0 == Len(named)
    <3>1. PICK m \in Nat : m = n0 - 1
      <4>1. n0 \in Nat /\ n0 # 0
        BY <1>3, <2>2
      <4> HIDE DEF n0
      <4> QED BY <4>1
    <3>2. \A k \in 1..m : k + 1 \in 1..Len(named) /\ 1 \in 1..Len(named)
      <4>1. n0 \in Nat /\ m \in Nat /\ m = n0 - 1
        BY <1>3, <3>1
      <4> HIDE DEF n0
      <4>2. \A k \in 1..m : k + 1 \in 1..n0 /\ 1 \in 1..n0
        BY <4>1
      <4> QED BY <4>2 DEF n0
    <3>3. \A k \in 1..m : <<listed[named[1]], listed[named[k + 1]]>> \in (1..n) \X (1..n)
      BY <1>4, <3>2
    <3> QED BY <1>5, <3>1, <3>3
  <2> QED BY <2>1, <2>2
<1>7. Links(group, listed) \in {<< >>, pairs}
  BY <1>1, <1>5 DEF Links
<1>8. << >> \in Seq((1..n) \X (1..n))
  OBVIOUS
<1> QED BY <1>6, <1>7, <1>8

LEMMA AllLinksTyped ==
  ASSUME NEW n \in Nat, NEW listed \in Seq(1..n), NEW answer \in GroupReplies(listed)
  PROVE  AllLinks(answer, listed) \in Seq((1..n) \X (1..n))
<1>1. answer \in Seq([members : Seq(Nat), sure : BOOLEAN])
  <2>1. answer \in GroupAnswers \/ answer = << >>
    BY DEF GroupReplies, NoAnswer
  <2>2. GroupAnswers \subseteq Seq([members : Seq(Nat), sure : BOOLEAN])
    BY StagesAssumption
  <2>3. PICK T : T = [members : Seq(Nat), sure : BOOLEAN]
    OBVIOUS
  <2>4. << >> \in Seq(T)
    OBVIOUS
  <2>5. GroupAnswers \subseteq Seq(T)
    BY <2>2, <2>3
  <2>6. answer \in Seq(T)
    BY <2>1, <2>4, <2>5
  <2> QED BY <2>3, <2>6
<1>2. PICK m \in Nat : DOMAIN answer = 1..m
  BY <1>1, SetOfSequence
<1>3. \A g \in 1..m : answer[g] \in [members : Seq(Nat), sure : BOOLEAN]
  <2>1. PICK T : T = [members : Seq(Nat), sure : BOOLEAN]
    OBVIOUS
  <2>2. answer \in Seq(T)
    BY <1>1, <2>1
  <2>3. \A g \in 1..m : answer[g] \in T
    BY <1>2, <2>2
  <2> QED BY <2>1, <2>3
<1>4. PICK each : each = [g \in 1..m |-> Links(answer[g], listed)]
  OBVIOUS
<1>5. DOMAIN each = 1..m /\ \A g \in 1..m : each[g] \in Seq((1..n) \X (1..n))
  BY <1>3, <1>4, LinksTyped
<1>6. Flat(each) \in Seq((1..n) \X (1..n))
  BY <1>5, FlatLists
<1> QED BY <1>2, <1>4, <1>6 DEF AllLinks

LEMMA GroupKeeps ==
  ASSUME NormInv, NEW listed \in Seq(1..Size), Group(listed)
  PROVE  linked' \in SUBSET ((1..Size) \X (1..Size)) /\ Represents(parent', Size, linked')
<1>1. PICK n \in Nat : n = Size
  BY InputFacts DEF NormInv
<1>2. PICK answer \in GroupReplies(listed) :
        /\ parent' = UnionAll(parent, AllLinks(answer, listed))
        /\ linked' = linked \union ToSet(AllLinks(answer, listed))
  BY DEF Group
<1>3. PICK links : links = AllLinks(answer, listed)
  OBVIOUS
<1>4. links \in Seq((1..n) \X (1..n))
  BY <1>1, <1>3, AllLinksTyped
<1>5. PICK m \in Nat : DOMAIN links = 1..m
  BY <1>4
<1>6. \A k \in 1..m : links[k] \in (1..n) \X (1..n)
  BY <1>4, <1>5
<1>7. linked \in SUBSET ((1..n) \X (1..n)) /\ Represents(parent, n, linked)
  BY <1>1 DEF NormInv
<1>8. Represents(UnionAll(parent, links), n, linked \union ToSet(links))
  BY <1>5, <1>6, <1>7, UnionAllRepresents
<1>9. ToSet(links) \in SUBSET ((1..n) \X (1..n))
  BY <1>4, SetOfSequence
<1> QED BY <1>1, <1>2, <1>3, <1>7, <1>8, <1>9

LEMMA NormInit ==
  ASSUME Init
  PROVE  NormInv
<1>1. input \in Inputs /\ linked = {} /\ parent = Alone(Size)
  BY DEF Init
<1>2. PICK n \in Nat : n = Size
  BY <1>1, InputFacts
<1>3. Represents(parent, Size, linked)
  BY <1>1, <1>2, AloneRepresents
<1>4. PICK pairs : pairs = TopPairs(input.score)
  OBVIOUS
<1>5. pairs \in SUBSET ((1..n) \X (1..n))
  <2>1. input.score \in [1..n -> [1..n -> Nat]]
    BY <1>1, <1>2, InputFacts
  <2>2. pairs \in SUBSET Couples(n)
    BY <1>4, <2>1, TopPairsTyped
  <2> QED BY <2>2 DEF Couples
<1>6. todo = Batches(n, pairs)
  BY <1>2, <1>4 DEF Init
<1>7. todo \in Seq(Seq(1..n))
  BY <1>5, <1>6, BatchesTyped
<1>8. stage \in Stages
  BY DEF Init, Stages
<1> QED BY <1>1, <1>2, <1>3, <1>7, <1>8 DEF NormInv

LEMMA NormStep ==
  ASSUME NormInv, [Next]_vars
  PROVE  NormInv'
<1>1. input' = input /\ Size' = Size
  BY DEF Next, GroupBatch, Stitch, Merge, Cluster, AttachChunk, BeginRelations, RelateBatch,
         Complete, vars, Size
<1>2. CASE GroupBatch
  <2>1. PICK batches \in Seq(Seq(1..Size)) : batches = todo /\ batches # << >>
    BY <1>2 DEF GroupBatch, NormInv
  <2>2. Head(batches) \in Seq(1..Size) /\ Tail(batches) \in Seq(Seq(1..Size))
    BY <2>1
  <2>3. linked' \in SUBSET ((1..Size) \X (1..Size)) /\ Represents(parent', Size, linked')
    BY <1>2, <2>1, <2>2, GroupKeeps DEF GroupBatch
  <2>4. todo' \in Seq(Seq(1..Size)) /\ stage' \in Stages
    BY <1>2, <2>1, <2>2 DEF GroupBatch, NormInv, Stages
  <2> QED BY <1>1, <2>3, <2>4 DEF NormInv
<1>3. CASE Stitch
  <2>1. PICK roots : roots = InOrder(Roots(parent), Smaller(Roots(parent)))
    OBVIOUS
  <2>2. PICK n \in Nat : n = Size
    BY InputFacts DEF NormInv
  <2>3. Roots(parent) \in SUBSET (1..n)
    BY <2>2, RootsTyped DEF NormInv
  <2>4. roots \in Seq(1..n)
    BY <2>1, <2>3, ListedAscending
  <2>5. Group(roots) \/ UNCHANGED <<parent, linked>>
    BY <1>3, <2>1 DEF Stitch
  <2>6. linked' \in SUBSET ((1..Size) \X (1..Size)) /\ Represents(parent', Size, linked')
    BY <2>2, <2>4, <2>5, GroupKeeps DEF NormInv
  <2>7. stage' = "merging"
    BY <1>3 DEF Stitch
  <2> QED BY <1>1, <2>6, <2>7 DEF NormInv, Stages
<1>4. CASE UNCHANGED <<parent, linked>> /\ stage' \in Stages \ {"grouping"}
  BY <1>1, <1>4 DEF NormInv
<1>5. CASE UNCHANGED vars
  BY <1>1, <1>5 DEF NormInv, vars, heard
<1>6. Merge \/ Cluster \/ AttachChunk \/ BeginRelations \/ RelateBatch \/ Complete
        => UNCHANGED <<parent, linked>> /\ stage' \in Stages \ {"grouping"}
  BY DEF Merge, Cluster, AttachChunk, BeginRelations, RelateBatch, Complete, heard, Stages
<1> QED BY <1>2, <1>3, <1>4, <1>5, <1>6 DEF Next

---------------------------------------------------------------------------
(* What merge_claims makes of the components *)

MergedOf == {Merged(Class(parent, r)) : r \in Roots(parent)}

MergedList == InOrder(MergedOf, {p \in MergedOf \X MergedOf : p[1].id < p[2].id})

Merging == {"grouping", "stitching", "merging"}

MergedInv == stage \notin Merging => claims = MergedList

LEMMA MergedStep ==
  ASSUME MergedInv, [Next]_vars
  PROVE  MergedInv'
<1>1. CASE Merge
  BY <1>1 DEF Merge, MergedInv, MergedList, MergedOf, Merged
<1>2. CASE stage' \in Merging
  BY <1>2 DEF MergedInv
<1>3. CASE UNCHANGED <<input, parent, claims>> /\ stage \notin Merging
  BY <1>3 DEF MergedInv, MergedList, MergedOf, Merged
<1>4. GroupBatch \/ Stitch => stage' \in Merging
  BY DEF GroupBatch, Stitch, Merging
<1>5. Cluster \/ AttachChunk \/ BeginRelations \/ RelateBatch \/ Complete
        => UNCHANGED <<input, parent, claims>> /\ stage \notin Merging
  BY DEF Cluster, AttachChunk, BeginRelations, RelateBatch, Complete, graph, Merging
<1>6. CASE UNCHANGED vars
  BY <1>6 DEF MergedInv, MergedList, MergedOf, Merged, vars, graph
<1> QED BY <1>1, <1>2, <1>3, <1>4, <1>5, <1>6 DEF Next

\* The claim of a class names its least id and its strongest kind.
LEMMA MergedIs ==
  ASSUME input \in Inputs, NEW class \in SUBSET (1..Size), class # {}
  PROVE  /\ Merged(class) \in [id : Nat, kind : Kinds, members : SUBSET (1..Size)]
         /\ Merged(class).members = class
         /\ \E i \in class : Merged(class).id = input.claims[i].id
         /\ \A i \in class : /\ Merged(class).id <= input.claims[i].id
                             /\ Strength(Merged(class).kind) <= Strength(input.claims[i].kind)
<1>1. \A i \in class : input.claims[i].id \in Nat /\ input.claims[i].kind \in Kinds
  BY InputFacts
<1>2. PICK ids : ids = {input.claims[i].id : i \in class}
  OBVIOUS
<1>3. ids \in SUBSET Nat /\ ids # {}
  BY <1>1, <1>2
<1>4. Min(ids) \in ids /\ \A x \in ids : Min(ids) <= x
  BY <1>3, MinIsLeast
<1>5. PICK kinds : kinds = {input.claims[i].kind : i \in class}
  OBVIOUS
<1>6. kinds \in SUBSET Kinds /\ kinds # {}
  BY <1>1, <1>5
<1>7. \A k \in Kinds : Strength(k) \in Nat
  BY DEF Kinds, Strength
<1>8. PICK k \in kinds : \A x \in kinds : Strength(k) <= Strength(x)
  <2> DEFINE ranks == {Strength(x) : x \in kinds}
  <2>1. ranks \in SUBSET Nat /\ ranks # {}
    BY <1>6, <1>7
  <2>2. PICK m \in ranks : \A x \in ranks : m <= x
    <3> HIDE DEF ranks
    <3> QED BY <2>1, Tying!LeastElement
  <2> QED BY <2>2
<1>9. PICK strongest : strongest = CHOOSE x \in kinds : \A i \in class : Strength(x) <= Strength(input.claims[i].kind)
  OBVIOUS
<1>10. strongest \in kinds /\ \A i \in class : Strength(strongest) <= Strength(input.claims[i].kind)
  <2>1. \E x \in kinds : \A i \in class : Strength(x) <= Strength(input.claims[i].kind)
    BY <1>5, <1>8
  <2> QED BY <1>9, <2>1
<1>11. Merged(class) = [id |-> Min(ids), kind |-> strongest, members |-> class]
  BY <1>2, <1>5, <1>9 DEF Merged
<1>12. PICK least \in Nat : least = Min(ids)
  BY <1>3, <1>4
<1>13. \E i \in class : least = input.claims[i].id
  BY <1>2, <1>4, <1>12
<1>14. \A i \in class : least <= input.claims[i].id
  BY <1>2, <1>4, <1>12
<1>15. strongest \in Kinds
  BY <1>6, <1>10
<1> QED BY <1>10, <1>11, <1>12, <1>13, <1>14, <1>15

\* Numbering the members of a finite set apart orders them.
LEMMA NumbersOrder ==
  ASSUME NEW S, NEW number, \A x \in S : number[x] \in Int,
         \A x, y \in S : number[x] = number[y] => x = y,
         NEW order, \A x, y \in S : <<x, y>> \in order <=> number[x] < number[y]
  PROVE  Orders(order, S)
<1>1. \A x \in S : <<x, x>> \notin order
  OBVIOUS
<1>2. ASSUME NEW x \in S, NEW y \in S, x # y PROVE <<x, y>> \in order \/ <<y, x>> \in order
  <2>1. number[x] # number[y]
    BY <1>2
  <2> QED BY <2>1
<1>3. \A x, y, z \in S : <<x, y>> \in order /\ <<y, z>> \in order => <<x, z>> \in order
  OBVIOUS
<1> QED BY <1>1, <1>2, <1>3 DEF Orders

MergedClaim == [id : Nat, kind : Kinds, members : SUBSET (1..Size)]

\* The claims that the components make are the components, each with an id that
\* only its members have.
LEMMA MergedClaims ==
  ASSUME NormInv
  PROVE  /\ MergedOf \in SUBSET MergedClaim /\ IsFiniteSet(MergedOf)
         /\ \A c \in MergedOf :
              /\ \E i \in c.members : c.id = input.claims[i].id
              /\ \A i \in c.members :
                   /\ c.id <= input.claims[i].id /\ Strength(c.kind) <= Strength(input.claims[i].kind)
                   /\ c.members = Class(parent, Find(parent, i))
         /\ \A c, d \in MergedOf : c # d => c.members \intersect d.members = {} /\ c.id # d.id
         /\ \A i \in 1..Size : \E c \in MergedOf : c.members = Class(parent, Find(parent, i)) /\ i \in c.members
<1>1. PICK n \in Nat : n = Size
  BY InputFacts DEF NormInv
<1>2. /\ Roots(parent) \in SUBSET (1..n) /\ IsFiniteSet(Roots(parent))
      /\ \A r : Class(parent, r) \in SUBSET (1..n)
      /\ \A r \in Roots(parent) : r \in Class(parent, r)
      /\ \A i \in 1..n : Find(parent, i) \in Roots(parent) /\ i \in Class(parent, Find(parent, i))
  BY <1>1, RootsTyped DEF NormInv
<1>3. input \in Inputs
  BY DEF NormInv
<1>4. ASSUME NEW r \in Roots(parent)
      PROVE  LET c == Merged(Class(parent, r))
             IN  /\ c \in MergedClaim /\ c.members = Class(parent, r)
                 /\ \E i \in Class(parent, r) : c.id = input.claims[i].id
                 /\ \A i \in Class(parent, r) :
                      c.id <= input.claims[i].id /\ Strength(c.kind) <= Strength(input.claims[i].kind)
  <2>1. PICK class : class = Class(parent, r)
    OBVIOUS
  <2>2. class \in SUBSET (1..Size) /\ class # {}
    BY <1>1, <1>2, <2>1
  <2>3. /\ Merged(class) \in [id : Nat, kind : Kinds, members : SUBSET (1..Size)]
        /\ Merged(class).members = class
        /\ \E i \in class : Merged(class).id = input.claims[i].id
        /\ \A i \in class : /\ Merged(class).id <= input.claims[i].id
                            /\ Strength(Merged(class).kind) <= Strength(input.claims[i].kind)
    BY <1>3, <2>2, MergedIs
  <2> QED BY <2>1, <2>3 DEF MergedClaim
<1>5. \A r, i : i \in Class(parent, r) => i \in 1..n /\ Find(parent, i) = r
  BY <1>2 DEF Class
<1>6. PICK claim : claim = [r \in Roots(parent) |-> Merged(Class(parent, r))]
  OBVIOUS
<1>7. MergedOf = {claim[r] : r \in Roots(parent)}
  BY <1>6 DEF MergedOf
<1>8. \A r \in Roots(parent) : claim[r] = Merged(Class(parent, r))
  BY <1>6
<1>9. \A r \in Roots(parent) :
        /\ claim[r] \in MergedClaim /\ claim[r].members = Class(parent, r)
        /\ \E i \in Class(parent, r) : claim[r].id = input.claims[i].id
        /\ \A i \in Class(parent, r) :
             claim[r].id <= input.claims[i].id /\ Strength(claim[r].kind) <= Strength(input.claims[i].kind)
  BY <1>4, <1>8
<1>10. IsFiniteSet(MergedOf)
  BY <1>2, <1>7, ImageFinite
<1>11. MergedOf \in SUBSET MergedClaim
  BY <1>7, <1>9
<1>12. ASSUME NEW c \in MergedOf
       PROVE  /\ \E i \in c.members : c.id = input.claims[i].id
              /\ \A i \in c.members :
                   /\ c.id <= input.claims[i].id /\ Strength(c.kind) <= Strength(input.claims[i].kind)
                   /\ c.members = Class(parent, Find(parent, i))
  <2>1. PICK r \in Roots(parent) : c = claim[r]
    BY <1>7
  <2>2. c.members = Class(parent, r)
    BY <1>9, <2>1
  <2>3. /\ \E i \in c.members : c.id = input.claims[i].id
        /\ \A i \in c.members : c.id <= input.claims[i].id /\ Strength(c.kind) <= Strength(input.claims[i].kind)
    BY <1>9, <2>1, <2>2
  <2>4. \A i \in c.members : c.members = Class(parent, Find(parent, i))
    BY <1>5, <2>2
  <2> QED BY <2>3, <2>4
<1>13. ASSUME NEW c \in MergedOf, NEW d \in MergedOf, c # d
       PROVE  c.members \intersect d.members = {} /\ c.id # d.id
  <2>1. PICK r \in Roots(parent) : c = claim[r]
    BY <1>7
  <2>2. PICK s \in Roots(parent) : d = claim[s]
    BY <1>7
  <2>3. c.members = Class(parent, r) /\ d.members = Class(parent, s) /\ r # s
    BY <1>9, <1>13, <2>1, <2>2
  <2>4. c.members \intersect d.members = {}
    BY <1>5, <2>3
  <2>5. PICK i \in c.members : c.id = input.claims[i].id
    BY <1>12
  <2>6. PICK j \in d.members : d.id = input.claims[j].id
    BY <1>12
  <2>7. i \in 1..Size /\ j \in 1..Size /\ i # j
    BY <1>1, <1>5, <2>3, <2>4
  <2>8. \A x, y \in 1..Size : input.claims[x].id = input.claims[y].id => x = y
    BY <1>3, InputFacts
  <2> QED BY <2>4, <2>5, <2>6, <2>7, <2>8
<1>14. ASSUME NEW i \in 1..Size
       PROVE  \E c \in MergedOf : c.members = Class(parent, Find(parent, i)) /\ i \in c.members
  <2>1. Find(parent, i) \in Roots(parent) /\ i \in Class(parent, Find(parent, i))
    BY <1>1, <1>2
  <2> QED BY <1>7, <1>9, <2>1
<1> QED BY <1>10, <1>11, <1>12, <1>13, <1>14

\* merge_claims lists them, by id.
LEMMA MergedListed ==
  ASSUME NormInv
  PROVE  /\ MergedList \in Seq(MergedClaim) /\ ToSet(MergedList) = MergedOf
         /\ \A j, k \in DOMAIN MergedList : j < k => MergedList[j].id < MergedList[k].id
<1>1. /\ MergedOf \in SUBSET MergedClaim /\ IsFiniteSet(MergedOf)
      /\ \A c, d \in MergedOf : c # d => c.id # d.id
  BY MergedClaims
<1>2. \A c \in MergedOf : c.id \in Nat
  BY <1>1 DEF MergedClaim
<1>3. PICK order : order = {p \in MergedOf \X MergedOf : p[1].id < p[2].id}
  OBVIOUS
<1>4. \A x, y \in MergedOf : <<x, y>> \in order <=> x.id < y.id
  BY <1>3
<1>5. PICK number : number = [c \in MergedOf |-> c.id]
  OBVIOUS
<1>6. \A c \in MergedOf : number[c] = c.id /\ number[c] \in Int
  BY <1>2, <1>5
<1>7. \A x, y \in MergedOf : number[x] = number[y] => x = y
  BY <1>1, <1>6
<1>8. \A x, y \in MergedOf : <<x, y>> \in order <=> number[x] < number[y]
  BY <1>4, <1>6
<1>9. Orders(order, MergedOf)
  BY <1>6, <1>7, <1>8, NumbersOrder
<1>10. PICK S : S = MergedOf
  OBVIOUS
<1>11. PICK listed : listed = InOrder(S, order)
  OBVIOUS
<1>12. /\ listed \in Seq(S) /\ ToSet(listed) = S
       /\ \A j, k \in DOMAIN listed : j < k => <<listed[j], listed[k]>> \in order
  BY <1>1, <1>9, <1>10, <1>11, InOrderLists
<1>13. listed = MergedList
  BY <1>3, <1>10, <1>11 DEF MergedList
<1>14. listed \in Seq(MergedClaim)
  <2>1. S \subseteq MergedClaim
    BY <1>1, <1>10
  <2> QED BY <1>12, <2>1, SeqMonotonic
<1>15. \A j, k \in DOMAIN listed : j < k => listed[j].id < listed[k].id
  <2>1. \A j \in DOMAIN listed : listed[j] \in S
    BY <1>12
  <2> QED BY <1>4, <1>10, <1>12, <2>1
<1> QED BY <1>10, <1>12, <1>13, <1>14, <1>15

\* What the later stages know of the normalized claims.
ClaimsListed ==
  /\ claims \in Seq(MergedClaim)
  /\ \A k \in DOMAIN claims :
       /\ \E i \in claims[k].members : claims[k].id = input.claims[i].id
       /\ \A i \in claims[k].members :
            /\ i \in 1..Size
            /\ claims[k].id <= input.claims[i].id
            /\ Strength(claims[k].kind) <= Strength(input.claims[i].kind)
            /\ claims[k].members = Class(parent, Find(parent, i))
  /\ \A k, l \in DOMAIN claims : k # l => /\ claims[k].members \intersect claims[l].members = {}
                                          /\ claims[k].id # claims[l].id
  /\ \A i \in 1..Size : \E k \in DOMAIN claims :
       i \in claims[k].members /\ claims[k].members = Class(parent, Find(parent, i))

LEMMA ClaimsFacts ==
  ASSUME NormInv, MergedInv, stage \notin Merging
  PROVE  ClaimsListed
<1>1. PICK listed : listed = claims
  OBVIOUS
<1>2. listed = MergedList
  BY <1>1 DEF MergedInv
<1>3. /\ listed \in Seq(MergedClaim) /\ ToSet(listed) = MergedOf
      /\ \A j, k \in DOMAIN listed : j < k => listed[j].id < listed[k].id
  BY <1>2, MergedListed
<1>4. DOMAIN listed = 1..Len(listed) /\ Len(listed) \in Nat
      /\ MergedOf = {listed[k] : k \in 1..Len(listed)}
  BY <1>3, SetOfSequence
<1>5. \A k \in DOMAIN listed : listed[k] \in MergedOf /\ listed[k] \in MergedClaim
  BY <1>3, <1>4, MergedClaims
<1>6. \A k \in DOMAIN listed : listed[k].id \in Nat /\ listed[k].members \in SUBSET (1..Size)
  BY <1>5 DEF MergedClaim
<1>7. ASSUME NEW j \in DOMAIN listed, NEW k \in DOMAIN listed, j # k
      PROVE  listed[j].members \intersect listed[k].members = {} /\ listed[j].id # listed[k].id
  <2>1. j < k \/ k < j
    BY <1>4, <1>7
  <2>2. listed[j].id # listed[k].id
    BY <1>3, <1>6, <2>1
  <2>3. listed[j] # listed[k]
    BY <2>2
  <2> QED BY <1>5, <2>2, <2>3, MergedClaims
<1>8. \A i \in 1..Size : \E k \in DOMAIN listed :
        i \in listed[k].members /\ listed[k].members = Class(parent, Find(parent, i))
  <2>1. \A i \in 1..Size : \E c \in MergedOf : c.members = Class(parent, Find(parent, i)) /\ i \in c.members
    BY MergedClaims
  <2> QED BY <1>4, <2>1
<1>9. \A k \in DOMAIN listed :
       /\ \E i \in listed[k].members : listed[k].id = input.claims[i].id
       /\ \A i \in listed[k].members :
            /\ i \in 1..Size
            /\ listed[k].id <= input.claims[i].id
            /\ Strength(listed[k].kind) <= Strength(input.claims[i].kind)
            /\ listed[k].members = Class(parent, Find(parent, i))
  BY <1>5, <1>6, MergedClaims
<1> QED BY <1>1, <1>3, <1>7, <1>8, <1>9 DEF ClaimsListed

\* The classes of the union-find are what accepted groups connect.
LEMMA MergesWhatIsConnected ==
  ASSUME NormInv, ClaimsListed
  PROVE  /\ \A i, j \in 1..Size : Connected(i, j) <=> \E c \in ToSet(claims) : {i, j} \subseteq c.members
         /\ \A k, l \in DOMAIN claims : k # l => claims[k].members \intersect claims[l].members = {}
         /\ \A c \in ToSet(claims), i \in 1..Size : i \in c.members =>
              /\ c.id <= input.claims[i].id /\ Strength(c.kind) <= Strength(input.claims[i].kind)
<1>1. PICK n \in Nat : n = Size
  BY InputFacts DEF NormInv
<1>2. /\ DOMAIN parent = 1..n
      /\ \A i, j \in 1..n : Find(parent, i) = Find(parent, j)
           <=> \A S \in SUBSET (1..n) : i \in S /\ Closed(S, linked) => j \in S
  <2>1. linked \in SUBSET ((1..n) \X (1..n)) /\ Represents(parent, n, linked)
    BY <1>1 DEF NormInv
  <2> QED BY <2>1, FindsComponents
<1>3. \A i, j \in 1..n : Connected(i, j) <=> Find(parent, i) = Find(parent, j)
  BY <1>1, <1>2 DEF Connected, Closed
<1>4. \A k \in DOMAIN claims : \A i \in claims[k].members :
        i \in 1..n /\ claims[k].members = Class(parent, Find(parent, i))
  BY <1>1 DEF ClaimsListed
<1>5. ToSet(claims) = {claims[k] : k \in DOMAIN claims}
  BY DEF ToSet
<1>6. ASSUME NEW i \in 1..n, NEW j \in 1..n
      PROVE  Find(parent, i) = Find(parent, j) <=> \E k \in DOMAIN claims : {i, j} \subseteq claims[k].members
  <2>1. ASSUME Find(parent, i) = Find(parent, j)
        PROVE  \E k \in DOMAIN claims : {i, j} \subseteq claims[k].members
    <3>1. PICK k \in DOMAIN claims : i \in claims[k].members /\ claims[k].members = Class(parent, Find(parent, i))
      BY <1>1 DEF ClaimsListed
    <3>2. j \in claims[k].members
      BY <1>2, <2>1, <3>1 DEF Class
    <3> QED BY <3>1, <3>2
  <2>2. ASSUME NEW k \in DOMAIN claims, {i, j} \subseteq claims[k].members
        PROVE  Find(parent, i) = Find(parent, j)
    <3>1. claims[k].members = Class(parent, Find(parent, i)) /\ j \in claims[k].members
      BY <1>4, <2>2
    <3> QED BY <3>1 DEF Class
  <2> QED BY <2>1, <2>2
<1>7. \A i, j \in 1..n : Connected(i, j) <=> \E c \in ToSet(claims) : {i, j} \subseteq c.members
  BY <1>3, <1>5, <1>6
<1>8. \A k, l \in DOMAIN claims : k # l => claims[k].members \intersect claims[l].members = {}
  BY DEF ClaimsListed
<1>9. \A c \in ToSet(claims), i \in 1..n : i \in c.members =>
        /\ c.id <= input.claims[i].id /\ Strength(c.kind) <= Strength(input.claims[i].kind)
  BY <1>5 DEF ClaimsListed
<1> QED BY <1>1, <1>7, <1>8, <1>9

THEOREM MergesAsLinked == Spec => []MergesConnected
<1>1. Init => NormInv /\ MergedInv
  <2>1. Init => stage \in Merging
    BY DEF Init, Merging
  <2> QED BY <2>1, NormInit DEF MergedInv
<1>2. NormInv /\ MergedInv /\ [Next]_vars => (NormInv /\ MergedInv)'
  BY NormStep, MergedStep
<1>3. NormInv /\ MergedInv => MergesConnected
  <2>1. ASSUME NormInv, MergedInv, stage \notin Merging
        PROVE  MergesConnected
    BY <2>1, ClaimsFacts, MergesWhatIsConnected DEF MergesConnected
  <2> QED BY <2>1 DEF MergesConnected, Merging
<1> QED BY <1>1, <1>2, <1>3, PTL DEF Spec

---------------------------------------------------------------------------
(* options.cluster *)

\* An option has a position, is named after its first, and its positions exist.
OptionsOver(P) == {o \in [id : P, members : Seq(P)] : o.members # << >> /\ o.id = o.members[1]}

\* No two of the options share a position.
Apart(opts) ==
  \A k, l \in DOMAIN opts : k # l => ToSet(opts[k].members) \intersect ToSet(opts[l].members) = {}

LEMMA OptionNamed ==
  ASSUME NEW P, NEW members \in Seq(P), members # << >>
  PROVE  /\ Option(members) \in OptionsOver(P) /\ Option(members).id \in ToSet(members)
         /\ Option(members).members = members
<1>1. Len(members) \in Nat /\ Len(members) # 0 /\ DOMAIN members = 1..Len(members)
      /\ \A i \in 1..Len(members) : members[i] \in P
  OBVIOUS
<1>2. 1 \in 1..Len(members)
  BY <1>1
<1>3. members[1] \in P /\ members[1] \in ToSet(members)
  BY <1>1, <1>2 DEF ToSet
<1>4. Option(members) = [id |-> members[1], members |-> members]
  BY DEF Option
<1> QED BY <1>3, <1>4 DEF OptionsOver

LEMMA OptionsTogether ==
  ASSUME NEW P, NEW s \in Seq(OptionsOver(P)), NEW t \in Seq(OptionsOver(P)),
         Apart(s), Apart(t), Taken(s) \intersect Taken(t) = {}
  PROVE  /\ s \o t \in Seq(OptionsOver(P)) /\ Apart(s \o t)
         /\ Taken(s \o t) = Taken(s) \union Taken(t)
<1> DEFINE both == s \o t
           a == Len(s)
           b == Len(t)
<1>1. /\ a \in Nat /\ b \in Nat /\ DOMAIN s = 1..a /\ DOMAIN t = 1..b
      /\ both \in Seq(OptionsOver(P)) /\ DOMAIN both = 1..(a + b)
      /\ \A i \in 1..(a + b) : both[i] = IF i <= a THEN s[i] ELSE t[i - a]
  OBVIOUS
<1>2. /\ \A i \in 1..a : ToSet(s[i].members) \subseteq Taken(s)
      /\ \A i \in 1..b : ToSet(t[i].members) \subseteq Taken(t)
  BY <1>1 DEF Taken
<1> HIDE DEF both, a, b
<1>3. ASSUME NEW k \in 1..(a + b), NEW l \in 1..(a + b), k # l
      PROVE  ToSet(both[k].members) \intersect ToSet(both[l].members) = {}
  <2>1. CASE k <= a /\ l <= a
    <3>1. k \in 1..a /\ l \in 1..a /\ both[k] = s[k] /\ both[l] = s[l]
      BY <1>1, <2>1
    <3> QED BY <1>1, <1>3, <3>1 DEF Apart
  <2>2. CASE k > a /\ l > a
    <3>1. k - a \in 1..b /\ l - a \in 1..b /\ k - a # l - a /\ both[k] = t[k - a] /\ both[l] = t[l - a]
      BY <1>1, <1>3, <2>2
    <3> QED BY <1>1, <3>1 DEF Apart
  <2>3. CASE k <= a /\ l > a
    <3>1. k \in 1..a /\ l - a \in 1..b /\ both[k] = s[k] /\ both[l] = t[l - a]
      BY <1>1, <2>3
    <3> QED BY <1>2, <3>1
  <2>4. CASE k > a /\ l <= a
    <3>1. k - a \in 1..b /\ l \in 1..a /\ both[k] = t[k - a] /\ both[l] = s[l]
      BY <1>1, <2>4
    <3> QED BY <1>2, <3>1
  <2> QED BY <1>1, <2>1, <2>2, <2>3, <2>4
<1>4. Apart(both)
  BY <1>1, <1>3 DEF Apart
<1>5. ASSUME NEW p PROVE p \in Taken(both) <=> p \in Taken(s) \union Taken(t)
  <2>1. p \in Taken(both) <=> \E i \in 1..(a + b) : p \in ToSet(both[i].members)
    BY <1>1 DEF Taken
  <2>2. p \in Taken(s) <=> \E i \in 1..a : p \in ToSet(s[i].members)
    BY <1>1 DEF Taken
  <2>3. p \in Taken(t) <=> \E i \in 1..b : p \in ToSet(t[i].members)
    BY <1>1 DEF Taken
  <2>4. \A i \in 1..a : i \in 1..(a + b) /\ both[i] = s[i]
    BY <1>1
  <2>5. \A i \in 1..b : i + a \in 1..(a + b) /\ both[i + a] = t[i]
    BY <1>1
  <2>6. \A i \in 1..(a + b) : (i \in 1..a /\ both[i] = s[i]) \/ (i - a \in 1..b /\ both[i] = t[i - a])
    BY <1>1
  <2> QED BY <2>1, <2>2, <2>3, <2>4, <2>5, <2>6
<1>6. Taken(both) = Taken(s) \union Taken(t)
  BY <1>5
<1> QED BY <1>1, <1>4, <1>6 DEF both

LEMMA AddGroupKeeps ==
  ASSUME NEW group \in [members : Seq(Nat)],
         NEW opts \in Seq(OptionsOver(DOMAIN input.positions)), Apart(opts)
  PROVE  /\ AddGroup(opts, group) \in Seq(OptionsOver(DOMAIN input.positions))
         /\ Apart(AddGroup(opts, group))
<1>1. PICK P : P = DOMAIN input.positions
  OBVIOUS
<1>2. PICK named : named = Named(group.members, input.positions)
  OBVIOUS
<1>3. named \in Seq(P)
  BY <1>1, <1>2, NamedTyped
<1>4. PICK places : places = {k \in DOMAIN named : named[k] \notin Taken(opts)}
  OBVIOUS
<1>5. PICK fresh : fresh = Keep(named, places)
  OBVIOUS
<1>6. fresh \in Seq(P) /\ ToSet(fresh) = {named[k] : k \in places}
  <2>1. places \in SUBSET DOMAIN named
    BY <1>4
  <2> QED BY <1>3, <1>5, <2>1, KeepLists
<1>7. ToSet(fresh) \intersect Taken(opts) = {}
  BY <1>4, <1>6
<1>8. AddGroup(opts, group) = IF fresh = << >> THEN opts ELSE Append(opts, Option(fresh))
  BY <1>2, <1>4, <1>5 DEF AddGroup
<1>9. CASE fresh = << >>
  BY <1>8, <1>9
<1>10. CASE fresh # << >>
  <2>1. PICK option : option = Option(fresh)
    OBVIOUS
  <2>2. option \in OptionsOver(P) /\ option.members = fresh
    BY <1>6, <1>10, <2>1, OptionNamed
  <2>3. PICK one : one = <<option>>
    OBVIOUS
  <2>4. /\ one \in Seq(OptionsOver(P)) /\ DOMAIN one = 1..1 /\ one[1] = option
    BY <2>2, <2>3
  <2>5. Apart(one) /\ Taken(one) = ToSet(fresh)
    BY <2>2, <2>4 DEF Apart, Taken
  <2>6. /\ opts \o one \in Seq(OptionsOver(P)) /\ Apart(opts \o one)
    BY <1>1, <1>7, <2>4, <2>5, OptionsTogether
  <2>7. opts \in Seq(OptionsOver(P))
    BY <1>1
  <2>8. Append(opts, option) = opts \o one
    BY <2>2, <2>3, <2>7
  <2> QED BY <1>1, <1>8, <1>10, <2>1, <2>6, <2>8
<1> QED BY <1>9, <1>10

LEMMA LeftOverApart ==
  ASSUME NEW m \in Nat, DOMAIN input.positions = 1..m, NEW opts
  PROVE  /\ LeftOver(opts) \in Seq(OptionsOver(1..m)) /\ Apart(LeftOver(opts))
         /\ Taken(LeftOver(opts)) = (1..m) \ Taken(opts)
<1>1. PICK rest : rest = (1..m) \ Taken(opts)
  OBVIOUS
<1>2. rest \in SUBSET (1..m) /\ rest \in SUBSET Int /\ IsFiniteSet(rest)
  BY <1>1, FS_Interval, FS_Subset
<1>3. PICK listed : listed = InOrder(rest, Smaller(rest))
  OBVIOUS
<1>4. /\ listed \in Seq(rest) /\ ToSet(listed) = rest
      /\ \A j, k \in DOMAIN listed : j < k => <<listed[j], listed[k]>> \in Smaller(rest)
  BY <1>2, <1>3, SmallerOrders, InOrderLists
<1>5. PICK n \in Nat : DOMAIN listed = 1..n
  BY <1>4, SetOfSequence
<1>6. /\ \A k \in 1..n : listed[k] \in rest /\ listed[k] \in 1..m
      /\ \A j, k \in 1..n : j < k => listed[j] < listed[k]
      /\ rest = {listed[k] : k \in 1..n}
  BY <1>2, <1>4, <1>5 DEF Smaller, ToSet
<1>7. PICK left : left = [k \in 1..n |-> Option(<<listed[k]>>)]
  OBVIOUS
<1>8. LeftOver(opts) = left
  BY <1>1, <1>3, <1>5, <1>7 DEF LeftOver
<1>9. ASSUME NEW k \in 1..n
      PROVE  left[k] \in OptionsOver(1..m) /\ ToSet(left[k].members) = {listed[k]}
  <2>1. PICK p \in 1..m : p = listed[k]
    BY <1>6
  <2>2. PICK members : members = <<p>>
    OBVIOUS
  <2>3. members \in Seq(1..m) /\ members # << >> /\ DOMAIN members = 1..1 /\ members[1] = p
    BY <2>2
  <2>4. Option(members) \in OptionsOver(1..m) /\ Option(members).members = members
    BY <2>3, OptionNamed
  <2>5. ToSet(members) = {p}
    BY <2>3 DEF ToSet
  <2> QED BY <1>7, <2>1, <2>2, <2>4, <2>5
<1>10. left \in Seq(OptionsOver(1..m)) /\ DOMAIN left = 1..n
  BY <1>7, <1>9
<1>11. Apart(left)
  <2>1. \A j, k \in 1..n : j # k => listed[j] # listed[k]
    <3>1. \A j, k \in 1..n : j # k => j < k \/ k < j
      OBVIOUS
    <3>2. \A k \in 1..n : listed[k] \in Int
      BY <1>6
    <3> QED BY <1>6, <3>1, <3>2
  <2>2. \A k \in 1..n : ToSet(left[k].members) = {listed[k]}
    BY <1>9
  <2>3. \A j, k \in 1..n : j # k => ToSet(left[j].members) \intersect ToSet(left[k].members) = {}
    BY <2>1, <2>2
  <2> QED BY <1>10, <2>3 DEF Apart
<1>12. Taken(left) = rest
  <2>1. \A k \in 1..n : ToSet(left[k].members) = {listed[k]}
    BY <1>9
  <2>2. Taken(left) = UNION {ToSet(left[k].members) : k \in 1..n}
    BY <1>10 DEF Taken
  <2>3. \A p : p \in UNION {ToSet(left[k].members) : k \in 1..n} <=> \E k \in 1..n : p = listed[k]
    BY <2>1
  <2>4. \A p : p \in rest <=> \E k \in 1..n : p = listed[k]
    BY <1>6
  <2> QED BY <2>2, <2>3, <2>4
<1> QED BY <1>1, <1>8, <1>10, <1>11, <1>12

\* Every position has its option.
OptionsListed ==
  /\ options \in Seq(OptionsOver(DOMAIN input.positions)) /\ Apart(options)
  /\ Taken(options) = DOMAIN input.positions

Grouping == INSTANCE FoldLemmas WITH Op <- AddGroup

\* Grouped's fold is that of the lemmas.
LEMMA GroupingIs ==
  ASSUME NEW base, NEW seq
  PROVE  FoldLeft(AddGroup, base, seq) = Grouping!SequenceFold(base, seq)
BY DEF FoldLeft, MapThenFoldSet, Max, Grouping!SequenceFold, Grouping!FoldLeft,
       Grouping!MapThenFoldSet, Grouping!Max

LEMMA GroupedListed ==
  ASSUME input \in Inputs, NEW groups \in ClusterReplies
  PROVE  /\ Grouped(groups) \in Seq(OptionsOver(DOMAIN input.positions)) /\ Apart(Grouped(groups))
         /\ Taken(Grouped(groups)) = DOMAIN input.positions
<1>1. PICK m \in Nat : DOMAIN input.positions = 1..m
  <2>1. PICK positions \in Seq(Model) : positions = input.positions
    BY InputFacts
  <2>2. Len(positions) \in Nat /\ DOMAIN positions = 1..Len(positions)
    BY <2>1
  <2> QED BY <2>1, <2>2
<1>2. PICK T : T = [members : Seq(Nat)]
  OBVIOUS
<1>3. groups \in Seq(T)
  <2>1. ClusterAnswers \subseteq Seq(T)
    BY <1>2, StagesAssumption
  <2>2. << >> \in Seq(T)
    OBVIOUS
  <2> QED BY <2>1, <2>2 DEF ClusterReplies, NoAnswer
<1>4. PICK n \in Nat : DOMAIN groups = 1..n
  BY <1>3, SetOfSequence
<1>5. \A i \in 1..n : groups[i] \in [members : Seq(Nat)]
  <2>1. \A i \in 1..n : groups[i] \in T
    BY <1>3, <1>4
  <2> QED BY <1>2, <2>1
<1>6. PICK G : G = {opts \in Seq(OptionsOver(1..m)) : Apart(opts)}
  OBVIOUS
<1>7. << >> \in G
  <2>1. << >> \in Seq(OptionsOver(1..m)) /\ Apart(<< >>)
    BY DEF Apart
  <2> QED BY <1>6, <2>1
<1>8. \A acc \in G, i \in 1..n : AddGroup(acc, groups[i]) \in G
  BY <1>1, <1>5, <1>6, AddGroupKeeps
<1>9. Grouping!SequenceFold(<< >>, groups) \in G
  BY <1>4, <1>7, <1>8, Grouping!SequenceFoldKeeps
<1>10. PICK grouped : grouped = FoldLeft(AddGroup, << >>, groups)
  OBVIOUS
<1>11. grouped \in Seq(OptionsOver(1..m)) /\ Apart(grouped)
  BY <1>6, <1>9, <1>10, GroupingIs
<1>12. PICK left : left = LeftOver(grouped)
  OBVIOUS
<1>13. /\ left \in Seq(OptionsOver(1..m)) /\ Apart(left) /\ Taken(left) = (1..m) \ Taken(grouped)
  BY <1>1, <1>12, LeftOverApart
<1>14. Taken(grouped) \intersect Taken(left) = {}
  BY <1>13
<1>15. /\ grouped \o left \in Seq(OptionsOver(1..m)) /\ Apart(grouped \o left)
       /\ Taken(grouped \o left) = Taken(grouped) \union Taken(left)
  BY <1>11, <1>13, <1>14, OptionsTogether
<1>16. Taken(grouped) \subseteq 1..m
  <2>1. \A k \in DOMAIN grouped : grouped[k].members \in Seq(1..m)
    <3>1. \A o \in OptionsOver(1..m) : o.members \in Seq(1..m)
      BY DEF OptionsOver
    <3>2. \A k \in DOMAIN grouped : grouped[k] \in OptionsOver(1..m)
      BY <1>11
    <3> QED BY <3>1, <3>2
  <2>2. \A k \in DOMAIN grouped : ToSet(grouped[k].members) \subseteq 1..m
    <3>1. ASSUME NEW k \in DOMAIN grouped PROVE ToSet(grouped[k].members) \subseteq 1..m
      <4>1. PICK s : s = grouped[k].members
        OBVIOUS
      <4>2. s \in Seq(1..m)
        BY <2>1, <4>1
      <4> QED BY <4>1, <4>2, SetOfSequence
    <3> QED BY <3>1
  <2> QED BY <2>2 DEF Taken
<1>17. Taken(grouped \o left) = 1..m
  BY <1>13, <1>15, <1>16
<1>18. Grouped(groups) = grouped \o left
  BY <1>10, <1>12 DEF Grouped
<1> QED BY <1>1, <1>15, <1>17, <1>18

OptionsInv == stage \notin Merging \union {"clustering"} => OptionsListed

LEMMA OptionsStep ==
  ASSUME NormInv, OptionsInv, [Next]_vars
  PROVE  OptionsInv'
<1>1. input' = input
  BY DEF Next, GroupBatch, Stitch, Merge, Cluster, AttachChunk, BeginRelations, RelateBatch,
         Complete, vars
<1>2. CASE Cluster
  <2>1. PICK answer \in ClusterReplies : options' = Grouped(answer)
    BY <1>2 DEF Cluster
  <2>2. input \in Inputs
    BY DEF NormInv
  <2> QED BY <1>1, <2>1, <2>2, GroupedListed DEF OptionsInv, OptionsListed
<1>3. GroupBatch \/ Stitch \/ Merge => stage' \in Merging \union {"clustering"}
  BY DEF GroupBatch, Stitch, Merge, Merging
<1>4. AttachChunk \/ BeginRelations \/ RelateBatch \/ Complete
        => UNCHANGED options /\ stage \notin Merging \union {"clustering"}
  BY DEF AttachChunk, BeginRelations, RelateBatch, Complete, graph, Merging
<1>5. CASE stage' \in Merging \union {"clustering"}
  BY <1>5 DEF OptionsInv
<1>6. CASE UNCHANGED options /\ stage \notin Merging \union {"clustering"}
  BY <1>1, <1>6 DEF OptionsInv, OptionsListed
<1>7. CASE UNCHANGED vars
  BY <1>7 DEF OptionsInv, OptionsListed, vars, graph
<1> QED BY <1>2, <1>3, <1>4, <1>5, <1>6, <1>7 DEF Next

\* What follows for two options.
LEMMA OptionsFacts ==
  ASSUME OptionsListed
  PROVE  /\ \A k \in DOMAIN options : options[k].id \in ToSet(options[k].members)
                                      /\ ToSet(options[k].members) \subseteq DOMAIN input.positions
         /\ \A k, l \in DOMAIN options : k # l => options[k].id # options[l].id
         /\ \A p \in DOMAIN input.positions : \E k \in DOMAIN options :
              /\ p \in ToSet(options[k].members)
              /\ \A l \in DOMAIN options \ {k} : p \notin ToSet(options[l].members)
<1>1. PICK opts : opts = options
  OBVIOUS
<1>2. PICK P : P = DOMAIN input.positions
  OBVIOUS
<1>3. opts \in Seq(OptionsOver(P)) /\ Apart(opts) /\ Taken(opts) = P
  BY <1>1, <1>2 DEF OptionsListed
<1>4. ASSUME NEW k \in DOMAIN opts
      PROVE  opts[k].id \in ToSet(opts[k].members) /\ ToSet(opts[k].members) \subseteq P
  <2>1. opts[k] \in OptionsOver(P)
    BY <1>3
  <2>2. PICK s : s = opts[k].members
    OBVIOUS
  <2>3. s \in Seq(P) /\ s # << >> /\ opts[k].id = s[1]
    BY <2>1, <2>2 DEF OptionsOver
  <2>4. opts[k].id \in ToSet(s)
    <3>1. Option(s).id \in ToSet(s)
      BY <2>3, OptionNamed
    <3> QED BY <2>3, <3>1 DEF Option
  <2> QED BY <2>2, <2>3, <2>4, SetOfSequence
<1>5. \A k, l \in DOMAIN opts : k # l => opts[k].id # opts[l].id
  BY <1>3, <1>4 DEF Apart
<1>6. \A p \in P : \E k \in DOMAIN opts :
        /\ p \in ToSet(opts[k].members)
        /\ \A l \in DOMAIN opts \ {k} : p \notin ToSet(opts[l].members)
  <2>1. \A p \in P : \E k \in DOMAIN opts : p \in ToSet(opts[k].members)
    BY <1>3 DEF Taken
  <2> QED BY <1>3, <2>1 DEF Apart
<1> QED BY <1>1, <1>2, <1>4, <1>5, <1>6

THEOREM PositionsHaveOneOption == Spec => []OnePositionOneOption
<1>1. Init => NormInv /\ OptionsInv
  <2>1. Init => stage \in Merging
    BY DEF Init, Merging
  <2> QED BY <2>1, NormInit DEF OptionsInv
<1>2. NormInv /\ OptionsInv /\ [Next]_vars => (NormInv /\ OptionsInv)'
  BY NormStep, OptionsStep
<1>3. OptionsInv => OnePositionOneOption
  BY OptionsFacts DEF OptionsInv, OnePositionOneOption, Merging
<1> QED BY <1>1, <1>2, <1>3, PTL DEF Spec

---------------------------------------------------------------------------
(* The attachment matrix *)

\* A cell is what was last said of it, or what it started as.
Accounted(matrix, words, key, start) ==
  LET expected == IF key \in DOMAIN words THEN words[key] ELSE start
  IN  IF expected = "neutral" THEN key \notin DOMAIN matrix
      ELSE key \in DOMAIN matrix /\ matrix[key] = expected

LEMMA WordKeeps ==
  ASSUME NEW matrix, NEW words, NEW key, NEW start, NEW a, Accounted(matrix, words, key, start)
  PROVE  Accounted(Revise(matrix, a), Note(words, a), key, start)
<1>1. PICK k : k = a.key
  OBVIOUS
<1>2. PICK v : v = a.polarity
  OBVIOUS
<1>3. PICK said2 : said2 = With(words, k, v)
  OBVIOUS
<1>4. /\ DOMAIN said2 = DOMAIN words \union {k}
      /\ \A y \in DOMAIN words \union {k} : said2[y] = IF y = k THEN v ELSE words[y]
  BY <1>3 DEF With
<1>5. Note(words, a) = said2
  BY <1>1, <1>2, <1>3 DEF Note
<1>6. CASE v = "neutral"
  <2>1. PICK left : left = Without(matrix, k)
    OBVIOUS
  <2>2. DOMAIN left = DOMAIN matrix \ {k} /\ \A y \in DOMAIN matrix \ {k} : left[y] = matrix[y]
    BY <2>1 DEF Without
  <2>3. Revise(matrix, a) = left
    BY <1>1, <1>2, <1>6, <2>1 DEF Revise
  <2> QED BY <1>4, <1>5, <1>6, <2>2, <2>3 DEF Accounted
<1>7. CASE v # "neutral"
  <2>1. PICK more : more = With(matrix, k, v)
    OBVIOUS
  <2>2. /\ DOMAIN more = DOMAIN matrix \union {k}
        /\ \A y \in DOMAIN matrix \union {k} : more[y] = IF y = k THEN v ELSE matrix[y]
    BY <2>1 DEF With
  <2>3. Revise(matrix, a) = more
    BY <1>1, <1>2, <1>7, <2>1 DEF Revise
  <2> QED BY <1>4, <1>5, <1>7, <2>2, <2>3 DEF Accounted
<1> QED BY <1>6, <1>7

Revising == INSTANCE FoldLemmas WITH Op <- Revise
Noting == INSTANCE FoldLemmas WITH Op <- Note

\* The matrix's fold is that of the lemmas.
LEMMA RevisingIs ==
  ASSUME NEW base, NEW seq
  PROVE  FoldLeft(Revise, base, seq) = Revising!SequenceFold(base, seq)
BY DEF FoldLeft, MapThenFoldSet, Max, Revising!SequenceFold, Revising!FoldLeft,
       Revising!MapThenFoldSet, Revising!Max

\* The history's fold is that of the lemmas.
LEMMA NotingIs ==
  ASSUME NEW base, NEW seq
  PROVE  FoldLeft(Note, base, seq) = Noting!SequenceFold(base, seq)
BY DEF FoldLeft, MapThenFoldSet, Max, Noting!SequenceFold, Noting!FoldLeft,
       Noting!MapThenFoldSet, Noting!Max

LEMMA AnswerKeeps ==
  ASSUME NEW n \in Nat, NEW used, DOMAIN used = 1..n,
         NEW matrix, NEW words, NEW key, NEW start, Accounted(matrix, words, key, start)
  PROVE  Accounted(FoldLeft(Revise, matrix, used), FoldLeft(Note, words, used), key, start)
<1>1. PICK g : Revising!InTurn(g, matrix, used, n) /\ Revising!SequenceFold(matrix, used) = g[n]
  BY Revising!SequenceFoldUnfolds
<1>2. PICK h : Noting!InTurn(h, words, used, n) /\ Noting!SequenceFold(words, used) = h[n]
  BY Noting!SequenceFoldUnfolds
<1>3. g[0] = matrix /\ h[0] = words
      /\ \A i \in 1..n : g[i] = Revise(g[i - 1], used[i]) /\ h[i] = Note(h[i - 1], used[i])
  BY <1>1, <1>2 DEF Revising!InTurn, Noting!InTurn
<1> DEFINE K == {i \in Nat : i <= n => Accounted(g[i], h[i], key, start)}
<1>4. 0 \in K
  BY <1>3
<1>5. ASSUME NEW i \in Nat, i \in K PROVE i + 1 \in K
  <2>1. ASSUME i + 1 <= n PROVE Accounted(g[i + 1], h[i + 1], key, start)
    <3>1. i + 1 \in 1..n /\ (i + 1) - 1 = i /\ i <= n
      BY <2>1
    <3>2. g[i + 1] = Revise(g[i], used[i + 1]) /\ h[i + 1] = Note(h[i], used[i + 1])
      BY <1>3, <3>1
    <3>3. Accounted(g[i], h[i], key, start)
      BY <1>5, <3>1
    <3> QED BY <3>2, <3>3, WordKeeps
  <2> QED BY <2>1
<1>6. Nat \subseteq K
  <2> HIDE DEF K
  <2> QED BY <1>4, <1>5, Revising!NatByInduction
<1>7. Accounted(g[n], h[n], key, start)
  BY <1>6
<1> QED BY <1>1, <1>2, <1>7, RevisingIs, NotingIs

\* What the classifier answers is a list of cells.
LEMMA UsableListed ==
  ASSUME NEW answer \in AttachReplies, NEW chunk, NEW listed
  PROVE  \E n \in Nat : DOMAIN Usable(answer, chunk, listed) = 1..n
<1>1. PICK T : T = [claim : Nat, option : Nat, polarity : STRING]
  OBVIOUS
<1>2. answer \in Seq(T)
  <2>1. AttachAnswers \subseteq Seq(T)
    BY <1>1, StagesAssumption
  <2>2. << >> \in Seq(T)
    OBVIOUS
  <2> QED BY <2>1, <2>2 DEF AttachReplies, NoAnswer
<1>3. PICK places : places = {k \in DOMAIN answer : /\ answer[k].claim \in DOMAIN chunk
                                                    /\ answer[k].option \in DOMAIN listed
                                                    /\ Known(answer[k].polarity)}
  OBVIOUS
<1>4. PICK ok : ok = Keep(answer, places)
  OBVIOUS
<1>5. ok \in Seq(T)
  <2>1. places \in SUBSET DOMAIN answer
    BY <1>3
  <2> QED BY <1>2, <1>4, <2>1, KeepLists
<1>6. PICK n \in Nat : DOMAIN ok = 1..n
  BY <1>5, SetOfSequence
<1> QED BY <1>3, <1>4, <1>6 DEF Usable

\* What a cell starts as.
StartsAs(c, o) == IF \E p \in PositionsOf(c) : OptionOf(p) = o.id THEN "supports" ELSE "neutral"

LEMMA PositionsExist ==
  ASSUME NormInv, ClaimsListed, NEW c \in ToSet(claims)
  PROVE  PositionsOf(c) \subseteq DOMAIN input.positions
<1>1. PICK k \in DOMAIN claims : c = claims[k]
  BY DEF ToSet
<1>2. \A i \in c.members : i \in 1..Size
  BY <1>1 DEF ClaimsListed
<1>3. \A i \in 1..Size : input.claims[i].position \in DOMAIN input.positions
  BY InputFacts DEF NormInv
<1> QED BY <1>2, <1>3 DEF PositionsOf

LEMMA OptionOfPosition ==
  ASSUME OptionsListed, NEW p \in DOMAIN input.positions
  PROVE  \A k \in DOMAIN options : p \in ToSet(options[k].members) <=> OptionOf(p) = options[k].id
<1>1. PICK o : o = CHOOSE x \in ToSet(options) : p \in ToSet(x.members)
  OBVIOUS
<1>2. \E x \in ToSet(options) : p \in ToSet(x.members)
  BY OptionsFacts DEF ToSet
<1>3. o \in ToSet(options) /\ p \in ToSet(o.members)
  BY <1>1, <1>2
<1>4. PICK m \in DOMAIN options : o = options[m]
  BY <1>3 DEF ToSet
<1>5. OptionOf(p) = options[m].id
  BY <1>1, <1>4 DEF OptionOf
<1>6. ASSUME NEW k \in DOMAIN options
      PROVE  p \in ToSet(options[k].members) <=> OptionOf(p) = options[k].id
  <2>1. CASE k = m
    BY <1>3, <1>4, <1>5, <2>1
  <2>2. CASE k # m
    <3>1. options[k].id # options[m].id
      BY <2>2, OptionsFacts
    <3>2. p \notin ToSet(options[k].members)
      BY <1>3, <1>4, <2>2 DEF OptionsListed, Apart
    <3> QED BY <1>5, <3>1, <3>2
  <2> QED BY <2>1, <2>2
<1> QED BY <1>6

\* run() lists every option once for each of its positions.
LEMMA ExpandedListed ==
  ASSUME OptionsListed
  PROVE  ToSet(Expanded(options)) =
           UNION {{[id |-> options[k].id, position |-> p] : p \in ToSet(options[k].members)} : k \in DOMAIN options}
<1>1. PICK opts : opts = options
  OBVIOUS
<1>2. PICK P : P = DOMAIN input.positions
  OBVIOUS
<1>3. opts \in Seq(OptionsOver(P))
  BY <1>1, <1>2 DEF OptionsListed
<1>4. PICK n \in Nat : DOMAIN opts = 1..n
  BY <1>3, SetOfSequence
<1>5. PICK T : T = [id : P, position : P]
  OBVIOUS
<1>6. PICK each : each = [k \in 1..n |-> [m \in DOMAIN opts[k].members |->
                                          [id |-> opts[k].id, position |-> opts[k].members[m]]]]
  OBVIOUS
<1>7. ASSUME NEW k \in 1..n
      PROVE  /\ each[k] \in Seq(T)
             /\ ToSet(each[k]) = {[id |-> opts[k].id, position |-> p] : p \in ToSet(opts[k].members)}
  <2>1. opts[k] \in OptionsOver(P)
    BY <1>3, <1>4
  <2>2. PICK s : s = opts[k].members
    OBVIOUS
  <2>3. PICK id : id = opts[k].id
    OBVIOUS
  <2>4. s \in Seq(P) /\ id \in P
    BY <2>1, <2>2, <2>3 DEF OptionsOver
  <2>5. PICK z : z = [m \in DOMAIN s |-> [id |-> id, position |-> s[m]]]
    OBVIOUS
  <2>6. each[k] = z
    BY <1>6, <2>2, <2>3, <2>5
  <2>7. PICK len \in Nat : DOMAIN s = 1..len
    BY <2>4, SetOfSequence
  <2>8. \A m \in 1..len : s[m] \in P
    BY <2>4, <2>7
  <2>9. \A m \in 1..len : [id |-> id, position |-> s[m]] \in T
    BY <1>5, <2>4, <2>8
  <2>10. z \in Seq(T)
    BY <2>5, <2>7, <2>9
  <2>11. ToSet(z) = {[id |-> id, position |-> s[m]] : m \in DOMAIN s}
    BY <2>5 DEF ToSet
  <2>12. ToSet(s) = {s[m] : m \in DOMAIN s}
    BY DEF ToSet
  <2>13. {[id |-> id, position |-> s[m]] : m \in DOMAIN s} = {[id |-> id, position |-> p] : p \in ToSet(s)}
    BY <2>12
  <2> QED BY <2>2, <2>3, <2>6, <2>10, <2>11, <2>13
<1>8. DOMAIN each = 1..n
  BY <1>6
<1>9. ToSet(Flat(each)) = UNION {ToSet(each[k]) : k \in 1..n}
  BY <1>7, <1>8, FlatLists
<1>10. UNION {ToSet(each[k]) : k \in 1..n}
         = UNION {{[id |-> opts[k].id, position |-> p] : p \in ToSet(opts[k].members)} : k \in 1..n}
  BY <1>7
<1>11. Expanded(opts) = Flat(each)
  BY <1>4, <1>6 DEF Expanded
<1> QED BY <1>1, <1>4, <1>9, <1>10, <1>11

LEMMA SeedsStart ==
  ASSUME NormInv, ClaimsListed, OptionsListed, NEW c \in ToSet(claims), NEW o \in ToSet(options)
  PROVE  Accounted(Seeds(options), << >>, <<c.id, o.id>>, StartsAs(c, o))
<1>1. PICK k \in DOMAIN claims : c = claims[k]
  BY DEF ToSet
<1>2. PICK l \in DOMAIN options : o = options[l]
  BY DEF ToSet
<1>3. PICK listed : listed = ToSet(Expanded(options))
  OBVIOUS
<1>4. PICK seeded : seeded = UNION {{<<d.id, e.id>> : e \in {x \in listed : x.position \in PositionsOf(d)}}
                                      : d \in ToSet(claims)}
  OBVIOUS
<1>5. Seeds(options) = [key \in seeded |-> "supports"]
  BY <1>3, <1>4 DEF Seeds
<1>6. PICK key : key = <<c.id, o.id>>
  OBVIOUS
<1>7. PositionsOf(c) \subseteq DOMAIN input.positions
  BY PositionsExist
<1>8. \A p \in PositionsOf(c) : p \in ToSet(options[l].members) <=> OptionOf(p) = options[l].id
  BY <1>7, OptionOfPosition
<1>9. \A d \in ToSet(claims) : d.id = c.id => d = c
  BY <1>1 DEF ClaimsListed, ToSet
<1>10. \A m \in DOMAIN options : options[m].id = o.id => m = l
  BY <1>2, OptionsFacts
<1>11. \A x : x \in listed <=> \E m \in DOMAIN options : \E p \in ToSet(options[m].members) :
                                 x = [id |-> options[m].id, position |-> p]
  BY <1>3, ExpandedListed
<1>12. key \in seeded <=> \E x \in listed : x.id = o.id /\ x.position \in PositionsOf(c)
  <2>1. ASSUME key \in seeded PROVE \E x \in listed : x.id = o.id /\ x.position \in PositionsOf(c)
    <3>1. PICK d \in ToSet(claims) : key \in {<<d.id, e.id>> : e \in {x \in listed : x.position \in PositionsOf(d)}}
      BY <1>4, <2>1
    <3>2. PICK x \in listed : x.position \in PositionsOf(d) /\ key = <<d.id, x.id>>
      BY <3>1
    <3>3. d.id = c.id /\ x.id = o.id
      BY <1>6, <3>2
    <3>4. d = c
      BY <1>9, <3>3
    <3> QED BY <3>2, <3>3, <3>4
  <2>2. ASSUME NEW x \in listed, x.id = o.id, x.position \in PositionsOf(c) PROVE key \in seeded
    <3>1. key \in {<<c.id, e.id>> : e \in {y \in listed : y.position \in PositionsOf(c)}}
      BY <1>6, <2>2
    <3> QED BY <1>4, <3>1
  <2> QED BY <2>1, <2>2
<1>13. (\E x \in listed : x.id = o.id /\ x.position \in PositionsOf(c))
         <=> \E p \in PositionsOf(c) : p \in ToSet(options[l].members)
  <2>1. ASSUME NEW x \in listed, x.id = o.id, x.position \in PositionsOf(c)
        PROVE  \E p \in PositionsOf(c) : p \in ToSet(options[l].members)
    <3>1. PICK m \in DOMAIN options : \E p \in ToSet(options[m].members) :
            x = [id |-> options[m].id, position |-> p]
      BY <1>11
    <3>2. PICK p \in ToSet(options[m].members) : x = [id |-> options[m].id, position |-> p]
      BY <3>1
    <3>3. x.id = options[m].id /\ x.position = p
      BY <3>2
    <3>4. m = l
      BY <1>10, <2>1, <3>3
    <3> QED BY <2>1, <3>2, <3>3, <3>4
  <2>2. ASSUME NEW p \in PositionsOf(c), p \in ToSet(options[l].members)
        PROVE  \E x \in listed : x.id = o.id /\ x.position \in PositionsOf(c)
    <3>1. PICK x : x = [id |-> options[l].id, position |-> p]
      OBVIOUS
    <3>2. x \in listed
      BY <1>11, <2>2, <3>1
    <3>3. x.id = o.id /\ x.position = p
      BY <1>2, <3>1
    <3> QED BY <2>2, <3>2, <3>3
  <2> QED BY <2>1, <2>2
<1>14. key \in seeded <=> StartsAs(c, o) = "supports"
  BY <1>2, <1>8, <1>12, <1>13 DEF StartsAs
<1>15. StartsAs(c, o) \in {"supports", "neutral"}
  BY DEF StartsAs
<1>16. DOMAIN << >> = {}
  OBVIOUS
<1>17. \A y \in seeded : Seeds(options)[y] = "supports"
  BY <1>5
<1>18. DOMAIN Seeds(options) = seeded
  BY <1>5
<1>19. Accounted(Seeds(options), << >>, key, StartsAs(c, o))
  BY <1>14, <1>15, <1>16, <1>17, <1>18 DEF Accounted
<1> QED BY <1>6, <1>19

Settling == Merging \union {"clustering"}

CellsInv ==
  /\ stage \in Settling => said = << >>
  /\ stage \notin Settling =>
       \A c \in ToSet(claims), o \in ToSet(options) : Accounted(cells, said, <<c.id, o.id>>, StartsAs(c, o))

\* What claims.normalize has done, once it has.
Normalized == NormInv /\ MergedInv /\ OptionsInv

LEMMA NormalizedSafe ==
  /\ Init => Normalized
  /\ Normalized /\ [Next]_vars => Normalized'
<1>1. Init => stage \in Merging
  BY DEF Init, Merging
<1>2. Init => Normalized
  BY <1>1, NormInit DEF Normalized, MergedInv, OptionsInv
<1>3. Normalized /\ [Next]_vars => Normalized'
  BY NormStep, MergedStep, OptionsStep DEF Normalized
<1> QED BY <1>2, <1>3

Seeded ==
  \A c \in ToSet(claims), o \in ToSet(options) :
    Accounted(Seeds(options), << >>, <<c.id, o.id>>, StartsAs(c, o))

LEMMA SeedsStand == Normalized /\ stage \notin Settling => Seeded
<1>1. ASSUME Normalized, stage \notin Settling PROVE NormInv /\ ClaimsListed /\ OptionsListed
  BY <1>1, ClaimsFacts DEF Normalized, Settling, OptionsInv
<1> QED BY <1>1, SeedsStart DEF Seeded

LEMMA SeedsStandThen == (Normalized /\ stage \notin Settling)' => Seeded'
  BY SeedsStand, PTL

LEMMA CellsStep ==
  ASSUME Normalized, Normalized', CellsInv, [Next]_vars
  PROVE  CellsInv'
<1>1. input' = input
  BY DEF Next, GroupBatch, Stitch, Merge, Cluster, AttachChunk, BeginRelations, RelateBatch,
         Complete, vars
<1>2. CASE Cluster
  <2>1. stage = "clustering" /\ stage' = "attaching" /\ said' = said /\ cells' = Seeds(options')
    BY <1>2 DEF Cluster, heard
  <2>2. said' = << >> /\ stage' \notin Settling
    BY <2>1 DEF CellsInv, Settling, Merging
  <2>3. Seeded'
    BY <2>2, SeedsStandThen
  <2>4. Seeds(options)' = Seeds(options')
    <3>1. claims' = claims
      BY <1>2 DEF Cluster
    <3> QED BY <1>1, <3>1 DEF Seeds, PositionsOf
  <2>5. Seeded' <=> \A c \in ToSet(claims'), o \in ToSet(options') :
                      Accounted(Seeds(options)', << >>, <<c.id, o.id>>, StartsAs(c, o)')
    BY DEF Seeded, StartsAs, PositionsOf, OptionOf, Accounted, ToSet
  <2>6. \A c \in ToSet(claims'), o \in ToSet(options') :
          Accounted(cells', said', <<c.id, o.id>>, StartsAs(c, o)')
    BY <2>1, <2>2, <2>3, <2>4, <2>5
  <2>7. (stage \in Settling => said = << >>)'
    BY <2>2
  <2>8. (\A c \in ToSet(claims), o \in ToSet(options) :
           Accounted(cells, said, <<c.id, o.id>>, StartsAs(c, o)))'
    BY <2>6 DEF StartsAs, PositionsOf, OptionOf, Accounted, ToSet
  <2> QED BY <2>7, <2>8 DEF CellsInv
<1>3. CASE AttachChunk
  <2>1. stage = "attaching" /\ UNCHANGED <<stage, claims, options>>
    BY <1>3 DEF AttachChunk
  <2>2. PICK answer \in AttachReplies :
          /\ cells' = FoldLeft(Revise, cells, Usable(answer, Head(todo), Expanded(options)))
          /\ said' = FoldLeft(Note, said, Usable(answer, Head(todo), Expanded(options)))
    BY <1>3 DEF AttachChunk
  <2>3. PICK used : used = Usable(answer, Head(todo), Expanded(options))
    OBVIOUS
  <2>4. PICK n \in Nat : DOMAIN used = 1..n
    BY <2>3, UsableListed
  <2>5. stage \notin Settling
    BY <2>1 DEF Settling, Merging
  <2>6. \A c \in ToSet(claims), o \in ToSet(options) : StartsAs(c, o)' = StartsAs(c, o)
    BY <1>1, <2>1 DEF StartsAs, PositionsOf, OptionOf
  <2>7. ASSUME NEW c \in ToSet(claims), NEW o \in ToSet(options)
        PROVE  Accounted(cells', said', <<c.id, o.id>>, StartsAs(c, o))
    <3>1. Accounted(cells, said, <<c.id, o.id>>, StartsAs(c, o))
      BY <2>5 DEF CellsInv
    <3>2. PICK matrix : matrix = cells
      OBVIOUS
    <3>3. PICK words : words = said
      OBVIOUS
    <3>4. PICK key : key = <<c.id, o.id>>
      OBVIOUS
    <3>5. PICK start : start = StartsAs(c, o)
      OBVIOUS
    <3>6. Accounted(matrix, words, key, start)
      BY <3>1, <3>2, <3>3, <3>4, <3>5
    <3>7. Accounted(FoldLeft(Revise, matrix, used), FoldLeft(Note, words, used), key, start)
      BY <2>4, <3>6, AnswerKeeps
    <3> QED BY <2>2, <2>3, <3>2, <3>3, <3>4, <3>5, <3>7
  <2> QED BY <2>1, <2>5, <2>6, <2>7 DEF CellsInv
<1>4. CASE stage' \in Settling /\ said' = said /\ stage \in Settling
  BY <1>4 DEF CellsInv
<1>5. CASE UNCHANGED <<claims, options, cells, said>> /\ stage \notin Settling /\ stage' \notin Settling
  <2>1. \A c, o : StartsAs(c, o)' = StartsAs(c, o)
    BY <1>1, <1>5 DEF StartsAs, PositionsOf, OptionOf
  <2> QED BY <1>5, <2>1 DEF CellsInv
<1>6. CASE UNCHANGED vars
  <2>1. UNCHANGED <<input, stage, claims, options, cells, said>>
    BY <1>6 DEF vars, graph, heard
  <2>2. \A c, o : StartsAs(c, o)' = StartsAs(c, o)
    BY <2>1 DEF StartsAs, PositionsOf, OptionOf
  <2> QED BY <2>1, <2>2 DEF CellsInv
<1>7. GroupBatch \/ Stitch \/ Merge => stage' \in Settling /\ said' = said /\ stage \in Settling
  BY DEF GroupBatch, Stitch, Merge, heard, Settling, Merging
<1>8. BeginRelations \/ RelateBatch \/ Complete
        => UNCHANGED <<claims, options, cells, said>> /\ stage \notin Settling /\ stage' \notin Settling
  BY DEF BeginRelations, RelateBatch, Complete, graph, heard, Settling, Merging
<1> QED BY <1>2, <1>3, <1>4, <1>5, <1>6, <1>7, <1>8 DEF Next

THEOREM CellsFollowTheAnswers == Spec => []CellsAreAccountedFor
<1>1. Init => Normalized /\ CellsInv
  BY NormalizedSafe DEF Init, CellsInv, Settling, Merging
<1>2. Normalized /\ CellsInv /\ [Next]_vars => (Normalized /\ CellsInv)'
  BY NormalizedSafe, CellsStep
<1>3. CellsInv => CellsAreAccountedFor
  BY DEF CellsInv, CellsAreAccountedFor, Accounted, StartsAs, Settling, Merging
<1> QED BY <1>1, <1>2, <1>3, PTL DEF Spec

---------------------------------------------------------------------------
(* relations.analyze *)

LEMMA ProductsGrow ==
  ASSUME NEW a \in Nat, NEW b \in Nat, NEW s \in Nat, a <= b
  PROVE  a * s <= b * s
  OBVIOUS

LEMMA DivisionIs ==
  ASSUME NEW a \in Nat, NEW s \in Nat \ {0}
  PROVE  /\ a \div s \in Nat
         /\ (a \div s) * s <= a /\ a < (a \div s) * s + s
  OBVIOUS

\* Every place of a list is in one of its chunks.
LEMMA ChunkOf ==
  ASSUME NEW len \in Nat, NEW s \in Nat \ {0}, NEW i \in 1..len
  PROVE  \E k \in 1..((len + s - 1) \div s) :
           (k - 1) * s + 1 <= i /\ i <= (IF k * s < len THEN k * s ELSE len)
<1>1. PICK q \in Nat : q = (i - 1) \div s
  BY DivisionIs
<1>2. q * s <= i - 1 /\ i - 1 < q * s + s
  BY <1>1, DivisionIs
<1>3. PICK d \in Nat : d = (len + s - 1) \div s
  <2>1. len + s - 1 \in Nat
    OBVIOUS
  <2> QED BY <2>1, DivisionIs
<1>4. d * s <= len + s - 1 /\ len + s - 1 < d * s + s
  <2>1. len + s - 1 \in Nat
    OBVIOUS
  <2> QED BY <1>3, <2>1, DivisionIs
<1>5. PICK qs \in Nat : qs = q * s
  OBVIOUS
<1>6. PICK ds \in Nat : ds = d * s
  OBVIOUS
<1>7. (q + 1) * s = qs + s
  BY <1>5
<1>8. q < d
  <2>1. ASSUME d <= q PROVE FALSE
    <3>1. ds <= qs
      BY <1>5, <1>6, <2>1, ProductsGrow
    <3> QED BY <1>2, <1>4, <1>5, <1>6, <3>1
  <2> QED BY <2>1
<1>9. q + 1 \in 1..d /\ (q + 1) - 1 = q
  BY <1>8
<1>10. ((q + 1) - 1) * s = qs
  BY <1>5, <1>9
<1>11. ((q + 1) - 1) * s + 1 <= i /\ i <= (IF (q + 1) * s < len THEN (q + 1) * s ELSE len)
  BY <1>2, <1>5, <1>7, <1>10
<1> QED BY <1>3, <1>9, <1>11

\* The chunks of a list hold what it holds.
LEMMA ChunksHold ==
  ASSUME NEW T, NEW seq \in Seq(T), NEW size \in Nat \ {0}
  PROVE  /\ Chunks(seq, size) \in Seq(Seq(T))
         /\ \A x \in ToSet(seq) : \E k \in DOMAIN Chunks(seq, size) : x \in ToSet(Chunks(seq, size)[k])
<1>1. PICK len \in Nat : len = Len(seq) /\ DOMAIN seq = 1..len
  BY SetOfSequence
<1>2. \A i \in 1..len : seq[i] \in T
  BY <1>1
<1>3. PICK d \in Nat : d = (len + size - 1) \div size
  <2>1. len + size - 1 \in Nat
    OBVIOUS
  <2> QED BY <2>1, DivisionIs
<1>4. PICK first : first = [k \in 1..d |-> (k - 1) * size + 1]
  OBVIOUS
<1>5. PICK last : last = [k \in 1..d |-> IF k * size < len THEN k * size ELSE len]
  OBVIOUS
<1>6. ASSUME NEW k \in 1..d
      PROVE  /\ first[k] = (k - 1) * size + 1 /\ last[k] = (IF k * size < len THEN k * size ELSE len)
             /\ first[k] \in Nat /\ first[k] >= 1 /\ last[k] \in Nat /\ last[k] <= len
  <2>1. k \in Nat /\ k - 1 \in Nat
    OBVIOUS
  <2>2. PICK low \in Nat : low = (k - 1) * size
    BY <2>1
  <2>3. PICK high \in Nat : high = k * size
    BY <2>1
  <2>4. first[k] = low + 1
    BY <1>4, <2>2
  <2>5. last[k] = (IF high < len THEN high ELSE len)
    BY <1>5, <2>3
  <2> QED BY <2>2, <2>3, <2>4, <2>5
<1>7. PICK chunks : chunks = [k \in 1..d |-> SubSeq(seq, first[k], last[k])]
  OBVIOUS
<1>8. Chunks(seq, size) = chunks
  BY <1>1, <1>3, <1>6, <1>7 DEF Chunks
<1>9. ASSUME NEW k \in 1..d
      PROVE  /\ chunks[k] \in Seq(T)
             /\ \A i \in 1..len : first[k] <= i /\ i <= last[k] => seq[i] \in ToSet(chunks[k])
  <2>1. PICK m \in Int : m = first[k] /\ m >= 1
    BY <1>6
  <2>2. PICK n \in Int : n = last[k] /\ n <= len
    BY <1>6
  <2>3. \A i \in m..n : seq[i] \in T
    BY <1>2, <2>1, <2>2
  <2>4. PICK part : part = SubSeq(seq, m, n)
    OBVIOUS
  <2>5. /\ part \in Seq(T) /\ Len(part) = IF m <= n THEN n - m + 1 ELSE 0
        /\ \A i \in 1..(n - m + 1) : part[i] = seq[m + i - 1]
    BY <2>3, <2>4, SubSeqProperties
  <2>6. ASSUME NEW i \in 1..len, m <= i, i <= n PROVE seq[i] \in ToSet(part)
    <3>1. PICK p \in Int : p = i - m + 1
      OBVIOUS
    <3>2. p \in 1..(n - m + 1) /\ m + p - 1 = i /\ m <= n
      BY <2>6, <3>1
    <3>3. DOMAIN part = 1..(n - m + 1)
      <4>1. DOMAIN part = 1..Len(part)
        BY <2>5, SetOfSequence
      <4> QED BY <2>5, <3>2, <4>1
    <3>4. part[p] = seq[i]
      BY <2>5, <3>2
    <3> QED BY <3>2, <3>3, <3>4 DEF ToSet
  <2>7. chunks[k] = part
    BY <1>7, <2>1, <2>2, <2>4
  <2> QED BY <2>1, <2>2, <2>5, <2>6, <2>7
<1>10. chunks \in Seq(Seq(T)) /\ DOMAIN chunks = 1..d
  BY <1>7, <1>9
<1>11. ASSUME NEW x \in ToSet(seq) PROVE \E k \in 1..d : x \in ToSet(chunks[k])
  <2>1. PICK i \in 1..len : x = seq[i]
    BY <1>1 DEF ToSet
  <2>2. PICK k \in 1..d : (k - 1) * size + 1 <= i /\ i <= (IF k * size < len THEN k * size ELSE len)
    BY <1>3, ChunkOf
  <2> QED BY <1>6, <1>9, <2>1, <2>2
<1> QED BY <1>8, <1>10, <1>11

\* The list of candidate pairs is one of pairs of different claims.
LEMMA CandidatesTyped ==
  ASSUME NormInv, ClaimsListed
  PROVE  /\ TopPairs(TextScore) \union PolarityPairs \in SUBSET Couples(Len(claims))
         /\ Len(claims) \in Nat /\ DOMAIN claims = 1..Len(claims)
<1>1. PICK listed \in Seq(MergedClaim) : listed = claims
  BY DEF ClaimsListed
<1>2. PICK n \in Nat : n = Len(claims) /\ DOMAIN claims = 1..n
  BY <1>1, SetOfSequence
<1>3. TextScore \in [1..n -> [1..n -> Nat]]
  <2>1. PICK N \in Nat : N = Size /\ DOMAIN input.claims = 1..N /\ input.score \in [1..N -> [1..N -> Nat]]
    BY InputFacts DEF NormInv
  <2>2. PICK text : text = [i \in 1..n |-> CHOOSE k \in 1..N : input.claims[k].id = claims[i].id]
    OBVIOUS
  <2>3. \A i \in 1..n : \E k \in 1..N : input.claims[k].id = claims[i].id
    BY <1>2, <2>1 DEF ClaimsListed
  <2>4. \A i \in 1..n : text[i] = CHOOSE k \in 1..N : input.claims[k].id = claims[i].id
    BY <2>2
  <2>5. \A i \in 1..n : text[i] \in 1..N
    BY <2>3, <2>4
  <2>6. TextScore = [i \in 1..n |-> [j \in 1..n |-> input.score[text[i]][text[j]]]]
    <3> DEFINE t(i) == CHOOSE k \in DOMAIN input.claims : input.claims[k].id = claims[i].id
    <3>1. \A i \in 1..n : t(i) = text[i]
      BY <2>1, <2>4
    <3>2. TextScore = [i \in 1..n |-> [j \in 1..n |-> input.score[t(i)][t(j)]]]
      BY <1>2 DEF TextScore
    <3> HIDE DEF t
    <3>3. \A i, j \in 1..n : input.score[t(i)][t(j)] = input.score[text[i]][text[j]]
      BY <3>1
    <3> QED BY <3>2, <3>3
  <2>7. \A k, l \in 1..N : input.score[k][l] \in Nat
    BY <2>1
  <2>8. \A i, j \in 1..n : input.score[text[i]][text[j]] \in Nat
    BY <2>5, <2>7
  <2>9. PICK row : row = [i \in 1..n |-> [j \in 1..n |-> input.score[text[i]][text[j]]]]
    OBVIOUS
  <2>10. \A i \in 1..n : row[i] \in [1..n -> Nat]
    BY <2>8, <2>9
  <2> QED BY <2>6, <2>9, <2>10
<1>4. PICK score : score = TextScore
  OBVIOUS
<1>5. TopPairs(score) \in SUBSET Couples(n)
  BY <1>3, <1>4, TopPairsTyped
<1>6. ASSUME NEW p \in PolarityPairs PROVE p \in Couples(n)
  <2>1. PICK o \in ToSet(options) :
          p \in {Ordered(q[1], q[2]) : q \in {x \in On(o.id, "supports") \X On(o.id, "opposes") :
                                               CrossModel(x[1], x[2])}}
    BY <1>6 DEF PolarityPairs
  <2>2. PICK q \in On(o.id, "supports") \X On(o.id, "opposes") : p = Ordered(q[1], q[2])
    BY <2>1
  <2>3. PICK i \in On(o.id, "supports") : i = q[1]
    BY <2>2
  <2>4. PICK j \in On(o.id, "opposes") : j = q[2]
    BY <2>2
  <2>5. i \in 1..n /\ j \in 1..n /\ i # j
    BY <1>2, <2>3, <2>4 DEF On
  <2>6. Ordered(i, j) \in Couples(n)
    BY <2>5 DEF Ordered, Couples
  <2> QED BY <2>2, <2>3, <2>4, <2>6
<1> QED BY <1>2, <1>4, <1>5, <1>6

RelationClaims == {claims[i].id : i \in DOMAIN claims}

\* Every relation is between two different claims of a pair that was asked about.
Between(list, pairs) ==
  \A r \in ToSet(list) : \E p \in pairs :
    {r.from, r.to} = {claims[p[1]].id, claims[p[2]].id} /\ r.from # r.to

LEMMA RelationsBetween ==
  ASSUME ClaimsListed, NEW answer \in RelationReplies, NEW n \in Nat, DOMAIN claims = 1..n,
         NEW pairs \in Seq(Couples(n))
  PROVE  /\ Relations(answer, pairs) \in Seq([from : RelationClaims, to : RelationClaims, kind : STRING])
         /\ Between(Relations(answer, pairs), ToSet(pairs))
<1>1. PICK T : T = [pair : Nat, kind : STRING, from : STRING]
  OBVIOUS
<1>2. answer \in Seq(T)
  <2>1. RelationAnswers \subseteq Seq(T)
    BY <1>1, StagesAssumption
  <2>2. << >> \in Seq(T)
    OBVIOUS
  <2> QED BY <2>1, <2>2 DEF RelationReplies, NoAnswer
<1>3. PICK places : places = {k \in DOMAIN answer : /\ answer[k].pair \in DOMAIN pairs
                                                    /\ answer[k].kind \in RelationKinds}
  OBVIOUS
<1>4. PICK ok : ok = Keep(answer, places)
  OBVIOUS
<1>5. ok \in Seq(T) /\ \A k \in DOMAIN ok : \E m \in places : ok[k] = answer[m]
  <2>1. places \in SUBSET DOMAIN answer
    BY <1>3
  <2> QED BY <1>2, <1>4, <2>1, KeepLists
<1>6. PICK m \in Nat : DOMAIN ok = 1..m
  BY <1>5, SetOfSequence
<1>7. \A k \in 1..m : ok[k].pair \in DOMAIN pairs /\ ok[k].kind \in STRING
  <2>1. \A k \in 1..m : ok[k] \in T
    BY <1>5, <1>6
  <2>2. \A k \in 1..m : ok[k].kind \in STRING
    BY <1>1, <2>1
  <2> QED BY <1>3, <1>5, <1>6, <2>2
<1>8. \A l \in DOMAIN pairs : /\ pairs[l] \in ToSet(pairs) /\ pairs[l][1] \in 1..n /\ pairs[l][2] \in 1..n
                              /\ pairs[l][1] # pairs[l][2] /\ pairs[l] = <<pairs[l][1], pairs[l][2]>>
  <2>1. \A l \in DOMAIN pairs : pairs[l] \in Couples(n)
    OBVIOUS
  <2>2. \A p \in Couples(n) : p[1] \in 1..n /\ p[2] \in 1..n /\ p[1] # p[2] /\ p = <<p[1], p[2]>>
    BY DEF Couples
  <2> QED BY <2>1, <2>2 DEF ToSet
<1>9. PICK a : a = [k \in 1..m |-> IF ok[k].from = "B" THEN pairs[ok[k].pair][2] ELSE pairs[ok[k].pair][1]]
  OBVIOUS
<1>10. PICK b : b = [k \in 1..m |-> IF ok[k].from = "B" THEN pairs[ok[k].pair][1] ELSE pairs[ok[k].pair][2]]
  OBVIOUS
<1>11. PICK list : list = [k \in 1..m |-> [from |-> claims[a[k]].id, to |-> claims[b[k]].id, kind |-> ok[k].kind]]
  OBVIOUS
<1>12. ASSUME NEW k \in 1..m
       PROVE  LET ends == IF ok[k].from = "B" THEN <<pairs[ok[k].pair][2], pairs[ok[k].pair][1]>>
                          ELSE pairs[ok[k].pair]
              IN  ends[1] = a[k] /\ ends[2] = b[k]
  <2>1. CASE ok[k].from = "B"
    BY <1>9, <1>10, <2>1
  <2>2. CASE ok[k].from # "B"
    BY <1>9, <1>10, <2>2
  <2> QED BY <2>1, <2>2
<1>13. Relations(answer, pairs) = list
  BY <1>3, <1>4, <1>6, <1>11, <1>12 DEF Relations
<1>14. ASSUME NEW k \in 1..m
       PROVE  /\ a[k] \in 1..n /\ b[k] \in 1..n /\ a[k] # b[k]
              /\ \E p \in ToSet(pairs) : {a[k], b[k]} = {p[1], p[2]}
  <2>1. PICK l \in DOMAIN pairs : l = ok[k].pair
    BY <1>7
  <2>2. CASE ok[k].from = "B"
    BY <1>8, <1>9, <1>10, <2>1, <2>2
  <2>3. CASE ok[k].from # "B"
    BY <1>8, <1>9, <1>10, <2>1, <2>3
  <2> QED BY <2>2, <2>3
<1>15. ASSUME NEW k \in 1..m
       PROVE  /\ list[k] \in [from : RelationClaims, to : RelationClaims, kind : STRING]
              /\ \E p \in ToSet(pairs) :
                   {list[k].from, list[k].to} = {claims[p[1]].id, claims[p[2]].id} /\ list[k].from # list[k].to
  <2>1. list[k] = [from |-> claims[a[k]].id, to |-> claims[b[k]].id, kind |-> ok[k].kind]
    BY <1>11
  <2>2. list[k].from = claims[a[k]].id /\ list[k].to = claims[b[k]].id
    BY <2>1
  <2>3. claims[a[k]].id \in RelationClaims /\ claims[b[k]].id \in RelationClaims
    BY <1>14 DEF RelationClaims
  <2>4. list[k] \in [from : RelationClaims, to : RelationClaims, kind : STRING]
    BY <1>7, <2>1, <2>3
  <2>5. list[k].from # list[k].to
    BY <1>14, <2>2 DEF ClaimsListed
  <2>6. PICK p \in ToSet(pairs) : {a[k], b[k]} = {p[1], p[2]}
    BY <1>14
  <2>7. (a[k] = p[1] /\ b[k] = p[2]) \/ (a[k] = p[2] /\ b[k] = p[1])
    BY <2>6
  <2>8. {list[k].from, list[k].to} = {claims[p[1]].id, claims[p[2]].id}
    BY <2>2, <2>7
  <2> QED BY <2>4, <2>5, <2>8
<1>16. list \in Seq([from : RelationClaims, to : RelationClaims, kind : STRING]) /\ DOMAIN list = 1..m
  BY <1>11, <1>15
<1>17. Between(list, ToSet(pairs))
  BY <1>15, <1>16 DEF Between, ToSet
<1> QED BY <1>13, <1>16, <1>17

Unrelated == Settling \union {"attaching"}

\* What is still to be asked.
ToAsk == UNION {ToSet(todo[k]) : k \in DOMAIN todo}

RelationsInv ==
  /\ stage \in Unrelated => relations = << >> /\ asked = {}
  /\ stage \notin Unrelated =>
       /\ todo \in Seq(Seq(Couples(Len(claims))))
       /\ PolarityPairs \subseteq asked \union ToAsk
       /\ relations \in Seq([from : RelationClaims, to : RelationClaims, kind : STRING])
       /\ Between(relations, asked)
  /\ stage = "done" => todo = << >>

\* No claims, no pairs; else every candidate pair is in one of the batches.
LEMMA BeginRelates ==
  ASSUME NormInv, ClaimsListed, BeginRelations
  PROVE  /\ todo' \in Seq(Seq(Couples(Len(claims))))
         /\ PolarityPairs \subseteq UNION {ToSet(todo'[k]) : k \in DOMAIN todo'}
<1>1. PICK n \in Nat : n = Len(claims)
  BY CandidatesTyped
<1>2. PICK pairs \in SUBSET Couples(n) : pairs = TopPairs(TextScore) \union PolarityPairs
  BY <1>1, CandidatesTyped
<1>3. CASE n < 2
  <2>1. Couples(n) = {}
    <3>1. \A p \in Couples(n) : p[1] \in 1..n /\ p[2] \in 1..n /\ p[1] < p[2]
      BY DEF Couples
    <3>2. \A i, j \in 1..n : ~(i < j)
      BY <1>3
    <3> QED BY <3>1, <3>2
  <2>2. PolarityPairs = {}
    BY <1>2, <2>1
  <2>3. todo' = << >>
    BY <1>1, <1>3 DEF BeginRelations
  <2> QED BY <2>2, <2>3
<1>4. CASE n >= 2
  <2>1. PICK listed : listed = PairsInOrder(pairs)
    OBVIOUS
  <2>2. pairs \in SUBSET ((1..n) \X (1..n))
    BY <1>2 DEF Couples
  <2>3. listed \in Seq((1..n) \X (1..n)) /\ ToSet(listed) = pairs
    BY <2>1, <2>2, PairsListed
  <2>4. listed \in Seq(Couples(n))
    <3>1. \A k \in DOMAIN listed : listed[k] \in Couples(n)
      BY <1>2, <2>3 DEF ToSet
    <3>2. DOMAIN listed = 1..Len(listed) /\ Len(listed) \in Nat
      BY <2>3
    <3>3. PICK C : C = Couples(n)
      OBVIOUS
    <3>4. PICK D : D = (1..n) \X (1..n)
      OBVIOUS
    <3>5. listed \in Seq(D) /\ \A k \in DOMAIN listed : listed[k] \in C
      BY <2>3, <3>1, <3>3, <3>4
    <3>6. listed \in Seq(C)
      BY <3>2, <3>5
    <3> QED BY <3>3, <3>6
  <2>5. PICK batches : batches = Chunks(listed, MaxPairsAsked)
    OBVIOUS
  <2>6. MaxPairsAsked \in Nat \ {0}
    BY StagesAssumption
  <2>7. /\ batches \in Seq(Seq(Couples(n)))
        /\ \A p \in ToSet(listed) : \E k \in DOMAIN batches : p \in ToSet(batches[k])
    BY <2>4, <2>5, <2>6, ChunksHold
  <2>8. todo' = batches
    BY <1>1, <1>2, <1>4, <2>1, <2>5 DEF BeginRelations
  <2> QED BY <1>1, <1>2, <2>3, <2>7, <2>8
<1> QED BY <1>1, <1>3, <1>4

\* Polarity and ends are read off what no longer changes.
LEMMA RelatingFixes ==
  ASSUME UNCHANGED <<input, claims, options, cells>>
  PROVE  /\ PolarityPairs' = PolarityPairs /\ RelationClaims' = RelationClaims
         /\ Len(claims)' = Len(claims)
         /\ \A list, pairs : Between(list, pairs)' = Between(list, pairs)
<1>1. \A o, p : On(o, p)' = On(o, p)
  BY DEF On
<1>2. \A i, j : CrossModel(i, j)' = CrossModel(i, j)
  BY DEF CrossModel, ModelsOf, PositionsOf
<1>3. PolarityPairs' = PolarityPairs
  BY <1>1, <1>2 DEF PolarityPairs
<1> QED BY <1>3 DEF RelationClaims, Between

LEMMA RelationsStep ==
  ASSUME Normalized, RelationsInv, [Next]_vars
  PROVE  RelationsInv'
<1>1. CASE BeginRelations
  <2>1. /\ stage = "attaching" /\ stage' = "relating"
        /\ UNCHANGED <<input, claims, options, cells, relations, asked>>
    BY <1>1 DEF BeginRelations, graph, heard
  <2>2. NormInv /\ ClaimsListed
    BY <2>1, ClaimsFacts DEF Normalized, Merging
  <2>3. /\ todo' \in Seq(Seq(Couples(Len(claims))))
        /\ PolarityPairs \subseteq UNION {ToSet(todo'[k]) : k \in DOMAIN todo'}
    BY <1>1, <2>2, BeginRelates
  <2>4. relations' = << >> /\ asked' = {}
    BY <2>1 DEF RelationsInv, Unrelated
  <2>5. /\ relations' \in Seq([from : RelationClaims, to : RelationClaims, kind : STRING])
        /\ Between(relations', asked')
    BY <2>4 DEF Between, ToSet
  <2>6. stage' \notin Unrelated /\ stage' # "done"
    BY <2>1 DEF Unrelated, Settling, Merging
  <2>7. ToAsk' = UNION {ToSet(todo'[k]) : k \in DOMAIN todo'}
    BY DEF ToAsk, ToSet
  <2>8. PolarityPairs' = PolarityPairs /\ RelationClaims' = RelationClaims
        /\ Len(claims)' = Len(claims) /\ (Between(relations, asked))' = Between(relations', asked')
    BY <2>1, RelatingFixes
  <2> QED BY <2>3, <2>5, <2>6, <2>7, <2>8 DEF RelationsInv
<1>2. CASE RelateBatch
  <2>1. /\ stage = "relating" /\ todo # << >> /\ asked' = asked \union ToSet(Head(todo))
        /\ todo' = Tail(todo)
        /\ UNCHANGED <<input, stage, claims, options, cells>>
    BY <1>2 DEF RelateBatch
  <2>2. PICK answer \in RelationReplies : relations' = relations \o Relations(answer, Head(todo))
    BY <1>2 DEF RelateBatch
  <2>3. stage \notin Unrelated /\ stage' \notin Unrelated /\ stage' # "done"
    BY <2>1 DEF Unrelated, Settling, Merging
  <2>4. NormInv /\ ClaimsListed
    BY <2>1, ClaimsFacts DEF Normalized, Merging
  <2>5. PICK n \in Nat : n = Len(claims) /\ DOMAIN claims = 1..n
    BY <2>4, CandidatesTyped
  <2>6. PICK batches \in Seq(Seq(Couples(n))) : batches = todo /\ batches # << >>
    BY <2>1, <2>3, <2>5 DEF RelationsInv
  <2>7. PICK pairs : pairs = Head(batches)
    OBVIOUS
  <2>8. PICK rest : rest = Tail(batches)
    OBVIOUS
  <2>9. /\ pairs \in Seq(Couples(n)) /\ rest \in Seq(Seq(Couples(n)))
        /\ Len(rest) = Len(batches) - 1
        /\ \A k \in 1..Len(rest) : rest[k] = batches[k + 1]
    BY <2>6, <2>7, <2>8, HeadTailProperties
  <2>10. ToAsk \subseteq ToSet(pairs) \union UNION {ToSet(rest[k]) : k \in DOMAIN rest}
    <3>1. DOMAIN rest = 1..Len(rest) /\ DOMAIN batches = 1..Len(batches)
          /\ Len(rest) \in Nat /\ Len(batches) \in Nat /\ pairs = batches[1]
      BY <2>6, <2>7, <2>9
    <3>2. \A k \in DOMAIN batches : k = 1 \/ (k - 1 \in DOMAIN rest /\ rest[k - 1] = batches[k])
      BY <2>9, <3>1, SMTT(30)
    <3> QED BY <2>6, <3>1, <3>2 DEF ToAsk
  <2>11. ToAsk' = UNION {ToSet(rest[k]) : k \in DOMAIN rest}
    BY <2>1, <2>6, <2>8 DEF ToAsk, ToSet
  <2>12. PolarityPairs \subseteq asked' \union ToAsk'
    BY <2>1, <2>3, <2>6, <2>7, <2>10, <2>11 DEF RelationsInv
  <2>13. PICK T : T = [from : RelationClaims, to : RelationClaims, kind : STRING]
    OBVIOUS
  <2>14. PICK new : new = Relations(answer, pairs)
    OBVIOUS
  <2>15. new \in Seq(T) /\ Between(new, ToSet(pairs))
    BY <2>4, <2>5, <2>9, <2>13, <2>14, RelationsBetween
  <2>16. PICK old \in Seq(T) : old = relations /\ Between(old, asked)
    BY <2>3, <2>13 DEF RelationsInv
  <2>17. old \o new \in Seq(T) /\ ToSet(old \o new) = ToSet(old) \union ToSet(new)
    BY <2>15, <2>16, SetOfBoth
  <2>18. relations' = old \o new /\ asked' = asked \union ToSet(pairs)
    BY <2>1, <2>2, <2>6, <2>7, <2>14, <2>16
  <2>19. Between(old \o new, asked \union ToSet(pairs))
    BY <2>15, <2>16, <2>17 DEF Between
  <2>20. PolarityPairs' = PolarityPairs /\ RelationClaims' = RelationClaims
         /\ Len(claims)' = Len(claims) /\ (Between(relations, asked))' = Between(relations', asked')
    BY <2>1, RelatingFixes
  <2>21. todo' \in Seq(Seq(Couples(Len(claims))))
    BY <2>1, <2>5, <2>6, <2>8, <2>9
  <2>22. relations' \in Seq([from : RelationClaims, to : RelationClaims, kind : STRING])
         /\ Between(relations', asked')
    BY <2>13, <2>17, <2>18, <2>19
  <2> QED BY <2>3, <2>12, <2>20, <2>21, <2>22 DEF RelationsInv
<1>3. CASE Complete
  <2>1. /\ stage = "relating" /\ todo = << >> /\ stage' = "done"
        /\ UNCHANGED <<input, todo, claims, options, cells, relations, asked>>
    BY <1>3 DEF Complete, graph, heard
  <2>2. stage \notin Unrelated /\ stage' \notin Unrelated
    BY <2>1 DEF Unrelated, Settling, Merging
  <2>3. PolarityPairs' = PolarityPairs /\ RelationClaims' = RelationClaims
        /\ Len(claims)' = Len(claims) /\ (Between(relations, asked))' = Between(relations', asked')
    BY <2>1, RelatingFixes
  <2>4. ToAsk' = ToAsk
    BY <2>1 DEF ToAsk
  <2>5. Between(relations', asked') = Between(relations, asked)
    BY <2>1
  <2> QED BY <2>1, <2>2, <2>3, <2>4, <2>5 DEF RelationsInv
<1>4. CASE stage \in Unrelated /\ stage' \in Unrelated /\ UNCHANGED <<relations, asked>>
  BY <1>4 DEF RelationsInv, Unrelated, Settling, Merging
<1>5. CASE UNCHANGED vars
  <2>1. UNCHANGED <<input, stage, todo, claims, options, cells, relations, asked>>
    BY <1>5 DEF vars, graph, heard
  <2>2. PolarityPairs' = PolarityPairs /\ RelationClaims' = RelationClaims
        /\ Len(claims)' = Len(claims) /\ (Between(relations, asked))' = Between(relations', asked')
    BY <2>1, RelatingFixes
  <2>3. ToAsk' = ToAsk
    BY <2>1 DEF ToAsk
  <2>4. Between(relations', asked') = Between(relations, asked)
    BY <2>1
  <2> QED BY <2>1, <2>2, <2>3, <2>4 DEF RelationsInv
<1>6. GroupBatch \/ Stitch \/ Merge \/ Cluster \/ AttachChunk
        => stage \in Unrelated /\ stage' \in Unrelated /\ UNCHANGED <<relations, asked>>
  BY DEF GroupBatch, Stitch, Merge, Cluster, AttachChunk, graph, heard, Unrelated, Settling, Merging
<1> QED BY <1>1, <1>2, <1>3, <1>4, <1>5, <1>6 DEF Next

THEOREM OpponentsAreAsked == Spec => []OpponentsAreCompared
<1>1. Init => Normalized /\ RelationsInv
  BY NormalizedSafe DEF Init, RelationsInv, Unrelated, Settling, Merging
<1>2. Normalized /\ RelationsInv /\ [Next]_vars => (Normalized /\ RelationsInv)'
  BY NormalizedSafe, RelationsStep
<1>3. RelationsInv => OpponentsAreCompared
  <2>1. ASSUME RelationsInv, stage = "done"
        PROVE  /\ PolarityPairs \subseteq asked
               /\ Between(relations, asked)
    <3>1. stage \notin Unrelated /\ todo = << >>
      BY <2>1 DEF RelationsInv, Unrelated, Settling, Merging
    <3>2. ToAsk = {}
      BY <3>1 DEF ToAsk
    <3> QED BY <2>1, <3>1, <3>2 DEF RelationsInv
  <2>2. ASSUME NEW i \in DOMAIN claims, NEW j \in DOMAIN claims, NEW o \in ToSet(options),
               i \in On(o.id, "supports"), j \in On(o.id, "opposes"), CrossModel(i, j)
        PROVE  Ordered(i, j) \in PolarityPairs
    <3>1. PICK q : q = <<i, j>>
      OBVIOUS
    <3>2. q \in {x \in On(o.id, "supports") \X On(o.id, "opposes") : CrossModel(x[1], x[2])}
      BY <2>2, <3>1
    <3>3. Ordered(i, j) = Ordered(q[1], q[2])
      BY <3>1
    <3> QED BY <3>2, <3>3 DEF PolarityPairs
  <2> QED BY <2>1, <2>2 DEF OpponentsAreCompared, Between
<1> QED BY <1>1, <1>2, <1>3, PTL DEF Spec
=============================================================================
