---------------------------- MODULE DecisionCore ----------------------------
(***************************************************************************)
(* What decision.synthesize computes from the argument graph, the options  *)
(* and the judges' marks (arbiter-core/decision: attachment, triggers,     *)
(* outcome, confidence, synthesize), and what `explain` says of a claim    *)
(* afterwards.  Operators only: Judgement is the stage that uses them.     *)
(***************************************************************************)
EXTENDS ArgumentGraph, SequencesExt

CONSTANTS
  Option,            \* option ids; numbers, since ties go to the smaller
  Retired,           \* options a merge has retired
  PropagationDepth   \* AttachmentParams

ASSUME DecisionAssumption ==
  /\ Option \subseteq Nat /\ IsFiniteSet(Option)
  /\ Retired \subseteq Option /\ Retired # Option
  /\ PropagationDepth \in Nat

Cell == [polarity : {"Supports", "Opposes", "Neutral"}, confidence : 0..Scale,
         source : {"Authored", "Classified", "Propagated"}]

---------------------------------------------------------------------------
(***************************************************************************)
(* propagate: a claim that bears on a supporter of an option bears on the  *)
(* option.  Each round reads the cells of the round before and leaves      *)
(* alone what is there.  Of several offers the surest is taken.            *)
(***************************************************************************)
Bearing(kind) == IF kind = "Supports" THEN "Supports" ELSE "Opposes"

BearingWeight(kind) == IF kind = "Qualifies" THEN 150 ELSE Scale

\* Mutant: a claim that opposes an option is a base to go on from as well.
OffersOfAny(cells, claim, option) ==
  {[polarity |-> Bearing(r.kind), source |-> "Propagated",
    confidence |-> Times(Times(cells[<<r.to, option>>].confidence, r.confidence),
                         BearingWeight(r.kind))] :
     r \in {r \in Relation : r.from = claim /\ <<r.to, option>> \in DOMAIN cells}}

Offers(cells, claim, option) ==
  {[polarity |-> Bearing(r.kind), source |-> "Propagated",
    confidence |-> Times(Times(cells[<<r.to, option>>].confidence, r.confidence),
                         BearingWeight(r.kind))] :
     r \in {r \in Relation : /\ r.from = claim
                             /\ <<r.to, option>> \in DOMAIN cells
                             /\ cells[<<r.to, option>>].polarity = "Supports"}}

Surest(offers) == CHOOSE o \in offers : \A p \in offers : p.confidence <= o.confidence

PropagateOnce(cells) ==
  LET new == {k \in (Claim \X Option) \ DOMAIN cells : Offers(cells, k[1], k[2]) # {}}
  IN  [k \in DOMAIN cells \union new |->
         IF k \in new THEN Surest(Offers(cells, k[1], k[2])) ELSE cells[k]]

Propagate(direct) ==
  LET after[n \in 0..PropagationDepth] ==
        IF n = 0 THEN direct ELSE PropagateOnce(after[n - 1])
  IN  after[PropagationDepth]

---------------------------------------------------------------------------
(* score_options, and rank_by_share. *)

Live == Option \ Retired

Bears(matrix, polarity, option) ==
  {c \in Claim : <<c, option>> \in DOMAIN matrix /\ matrix[<<c, option>>].polarity = polarity}

\* Twice raw, to stay among the integers, and not below zero.
Raw(matrix, standing, option) ==
  LET sum(S) == SumFunction([c \in S |-> standing[c]])
      raw == 2 * sum(Bears(matrix, "Supports", option)) - sum(Bears(matrix, "Opposes", option))
  IN  IF raw < 0 THEN 0 ELSE raw

Shares(matrix, standing) ==
  LET raw == [o \in Live |-> Raw(matrix, standing, o)]
      total == SumFunction(raw)
  IN  [o \in Live |-> IF total > 0 THEN (Scale * raw[o]) \div total ELSE 0]

Leading(shares, among) ==
  CHOOSE o \in among : \A p \in among \ {o} :
    shares[o] > shares[p] \/ (shares[o] = shares[p] /\ o < p)

Winner(shares) == Leading(shares, Live)

Margin(shares) ==
  LET others == Live \ {Winner(shares)}
  IN  shares[Winner(shares)] - (IF others = {} THEN 0 ELSE shares[Leading(shares, others)])

---------------------------------------------------------------------------
(***************************************************************************)
(* counterfactual_flips: the claim is put at the extreme away from where   *)
(* it leans, and no relation reaches it any more.                          *)
(***************************************************************************)
Extreme(standing, c) == IF standing[c] >= 500 THEN 0 ELSE Scale

Distance(x, y) == IF x < y THEN y - x ELSE x - y

\* Mutant: the relations into the claim still pull at it.
FlipWithItsRelations(c, evidence, standing, matrix) ==
  LET shares == Shares(matrix, SolveOver(Relation, [evidence EXCEPT ![c] = Extreme(standing, c)]).standing)
  IN  [claim |-> c, direction |-> Extreme(standing, c), newWinner |-> Winner(shares),
       leverage |-> Distance(Margin(shares), Margin(Shares(matrix, standing)))]

Flip(c, evidence, standing, matrix) ==
  LET flipped == SolveOver({r \in Relation : r.to # c},
                           [evidence EXCEPT ![c] = Extreme(standing, c)])
      shares == Shares(matrix, flipped.standing)
  IN  [claim |-> c, direction |-> Extreme(standing, c), newWinner |-> Winner(shares),
       leverage |-> Distance(Margin(shares), Margin(Shares(matrix, standing)))]

\* resolve_and_rank, up to the ranking itself.
Resolve(claims, direct, marks) ==
  LET evidence == [c \in Claim |-> Evidence(c, claims[c], marks)]
      solved == SolveOver(Relation, evidence)
      standing == solved.standing
      matrix == Propagate(direct)
  IN  [evidence |-> evidence, standing |-> standing, matrix |-> matrix,
       converged |-> solved.converged,
       classified |-> [c \in Claim |-> Classify(c, claims[c], standing)],
       flips |-> {Flip(c, evidence, standing, matrix) : c \in Candidates(claims, standing)}]

---------------------------------------------------------------------------
(* outcome::classify, with the ratios of synthesize.rs it is given. *)

Decisive(matrix, option) == Bears(matrix, "Supports", option) \union Bears(matrix, "Opposes", option)

Critical(matrix) == UNION {Decisive(matrix, o) : o \in Live}

Mean(f, S) == IF S = {} THEN 0 ELSE SumFunction([x \in S |-> f[x]]) \div Cardinality(S)

Share(part, whole) ==
  IF whole = {} THEN 0 ELSE (Scale * Cardinality(whole \intersect part)) \div Cardinality(whole)

EvidenceMass(graph, option) == Mean(graph.standing, Decisive(graph.matrix, option))

UnresolvedRatio(graph) ==
  Share({c \in Claim : graph.classified[c] \in {"Disputed", "Unresolved"}}, Critical(graph.matrix))

AssumptionRatio(graph) ==
  Share({c \in Claim : EffectiveKind(c) = "Assumption"}, Critical(graph.matrix))

LiveDissent(graph, option) ==
  \E c \in Bears(graph.matrix, "Opposes", option) : graph.standing[c] >= 300

\* The first rule that matches; a run cut short needs more evidence.
Outcome(graph, shares, truncated) ==
  LET top == Winner(shares)
      floor == IF truncated THEN 420 ELSE 350
  IN  IF EvidenceMass(graph, top) < floor \/ UnresolvedRatio(graph) > 400 \/ shares[top] < 200
        THEN "InsufficientEvidence"
      ELSE IF \E o \in Live \ {top} : shares[top] - shares[o] < 150 /\ shares[o] >= 200
        THEN "SplitDecision"
      ELSE IF /\ ~LiveDissent(graph, top)
              /\ \A o \in Live \ {top} : shares[o] < 200
              /\ EvidenceMass(graph, top) >= 350
        THEN "Consensus"
      ELSE "MajorityWithDissent"

---------------------------------------------------------------------------
(* controller::converged, with the margin that min_margin and the *)
(* controller's factor of 1.5 make.                               *)

\* Mutant: a claim against the top option is enough, whatever its lead.
ConvergedByDissent(graph) ==
  LET top == Winner(Shares(graph.matrix, graph.standing))
  IN  /\ ~LiveDissent(graph, top)
      /\ \A f \in graph.flips : graph.classified[f.claim] = "Unresolved" => f.newWinner = top

Converged(graph) ==
  LET shares == Shares(graph.matrix, graph.standing)
      top == Winner(shares)
  IN  /\ ~LiveDissent(graph, top)
      /\ Margin(shares) >= 225
      /\ \A f \in graph.flips : graph.classified[f.claim] = "Unresolved" => f.newWinner = top

---------------------------------------------------------------------------
(***************************************************************************)
(* confidence: three dimensions less the penalties, over the cards of one  *)
(* model, given in a sequence.                                             *)
(***************************************************************************)
MeanOf(cards) == IF cards = <<>> THEN 0 ELSE SumFunction(cards) \div Len(cards)

\* population_stdev, rounded down.
Spread(cards) ==
  LET variance == MeanOf([i \in DOMAIN cards |-> (cards[i] - MeanOf(cards)) * (cards[i] - MeanOf(cards))])
  IN  CHOOSE n \in 0..Scale : n * n <= variance /\ variance < (n + 1) * (n + 1)

\* Inactive with less than two cards.
Dispersion(cards) == IF Len(cards) < 2 THEN 0 ELSE Spread(cards)

Base(graph, shares, cards) ==
  Times(350, EvidenceMass(graph, Winner(shares))) + Times(300, Margin(shares)) + Times(350, MeanOf(cards))

Penalties(graph, cards, truncated, converged) ==
  Times(250, UnresolvedRatio(graph)) + Times(150, AssumptionRatio(graph))
    + (IF truncated THEN 100 ELSE 0) + (IF converged THEN 0 ELSE 50)
    + (IF Dispersion(cards) > 150 THEN Times(200, Dispersion(cards) - 150) ELSE 0)

Confidence(graph, shares, cards, truncated, converged) ==
  Clamp(Base(graph, shares, cards) - Penalties(graph, cards, truncated, converged))

---------------------------------------------------------------------------
(***************************************************************************)
(* defeat_chain_for: what each relation into a claim does to it, by the    *)
(* standings it is given.  A sum over its cap is scaled down, each         *)
(* relation's part with it; that of qualifications has no cap.             *)
(***************************************************************************)
Gain(kind) == CASE kind = "Supports" -> 250 [] kind = "Contradicts" -> -600 [] kind = "Qualifies" -> -150

Cap(kind) == IF kind = "Supports" THEN 2000 ELSE 1500

Weight(r, standing) == Times(r.confidence, standing[r.from])

\* Mutant: what the cap cuts off is not taken from the relations.
DeltaUncut(r, standing) == (Gain(r.kind) * Weight(r, standing)) \div Scale

Delta(r, standing) ==
  LET raw == Weighed(Relation, r.kind, r.to, standing)
      saturated == r.kind # "Qualifies" /\ raw > Cap(r.kind)
  IN  (Gain(r.kind) * (IF saturated THEN (Weight(r, standing) * Cap(r.kind)) \div raw
                                    ELSE Weight(r, standing))) \div Scale

DefeatChain(c, standing) == [r \in {r \in Relation : r.to = c} |-> Delta(r, standing)]
=============================================================================
