--------------------------- MODULE ArgumentGraph ---------------------------
(***************************************************************************)
(* The arithmetic that resolves the argument graph (arbiter-core/decision: *)
(* evidence, fixpoint, standing): from what has become of each claim to    *)
(* its standing, and from its standing to whether it is still in dispute.  *)
(*                                                                         *)
(* The f64s of the code are integers in units of 1/Scale here, rounded     *)
(* down after each product; the weights are those of config.rs.            *)
(***************************************************************************)
EXTENDS Integers, Sequences, FiniteSets, FiniteSetsExt, Functions

CONSTANTS
  Claim,       \* claim ids; a set of numbers, since ties go to the smaller
  Model,       \* model ids, numbers too
  authorsOf,   \* the models that asserted a claim, one member each
  providerOf,  \* the vendor of a model, also its correlation group
  kindOf,      \* EvidenceKind of a claim
  Grounded,    \* claims with a quoted or derived member
  Relation,    \* from, to, kind and confidence, in units of 1/Scale
  MaxIterations  \* of the fixpoint

Scale == 1000

EvidenceKind == {"Fact", "Inference", "Assumption", "Opinion", "Unverified"}

ASSUME GraphAssumption ==
  /\ Claim \subseteq Nat /\ IsFiniteSet(Claim)
  /\ Model \subseteq Nat /\ IsFiniteSet(Model)
  /\ authorsOf \in [Claim -> (SUBSET Model) \ {{}}]
  /\ kindOf \in [Claim -> EvidenceKind]
  /\ Grounded \subseteq Claim
  /\ MaxIterations \in Nat /\ IsFiniteSet(Relation)
  /\ Relation \subseteq [from : Claim, to : Claim, confidence : 0..Scale,
                         kind : {"Supports", "Contradicts", "Qualifies"}]

---------------------------------------------------------------------------
(***************************************************************************)
(* What has become of a claim: its lifecycle, the number in Modified, and  *)
(* the numbers of the revisions it was given as members, in order.         *)
(***************************************************************************)
Lifecycle == {"Proposed", "Challenged", "Defended", "Modified", "Withdrawn"}

ClaimState == [lifecycle : Lifecycle, version : Nat, revisions : Seq(Nat)]

Asserted == [lifecycle |-> "Proposed", version |-> 0, revisions |-> <<>>]

Providers(c) == {providerOf[m] : m \in authorsOf[c]}

Times(x, y) == (x * y) \div Scale

\* A revision is an Unsupported member: it grounds nothing.
EffectiveKind(c) == IF c \in Grounded THEN kindOf[c] ELSE "Unverified"

KindWeight(kind) ==
  CASE kind = "Fact" -> 1000 [] kind = "Inference" -> 750 [] kind = "Assumption" -> 500
    [] kind = "Opinion" -> 350 [] kind = "Unverified" -> 150

SurvivalWeight(lifecycle) ==
  CASE lifecycle \in {"Proposed", "Defended"} -> 1000 [] lifecycle = "Challenged" -> 900
    [] lifecycle = "Modified" -> 700 [] lifecycle = "Withdrawn" -> 0

\* Members of one vendor beyond the first count a quarter.
Independence(c, state) ==
  LET members == Cardinality(authorsOf[c]) + Len(state.revisions)
      groups == Cardinality(Providers(c))
  IN  (1000 * groups + 250 * (members - groups)) \div members

Corroboration(c) == IF Cardinality(Providers(c)) = 1 THEN 850 ELSE 1000

\* Nobody has been judged; evidence_quality by model, where somebody has.
NoMarks == [m \in {} |-> 0]

\* A revision is a member of the first author, who was asked to defend.
MembersOf(m, c, state) == IF m = Min(authorsOf[c]) THEN 1 + Len(state.revisions) ELSE 1

\* Members whose model was not marked do not count; no member, no discount.
JudgeFactor(c, state, marks) ==
  LET judged == authorsOf[c] \intersect DOMAIN marks
  IN  IF judged = {}
        THEN Scale
        ELSE 600 + Times(400, SumFunction([m \in judged |-> marks[m] * MembersOf(m, c, state)])
                                \div SumFunction([m \in judged |-> MembersOf(m, c, state)]))

Evidence(c, state, marks) ==
  Times(Times(Times(KindWeight(EffectiveKind(c)), SurvivalWeight(state.lifecycle)),
              Times(Independence(c, state), Corroboration(c))),
        JudgeFactor(c, state, marks))

---------------------------------------------------------------------------
CapAt(cap, x) == IF x > cap THEN cap ELSE x

Clamp(x) == IF x < 0 THEN 0 ELSE CapAt(Scale, x)

\* Confidence times standing, over the edges of one kind into c.
Weighed(edges, kind, c, standing) ==
  SumFunction([r \in {r \in edges : r.kind = kind /\ r.to = c} |-> Times(r.confidence, standing[r.from])])

\* E + 0.25 min(support, 2) - 0.60 min(attack, 1.5) - 0.15 qualification.
Target(edges, c, e, standing) ==
  Clamp(e + Times(250, CapAt(2000, Weighed(edges, "Supports", c, standing)))
          - Times(600, CapAt(1500, Weighed(edges, "Contradicts", c, standing)))
          - Times(150, Weighed(edges, "Qualifies", c, standing)))

\* A damped sweep: every claim half way to its target, by the standings before it.
Sweep(edges, evidence, before) ==
  [c \in Claim |-> (before[c] + Target(edges, c, evidence[c], before)) \div 2]

\* Where the loop of solve is: how many sweeps it may still make, and from where.
Loop == [left : 0..MaxIterations, standing : [Claim -> 0..Scale]]

\* solve: until a sweep moves nothing (the code: by less than epsilon).
SolveOver(edges, evidence) ==
  LET sweep[loop \in Loop] ==
        LET after == Sweep(edges, evidence, loop.standing)
        IN  IF loop.left = 0 THEN [standing |-> loop.standing, converged |-> FALSE]
            ELSE IF after = loop.standing THEN [standing |-> after, converged |-> TRUE]
            ELSE sweep[[left |-> loop.left - 1, standing |-> after]]
  IN  sweep[[left |-> MaxIterations, standing |-> evidence]]

Solve(claims) == SolveOver(Relation, [c \in Claim |-> Evidence(c, claims[c], NoMarks)]).standing

---------------------------------------------------------------------------
\* has_live_attacker
Attacked(c, standing) ==
  \E r \in Relation : r.kind = "Contradicts" /\ r.to = c /\ standing[r.from] >= 300

\* classify: the first rule that matches.
Classify(c, state, standing) ==
  IF standing[c] < 150 \/ state.lifecycle = "Withdrawn" THEN "Defeated"
  ELSE IF Attacked(c, standing) THEN "Disputed"
  ELSE IF EffectiveKind(c) = "Unverified" /\ state.lifecycle \notin {"Defended", "Modified"}
    THEN "Unresolved"
  ELSE IF standing[c] >= 500 THEN "Agreed" ELSE "Unresolved"

\* The claims disputes are ranked over.
Candidates(claims, standing) ==
  {c \in Claim : Classify(c, claims[c], standing) \in {"Disputed", "Unresolved"}}

\* contested_mass: the mean standing of those that attack c or support it.
ContestedMass(c, standing) ==
  LET edges == {r \in Relation : r.to = c /\ r.kind \in {"Contradicts", "Supports"}}
  IN  IF edges = {} THEN 0
      ELSE Clamp(SumFunction([r \in edges |-> standing[r.from]]) \div Cardinality(edges))

\* dispute_priority but for resolution_cost, which is one number for all the
\* disputes of a ranking.
Priority(c, state, standing, leverage) ==
  Times(350, ContestedMass(c, standing)) + Times(350, leverage)
    + Times(200, Clamp(Scale - Evidence(c, state, NoMarks)))
===========================================================================
