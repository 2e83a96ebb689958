------------------------------ MODULE Judgement ------------------------------
(***************************************************************************)
(* The end of a run: what controller.decide resolved last, judge.evaluate  *)
(* and decision.synthesize, and what is printed of the result afterwards.  *)
(* What the judges' calls cost is in DebateRounds; here it is what they    *)
(* say, of whom, and where it goes.                                        *)
(*                                                                         *)
(* The nine marks of a scorecard are one number, clamped as each of them   *)
(* is: the mean of the rubric and its evidence_quality are that number.    *)
(***************************************************************************)
EXTENDS DecisionCore, TLC

CONSTANTS
  Panel,      \* the model of each position, in the order of the positions
  Jurors,     \* how many judges there are
  Answer,     \* what a judge may say: pairs of a pseudonym's number and a mark
  Ending,     \* what may have become of the claims when the rounds are over
  Matrix,     \* the direct cells options.cluster may have ended with
  Stop        \* reasons the controller may have stopped for

ASSUME JudgementAssumption ==
  /\ Panel \in Seq(Model)
  /\ Jurors \in Nat
  /\ Answer \subseteq Seq([pseudonym : Nat, mark : Int])
  /\ Ending \subseteq [Claim -> ClaimState]
  /\ \A cells \in Matrix : DOMAIN cells \subseteq Claim \X Option /\ \A k \in DOMAIN cells : cells[k] \in Cell

VARIABLES
  settled,    \* Canonical claims, as the rounds left them
  direct,     \* the direct cells
  graph,      \* controller_decision.v1: what the last round resolved
  order,      \* position shown under each pseudonym; <<>> until the shuffle
  answers,    \* what each judge said, in turn; <<>> of one that was not heard
  scores,     \* per_judge_scores
  record      \* synthesized_decision.v1; NoRecord until then

judgementVars == <<settled, direct, graph, order, answers, scores, record>>

NoRecord == [outcome |-> "none"]

CutShort == {"BudgetExhausted", "TokenLimit", "Deadline", "Cancelled", "ProviderFailure"}

JudgementInit ==
  /\ settled \in Ending
  /\ direct \in Matrix
  /\ graph = Resolve(settled, direct, NoMarks)
  /\ order = <<>>
  /\ answers = <<>>
  /\ scores = [m \in {} |-> <<>>]
  /\ record = NoRecord

---------------------------------------------------------------------------
\* build_dossiers: a Fisher-Yates shuffle with the run's seed, any order.
Shuffle ==
  /\ order = <<>>
  /\ order' \in {o \in [DOMAIN Panel -> DOMAIN Panel] : IsInjective(o)}
  /\ UNCHANGED <<settled, direct, graph, answers, scores, record>>

\* Mutant: the names stand for the positions in the order of the panel.
ModelAsListed(pseudonym) == Panel[pseudonym]

ModelNamed(pseudonym) == Panel[order[pseudonym]]

\* by_pseudonym: a mark under a name nobody has is of nobody.
Scorecards(said) ==
  [i \in DOMAIN said |->
     [of |-> IF said[i].pseudonym \in DOMAIN order THEN {ModelNamed(said[i].pseudonym)} ELSE {},
      mark |-> said[i].mark]]

\* The others all count, also a second one for the same position.
Push(cards, given) ==
  LET earlier(m) == IF m \in DOMAIN cards THEN cards[m] ELSE <<>>
  IN  [m \in DOMAIN cards \union given.of |->
         IF m \in given.of THEN Append(earlier(m), Clamp(given.mark)) ELSE cards[m]]

\* One judge after the other; one that is refused, fails or does not answer
\* in JSON says nothing.
Listen ==
  /\ order # <<>> \/ Panel = <<>>
  /\ Len(answers) < Jurors
  /\ \E said \in Answer :
       /\ answers' = Append(answers, said)
       /\ scores' = FoldLeft(Push, scores, Scorecards(said))
  /\ UNCHANGED <<settled, direct, graph, order, record>>

---------------------------------------------------------------------------
\* mean_scorecard
ScoresByModel == [m \in DOMAIN scores |-> MeanOf(scores[m])]

\* The authors of the claims that were written for the option: of the first
\* of them that has cards, those.
JudgesForConfidence(option) ==
  LET own == {c \in Claim : /\ <<c, option>> \in DOMAIN direct
                            /\ direct[<<c, option>>].source = "Authored"
                            /\ direct[<<c, option>>].polarity = "Supports"}
      judged == (UNION {authorsOf[c] : c \in own}) \intersect DOMAIN scores
  IN  IF judged = {} THEN <<>> ELSE scores[Min(judged)]

\* Stopped from outside, or by the controller.
Completeness(stop) == IF stop \in CutShort THEN stop ELSE "complete"

\* record::build: what would change the answer is what a flip makes win.
Record(resolved, shares, stop) ==
  LET top == Winner(shares)
      truncated == stop \in CutShort
  IN  [outcome |-> Outcome(resolved, shares, truncated),
       recommendation |-> top,
       options |-> shares,
       confidence |-> Confidence(resolved, shares, JudgesForConfidence(top), truncated,
                                 resolved.converged),
       standing |-> resolved.standing,
       classified |-> resolved.classified,
       triggers |-> {[claim |-> f.claim, direction |-> f.direction, newWinner |-> f.newWinner] :
                       f \in {f \in resolved.flips : f.newWinner # top}},
       completeness |-> Completeness(stop)]

\* decision.synthesize: the only resolution with the marks of the judges.
Decision(stop) ==
  LET resolved == Resolve(settled, direct, ScoresByModel)
  IN  Record(resolved, Shares(resolved.matrix, resolved.standing), stop)

WriteRecord ==
  /\ order # <<>> \/ Panel = <<>>
  /\ Len(answers) = Jurors
  /\ record = NoRecord
  /\ \E stop \in Stop : record' = Decision(stop)
  /\ UNCHANGED <<settled, direct, graph, order, answers, scores>>

JudgementNext == Shuffle \/ Listen \/ WriteRecord

JudgementSpec == JudgementInit /\ [][JudgementNext]_judgementVars

Decided == record # NoRecord

---------------------------------------------------------------------------
\* Where relations lead from some claims, and whose position somebody marked.
Downstream(from) ==
  {c \in Claim : \A S \in SUBSET Claim :
     from \subseteq S /\ (\A r \in Relation : r.from \in S => r.to \in S) => c \in S}

Read(m) ==
  \E j \in DOMAIN answers : \E i \in DOMAIN answers[j] :
    /\ answers[j][i].pseudonym \in DOMAIN order
    /\ Panel[order[answers[j][i].pseudonym]] = m

(***************************************************************************)
(* The standing of a claim is moved by the judges only if one of them      *)
(* marked what one of its authors wrote, under whatever name he read it,   *)
(* or what an author of a claim wrote from which relations lead to it.     *)
(* The names are restored by a map from the shuffle, the marks averaged by *)
(* model, the models matched with the members of the claims, and then the  *)
(* fixpoint spreads them.                                                  *)
(***************************************************************************)
MarksMoveTheirClaims ==
  Decided =>
    \A c \in Claim : record.standing[c] # graph.standing[c] =>
      c \in Downstream({d \in Claim : \E m \in authorsOf[d] : Read(m)})

\* The fixpoint with one claim held at a value, and what it makes win.
Held(c, value, evidence) ==
  LET hold(standing) == [standing EXCEPT ![c] = value]
      sweep[loop \in Loop] ==
        LET after == hold(Sweep(Relation, evidence, loop.standing))
        IN  IF loop.left = 0 THEN loop.standing ELSE sweep[[left |-> loop.left - 1, standing |-> after]]
  IN  sweep[[left |-> MaxIterations, standing |-> hold(evidence)]]

WinnerIfHeld(c) ==
  LET evidence == [d \in Claim |-> Evidence(d, settled[d], ScoresByModel)]
  IN  Winner(Shares(graph.matrix, Held(c, Extreme(record.standing, c), evidence)))

(***************************************************************************)
(* What the record says would change the answer does so, and nothing else: *)
(* were an unsettled claim held where it does not lean, whatever pulls at  *)
(* it, another option would win -- if and only if it is listed, with that  *)
(* option.  The code does not hold the claim: it changes its evidence,     *)
(* drops relations and solves again.                                       *)
(***************************************************************************)
TriggersAreReal ==
  Decided =>
    {<<t.claim, t.newWinner>> : t \in record.triggers}
      = {<<c, WinnerIfHeld(c)>> : c \in
           {c \in Claim : /\ record.classified[c] \in {"Disputed", "Unresolved"}
                          /\ WinnerIfHeld(c) # record.recommendation}}

(***************************************************************************)
(* What the controller stops for as converged is not undone by the record: *)
(* as long as no judge has moved anything, the outcome is no split, nor a  *)
(* majority over a claim that stands, and what could still change the      *)
(* answer is disputed and not merely unsupported.  The two tests share the *)
(* shares, the question whether dissent is alive and one threshold, and    *)
(* put them together in different ways.                                    *)
(***************************************************************************)
ConvergedIsSettled ==
  Decided /\ Converged(graph) /\ DOMAIN scores = {} =>
    /\ record.outcome # "SplitDecision"
    /\ record.outcome = "MajorityWithDissent" =>
         \E o \in Live \ {record.recommendation} : record.options[o] >= 200
    /\ \A t \in record.triggers : record.classified[t.claim] = "Disputed"

\* n relations lead from c to a direct supporter of the option, the first of one
\* of these kinds, the others from one supporter of it to the next.
Leads(c, o, n, kinds) ==
  \E path \in [0..n -> Claim] :
    /\ path[0] = c
    /\ \A i \in 1..n : <<path[i], o>> \in DOMAIN graph.matrix /\ graph.matrix[<<path[i], o>>].polarity = "Supports"
    /\ \A i \in 1..n : <<path[i], o>> \in DOMAIN direct <=> i = n
    /\ \E r \in Relation : r.from = c /\ r.to = path[1] /\ r.kind \in kinds
    /\ \A i \in 2..n : \E r \in Relation : r.from = path[i - 1] /\ r.to = path[i] /\ r.kind = "Supports"

(***************************************************************************)
(* A claim comes to bear on an option by propagation exactly if it was not *)
(* attached to it and a chain of relations leads from it within the depth, *)
(* over claims that support the option, to one that supports it directly;  *)
(* and how it bears is what the first relation of a shortest such chain    *)
(* makes of it.                                                            *)
(***************************************************************************)
PropagatesNearest ==
  \A c \in Claim, o \in Option :
    IF <<c, o>> \in DOMAIN direct
      THEN graph.matrix[<<c, o>>] = direct[<<c, o>>]
      ELSE LET against == {"Contradicts", "Qualifies"}
               lengths(kinds) == {n \in 1..PropagationDepth : Leads(c, o, n, kinds)}
               any == lengths({"Supports"} \union against)
           IN  /\ <<c, o>> \in DOMAIN graph.matrix <=> any # {}
               /\ any # {} =>
                    Min(any) \in lengths(IF graph.matrix[<<c, o>>].polarity = "Supports" THEN {"Supports"} ELSE against)

\* How far the roundings can add up: two for each step, and one in a sweep.
Slack(c) == 2 * Cardinality({r \in Relation : r.to = c}) + 1

(***************************************************************************)
(* explain.rs: the steps of a claim's chain, over the standings the last   *)
(* round stored, add up to how far it stands from its evidence -- a step   *)
(* is the share of the capped sum that is due to one relation.  Rounding   *)
(* is Slack.                                                               *)
(***************************************************************************)
ChainsExplainStanding ==
  graph.converged =>
    \A c \in Claim :
      LET explained == Clamp(graph.evidence[c] + SumFunction(DefeatChain(c, graph.standing)))
      IN  graph.standing[c] - explained \in -Slack(c)..Slack(c)

=============================================================================
