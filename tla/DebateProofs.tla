------------------------- MODULE DebateProofs -------------------------
(***************************************************************************)
(* Theorems about the two halves of a debate, for every value of their     *)
(* constants.  First DebateRounds, the loop of rounds: what the fixpoint   *)
(* computes plays no part there, the standings are left untyped.  Then     *)
(* Judgement, the end of a run after the last round, over DecisionCore:    *)
(* there the fixpoint, the shares, the flips and the propagation are       *)
(* unfolded, with the sums and the folds of FoldLemmas.                    *)
(***************************************************************************)
EXTENDS DebateRounds, Judgement, FiniteSetTheorems, TLAPS

\* challenge.plan looks at a dispute once, and plans one pair for it at most.
OnePairEach ==
  /\ \A i, j \in DOMAIN pairs : pairs[i].claim = pairs[j].claim => i = j
  /\ phase = "plan" => \A i \in DOMAIN pairs : pairs[i].claim \notin ranked

\* The cache only holds what the stage can be told, and what it took, parsed.
RepliesFit ==
  /\ \A p \in Prompt : heard[p] \in Replies(p[1]) \union {Silence}
  /\ phase = "rebut" =>
       \A i \in DOMAIN item : Reached(i) => heard[PromptOf(i)] \in {"defend", "modify", "withdraw"}

LoopInv == LoopTypeOK /\ OnePairEach /\ RepliesFit

---------------------------------------------------------------------------
\* What one pair's future leaves alone, and what it may do.
LEMMA ExchangeFrame ==
  ASSUME NEW i \in DOMAIN item, Exchange(i)
  PROVE  /\ Calling
         /\ item[i] \in {"todo", "asking"}
         /\ UNCHANGED <<phase, round, claims, resolved, ranked, pairs, seated, control, signals>>
         /\ \E how \in {"asking", "dropped", "replied"} : Settle(i, how)
BY DEF Exchange, Skip, Reuse, Ask, Answered, Unanswered, MayBegin, Take, Settle, signals

\* A pair is of a claim, and every prompt of a stage is a prompt.
LEMMA PairFacts ==
  ASSUME LoopTypeOK, Calling, NEW i \in DOMAIN pairs
  PROVE  /\ pairs[i] \in Pair
         /\ pairs[i].claim \in Claim
         /\ PromptOf(i) \in Prompt
         /\ PromptOf(i)[1] = phase
<1>1. pairs[i] \in Pair
  BY DEF LoopTypeOK
<1> QED
  BY <1>1 DEF LoopTypeOK, Calling, PromptOf, Prompt, Pair

\* The controller only continues below the limit on rounds, and uncancelled.
LEMMA ContinueFacts ==
  ASSUME NEW converged \in BOOLEAN, NEW delta, Control(converged, delta) = "Continue"
  PROVE  ~cancelled /\ ~(round >= MaxRounds)
BY DEF Control

\* What the controller may decide.
LEMMA ControlType ==
  ASSUME NEW converged \in BOOLEAN, NEW delta
  PROVE  Control(converged, delta) \in StopReason \union {"Continue"}
BY DEF Control, StopReason

---------------------------------------------------------------------------
\* An exchange keeps the types.
LEMMA TypeExchange ==
  ASSUME LoopInv, NEW i \in DOMAIN item, Exchange(i)
  PROVE  LoopTypeOK'
<1> USE LoopAssumption DEF LoopInv
<1>1. /\ Calling
      /\ UNCHANGED <<phase, round, claims, resolved, ranked, pairs, seated, control, signals>>
      /\ \E how \in {"asking", "dropped", "replied"} : Settle(i, how)
  BY ExchangeFrame
<1>2. i \in DOMAIN pairs
  BY <1>1 DEF LoopTypeOK
<1>3. item' \in [DOMAIN item' -> Item] /\ DOMAIN item' = DOMAIN item
  BY <1>1 DEF LoopTypeOK, Settle, Item
<1>4. Calling' = Calling
  BY <1>1 DEF Calling
<1>5. heard' \in [Prompt -> Reply \union {Silence}]
  <2>1. CASE UNCHANGED heard
    BY <2>1 DEF LoopTypeOK
  <2>2. ASSUME NEW reply \in Replies(phase), NEW cost \in ActualCost, Answered(i, reply, cost)
        PROVE  heard' \in [Prompt -> Reply \union {Silence}]
    <3>1. reply \in Reply
      BY <1>1 DEF Reply, Replies, Calling, Stage
    <3> QED
      BY <2>2, <3>1 DEF Answered, LoopTypeOK
  <2> QED
    BY <2>1, <2>2 DEF Exchange, Skip, Reuse, Ask, Unanswered
<1>6. left' \in Int
  <2>1. ASSUME NEW reply \in Replies(phase), NEW cost \in ActualCost, Answered(i, reply, cost)
        PROVE  left' \in Int
    <3>1. cost \in Int /\ CallCost \in Int /\ left \in Int
      BY DEF LoopTypeOK
    <3> QED
      BY <2>1, <3>1 DEF Answered
  <2>2. left \in Int /\ CallCost \in Int
    BY DEF LoopTypeOK
  <2> QED
    BY <2>1, <2>2 DEF Exchange, Skip, Reuse, Ask, Unanswered, Retrieved, purse
<1>7. held' \subseteq Reservation
  <2>1. ReservationOf(i) \in Reservation
    BY <1>1, <1>2, PairFacts DEF ReservationOf, Reservation, Pair, Calling, Stage
  <2> QED
    BY <2>1 DEF Exchange, Skip, Reuse, Ask, Unanswered, Answered, purse, LoopTypeOK
<1>8. overran' \in BOOLEAN /\ news' \in BOOLEAN
  BY DEF Exchange, Skip, Reuse, Ask, Unanswered, Answered, purse, LoopTypeOK
<1> QED
  BY <1>1, <1>3, <1>4, <1>5, <1>6, <1>7, <1>8 DEF LoopTypeOK, signals

\* What a stage hands on stays a state of a claim.
LEMMA RebuttedType ==
  ASSUME NEW state \in ClaimState, NEW outcome \in {"defend", "modify", "withdraw"}
  PROVE  Rebutted(state, outcome) \in ClaimState
<1>1. NextVersion(state) \in Nat
  BY DEF NextVersion, ClaimState
<1>2. CASE outcome = "defend"
  BY <1>2 DEF Rebutted, ClaimState, Lifecycle
<1>3. CASE outcome = "withdraw"
  BY <1>3 DEF Rebutted, ClaimState, Lifecycle
<1>4. CASE outcome = "modify"
  <2>1. Append(state.revisions, NextVersion(state)) \in Seq(Nat)
    BY <1>1 DEF ClaimState
  <2> QED
    BY <1>1, <1>4, <2>1 DEF Rebutted, ClaimState, Lifecycle
<1> QED
  BY <1>2, <1>3, <1>4

LEMMA ChallengedType ==
  ASSUME LoopInv, EndChallenge
  PROVE  claims' \in [Claim -> ClaimState]
<1>1. ASSUME NEW c \in Claim
      PROVE  [claims[c] EXCEPT !.lifecycle = "Challenged"] \in ClaimState
  BY DEF LoopInv, LoopTypeOK, ClaimState, Lifecycle
<1> QED
  BY <1>1 DEF LoopInv, LoopTypeOK, EndChallenge

LEMMA RebutType ==
  ASSUME LoopInv, EndRebut
  PROVE  claims' \in [Claim -> ClaimState]
<1> DEFINE of(c) == CHOOSE i \in DOMAIN pairs : pairs[i].claim = c /\ Reached(i)
<1>1. ASSUME NEW c \in Claim, \E i \in DOMAIN pairs : pairs[i].claim = c /\ Reached(i)
      PROVE  Rebutted(claims[c], heard[PromptOf(of(c))]) \in ClaimState
  <2>1. of(c) \in DOMAIN pairs /\ Reached(of(c))
    BY <1>1
  <2>2. DOMAIN item = DOMAIN pairs
    BY DEF EndRebut, LoopInv, LoopTypeOK, Calling, Stage
  <2>3. heard[PromptOf(of(c))] \in {"defend", "modify", "withdraw"}
    BY <2>1, <2>2 DEF EndRebut, LoopInv, RepliesFit
  <2> HIDE DEF of
  <2> QED
    BY <2>3, RebuttedType DEF LoopInv, LoopTypeOK
<1>2. claims' = [c \in Claim |->
        IF \E i \in DOMAIN pairs : pairs[i].claim = c /\ Reached(i)
          THEN Rebutted(claims[c], heard[PromptOf(of(c))])
          ELSE claims[c]]
  BY DEF EndRebut
<1>3. \A c \in Claim : claims[c] \in ClaimState
  BY DEF LoopInv, LoopTypeOK
<1> HIDE DEF of
<1> QED
  BY <1>1, <1>2, <1>3

\* A judge is one more of them, and may leave a debt.
LEMMA HearTypes ==
  ASSUME NEW cost \in Int, left \in Int, seated \in 0..Judges, Judges \in Nat, overran \in BOOLEAN, Hear(cost)
  PROVE  left' \in Int /\ seated' \in 0..Judges /\ overran' \in BOOLEAN
<1>1. left' = left - cost /\ seated' = seated + 1 /\ seated < Judges /\ overran' = (overran \/ cost > CallCost)
  BY DEF Hear
<1>2. seated' \in 0..Judges
  BY <1>1
<1>3. left' \in Int
  BY <1>1
<1>4. overran' \in BOOLEAN
  BY <1>1
<1> QED
  BY <1>2, <1>3, <1>4

\* No step leaves the types.
LEMMA TypeStep ==
  ASSUME LoopInv, [Next]_loopVars
  PROVE  LoopTypeOK'
<1> USE LoopAssumption DEF LoopInv, LoopTypeOK, Calling, Stage, Phase, purse, signals
<1>1. ASSUME NEW c \in Claim, Consider(c) PROVE LoopTypeOK'
  <2>1. pairs' \in Seq(Pair)
    <3>1. pairs \in Seq(Pair)
      OBVIOUS
    <3>2. pairs' = pairs \/ \E p \in Pair : pairs' = Append(pairs, p)
      BY <1>1 DEF Consider, Openings
    <3>3. ASSUME NEW p \in Pair PROVE Append(pairs, p) \in Seq(Pair)
      BY <3>1
    <3> QED
      BY <3>1, <3>2, <3>3
  <2>2. ranked' \subseteq Claim /\ phase = "plan"
    BY <1>1 DEF Consider
  <2>3. UNCHANGED <<phase, round, claims, resolved, item, heard, left, held, overran, seated,
                    control, news, cancelled, expired>>
    BY <1>1 DEF Consider
  <2> QED
    BY <2>1, <2>2, <2>3
<1>2. CASE EndPlan
  <2>1. item' \in [DOMAIN item' -> Item] /\ DOMAIN item' = DOMAIN pairs'
    BY <1>2 DEF EndPlan, Item
  <2> QED
    BY <1>2, <2>1 DEF EndPlan
<1>3. ASSUME NEW i \in DOMAIN item, Exchange(i) PROVE LoopTypeOK'
  BY <1>3, TypeExchange
<1>4. CASE EndChallenge
  <2>1. item' \in [DOMAIN item' -> Item] /\ DOMAIN item' = DOMAIN pairs'
    BY <1>4 DEF EndChallenge, Item
  <2> QED
    BY <1>4, <2>1, ChallengedType DEF EndChallenge
<1>5. CASE EndRebut
  BY <1>5, RebutType DEF EndRebut
<1>6. CASE Decide
  <2>1. resolved'.claims \in [Claim -> ClaimState]
    BY <1>6 DEF Decide, Resolution
  <2>2. control' \in StopReason \union {"Continue"}
    BY <1>6, ControlType DEF Decide
  <2>3. round' \in 1..MaxRounds /\ ranked' \subseteq Claim
    <3>1. CASE control' = "Continue"
      <4>1. ~(round >= MaxRounds)
        BY <1>6, <3>1, ContinueFacts DEF Decide
      <4> QED
        BY <1>6, <3>1, <4>1, SMTT(30) DEF Decide, Candidates
    <3>2. CASE control' # "Continue"
      BY <1>6, <3>2 DEF Decide
    <3> QED
      BY <3>1, <3>2
  <2>4. pairs' \in Seq(Pair) /\ item' \in [DOMAIN item' -> Item]
    <3>1. pairs' = <<>> /\ item' = <<>>
      BY <1>6 DEF Decide
    <3>2. <<>> \in Seq(Pair) /\ <<>> \in [DOMAIN <<>> -> Item]
      OBVIOUS
    <3> QED
      BY <3>1, <3>2
  <2>5. phase' \in {"plan", "judge"} /\ ~Calling'
    BY <1>6 DEF Decide
  <2> QED
    BY <1>6, <2>1, <2>2, <2>3, <2>4, <2>5 DEF Decide
<1>7. CASE PassOver
  BY <1>7, SMTT(30) DEF PassOver
<1>8. ASSUME NEW cost \in ActualCost \union {0, CallCost}, Hear(cost) PROVE LoopTypeOK'
  <2>1. cost \in Int
    OBVIOUS
  <2>2. left' \in Int /\ seated' \in 0..Judges /\ overran' \in BOOLEAN
    BY <1>8, <2>1, HearTypes
  <2>3. UNCHANGED <<phase, round, claims, resolved, ranked, pairs, item, heard, held,
                    control, news, cancelled, expired>>
    BY <1>8 DEF Hear
  <2> QED
    BY <2>2, <2>3
<1>9. CASE Synthesize
  BY <1>9 DEF Synthesize
<1>10. CASE Fail \/ Cancel \/ Expire
  BY <1>10 DEF Fail, Cancel, Expire
<1>11. CASE UNCHANGED loopVars
  BY <1>11 DEF loopVars
<1> QED
  BY <1>1, <1>2, <1>3, <1>4, <1>5, <1>6, <1>7, <1>8, <1>9, <1>10, <1>11
     DEF Next, Pipeline, Judge, Rest

---------------------------------------------------------------------------
\* The actions that leave the stages and what they know alone.
Outside ==
  \/ PassOver \/ (\E cost \in ActualCost \union {0, CallCost} : Hear(cost)) \/ Synthesize
  \/ Fail \/ Cancel \/ Expire \/ UNCHANGED loopVars

LEMMA OutsideFrame ==
  ASSUME Outside
  PROVE  /\ UNCHANGED <<round, claims, resolved, ranked, pairs, item, heard, held, control, news>>
         /\ phase' = phase \/ phase' \in {"synthesized", "failed"}
BY DEF Outside, PassOver, Hear, Synthesize, Fail, Cancel, Expire, loopVars, purse

LEMMA NextCases ==
  ASSUME [Next]_loopVars
  PROVE  \/ \E c \in Claim : Consider(c)
         \/ \E i \in DOMAIN item : Exchange(i)
         \/ EndPlan \/ EndChallenge \/ EndRebut \/ Decide
         \/ Outside
BY DEF Next, Pipeline, Judge, Rest, Outside

\* A pair is only added for a dispute that is then no longer ranked.
LEMMA OnePairStep ==
  ASSUME LoopInv, [Next]_loopVars
  PROVE  OnePairEach'
<1> USE DEF LoopInv, OnePairEach
<1>1. ASSUME NEW c \in Claim, Consider(c) PROVE OnePairEach'
  <2>1. CASE UNCHANGED pairs
    BY <1>1, <2>1 DEF Consider
  <2>2. ASSUME NEW p \in Openings(c, pairs), pairs' = Append(pairs, p) PROVE OnePairEach'
    <3>1. pairs \in Seq(Pair) /\ p \in Pair /\ p.claim = c
      BY <2>2 DEF LoopTypeOK, Openings
    <3>2. /\ DOMAIN pairs' = 1..(Len(pairs) + 1)
          /\ DOMAIN pairs = 1..Len(pairs)
          /\ Len(pairs) \in Nat
          /\ pairs'[Len(pairs) + 1] = p
          /\ \A i \in 1..Len(pairs) : pairs'[i] = pairs[i]
      BY <2>2, <3>1
    <3>3. \A i \in DOMAIN pairs : pairs[i].claim # c
      BY <1>1 DEF Consider
    <3>4. \A i \in DOMAIN pairs' : i = Len(pairs) + 1 \/ i \in DOMAIN pairs
      BY <3>2
    <3>5. \A i, j \in DOMAIN pairs' : pairs'[i].claim = pairs'[j].claim => i = j
      BY <3>1, <3>2, <3>3, <3>4
    <3>6. \A i \in DOMAIN pairs' : pairs'[i].claim \notin ranked'
      BY <1>1, <3>1, <3>2, <3>4 DEF Consider
    <3> QED
      BY <3>5, <3>6
  <2> QED
    BY <1>1, <2>1, <2>2 DEF Consider
<1>2. ASSUME NEW i \in DOMAIN item, Exchange(i) PROVE OnePairEach'
  BY <1>2, ExchangeFrame
<1>3. CASE EndPlan \/ EndChallenge \/ EndRebut
  BY <1>3 DEF EndPlan, EndChallenge, EndRebut
<1>4. CASE Decide
  <2>1. DOMAIN pairs' = {}
    BY <1>4 DEF Decide
  <2> QED
    BY <2>1
<1>5. CASE Outside
  BY <1>5, OutsideFrame
<1> QED
  BY <1>1, <1>2, <1>3, <1>4, <1>5, NextCases

\* What is cached for a pair is what its own call came back with.
LEMMA RepliesStep ==
  ASSUME LoopInv, [Next]_loopVars
  PROVE  RepliesFit'
<1> USE DEF LoopInv, RepliesFit
<1>1. ASSUME NEW i \in DOMAIN item, Exchange(i) PROVE RepliesFit'
  <2>1. /\ Calling /\ UNCHANGED <<phase, pairs>>
        /\ \E how \in {"asking", "dropped", "replied"} : Settle(i, how)
    BY <1>1, ExchangeFrame
  <2>2. DOMAIN item = DOMAIN pairs /\ DOMAIN item' = DOMAIN item
    BY <2>1 DEF LoopTypeOK, Settle
  <2>3. ASSUME NEW j \in DOMAIN item, j # i
        PROVE  item'[j] = item[j] /\ PromptOf(j)' = PromptOf(j) /\ PromptOf(j) # PromptOf(i)
    BY <2>1, <2>2, <2>3 DEF LoopTypeOK, Settle, PromptOf, OnePairEach
  <2>4. PromptOf(i) \in Prompt /\ PromptOf(i)[1] = phase /\ PromptOf(i)' = PromptOf(i)
    BY <2>1, <2>2, PairFacts DEF PromptOf
  <2>5. ASSUME NEW reply \in Replies(phase), NEW cost \in ActualCost, Answered(i, reply, cost)
        PROVE  RepliesFit'
    <3>1. heard' = [heard EXCEPT ![PromptOf(i)] = reply]
      BY <2>5 DEF Answered
    <3>2. \A p \in Prompt : heard'[p] \in Replies(p[1]) \union {Silence}
      BY <2>4, <3>1 DEF LoopTypeOK
    <3>3. ASSUME phase = "rebut", NEW j \in DOMAIN item', Reached(j)'
          PROVE  heard'[PromptOf(j)'] \in {"defend", "modify", "withdraw"}
      <4>1. CASE j # i
        BY <2>2, <2>3, <3>1, <3>3, <4>1 DEF Reached, LoopTypeOK
      <4>2. CASE j = i
        <5>1. reply # "garbage"
          BY <2>2, <2>5, <3>3, <4>2 DEF Answered, Take, Settle, Reached, LoopTypeOK
        <5>2. heard'[PromptOf(i)] = reply
          BY <2>4, <3>1 DEF LoopTypeOK
        <5>3. reply \in {"defend", "modify", "withdraw"}
          BY <2>5, <3>3, <5>1 DEF Replies
        <5> QED
          BY <2>4, <4>2, <5>2, <5>3
      <4> QED
        BY <4>1, <4>2
    <3> QED
      BY <2>1, <3>2, <3>3
  <2>6. CASE Skip(i) \/ Reuse(i) \/ Ask(i) \/ Unanswered(i)
    <3>1. ASSUME phase = "rebut", NEW j \in DOMAIN item', Reached(j)'
          PROVE  heard[PromptOf(j)'] \in {"defend", "modify", "withdraw"}
      <4>1. CASE j # i
        BY <2>2, <2>3, <3>1, <4>1 DEF Reached
      <4>2. CASE j = i
        <5>1. Reuse(i)
          <6>1. ~Settle(i, "dropped") /\ ~Settle(i, "asking")
            BY <2>2, <3>1, <4>2 DEF Settle, Reached, LoopTypeOK
          <6> QED
            BY <2>6, <6>1 DEF Skip, Ask, Unanswered
        <5>2. heard[PromptOf(i)] # Silence /\ heard[PromptOf(i)] # "garbage"
          BY <2>2, <3>1, <4>2, <5>1 DEF Reuse, Take, Settle, Reached, LoopTypeOK
        <5>3. heard[PromptOf(i)] \in Replies("rebut") \union {Silence}
          BY <2>4, <3>1
        <5> QED
          BY <2>4, <4>2, <5>2, <5>3 DEF Replies
      <4> QED
        BY <4>1, <4>2
    <3>2. UNCHANGED heard
      BY <2>6 DEF Skip, Reuse, Ask, Unanswered
    <3> QED
      BY <2>1, <3>1, <3>2
  <2> QED
    BY <1>1, <2>5, <2>6 DEF Exchange
<1>2. ASSUME NEW c \in Claim, Consider(c) PROVE RepliesFit'
  BY <1>2 DEF Consider
<1>3. CASE EndPlan \/ EndRebut \/ Decide
  BY <1>3 DEF EndPlan, EndRebut, Decide
<1>4. CASE EndChallenge
  BY <1>4 DEF EndChallenge, Reached
<1>5. CASE Outside
  BY <1>5, OutsideFrame DEF Reached, PromptOf
<1> QED
  BY <1>1, <1>2, <1>3, <1>4, <1>5, NextCases

LEMMA LoopInit == Init => LoopInv
<1> SUFFICES ASSUME Init PROVE LoopInv
  OBVIOUS
<1> USE LoopAssumption DEF Init
<1>1. Asserted \in ClaimState
  BY DEF Asserted, ClaimState, Lifecycle
<1>2. pairs \in Seq(Pair) /\ DOMAIN pairs = {} /\ item \in [DOMAIN item -> Item]
  <2>1. pairs = <<>> /\ item = <<>>
    OBVIOUS
  <2>2. <<>> \in Seq(Pair) /\ DOMAIN <<>> = {} /\ <<>> \in [DOMAIN <<>> -> Item]
    OBVIOUS
  <2> QED
    BY <2>1, <2>2
<1>3. ranked \subseteq Claim
  BY DEF Candidates
<1>4. round \in 1..MaxRounds /\ seated \in 0..Judges /\ left \in Int
  OBVIOUS
<1>5. claims \in [Claim -> ClaimState] /\ resolved.claims \in [Claim -> ClaimState]
  BY <1>1 DEF Resolution
<1>6. LoopTypeOK
  BY <1>2, <1>3, <1>4, <1>5 DEF LoopTypeOK, Phase, Calling, Stage, Reservation
<1>7. OnePairEach
  BY <1>2 DEF OnePairEach
<1>8. RepliesFit
  BY DEF RepliesFit
<1> QED
  BY <1>6, <1>7, <1>8 DEF LoopInv

\* The types hold, however a run goes: among them that no round is played
\* beyond the limit, which only the controller keeps.
THEOREM LoopTypes == Spec => []LoopInv
<1>1. LoopInv /\ [Next]_loopVars => LoopInv'
  BY TypeStep, OnePairStep, RepliesStep DEF LoopInv
<1> QED
  BY LoopInit, <1>1, PTL DEF Spec

---------------------------------------------------------------------------
(***************************************************************************)
(* No dispute is of a withdrawn claim: neither those still to be looked at *)
(* nor those planned, until their rebuttals are in.                        *)
(***************************************************************************)
RestInv ==
  /\ phase = "plan" => \A c \in ranked : claims[c].lifecycle # "Withdrawn"
  /\ WithdrawnRests

\* Only a claim that is Proposed changes when the challenges are in.
LEMMA ChallengeWithdrawsNone ==
  ASSUME LoopInv, EndChallenge, NEW c \in Claim, claims[c].lifecycle # "Withdrawn"
  PROVE  claims'[c].lifecycle # "Withdrawn"
<1>1. claims[c] \in ClaimState
  BY DEF LoopInv, LoopTypeOK
<1>2. [claims[c] EXCEPT !.lifecycle = "Challenged"].lifecycle = "Challenged"
  BY <1>1 DEF ClaimState
<1>3. claims'[c] = claims[c] \/ claims'[c] = [claims[c] EXCEPT !.lifecycle = "Challenged"]
  BY DEF EndChallenge
<1> QED
  BY <1>2, <1>3

\* A withdrawn claim is Defeated, and so no candidate.
LEMMA CandidatesStand ==
  ASSUME NEW state, NEW standing, NEW c \in Candidates(state, standing)
  PROVE  state[c].lifecycle # "Withdrawn"
BY DEF Candidates, Classify

LEMMA RestStep ==
  ASSUME LoopInv, RestInv, [Next]_loopVars
  PROVE  RestInv'
<1> USE DEF RestInv, WithdrawnRests, Calling, Stage
<1>1. ASSUME NEW c \in Claim, Consider(c) PROVE RestInv'
  <2>1. CASE UNCHANGED pairs
    BY <1>1, <2>1 DEF Consider
  <2>2. ASSUME NEW p \in Openings(c, pairs), pairs' = Append(pairs, p) PROVE RestInv'
    <3>1. pairs \in Seq(Pair) /\ p \in Pair /\ p.claim = c
      BY <2>2 DEF LoopInv, LoopTypeOK, Openings
    <3>2. \A i \in DOMAIN pairs' : pairs'[i].claim = c \/ (i \in DOMAIN pairs /\ pairs'[i] = pairs[i])
      BY <2>2, <3>1
    <3> QED
      BY <1>1, <3>2 DEF Consider
  <2> QED
    BY <1>1, <2>1, <2>2 DEF Consider
<1>2. ASSUME NEW i \in DOMAIN item, Exchange(i) PROVE RestInv'
  BY <1>2, ExchangeFrame
<1>3. CASE EndPlan
  BY <1>3 DEF EndPlan
<1>4. CASE EndChallenge
  <2>1. ASSUME NEW i \in DOMAIN pairs PROVE claims'[pairs[i].claim].lifecycle # "Withdrawn"
    <3>1. pairs[i].claim \in Claim /\ claims[pairs[i].claim].lifecycle # "Withdrawn"
      BY <1>4, PairFacts DEF EndChallenge, LoopInv
    <3> QED
      BY <1>4, <3>1, ChallengeWithdrawsNone
  <2> QED
    BY <1>4, <2>1 DEF EndChallenge
<1>5. CASE EndRebut
  BY <1>5 DEF EndRebut
<1>6. CASE Decide
  <2>1. DOMAIN pairs' = {}
    BY <1>6 DEF Decide
  <2>2. ASSUME phase' = "plan", NEW c \in ranked' PROVE claims'[c].lifecycle # "Withdrawn"
    <3>1. c \in Candidates(claims, resolved'.standing) /\ claims' = claims
      BY <1>6, <2>2 DEF Decide
    <3> QED
      BY <3>1, CandidatesStand
  <2> QED
    BY <2>1, <2>2
<1>7. CASE Outside
  BY <1>7, OutsideFrame
<1> QED
  BY <1>1, <1>2, <1>3, <1>4, <1>5, <1>6, <1>7, NextCases

\* A withdrawn claim is never disputed again, whatever its supporters and the
\* arithmetic make of its standing.
THEOREM WithdrawnClaimsRest == Spec => []WithdrawnRests
<1>1. Init => RestInv
  <2> SUFFICES ASSUME Init PROVE RestInv
    OBVIOUS
  <2>1. DOMAIN pairs = {} /\ \A c \in Claim : claims[c].lifecycle = "Proposed"
    BY DEF Init, Asserted
  <2>2. ranked \subseteq Claim
    BY DEF Init, Candidates
  <2> QED
    BY <2>1, <2>2 DEF RestInv, WithdrawnRests
<1>2. LoopInv /\ RestInv /\ [Next]_loopVars => RestInv'
  BY RestStep
<1>3. RestInv => WithdrawnRests
  BY DEF RestInv
<1> QED
  BY LoopTypes, <1>1, <1>2, <1>3, PTL DEF Spec

---------------------------------------------------------------------------
LEMMA AskingFinite ==
  ASSUME LoopTypeOK, Calling
  PROVE  IsFiniteSet(DOMAIN item) /\ IsFiniteSet(Asking)
<1>1. DOMAIN item = 1..Len(pairs) /\ Len(pairs) \in Int
  BY DEF LoopTypeOK
<1>2. IsFiniteSet(1..Len(pairs))
  BY <1>1, FS_Interval, 1 \in Int
<1>3. IsFiniteSet(DOMAIN item) /\ Asking \subseteq DOMAIN item
  BY <1>1, <1>2 DEF Asking
<1> QED
  BY <1>3, FS_Subset

\* One step of what CancelStops says.
CancelStep ==
  cancelled => /\ round' = round
               /\ Calling /\ phase' = phase => Cardinality(Asking') <= Cardinality(Asking)

LEMMA CancelHolds ==
  ASSUME LoopInv, [Next]_loopVars
  PROVE  CancelStep
<1> SUFFICES ASSUME cancelled
             PROVE  /\ round' = round
                    /\ Calling /\ phase' = phase => Cardinality(Asking') <= Cardinality(Asking)
  BY DEF CancelStep
<1>1. round' = round
  <2>1. CASE Decide
    <3>1. control' # "Continue"
      BY <2>1, ContinueFacts DEF Decide
    <3> QED
      BY <2>1, <3>1 DEF Decide
  <2> QED
    BY <2>1, NextCases, ExchangeFrame, OutsideFrame
       DEF Consider, EndPlan, EndChallenge, EndRebut
<1>2. ASSUME Calling, phase' = phase PROVE Cardinality(Asking') <= Cardinality(Asking)
  <2>1. Asking' \subseteq Asking
    <3>1. ASSUME NEW i \in DOMAIN item, Exchange(i) PROVE Asking' \subseteq Asking
      <4>1. Settle(i, "dropped") \/ Settle(i, "replied")
        BY <3>1 DEF Exchange, Skip, Reuse, Ask, Answered, Unanswered, Take
      <4>2. item \in [DOMAIN item -> Item]
        BY DEF LoopInv, LoopTypeOK
      <4> QED
        BY <3>1, <4>1, <4>2 DEF Settle, Asking
    <3>2. CASE Outside
      BY <3>2, OutsideFrame DEF Asking
    <3>3. ~EndPlan /\ ~EndChallenge /\ ~EndRebut /\ ~Decide /\ \A c \in Claim : ~Consider(c)
      BY <1>2 DEF Calling, Stage, EndPlan, EndChallenge, EndRebut, Decide, Consider
    <3> QED
      BY <3>1, <3>2, <3>3, NextCases
  <2> QED
    BY <1>2, <2>1, AskingFinite, FS_Subset DEF LoopInv
<1> QED
  BY <1>1, <1>2

\* Once cancelled, no call is made and no round begun.
THEOREM CancelStopsCalls == Spec => CancelStops
<1>1. LoopInv /\ [Next]_loopVars => [CancelStep]_loopVars
  BY CancelHolds
<1> QED
  BY LoopTypes, <1>1, PTL DEF Spec, CancelStops, CancelStep

---------------------------------------------------------------------------
\* The pairs a stage has yet to look at.
Open == {i \in DOMAIN item : item[i] = "todo"}

(***************************************************************************)
(* Why the judge can pay.  While planning, every pair has its exchange; in *)
(* the calling stages every pair still open has its call, and in the first *)
(* of them every pair its rebuttal as well: what the judge needs is there  *)
(* on top of that.                                                         *)
(***************************************************************************)
Covered ==
  /\ phase = "plan" => JudgeReservation + ExchangeCost * Len(pairs) <= left
  /\ phase = "challenge" =>
       JudgeReservation + CallCost * Len(pairs) + CallCost * Cardinality(Open) <= left
  /\ phase = "rebut" => JudgeReservation + CallCost * Cardinality(Open) <= left
  /\ phase = "decide" \/ (phase = "judge" /\ seated = 0) => JudgeReservation <= left

Funded == ~overran /\ Funds >= JudgeReservation => Covered

LEMMA TimesGrows ==
  ASSUME NEW a \in Nat, NEW k \in Nat, NEW m \in Nat, k <= m
  PROVE  a * k \in Nat /\ a * m \in Nat /\ a * k <= a * m
<1>1. PICK d \in Nat : m = k + d
  BY m - k \in Nat, m = k + (m - k)
<1>2. a * k \in Nat /\ a * d \in Nat /\ a * (k + d) = a * k + a * d
  OBVIOUS
<1> QED
  BY <1>1, <1>2

LEMMA IntervalSize ==
  ASSUME NEW n \in Nat
  PROVE  IsFiniteSet(1..n) /\ Cardinality(1..n) = n
BY FS_Interval, 1 \in Int, n \in Int

\* What a calling stage has open is no more than the pairs there are.
LEMMA OpenFinite ==
  ASSUME NEW n \in Nat, DOMAIN item = 1..n
  PROVE  IsFiniteSet(Open) /\ Cardinality(Open) \in Nat /\ Cardinality(Open) <= n
<1>1. IsFiniteSet(1..n) /\ Cardinality(1..n) = n
  BY IntervalSize
<1>2. Open \subseteq 1..n
  BY DEF Open
<1>3. IsFiniteSet(Open) /\ Cardinality(Open) <= Cardinality(1..n)
  BY <1>1, <1>2, FS_Subset
<1> QED
  BY <1>1, <1>3, FS_CardinalityType

\* What an exchange does to the money, when no call costs more than it may.
LEMMA ExchangeMoney ==
  ASSUME LoopInv, NEW i \in DOMAIN item, Exchange(i), ~overran'
  PROVE  \/ Open' = Open \ {i} /\ i \in Open /\ left' \in Int /\ left' >= left - CallCost
         \/ Open' \subseteq Open /\ left' \in Int /\ left' >= left
<1> USE LoopAssumption
<1>1. left \in Int /\ CallCost \in Nat /\ item \in [DOMAIN item -> Item]
  BY DEF LoopInv, LoopTypeOK
<1>2. ASSUME item[i] = "todo", NEW how \in {"asking", "dropped", "replied"}, Settle(i, how)
      PROVE  Open' = Open \ {i} /\ i \in Open
  BY <1>1, <1>2 DEF Settle, Open
<1>3. ASSUME item[i] = "asking", NEW how \in {"dropped", "replied"}, Settle(i, how)
      PROVE  Open' = Open
  BY <1>1, <1>3 DEF Settle, Open
<1>4. CASE Skip(i) \/ Reuse(i)
  BY <1>1, <1>2, <1>4 DEF Skip, Reuse, MayBegin, Take, purse
<1>5. CASE Ask(i)
  <2>1. left' = left - CallCost \/ left' = left
    BY <1>1, <1>5 DEF Ask, Retrieved
  <2>2. left' \in Int /\ left' >= left - CallCost
    BY <1>1, <2>1
  <2> QED
    BY <1>2, <1>5, <2>2 DEF Ask, MayBegin
<1>6. ASSUME NEW reply \in Replies(phase), NEW cost \in ActualCost, Answered(i, reply, cost)
      PROVE  Open' \subseteq Open /\ left' \in Int /\ left' >= left
  <2>1. ~(cost > CallCost) /\ left' = left + CallCost - cost /\ cost \in Nat
    BY <1>6 DEF Answered
  <2>2. left' \in Int /\ left' >= left
    BY <1>1, <2>1
  <2> QED
    BY <1>3, <1>6, <2>2 DEF Answered, Take
<1>7. CASE Unanswered(i)
  <2>1. left' \in Int /\ left' >= left
    BY <1>1, <1>7 DEF Unanswered
  <2> QED
    BY <1>3, <1>7, <2>1 DEF Unanswered
<1> QED
  BY <1>4, <1>5, <1>6, <1>7 DEF Exchange

LEMMA CoveredExchange ==
  ASSUME LoopInv, Covered, NEW i \in DOMAIN item, Exchange(i), ~overran'
  PROVE  Covered'
<1> USE LoopAssumption
<1> DEFINE n == Len(pairs)
           open == Cardinality(Open)
           base == IF phase = "challenge" THEN JudgeReservation + CallCost * n
                                          ELSE JudgeReservation
<1>1. phase \in Stage /\ phase' = phase /\ pairs' = pairs
  BY ExchangeFrame DEF Calling
<1>2. n \in Nat /\ DOMAIN item = 1..n /\ left \in Int
  BY <1>1, SMTT(30) DEF LoopInv, LoopTypeOK, Calling
<1>3. IsFiniteSet(Open) /\ open \in Nat
  BY <1>2, OpenFinite
<1>4. CallCost * n \in Nat /\ base \in Nat /\ CallCost * open \in Nat
  BY <1>2, <1>3, TimesGrows
<1>5. base + CallCost * open <= left
  BY <1>1 DEF Covered, Stage
<1>6. base + CallCost * Cardinality(Open') <= left' /\ left' \in Int
  <2>1. CASE Open' = Open \ {i} /\ i \in Open /\ left' \in Int /\ left' >= left - CallCost
    <3>1. Cardinality(Open') = open - 1
      BY <1>3, <2>1, FS_RemoveElement
    <3>2. CallCost * (open - 1) = CallCost * open - CallCost
      BY <1>3
    <3> HIDE DEF base, open
    <3> QED
      BY <1>2, <1>3, <1>4, <1>5, <2>1, <3>1, <3>2
  <2>2. CASE Open' \subseteq Open /\ left' \in Int /\ left' >= left
    <3>1. Cardinality(Open') <= open /\ Cardinality(Open') \in Nat
      BY <1>3, <2>2, FS_Subset, FS_CardinalityType
    <3>2. CallCost * Cardinality(Open') \in Nat /\ CallCost * Cardinality(Open') <= CallCost * open
      BY <1>3, <3>1, TimesGrows
    <3> HIDE DEF base, open
    <3> QED
      BY <1>2, <1>3, <1>4, <1>5, <2>2, <3>2
  <2> QED
    BY <2>1, <2>2, ExchangeMoney
<1> QED
  BY <1>1, <1>6 DEF Covered, Stage

\* A pair is only planned if its exchange leaves the judge its share.
LEMMA CoveredConsider ==
  ASSUME LoopInv, NEW c \in Claim, Consider(c)
  PROVE  Covered'
<1> USE LoopAssumption
<1> DEFINE n == Len(pairs)
           taken == (n + 1) * ExchangeCost + JudgeReservation
<1>1. n \in Nat /\ left \in Int /\ round \in 1..MaxRounds
  BY DEF LoopInv, LoopTypeOK
<1>2. RemainingRounds \in Nat /\ RemainingRounds >= 1
  BY <1>1 DEF RemainingRounds
<1>3. ExchangeCost * (n + 1) \in Nat /\ (n + 1) * ExchangeCost = ExchangeCost * (n + 1)
  BY <1>1
<1>4. taken \in Nat
  BY <1>3
<1>5. taken <= left
  <2>1. taken * RemainingRounds <= left
    BY DEF Consider, RoomFor
  <2>2. taken * 1 <= taken * RemainingRounds /\ taken * RemainingRounds \in Nat /\ taken * 1 \in Nat
    <3> HIDE DEF taken
    <3> QED
      BY <1>2, <1>4, TimesGrows, 1 \in Nat
  <2>3. taken * 1 = taken
    BY <1>4
  <2> HIDE DEF taken
  <2> QED
    BY <1>1, <1>4, <2>1, <2>2, <2>3
<1>6. Len(pairs') \in Nat /\ Len(pairs') <= n + 1
  BY SMTT(30) DEF Consider, LoopInv, LoopTypeOK
<1>7. ExchangeCost * Len(pairs') \in Nat /\ ExchangeCost * Len(pairs') <= ExchangeCost * (n + 1)
  BY <1>1, <1>6, TimesGrows
<1>8. JudgeReservation + ExchangeCost * Len(pairs') <= left
  BY <1>1, <1>3, <1>5, <1>7
<1>9. left' = left /\ phase' = "plan"
  BY DEF Consider, purse
<1> QED
  BY <1>8, <1>9 DEF Covered

LEMMA CoveredEndPlan ==
  ASSUME LoopInv, Covered, EndPlan
  PROVE  Covered'
<1> USE LoopAssumption
<1> DEFINE n == Len(pairs)
<1>1. n \in Nat /\ left \in Int /\ DOMAIN item' = 1..n
  BY SMTT(30) DEF LoopInv, LoopTypeOK, EndPlan
<1>2. Cardinality(Open') \in Nat /\ Cardinality(Open') <= n
  <2>1. IsFiniteSet(1..n) /\ Cardinality(1..n) = n
    BY <1>1, IntervalSize
  <2>2. Open' \subseteq 1..n
    BY <1>1 DEF Open
  <2>3. IsFiniteSet(Open') /\ Cardinality(Open') <= Cardinality(1..n)
    BY <2>1, <2>2, FS_Subset
  <2> QED
    BY <2>1, <2>3, FS_CardinalityType
<1>3. CallCost * Cardinality(Open') <= CallCost * n /\ CallCost * Cardinality(Open') \in Nat
  BY <1>1, <1>2, TimesGrows
<1>4. CallCost * n + CallCost * n <= ExchangeCost * n
  <2>1. n * (2 * CallCost) <= n * ExchangeCost
    BY <1>1, 2 * CallCost \in Nat, TimesGrows
  <2>2. n * (2 * CallCost) = CallCost * n + CallCost * n /\ n * ExchangeCost = ExchangeCost * n
    BY <1>1
  <2> QED
    BY <2>1, <2>2
<1>5. CallCost * n \in Nat /\ ExchangeCost * n \in Nat
  BY <1>1, TimesGrows
<1>6. JudgeReservation + ExchangeCost * n <= left
  BY DEF Covered, EndPlan
<1>7. JudgeReservation + CallCost * n + CallCost * Cardinality(Open') <= left
  BY <1>1, <1>3, <1>4, <1>5, <1>6
<1>8. phase' = "challenge" /\ pairs' = pairs /\ left' = left
  BY DEF EndPlan, purse
<1> QED
  BY <1>7, <1>8 DEF Covered

\* Every pair left for the rebuttals had a rebuttal set aside.
LEMMA CoveredEndChallenge ==
  ASSUME LoopInv, Covered, EndChallenge
  PROVE  Covered'
<1> USE LoopAssumption
<1> DEFINE n == Len(pairs)
<1>1. n \in Nat /\ left \in Int /\ DOMAIN item = 1..n /\ DOMAIN item' = 1..n
  BY SMTT(30) DEF LoopInv, LoopTypeOK, EndChallenge, Calling, Stage
<1>2. Cardinality(Open') \in Nat /\ Cardinality(Open') <= n
  <2>1. IsFiniteSet(1..n) /\ Cardinality(1..n) = n
    BY <1>1, IntervalSize
  <2>2. Open' \subseteq 1..n
    BY <1>1 DEF Open
  <2>3. IsFiniteSet(Open') /\ Cardinality(Open') <= Cardinality(1..n)
    BY <2>1, <2>2, FS_Subset
  <2> QED
    BY <2>1, <2>3, FS_CardinalityType
<1>3. CallCost * Cardinality(Open') <= CallCost * n /\ CallCost * Cardinality(Open') \in Nat
  BY <1>1, <1>2, TimesGrows
<1>4. CallCost * n \in Nat /\ CallCost * Cardinality(Open) \in Nat
  BY <1>1, OpenFinite, TimesGrows
<1>5. JudgeReservation + CallCost * n + CallCost * Cardinality(Open) <= left
  BY DEF Covered, EndChallenge
<1>6. JudgeReservation + CallCost * Cardinality(Open') <= left
  BY <1>1, <1>3, <1>4, <1>5
<1>7. phase' = "rebut" /\ left' = left
  BY DEF EndChallenge, purse
<1> QED
  BY <1>6, <1>7 DEF Covered

LEMMA CoveredEndRebut ==
  ASSUME LoopInv, Covered, EndRebut
  PROVE  Covered'
<1> USE LoopAssumption
<1>1. left \in Int /\ DOMAIN item = 1..Len(pairs) /\ Len(pairs) \in Nat
  BY SMTT(30) DEF LoopInv, LoopTypeOK, EndRebut, Calling, Stage
<1>2. CallCost * Cardinality(Open) \in Nat
  BY <1>1, OpenFinite, TimesGrows
<1>3. JudgeReservation + CallCost * Cardinality(Open) <= left
  BY DEF Covered, EndRebut
<1>4. phase' = "decide" /\ left' = left /\ JudgeReservation <= left
  BY <1>1, <1>2, <1>3 DEF EndRebut, purse
<1> QED
  BY <1>4 DEF Covered

LEMMA CoveredDecide ==
  ASSUME LoopInv, Covered, Decide
  PROVE  Covered'
<1> USE LoopAssumption
<1>1. JudgeReservation <= left /\ left \in Int /\ left' = left
  BY DEF Covered, Decide, purse, LoopInv, LoopTypeOK
<1>2. Len(pairs') = 0 /\ ExchangeCost * Len(pairs') = 0
  BY DEF Decide
<1>3. phase' \in {"plan", "judge"}
  BY DEF Decide
<1> QED
  BY <1>1, <1>2, <1>3 DEF Covered

LEMMA CoveredOutside ==
  ASSUME LoopInv, Covered, Outside
  PROVE  Covered'
<1>1. CASE PassOver \/ \E cost \in ActualCost \union {0, CallCost} : Hear(cost)
  <2>1. seated \in Nat /\ seated' = seated + 1 /\ phase' = "judge"
    BY <1>1, LoopAssumption DEF PassOver, Hear, LoopInv, LoopTypeOK
  <2>2. seated' # 0
    BY <2>1
  <2> QED
    BY <2>1, <2>2 DEF Covered
<1>2. CASE Synthesize \/ Fail
  BY <1>2 DEF Synthesize, Fail, Covered
<1>3. CASE Cancel \/ Expire \/ UNCHANGED loopVars
  <2>1. UNCHANGED <<phase, pairs, item, left, seated>>
    BY <1>3 DEF Cancel, Expire, loopVars, purse
  <2> QED
    BY <2>1 DEF Covered, Open
<1> QED
  BY <1>1, <1>2, <1>3 DEF Outside

\* A run in which a call has cost more than its estimate stays one.
LEMMA OverranStays ==
  ASSUME LoopInv, [Next]_loopVars, overran
  PROVE  overran'
<1>1. ASSUME NEW i \in DOMAIN item, Exchange(i) PROVE overran'
  BY <1>1 DEF Exchange, Skip, Reuse, Ask, Answered, Unanswered, purse
<1>2. CASE Outside
  BY <1>2 DEF Outside, PassOver, Hear, Synthesize, Fail, Cancel, Expire, loopVars, purse
<1> QED
  BY <1>1, <1>2, NextCases DEF Consider, EndPlan, EndChallenge, EndRebut, Decide, purse

LEMMA FundedStep ==
  ASSUME LoopInv, Funded, [Next]_loopVars
  PROVE  Funded'
<1> SUFFICES ASSUME ~overran', Funds >= JudgeReservation PROVE Covered'
  BY DEF Funded
<1>1. Covered
  BY OverranStays DEF Funded
<1> QED
  BY <1>1, NextCases, CoveredConsider, CoveredExchange, CoveredEndPlan, CoveredEndChallenge,
     CoveredEndRebut, CoveredDecide, CoveredOutside

---------------------------------------------------------------------------
\* What the stages hand on is a resolution of the claims it names.
FromItsClaims == resolved = Resolution(resolved.claims)

\* Standings that are the same move nothing.
LEMMA NothingMoved ==
  ASSUME NEW standing
  PROVE  StandingDelta(standing, standing) = 0
<1> DEFINE moved == {c \in Claim : standing[c] # standing[c]}
           moves == {0} \union {standing[c] - standing[c] : c \in moved}
                        \union {standing[c] - standing[c] : c \in moved}
<1>1. moved = {}
  OBVIOUS
<1>2. moves = {0}
  BY <1>1
<1>3. StandingDelta(standing, standing) = Max(moves)
  BY DEF StandingDelta
<1>4. Max({0}) = 0
  BY DEF Max
<1> QED
  BY <1>2, <1>3, <1>4

LEMMA ResolvedStep ==
  ASSUME FromItsClaims, [Next]_loopVars
  PROVE  FromItsClaims'
<1>1. CASE Decide
  BY <1>1 DEF Decide, FromItsClaims, Resolution
<1>2. CASE UNCHANGED resolved
  BY <1>2 DEF FromItsClaims, Resolution
<1> QED
  BY <1>1, <1>2 DEF Next, Pipeline, Consider, EndPlan, Exchange, Skip, Reuse, Ask, Answered,
     Unanswered, EndChallenge, EndRebut, Judge, PassOver, Hear, Synthesize, Fail, Cancel, Expire,
     Rest, loopVars

\* The same claims resolve to the same standings, and the controller stops.
LEMMA SameClaimsStop ==
  ASSUME FromItsClaims, Decide, claims = resolved.claims
  PROVE  round' = round
<1>1. resolved' = resolved
  BY DEF FromItsClaims, Decide
<1>2. PICK converged \in BOOLEAN :
        control' = Control(converged, StandingDelta(resolved.standing, resolved'.standing))
  BY DEF Decide
<1>3. StandingDelta(resolved.standing, resolved'.standing) = 0
  BY <1>1, NothingMoved
<1>4. control' # "Continue"
  BY <1>2, <1>3, LoopAssumption DEF Control
<1> QED
  BY <1>4 DEF Decide

(***************************************************************************)
(* No round is spent on a debate that stands where it stood: the resolution*)
(* is a function of the claims, whatever function, so the controller only  *)
(* continues when some claim has another lifecycle or another revision.    *)
(***************************************************************************)
THEOREM RoundsNeedChange == Spec => ContinueNeedsChange
<1>1. Init => FromItsClaims
  BY DEF Init, FromItsClaims, Resolution
<1>2. FromItsClaims /\ [Next]_loopVars => FromItsClaims'
  BY ResolvedStep
<1>3. FromItsClaims /\ [Next]_loopVars => [round' # round => claims # resolved.claims]_loopVars
  <2> SUFFICES ASSUME FromItsClaims, [Next]_loopVars, round' # round
               PROVE  claims # resolved.claims
    OBVIOUS
  <2>1. Decide
    BY DEF Next, Pipeline, Consider, EndPlan, Exchange, Skip, Reuse, Ask, Answered, Unanswered,
       EndChallenge, EndRebut, Judge, PassOver, Hear, Synthesize, Fail, Cancel, Expire, Rest,
       loopVars
  <2> QED
    BY <2>1, SameClaimsStop
<1> QED
  BY <1>1, <1>2, <1>3, PTL DEF Spec, ContinueNeedsChange

(***************************************************************************)
(* The judge's share is there when the loop ends, for every price of a     *)
(* call and of an exchange of at least two, every number of rounds and     *)
(* every interleaving of the calls.                                        *)
(***************************************************************************)
THEOREM JudgeIsPaid == Spec => []JudgeCanPay
<1>1. Init => Funded
  <2> SUFFICES ASSUME Init, Funds >= JudgeReservation PROVE Covered
    BY DEF Funded
  <2>1. Len(pairs) = 0 /\ ExchangeCost * Len(pairs) = 0 /\ left = Funds /\ phase = "plan"
    BY LoopAssumption DEF Init
  <2> QED
    BY <2>1, LoopAssumption DEF Covered
<1>2. LoopInv /\ Funded /\ [Next]_loopVars => Funded'
  BY FundedStep
<1>3. LoopInv /\ Funded => JudgeCanPay
  BY LoopAssumption DEF Funded, Covered, JudgeCanPay, LoopInv, LoopTypeOK
<1> QED
  BY LoopTypes, <1>1, <1>2, <1>3, PTL DEF Spec

---------------------------------------------------------------------------
(* Sums *)

Plus(x, y) == y + x

Adding == INSTANCE FoldLemmas WITH Op <- Plus

LEMMA SumIsTotal ==
  ASSUME NEW S, IsFiniteSet(S), NEW f, DOMAIN f = S
  PROVE  /\ Adding!Adds /\ Adding!IsFiniteSet(S) /\ SumFunction(f) = Adding!Total(f, S)
         /\ Adding!Cardinality(S) = Cardinality(S)
<1>1. Adding!Adds
  BY DEF Adding!Adds, Plus
<1>2. Adding!IsFiniteSet(S)
  BY DEF IsFiniteSet, Adding!IsFiniteSet
<1>3. SumFunctionOnSet(f, S) = Adding!Total(f, S)
  BY DEF SumFunctionOnSet, FoldFunctionOnSet, MapThenFoldSet, Adding!Total, Adding!SetFold,
         Adding!Step, Adding!FoldFunctionOnSet, Adding!MapThenFoldSet, Plus
<1>4. SumFunction(f) = SumFunctionOnSet(f, S)
  BY DEF SumFunction
<1>5. Adding!Cardinality(S) = Cardinality(S)
  BY DEF Cardinality, Adding!Cardinality, IsFiniteSet, Adding!IsFiniteSet
<1> QED BY <1>1, <1>2, <1>3, <1>4, <1>5

LEMMA SumOfNats ==
  ASSUME NEW S, IsFiniteSet(S), NEW f \in [S -> Nat]
  PROVE  SumFunction(f) \in Nat
<1>1. /\ Adding!Adds /\ Adding!IsFiniteSet(S) /\ SumFunction(f) = Adding!Total(f, S)
  BY SumIsTotal
<1>2. \A x \in S : f[x] \in Nat
  OBVIOUS
<1> QED BY <1>1, <1>2, Adding!TotalNat

LEMMA SumGrows ==
  ASSUME NEW S, IsFiniteSet(S), NEW f \in [S -> Int], NEW g \in [S -> Int], \A x \in S : f[x] <= g[x]
  PROVE  SumFunction(f) \in Int /\ SumFunction(g) \in Int /\ SumFunction(f) <= SumFunction(g)
<1>1. /\ Adding!Adds /\ Adding!IsFiniteSet(S) /\ SumFunction(f) = Adding!Total(f, S)
      /\ SumFunction(g) = Adding!Total(g, S)
  BY SumIsTotal
<1>2. \A x \in S : f[x] \in Int /\ g[x] \in Int /\ f[x] <= g[x]
  OBVIOUS
<1>3. Adding!Total(f, S) <= Adding!Total(g, S)
  BY <1>1, <1>2, Adding!TotalAtMost
<1>4. Adding!Total(f, S) \in Int /\ Adding!Total(g, S) \in Int
  BY <1>1, <1>2, Adding!TotalInt
<1> QED BY <1>1, <1>3, <1>4

LEMMA SumOfInts ==
  ASSUME NEW S, IsFiniteSet(S), NEW f \in [S -> Int]
  PROVE  SumFunction(f) \in Int
<1>1. /\ Adding!Adds /\ Adding!IsFiniteSet(S) /\ SumFunction(f) = Adding!Total(f, S)
  BY SumIsTotal
<1>2. \A x \in S : f[x] \in Int
  OBVIOUS
<1> QED BY <1>1, <1>2, Adding!TotalInt

\* Of finitely many numbers one is the greatest.
LEMMA SomeGreatest ==
  ASSUME NEW R, IsFiniteSet(R), R # {}, NEW f, \A x \in R : f[x] \in Int
  PROVE  \E x \in R : \A y \in R : f[y] <= f[x]
<1> DEFINE G == {s \in SUBSET R : s # {} => \E x \in s : \A y \in s : f[y] <= f[x]}
<1>1. ASSUME NEW s \in SUBSET R, \A x \in s : s \ {x} \in G PROVE s \in G
  <2>1. CASE s = {}
    BY <2>1
  <2>2. CASE s # {}
    <3>1. PICK x \in s : TRUE
      BY <2>2
    <3>2. CASE s \ {x} = {}
      <4>1. \A y \in s : y = x
        BY <3>2
      <4> QED BY <4>1
    <3>3. CASE s \ {x} # {}
      <4>1. PICK z \in s \ {x} : \A y \in s \ {x} : f[y] <= f[z]
        BY <1>1, <3>1, <3>3
      <4>2. \A y \in s : f[y] \in Int
        OBVIOUS
      <4>3. CASE f[z] <= f[x]
        BY <4>1, <4>2, <4>3
      <4>4. CASE f[x] <= f[z]
        BY <4>1, <4>2, <4>4
      <4> QED BY <4>2, <4>3, <4>4
    <3> QED BY <3>2, <3>3
  <2> QED BY <2>1, <2>2
<1> HIDE DEF G
<1>2. SUBSET R \subseteq G
  <2>1. Adding!IsFiniteSet(R)
    BY DEF IsFiniteSet, Adding!IsFiniteSet
  <2> QED BY <1>1, <2>1, Adding!FiniteByInduction
<1> QED BY <1>2 DEF G

---------------------------------------------------------------------------
(* Thousandths *)

LEMMA ScaleIs == Scale = 1000
BY DEF Scale

LEMMA ThousandthsAreNats == 0..Scale \subseteq Nat
BY ScaleIs

LEMMA TimesIn ==
  ASSUME NEW x \in 0..Scale, NEW y \in 0..Scale
  PROVE  Times(x, y) \in 0..Scale
<1>1. x * y \in Nat /\ x * y <= x * 1000
  BY TimesGrows DEF Scale
<1>2. PICK p \in Nat : p = x * y
  BY <1>1
<1>3. p <= 1000 * 1000
  BY <1>1, <1>2 DEF Scale
<1>4. p \div 1000 \in 0..1000
  BY <1>3
<1> QED BY <1>2, <1>4 DEF Times, Scale

LEMMA QuotientIn ==
  ASSUME NEW a \in Nat, NEW m \in Nat \ {0}, NEW k \in Nat, a <= k * m
  PROVE  a \div m \in 0..k
<1>1. PICK q \in Int : q = a \div m
  OBVIOUS
<1>2. /\ q \in Nat /\ m * q <= a
  BY <1>1, Z3
<1>3. ASSUME k < q PROVE FALSE
  <2>1. m * (k + 1) <= m * q
    BY <1>2, <1>3, TimesGrows
  <2>2. m * (k + 1) = k * m + m
    OBVIOUS
  <2>3. m * q \in Nat /\ k * m \in Nat
    BY <1>2
  <2> QED BY <1>2, <2>1, <2>2, <2>3
<1> QED BY <1>1, <1>2, <1>3

LEMMA ClampIn ==
  ASSUME NEW x \in Int
  PROVE  Clamp(x) \in 0..Scale
BY DEF Clamp, CapAt, Scale

LEMMA SumTimes ==
  ASSUME NEW S, IsFiniteSet(S), NEW k \in Int, NEW f \in [S -> Int], NEW g \in [S -> Int],
         \A x \in S : f[x] = k * g[x]
  PROVE  SumFunction(f) = k * SumFunction(g)
<1>1. /\ Adding!Adds /\ Adding!IsFiniteSet(S) /\ SumFunction(f) = Adding!Total(f, S)
      /\ SumFunction(g) = Adding!Total(g, S)
  BY SumIsTotal
<1>2. \A x \in S : g[x] \in Int /\ f[x] = k * g[x]
  OBVIOUS
<1> QED BY <1>1, <1>2, Adding!TotalTimes

LEMMA SumOfSame ==
  ASSUME NEW S, IsFiniteSet(S), NEW k \in Int, NEW f, DOMAIN f = S, \A x \in S : f[x] = k
  PROVE  SumFunction(f) = k * Cardinality(S)
<1>1. /\ Adding!Adds /\ Adding!IsFiniteSet(S) /\ SumFunction(f) = Adding!Total(f, S)
      /\ Adding!Cardinality(S) = Cardinality(S)
  BY SumIsTotal
<1> QED BY <1>1, Adding!TotalConstant

---------------------------------------------------------------------------
(* Evidence *)

LEMMA AuthorsFinite ==
  ASSUME GraphAssumption, NEW c \in Claim
  PROVE  /\ authorsOf[c] \subseteq Model /\ authorsOf[c] # {} /\ IsFiniteSet(authorsOf[c])
         /\ Cardinality(authorsOf[c]) \in Nat \ {0}
         /\ Cardinality(Providers(c)) \in 0..Cardinality(authorsOf[c])
<1>1. authorsOf[c] \subseteq Model /\ authorsOf[c] # {} /\ IsFiniteSet(authorsOf[c])
  <2>1. authorsOf[c] \in (SUBSET Model) \ {{}} /\ IsFiniteSet(Model)
    BY DEF GraphAssumption
  <2> QED BY <2>1, FS_Subset
<1>2. Cardinality(authorsOf[c]) \in Nat \ {0}
  BY <1>1, FS_CardinalityType, FS_EmptySet
<1>3. IsFiniteSet(Providers(c)) /\ Cardinality(Providers(c)) <= Cardinality(authorsOf[c])
  <2> DEFINE f == [m \in authorsOf[c] |-> providerOf[m]]
  <2>1. f \in Surjection(authorsOf[c], Providers(c))
    BY DEF Surjection, Providers
  <2> HIDE DEF f
  <2> QED BY <1>1, <2>1, FS_Surjection
<1>4. Cardinality(Providers(c)) \in Nat
  BY <1>3, FS_CardinalityType
<1> QED BY <1>1, <1>2, <1>3, <1>4

LEMMA IndependenceIn ==
  ASSUME GraphAssumption, NEW c \in Claim, NEW state \in ClaimState
  PROVE  Independence(c, state) \in 0..Scale
<1>1. PICK n \in Nat : n = Len(state.revisions)
  BY DEF ClaimState
<1>2. PICK a \in Nat \ {0} : a = Cardinality(authorsOf[c])
  BY AuthorsFinite
<1>3. PICK g \in 0..a : g = Cardinality(Providers(c))
  BY <1>2, AuthorsFinite
<1>4. PICK m \in Nat \ {0} : m = a + n
  OBVIOUS
<1>5. PICK x \in Nat : x = 1000 * g + 250 * (m - g) /\ x <= 1000 * m
  BY <1>4
<1>6. x \div m \in 0..1000
  BY <1>5, QuotientIn
<1>7. Independence(c, state) = (1000 * g + 250 * ((a + n) - g)) \div (a + n)
  BY <1>1, <1>2, <1>3 DEF Independence
<1>8. Independence(c, state) = (1000 * g + 250 * (m - g)) \div m
  BY <1>4, <1>7
<1>9. Independence(c, state) = x \div m
  BY <1>5, <1>8
<1> QED BY <1>6, <1>9 DEF Scale

LEMMA JudgeFactorIn ==
  ASSUME GraphAssumption, NEW c \in Claim, NEW state \in ClaimState,
         NEW D, NEW marks \in [D -> 0..Scale]
  PROVE  JudgeFactor(c, state, marks) \in 0..Scale
<1> DEFINE judged == authorsOf[c] \intersect DOMAIN marks
           f == [m \in judged |-> marks[m] * MembersOf(m, c, state)]
           g == [m \in judged |-> MembersOf(m, c, state)]
           top == [m \in judged |-> 1000 * g[m]]
<1>1. CASE judged = {}
  BY <1>1 DEF JudgeFactor, Scale
<1>2. CASE judged # {}
  <2>1. IsFiniteSet(judged)
    BY AuthorsFinite, FS_Subset
  <2>2. \A m \in judged : MembersOf(m, c, state) \in Nat \ {0}
    <3>1. Len(state.revisions) \in Nat
      BY DEF ClaimState
    <3> QED BY <3>1 DEF MembersOf
  <2>3. \A m \in judged : /\ f[m] = marks[m] * g[m] /\ g[m] \in Nat \ {0} /\ marks[m] \in 0..1000
                         /\ top[m] = 1000 * g[m] /\ top[m] \in Nat
    BY <2>2 DEF Scale
  <2>4. DOMAIN f = judged /\ DOMAIN g = judged /\ DOMAIN top = judged
    OBVIOUS
  <2>5. /\ f = [m \in judged |-> f[m]] /\ g = [m \in judged |-> g[m]]
        /\ top = [m \in judged |-> top[m]]
    OBVIOUS
  <2>6. JudgeFactor(c, state, marks) = 600 + Times(400, SumFunction(f) \div SumFunction(g))
    BY <1>2 DEF JudgeFactor
  <2> HIDE DEF f, g, top, judged
  <2>7. \A m \in judged : f[m] \in Nat /\ f[m] <= top[m]
    <3> SUFFICES ASSUME NEW m \in judged PROVE f[m] \in Nat /\ f[m] <= top[m]
      OBVIOUS
    <3>1. PICK x \in 0..1000 : x = marks[m]
      BY <2>3
    <3>2. PICK y \in Nat : y = g[m]
      BY <2>3
    <3>3. y * x \in Nat /\ y * x <= y * 1000
      BY TimesGrows
    <3>4. f[m] = x * y /\ top[m] = 1000 * y
      BY <2>3, <3>1, <3>2
    <3>5. x * y = y * x /\ 1000 * y = y * 1000
      OBVIOUS
    <3> QED BY <3>3, <3>4, <3>5
  <2>8. f \in [judged -> Nat] /\ g \in [judged -> Nat] /\ top \in [judged -> Nat]
    BY <2>3, <2>5, <2>7
  <2>9. PICK x \in Nat : x = SumFunction(f)
    BY <2>1, <2>8, SumOfNats
  <2>10. PICK y \in Nat : y = SumFunction(g)
    BY <2>1, <2>8, SumOfNats
  <2>11. f \in [judged -> Int] /\ g \in [judged -> Int] /\ top \in [judged -> Int]
    BY <2>8
  <2>12. x <= SumFunction(top)
    BY <2>1, <2>7, <2>9, <2>11, SumGrows
  <2>13. SumFunction(top) = 1000 * y
    BY <2>1, <2>3, <2>10, <2>11, SumTimes
  <2>14. y # 0
    <3> DEFINE ones == [m \in judged |-> 1]
    <3>1. ones \in [judged -> Int] /\ DOMAIN ones = judged /\ \A m \in judged : ones[m] = 1 /\ ones[m] <= g[m]
      BY <2>3
    <3> HIDE DEF ones
    <3>2. SumFunction(ones) <= y
      BY <2>1, <2>10, <2>11, <3>1, SumGrows
    <3>3. SumFunction(ones) = 1 * Cardinality(judged)
      BY <2>1, <3>1, SumOfSame
    <3>4. Cardinality(judged) \in Nat \ {0}
      <4>1. judged # {}
        BY <1>2 DEF judged
      <4> QED BY <2>1, <4>1, FS_CardinalityType, FS_EmptySet
    <3> QED BY <3>2, <3>3, <3>4
  <2>15. PICK q \in 0..1000 : q = x \div y
    BY <2>12, <2>13, <2>14, QuotientIn
  <2> QED BY <2>6, <2>9, <2>10, <2>15 DEF Times, Scale
<1> QED BY <1>1, <1>2

LEMMA EvidenceIn ==
  ASSUME GraphAssumption, NEW c \in Claim, NEW state \in ClaimState,
         NEW D, NEW marks \in [D -> 0..Scale]
  PROVE  Evidence(c, state, marks) \in 0..Scale
<1>1. KindWeight(EffectiveKind(c)) \in 0..Scale
  <2>1. EffectiveKind(c) \in EvidenceKind
    BY DEF GraphAssumption, EffectiveKind, EvidenceKind
  <2> QED BY <2>1 DEF EvidenceKind, KindWeight, Scale
<1>2. SurvivalWeight(state.lifecycle) \in 0..Scale
  <2>1. state.lifecycle \in Lifecycle
    BY DEF ClaimState
  <2> QED BY <2>1 DEF Lifecycle, SurvivalWeight, Scale
<1>3. Corroboration(c) \in 0..Scale
  BY DEF Corroboration, Scale
<1>4. Independence(c, state) \in 0..Scale
  BY IndependenceIn
<1>5. JudgeFactor(c, state, marks) \in 0..Scale
  BY JudgeFactorIn
<1>6. Times(KindWeight(EffectiveKind(c)), SurvivalWeight(state.lifecycle)) \in 0..Scale
  BY <1>1, <1>2, TimesIn
<1>7. Times(Independence(c, state), Corroboration(c)) \in 0..Scale
  BY <1>3, <1>4, TimesIn
<1> QED BY <1>5, <1>6, <1>7, TimesIn DEF Evidence

---------------------------------------------------------------------------
(* Sweeps *)

LEMMA WeighedIn ==
  ASSUME GraphAssumption, NEW edges \in SUBSET Relation, NEW standing \in [Claim -> 0..Scale],
         NEW kind, NEW c
  PROVE  Weighed(edges, kind, c, standing) \in Nat
<1> DEFINE S == {r \in edges : r.kind = kind /\ r.to = c}
           f == [r \in S |-> Times(r.confidence, standing[r.from])]
<1>1. IsFiniteSet(S)
  BY FS_Subset DEF GraphAssumption
<1>2. \A r \in S : Times(r.confidence, standing[r.from]) \in Nat
  <2> SUFFICES ASSUME NEW r \in S PROVE Times(r.confidence, standing[r.from]) \in Nat
    OBVIOUS
  <2>1. r.confidence \in 0..Scale /\ r.from \in Claim
    BY DEF GraphAssumption
  <2>2. standing[r.from] \in 0..Scale
    BY <2>1
  <2>3. Times(r.confidence, standing[r.from]) \in 0..Scale
    BY <2>1, <2>2, TimesIn
  <2> QED BY <2>3, ThousandthsAreNats
<1>3. f \in [S -> Nat]
  BY <1>2
<1>4. Weighed(edges, kind, c, standing) = SumFunction(f)
  BY DEF Weighed
<1> HIDE DEF S, f
<1> QED BY <1>1, <1>3, <1>4, SumOfNats

LEMMA TargetIn ==
  ASSUME GraphAssumption, NEW edges \in SUBSET Relation, NEW standing \in [Claim -> 0..Scale],
         NEW c, NEW e \in 0..Scale
  PROVE  Target(edges, c, e, standing) \in 0..Scale
<1>1. PICK s \in Nat : s = Weighed(edges, "Supports", c, standing)
  BY WeighedIn
<1>2. PICK a \in Nat : a = Weighed(edges, "Contradicts", c, standing)
  BY WeighedIn
<1>3. PICK q \in Nat : q = Weighed(edges, "Qualifies", c, standing)
  BY WeighedIn
<1>4. /\ Times(250, CapAt(2000, s)) \in Int /\ Times(600, CapAt(1500, a)) \in Int /\ Times(150, q) \in Int
  BY DEF Times, CapAt, Scale
<1>5. e + Times(250, CapAt(2000, s)) - Times(600, CapAt(1500, a)) - Times(150, q) \in Int
  BY <1>4 DEF Scale
<1> QED BY <1>1, <1>2, <1>3, <1>5, ClampIn DEF Target

LEMMA SweepIn ==
  ASSUME GraphAssumption, NEW edges \in SUBSET Relation, NEW standing \in [Claim -> 0..Scale],
         NEW evidence \in [Claim -> 0..Scale]
  PROVE  Sweep(edges, evidence, standing) \in [Claim -> 0..Scale]
<1> SUFFICES ASSUME NEW c \in Claim
             PROVE  (standing[c] + Target(edges, c, evidence[c], standing)) \div 2 \in 0..Scale
  BY DEF Sweep
<1>1. Target(edges, c, evidence[c], standing) \in 0..Scale
  BY TargetIn
<1>2. standing[c] \in 0..Scale
  OBVIOUS
<1>3. PICK t \in 0..Scale : t = Target(edges, c, evidence[c], standing)
  BY <1>1
<1>4. PICK s \in 0..Scale : s = standing[c]
  BY <1>2
<1>5. (s + t) \div 2 \in 0..Scale
  BY ScaleIs
<1> QED BY <1>3, <1>4, <1>5

\* What solve's loop ends with, from each of the places it may be at.
Solves(sweep, edges, evidence) ==
  sweep = [loop \in Loop |->
             LET after == Sweep(edges, evidence, loop.standing)
             IN  IF loop.left = 0 THEN [standing |-> loop.standing, converged |-> FALSE]
                 ELSE IF after = loop.standing THEN [standing |-> after, converged |-> TRUE]
                 ELSE sweep[[left |-> loop.left - 1, standing |-> after]]]

LEMMA SolveUnfolds ==
  ASSUME GraphAssumption, NEW edges \in SUBSET Relation, NEW evidence \in [Claim -> 0..Scale]
  PROVE  \E sweep : /\ Solves(sweep, edges, evidence)
                    /\ SolveOver(edges, evidence) = sweep[[left |-> MaxIterations, standing |-> evidence]]
<1> DEFINE Done == {b \in Loop : b.left = 0 \/ Sweep(edges, evidence, b.standing) = b.standing}
           out == [b \in Loop |-> [standing |-> b.standing, converged |-> b.left # 0]]
           next == [b \in Loop |-> [left |-> b.left - 1, standing |-> Sweep(edges, evidence, b.standing)]]
           measure == [b \in Loop |-> b.left]
           Is(f) == f = [b \in Loop |-> IF b \in Done THEN out[b] ELSE f[next[b]]]
<1>1. MaxIterations \in Nat
  BY DEF GraphAssumption
<1>2. measure \in [Loop -> 0..MaxIterations]
  BY DEF Loop
<1>3. \A b \in Loop : b \notin Done => next[b] \in Loop /\ measure[next[b]] < measure[b]
  <2> SUFFICES ASSUME NEW b \in Loop, b \notin Done PROVE next[b] \in Loop /\ measure[next[b]] < measure[b]
    OBVIOUS
  <2>1. b.left \in 1..MaxIterations /\ b.standing \in [Claim -> 0..Scale]
    BY <1>1 DEF Loop
  <2>2. Sweep(edges, evidence, b.standing) \in [Claim -> 0..Scale]
    BY <2>1, SweepIn
  <2>3. next[b] \in Loop /\ next[b].left = b.left - 1
    BY <1>1, <2>1, <2>2 DEF Loop
  <2> QED BY <2>1, <2>3
<1>4. \E f : Is(f)
  <2> HIDE DEF Done, out, next, measure
  <2>1. Adding!Shrinks(Loop, Done, next, measure)
    BY <1>3 DEF Adding!Shrinks
  <2>2. \E f : Adding!Loops(f, Loop, Done, out, next)
    BY <1>1, <1>2, <2>1, Adding!LoopExists
  <2> QED BY <2>2 DEF Adding!Loops
<1>5. ASSUME NEW f, Is(f) PROVE Solves(f, edges, evidence)
  <2>1. ASSUME NEW b \in Loop
        PROVE  (IF b \in Done THEN out[b] ELSE f[next[b]]) =
                 LET after == Sweep(edges, evidence, b.standing)
                 IN  IF b.left = 0 THEN [standing |-> b.standing, converged |-> FALSE]
                     ELSE IF after = b.standing THEN [standing |-> after, converged |-> TRUE]
                     ELSE f[[left |-> b.left - 1, standing |-> after]]
    OBVIOUS
  <2> HIDE DEF Done, out, next
  <2> QED BY <1>5, <2>1 DEF Solves
<1>6. \E f : Solves(f, edges, evidence)
  <2> HIDE DEF Is
  <2> QED BY <1>4, <1>5
<1> DEFINE solved == CHOOSE f : Solves(f, edges, evidence)
<1>7. Solves(solved, edges, evidence)
  BY <1>6
<1>8. SolveOver(edges, evidence) = solved[[left |-> MaxIterations, standing |-> evidence]]
  BY DEF SolveOver, Solves
<1> QED BY <1>7, <1>8

Standings == [Claim -> 0..Scale]

At(n, standing) == [left |-> n, standing |-> standing]

Steps(sweep, edges, evidence, n, s) ==
  /\ n = 0 => sweep[At(n, s)] = [standing |-> s, converged |-> FALSE]
  /\ n # 0 /\ Sweep(edges, evidence, s) = s => sweep[At(n, s)] = [standing |-> s, converged |-> TRUE]
  /\ n # 0 /\ Sweep(edges, evidence, s) # s => sweep[At(n, s)] = sweep[At(n - 1, Sweep(edges, evidence, s))]

LEMMA SolveSteps ==
  ASSUME GraphAssumption, NEW edges \in SUBSET Relation, NEW evidence \in Standings,
         NEW sweep, Solves(sweep, edges, evidence), NEW n \in 0..MaxIterations, NEW s \in Standings
  PROVE  Steps(sweep, edges, evidence, n, s)
<1>1. At(n, s) \in Loop /\ At(n, s).left = n /\ At(n, s).standing = s
  BY DEF At, Loop, Standings
<1>2. sweep[At(n, s)] =
        LET after == Sweep(edges, evidence, At(n, s).standing)
        IN  IF At(n, s).left = 0 THEN [standing |-> At(n, s).standing, converged |-> FALSE]
            ELSE IF after = At(n, s).standing THEN [standing |-> after, converged |-> TRUE]
            ELSE sweep[[left |-> At(n, s).left - 1, standing |-> after]]
  BY <1>1 DEF Solves
<1> QED BY <1>1, <1>2 DEF At, Steps

Ended(edges, evidence, end) ==
  /\ end.standing \in Standings /\ end.converged \in BOOLEAN
  /\ end.converged => Sweep(edges, evidence, end.standing) = end.standing

LEMMA SolveIn ==
  ASSUME GraphAssumption, NEW edges \in SUBSET Relation, NEW evidence \in Standings,
         NEW sweep, Solves(sweep, edges, evidence)
  PROVE  \A n \in 0..MaxIterations : \A s \in Standings : Ended(edges, evidence, sweep[At(n, s)])
<1> DEFINE Good(end) == Ended(edges, evidence, end)
           G == {n \in Nat : n <= MaxIterations => \A s \in Standings : Good(sweep[At(n, s)])}
<1>1. 0 \in G
  <2> SUFFICES ASSUME NEW s \in Standings, 0 \in 0..MaxIterations PROVE Good(sweep[At(0, s)])
    BY DEF GraphAssumption
  <2>1. sweep[At(0, s)] = [standing |-> s, converged |-> FALSE]
    <3>1. PICK n \in 0..MaxIterations : n = 0
      OBVIOUS
    <3>2. Steps(sweep, edges, evidence, n, s)
      BY SolveSteps
    <3> QED BY <3>1, <3>2 DEF Steps
  <2> QED BY <2>1 DEF Ended
<1>2. ASSUME NEW n \in Nat, n \in G PROVE n + 1 \in G
  <2> SUFFICES ASSUME n + 1 <= MaxIterations, NEW s \in Standings PROVE Good(sweep[At(n + 1, s)])
    OBVIOUS
  <2>1. n + 1 \in 0..MaxIterations /\ n + 1 # 0 /\ (n + 1) - 1 = n
    BY DEF GraphAssumption
  <2>2. PICK m \in 0..MaxIterations : m = n + 1
    BY <2>1
  <2>5. Steps(sweep, edges, evidence, m, s)
    BY SolveSteps
  <2>3. CASE Sweep(edges, evidence, s) = s
    <3>1. sweep[At(m, s)] = [standing |-> s, converged |-> TRUE]
      BY <2>1, <2>2, <2>3, <2>5 DEF Steps
    <3> QED BY <2>2, <2>3, <3>1 DEF Ended
  <2>4. CASE Sweep(edges, evidence, s) # s
    <3>1. sweep[At(m, s)] = sweep[At(m - 1, Sweep(edges, evidence, s))]
      BY <2>1, <2>2, <2>4, <2>5 DEF Steps
    <3>2. Sweep(edges, evidence, s) \in Standings
      BY SweepIn DEF Standings
    <3>3. \A t \in Standings : Good(sweep[At(n, t)])
      BY <1>2, <2>1, GraphAssumption DEF GraphAssumption
    <3>4. Good(sweep[At(n, Sweep(edges, evidence, s))])
      <4> HIDE DEF Good
      <4> QED BY <3>2, <3>3
    <3> HIDE DEF Good
    <3> QED BY <2>1, <2>2, <3>1, <3>4
  <2> HIDE DEF Good
  <2> QED BY <2>3, <2>4
<1> HIDE DEF G
<1>3. Nat \subseteq G
  BY <1>1, <1>2, Adding!NatByInduction
<1>4. \A n \in 0..MaxIterations : \A s \in Standings : Good(sweep[At(n, s)])
  <2>1. \A n \in 0..MaxIterations : n \in Nat /\ n <= MaxIterations
    BY DEF GraphAssumption
  <2> HIDE DEF Good
  <2> QED BY <1>3, <2>1 DEF G
<1> QED BY <1>4

LEMMA SolveEnds ==
  ASSUME GraphAssumption, NEW edges \in SUBSET Relation, NEW evidence \in Standings
  PROVE  Ended(edges, evidence, SolveOver(edges, evidence))
<1>1. PICK sweep : /\ Solves(sweep, edges, evidence)
                   /\ SolveOver(edges, evidence) = sweep[[left |-> MaxIterations, standing |-> evidence]]
  BY SolveUnfolds DEF Standings
<1>2. SolveOver(edges, evidence) = sweep[At(MaxIterations, evidence)]
  BY <1>1 DEF At
<1>3. MaxIterations \in 0..MaxIterations
  BY DEF GraphAssumption
<1>4. \A n \in 0..MaxIterations : \A s \in Standings : Ended(edges, evidence, sweep[At(n, s)])
  BY <1>1, SolveIn
<1> QED BY <1>2, <1>3, <1>4

\* Whether or not the loop stops at a sweep that moved nothing, it ends where the next one does.
LEMMA SolveGoesOn ==
  ASSUME GraphAssumption, NEW edges \in SUBSET Relation, NEW evidence \in Standings,
         NEW sweep, Solves(sweep, edges, evidence), NEW n \in Nat, n + 1 <= MaxIterations, NEW s \in Standings
  PROVE  sweep[At(n + 1, s)].standing = sweep[At(n, Sweep(edges, evidence, s))].standing
<1>1. PICK m \in 0..MaxIterations : m = n + 1 /\ m # 0 /\ m - 1 = n
  BY DEF GraphAssumption
<1>2. PICK k \in 0..MaxIterations : k = n
  BY DEF GraphAssumption
<1>3. PICK after : after = Sweep(edges, evidence, s)
  OBVIOUS
<1>4. Steps(sweep, edges, evidence, m, s)
  BY SolveSteps
<1>5. Steps(sweep, edges, evidence, k, s)
  BY SolveSteps
<1>6. CASE after = s
  <2>1. sweep[At(m, s)].standing = s
    BY <1>1, <1>3, <1>4, <1>6 DEF Steps
  <2>2. sweep[At(k, s)].standing = s
    BY <1>3, <1>5, <1>6 DEF Steps
  <2> QED BY <1>1, <1>2, <1>3, <1>6, <2>1, <2>2
<1>7. CASE after # s
  <2>1. sweep[At(m, s)] = sweep[At(n, after)]
    BY <1>1, <1>3, <1>4, <1>7 DEF Steps
  <2> QED BY <1>1, <1>3, <2>1
<1> QED BY <1>6, <1>7

---------------------------------------------------------------------------
(* The judges *)

Pushing == INSTANCE FoldLemmas WITH Op <- Push
LEMMA PushingIs ==
  ASSUME NEW base, NEW seq
  PROVE FoldLeft(Push, base, seq) = Pushing!SequenceFold(base, seq)
  BY DEF FoldLeft, MapThenFoldSet, Max, Pushing!SequenceFold, Pushing!FoldLeft, Pushing!MapThenFoldSet, Pushing!Max

\* What the judges have said of a model are marks.
MarkLists == Seq(0..Scale)

Heard(D) == UNION {[S -> Seq(0..Scale)] : S \in SUBSET D}

LEMMA PushKeeps ==
  ASSUME NEW D, NEW cards \in Heard(D), NEW given, given.of \subseteq D, given.mark \in Int
  PROVE  Push(cards, given) \in Heard(D)
<1>1. PICK S \in SUBSET D : cards \in [S -> Seq(0..Scale)]
  BY DEF Heard
<1> DEFINE next == [m \in S \union given.of |->
                      IF m \in given.of
                        THEN Append(IF m \in S THEN cards[m] ELSE <<>>, Clamp(given.mark))
                        ELSE cards[m]]
<1>2. Clamp(given.mark) \in 0..Scale
  BY ClampIn
<1>3. \A m \in S : cards[m] \in Seq(0..Scale)
  BY <1>1
<1>4. \A m \in S \union given.of : next[m] \in Seq(0..Scale)
  <2> SUFFICES ASSUME NEW m \in S \union given.of PROVE next[m] \in Seq(0..Scale)
    OBVIOUS
  <2> DEFINE before == IF m \in S THEN cards[m] ELSE <<>>
  <2>3. before \in Seq(0..Scale)
    <3>1. CASE m \in S
      BY <1>3, <3>1
    <3>2. CASE m \notin S
      BY <3>2
    <3> QED BY <3>1, <3>2
  <2>1. PICK earlier \in Seq(0..Scale) : earlier = before
    BY <2>3
  <2>2. Append(earlier, Clamp(given.mark)) \in Seq(0..Scale)
    BY <1>2, <2>1
  <2> QED BY <1>3, <2>1, <2>2
<1>5. next \in [S \union given.of -> Seq(0..Scale)]
  <2>1. next = [m \in S \union given.of |-> next[m]]
    OBVIOUS
  <2> HIDE DEF next
  <2> QED BY <1>4, <2>1
<1>6. Push(cards, given) = next
  BY <1>1 DEF Push
<1>7. S \union given.of \in SUBSET D
  OBVIOUS
<1> HIDE DEF next
<1> QED BY <1>5, <1>6, <1>7 DEF Heard

LEMMA PushesKeep ==
  ASSUME NEW D, NEW cards \in Heard(D), NEW n \in Nat, NEW given, DOMAIN given = 1..n,
         \A i \in 1..n : given[i].of \subseteq D /\ given[i].mark \in Int
  PROVE  FoldLeft(Push, cards, given) \in Heard(D)
<1> DEFINE G == Heard(D)
<1>1. \A acc \in G, i \in 1..n : Push(acc, given[i]) \in G
  BY PushKeeps
<1>2. cards \in G
  OBVIOUS
<1>3. Pushing!SequenceFold(cards, given) \in G
  <2> HIDE DEF G
  <2> QED BY <1>1, <1>2, Pushing!SequenceFoldKeeps
<1> QED BY <1>3, PushingIs

LEMMA MeanOver ==
  ASSUME NEW n \in Nat \ {0}, NEW S, IsFiniteSet(S), Cardinality(S) = n, NEW cards \in [S -> 0..1000]
  PROVE  \E sum \in Nat : sum = SumFunction(cards) /\ sum <= 1000 * n
<1>2. PICK top : top = [i \in S |-> 1000]
  OBVIOUS
<1>3. top \in [S -> Int] /\ DOMAIN top = S /\ \A i \in S : top[i] = 1000
  BY <1>2
<1>4. cards \in [S -> Nat] /\ cards \in [S -> Int]
  <2>1. DOMAIN cards = S /\ cards = [i \in S |-> cards[i]]
    OBVIOUS
  <2>2. \A i \in S : cards[i] \in 0..1000
    OBVIOUS
  <2>3. \A i \in S : cards[i] \in Nat /\ cards[i] \in Int
    BY <2>2
  <2> QED BY <2>1, <2>3
<1>5. ASSUME NEW i \in S PROVE cards[i] <= top[i]
  <2>1. cards[i] \in 0..1000 /\ top[i] = 1000
    BY <1>3
  <2> QED BY <2>1
<1>6. PICK x \in Nat : x = SumFunction(cards)
  BY <1>4, SumOfNats
<1>7. SumFunction(cards) <= SumFunction(top)
  BY <1>3, <1>4, <1>5, SumGrows
<1>8. SumFunction(top) = 1000 * Cardinality(S)
  BY <1>3, SumOfSame
<1>9. x <= 1000 * n
  BY <1>6, <1>7, <1>8
<1> QED BY <1>6, <1>9

LEMMA MeanOfIn ==
  ASSUME NEW cards \in MarkLists
  PROVE  MeanOf(cards) \in 0..Scale
<1>1. CASE cards = <<>>
  BY <1>1 DEF MeanOf, Scale
<1>2. CASE cards # <<>>
  <2>1. /\ Len(cards) \in Nat \ {0}
        /\ cards \in [1..Len(cards) -> 0..Scale]
    <3>1. PICK R : R = 0..Scale
      OBVIOUS
    <3>2. cards \in Seq(R)
      BY <3>1 DEF MarkLists
    <3>3. Len(cards) \in Nat /\ cards \in [1..Len(cards) -> R] /\ Len(cards) # 0
      BY <1>2, <3>2
    <3> QED BY <3>1, <3>3
  <2>2. PICK n \in Nat \ {0} : n = Len(cards)
    BY <2>1
  <2>3. PICK S : S = 1..n
    OBVIOUS
  <2>4. IsFiniteSet(S) /\ Cardinality(S) = n
    <3>1. IsFiniteSet(1..n) /\ Cardinality(1..n) = n
      BY FS_Interval, 1 \in Int, n \in Int
    <3> QED BY <2>3, <3>1
  <2>5. cards \in [S -> 0..1000]
    BY <2>1, <2>2, <2>3, ScaleIs
  <2>6. PICK sum \in Nat : sum = SumFunction(cards) /\ sum <= 1000 * n
    BY <2>4, <2>5, MeanOver
  <2>7. PICK q \in 0..1000 : q = sum \div n
    <3>1. PICK k \in Nat : k = 1000 /\ sum <= k * n
      BY <2>6
    <3>2. sum \div n \in 0..k
      BY <3>1, QuotientIn
    <3> QED BY <3>1, <3>2
  <2>8. MeanOf(cards) = sum \div n
    BY <1>2, <2>2, <2>6 DEF MeanOf
  <2> QED BY <2>7, <2>8, ScaleIs
<1> QED BY <1>1, <1>2

(***************************************************************************)
(* What every state of the end of a run is like: the resolution handed on  *)
(* is that of the claims as the rounds left them; only who was read has    *)
(* marks, and nobody before the shuffle; the record is what a decision     *)
(* makes of the marks there are, of which no more come.                    *)
(***************************************************************************)
HandedOn ==
  /\ settled \in Ending /\ direct \in Matrix
  /\ graph = Resolve(settled, direct, NoMarks)

MarksOfTheRead ==
  /\ answers \in Seq(Answer)
  /\ scores \in Heard({m \in Model : Read(m)})
  /\ order = <<>> => scores = [m \in {} |-> <<>>]
  /\ order = <<>> \/ order \in [DOMAIN Panel -> DOMAIN Panel]

Recorded ==
  record = NoRecord \/ (Len(answers) = Jurors /\ \E stop \in Stop : record = Decision(stop))

JudgementInv == HandedOn /\ MarksOfTheRead /\ Recorded

LEMMA JudgementStarts == JudgementInit => JudgementInv
<1> SUFFICES ASSUME JudgementInit PROVE JudgementInv
  OBVIOUS
<1>1. HandedOn /\ Recorded
  BY DEF JudgementInit, HandedOn, Recorded
<1>2. MarksOfTheRead
  <2>1. [m \in {} |-> <<>>] \in [{} -> Seq(0..Scale)]
    OBVIOUS
  <2>2. [m \in {} |-> <<>>] \in Heard({m \in Model : Read(m)})
    BY <2>1 DEF Heard
  <2> QED BY <2>2 DEF JudgementInit, MarksOfTheRead
<1> QED BY <1>1, <1>2 DEF JudgementInv

LEMMA DecisionStays ==
  ASSUME NEW stop, settled' = settled, direct' = direct, scores' = scores
  PROVE  Decision(stop)' = Decision(stop)
BY DEF Decision, Record, JudgesForConfidence, ScoresByModel

LEMMA HandedOnStep ==
  ASSUME HandedOn, JudgementNext \/ UNCHANGED judgementVars
  PROVE  HandedOn'
BY DEF HandedOn, JudgementNext, Shuffle, Listen, WriteRecord, judgementVars

LEMMA RecordedStep ==
  ASSUME JudgementAssumption, Recorded, JudgementNext \/ UNCHANGED judgementVars
  PROVE  Recorded'
<1>1. CASE Shuffle \/ UNCHANGED judgementVars
  <2>1. /\ settled' = settled /\ direct' = direct /\ scores' = scores
        /\ record' = record /\ answers' = answers
    BY <1>1 DEF Shuffle, judgementVars
  <2>2. \A stop \in Stop : Decision(stop)' = Decision(stop)
    BY <2>1, DecisionStays
  <2> QED BY <2>1, <2>2 DEF Recorded
<1>2. CASE Listen
  <2>1. record' = record /\ Len(answers) < Jurors
    BY <1>2 DEF Listen
  <2>2. Len(answers) # Jurors
    BY <2>1 DEF JudgementAssumption
  <2> QED BY <2>1, <2>2 DEF Recorded
<1>3. CASE WriteRecord
  <2>1. /\ settled' = settled /\ direct' = direct /\ scores' = scores
        /\ answers' = answers /\ Len(answers) = Jurors /\ \E stop \in Stop : record' = Decision(stop)
    BY <1>3 DEF WriteRecord
  <2>2. \A stop \in Stop : Decision(stop)' = Decision(stop)
    BY <2>1, DecisionStays
  <2> QED BY <2>1, <2>2 DEF Recorded
<1> QED BY <1>1, <1>2, <1>3 DEF JudgementNext

LEMMA MarksStep ==
  ASSUME JudgementAssumption, MarksOfTheRead, JudgementNext \/ UNCHANGED judgementVars
  PROVE  MarksOfTheRead'
<1>1. CASE WriteRecord \/ UNCHANGED judgementVars
  <2>1. answers' = answers /\ order' = order /\ scores' = scores
    BY <1>1 DEF WriteRecord, judgementVars
  <2>2. \A m : Read(m)' <=> Read(m)
    BY <2>1 DEF Read
  <2>3. PICK D : D = {m \in Model : Read(m)}
    OBVIOUS
  <2>4. D = {m \in Model : Read(m)'}
    BY <2>2, <2>3
  <2>5. scores' \in Heard(D)
    BY <2>1, <2>3 DEF MarksOfTheRead
  <2> QED BY <2>1, <2>4, <2>5 DEF MarksOfTheRead
<1>2. CASE Shuffle
  <2>1. /\ order = <<>> /\ order' \in [DOMAIN Panel -> DOMAIN Panel]
        /\ answers' = answers /\ scores' = scores
    BY <1>2 DEF Shuffle
  <2>2. scores = [m \in {} |-> <<>>]
    BY <2>1 DEF MarksOfTheRead
  <2>3. [m \in {} |-> <<>>] \in [{} -> Seq(0..Scale)]
    OBVIOUS
  <2>4. (scores \in Heard({m \in Model : Read(m)}))'
    BY <2>1, <2>2, <2>3 DEF Heard
  <2> QED BY <2>1, <2>2, <2>4 DEF MarksOfTheRead
<1>3. CASE Listen
  <2>1. PICK said \in Answer : /\ answers' = Append(answers, said)
                             /\ scores' = FoldLeft(Push, scores, Scorecards(said))
    BY <1>3 DEF Listen
  <2>2. order' = order /\ (order # <<>> \/ Panel = <<>>)
    BY <1>3 DEF Listen
  <2>3. said \in Seq([pseudonym : Nat, mark : Int])
    BY DEF JudgementAssumption
  <2>13. PICK T : T = [pseudonym : Nat, mark : Int]
    OBVIOUS
  <2>14. said \in Seq(T)
    BY <2>3, <2>13
  <2>4. PICK n \in Nat : n = Len(said)
    BY <2>14
  <2>15. DOMAIN said = 1..n /\ \A i \in 1..n : said[i] \in T
    BY <2>4, <2>14
  <2>16. DOMAIN said = 1..n /\ \A i \in 1..n : said[i] \in [pseudonym : Nat, mark : Int]
    BY <2>13, <2>15
  <2>5. PICK given : given = Scorecards(said)
    OBVIOUS
  <2>6. PICK D : D = {m \in Model : Read(m)'}
    OBVIOUS
  <2>7. \A m : Read(m) => Read(m)'
    <3>1. \A j \in DOMAIN answers : j \in DOMAIN answers' /\ answers'[j] = answers[j]
      BY <2>1 DEF MarksOfTheRead
    <3> QED BY <2>2, <3>1 DEF Read
  <2>8. scores \in Heard(D)
    BY <2>6, <2>7 DEF MarksOfTheRead, Heard
  <2>9. DOMAIN given = 1..n /\ \A i \in 1..n : given[i].of \subseteq D /\ given[i].mark \in Int
    <3>1. DOMAIN said = 1..n /\ \A i \in 1..n : said[i] \in [pseudonym : Nat, mark : Int]
      BY <2>16
    <3>2. DOMAIN given = 1..n
      BY <2>5, <3>1 DEF Scorecards
    <3> SUFFICES ASSUME NEW i \in 1..n PROVE given[i].of \subseteq D /\ given[i].mark \in Int
      BY <3>2
    <3>3. PICK p : p = said[i].pseudonym
      OBVIOUS
    <3>4. /\ given[i].of = IF p \in DOMAIN order THEN {Panel[order[p]]} ELSE {}
          /\ given[i].mark = said[i].mark
      BY <2>5, <3>1, <3>3 DEF Scorecards, ModelNamed
    <3>5. CASE p \notin DOMAIN order
      BY <3>1, <3>4, <3>5
    <3>6. CASE p \in DOMAIN order
      <4>1. order # <<>> /\ order \in [DOMAIN Panel -> DOMAIN Panel]
        BY <3>6 DEF MarksOfTheRead
      <4>2. Panel[order[p]] \in Model
        BY <3>6, <4>1 DEF JudgementAssumption
      <4>3. Read(Panel[order[p]])'
        <5>1. answers \in Seq(Answer) /\ said \in Answer
          BY DEF MarksOfTheRead
        <5>2. PICK j : j = Len(answers) + 1
          OBVIOUS
        <5>3. j \in DOMAIN answers' /\ answers'[j] = said
          BY <2>1, <5>1, <5>2
        <5> QED BY <2>2, <3>1, <3>3, <3>6, <5>3 DEF Read
      <4>4. Panel[order[p]] \in D
        <5>1. PICK m \in Model : m = Panel[order[p]]
          BY <4>2
        <5>2. Read(m)'
          BY <2>2, <4>3, <5>1 DEF Read
        <5> QED BY <2>6, <5>1, <5>2
      <4> QED BY <3>1, <3>4, <3>6, <4>4
    <3> QED BY <3>5, <3>6
  <2>10. scores' \in Heard(D)
    BY <2>1, <2>5, <2>8, <2>9, PushesKeep
  <2>11. answers' \in Seq(Answer)
    BY <2>1 DEF MarksOfTheRead
  <2>12. order' = <<>> => scores' = [m \in {} |-> <<>>]
    <3> SUFFICES ASSUME order = <<>> PROVE scores' = [m \in {} |-> <<>>]
      BY <2>2
    <3>1. scores \in Heard({})
      <4>1. [m \in {} |-> <<>>] \in [{} -> Seq(0..Scale)]
        OBVIOUS
      <4>2. scores = [m \in {} |-> <<>>]
        BY DEF MarksOfTheRead
      <4>3. {} \in SUBSET {}
        OBVIOUS
      <4> QED BY <4>1, <4>2, <4>3 DEF Heard
    <3>2. DOMAIN said = 1..n /\ \A i \in 1..n : said[i] \in [pseudonym : Nat, mark : Int]
      BY <2>16
    <3>3. DOMAIN given = 1..n /\ \A i \in 1..n : given[i].of = {} /\ given[i].mark \in Int
      BY <2>5, <3>2 DEF Scorecards
    <3>4. \A i \in 1..n : given[i].of \subseteq {} /\ given[i].mark \in Int
      BY <3>3
    <3>5. scores' \in Heard({})
      BY <2>1, <2>5, <3>1, <3>3, <3>4, PushesKeep
    <3> QED BY <3>5 DEF Heard
  <2> QED BY <2>2, <2>6, <2>10, <2>11, <2>12 DEF MarksOfTheRead
<1> QED BY <1>1, <1>2, <1>3 DEF JudgementNext

\* The end of a run goes on from one resolution, with the marks of those who were read.
THEOREM JudgementHolds == JudgementSpec => []JudgementInv
<1>1. JudgementInv /\ [JudgementNext]_judgementVars => JudgementInv'
  BY JudgementAssumption, HandedOnStep, MarksStep, RecordedStep DEF JudgementInv
<1> QED BY <1>1, JudgementStarts, PTL DEF JudgementSpec

---------------------------------------------------------------------------
(* Shares *)

LEMMA StandingSum ==
  ASSUME GraphAssumption, NEW standing \in Standings, NEW S \in SUBSET Claim
  PROVE  SumFunction([c \in S |-> standing[c]]) \in Nat /\ IsFiniteSet(S)
<1>1. IsFiniteSet(S)
  BY FS_Subset DEF GraphAssumption
<1>2. [c \in S |-> standing[c]] \in [S -> Nat]
  <2>1. \A c \in S : standing[c] \in 0..Scale
    BY DEF Standings
  <2>2. \A c \in S : standing[c] \in Nat
    <3>1. \A n \in 0..Scale : n \in Nat
      BY ScaleIs
    <3> QED BY <2>1, <3>1
  <2> QED BY <2>2
<1> QED BY <1>1, <1>2, SumOfNats

LEMMA RawIn ==
  ASSUME GraphAssumption, NEW standing \in Standings, NEW matrix, NEW option
  PROVE  Raw(matrix, standing, option) \in Nat
<1> DEFINE sum(S) == SumFunction([c \in S |-> standing[c]])
           for == Bears(matrix, "Supports", option)
           against == Bears(matrix, "Opposes", option)
<1>1. for \in SUBSET Claim /\ against \in SUBSET Claim
  BY DEF Bears
<1>2. Raw(matrix, standing, option) =
        IF 2 * sum(for) - sum(against) < 0 THEN 0 ELSE 2 * sum(for) - sum(against)
  BY DEF Raw
<1> HIDE DEF for, against
<1>3. PICK x \in Nat : x = sum(for)
  BY <1>1, StandingSum
<1>4. PICK y \in Nat : y = sum(against)
  BY <1>1, StandingSum
<1> HIDE DEF sum
<1> QED BY <1>2, <1>3, <1>4

LEMMA LiveIs ==
  ASSUME DecisionAssumption
  PROVE  Live \subseteq Nat /\ Live # {} /\ IsFiniteSet(Live)
<1>1. Live \subseteq Nat /\ Live # {}
  BY DEF Live, DecisionAssumption
<1>2. IsFiniteSet(Live)
  BY FS_Subset DEF Live, DecisionAssumption
<1> QED BY <1>1, <1>2

LEMMA SharesIn ==
  ASSUME GraphAssumption, DecisionAssumption, NEW standing \in Standings, NEW matrix
  PROVE  Shares(matrix, standing) \in [Live -> Nat]
<1>1. PICK raw : raw = [o \in Live |-> Raw(matrix, standing, o)]
  OBVIOUS
<1>2. raw \in [Live -> Nat]
  BY <1>1, RawIn
<1>3. PICK total \in Nat : total = SumFunction(raw)
  BY <1>2, LiveIs, SumOfNats
<1>4. Shares(matrix, standing) = [o \in Live |-> IF total > 0 THEN (1000 * raw[o]) \div total ELSE 0]
  BY <1>1, <1>3, ScaleIs DEF Shares
<1>5. \A o \in Live : (IF total > 0 THEN (1000 * raw[o]) \div total ELSE 0) \in Nat
  <2> SUFFICES ASSUME NEW o \in Live, total > 0 PROVE (1000 * raw[o]) \div total \in Nat
    OBVIOUS
  <2>1. PICK x \in Nat : x = 1000 * raw[o]
    BY <1>2
  <2>2. x \div total \in Nat
    OBVIOUS
  <2> QED BY <2>1, <2>2
<1> QED BY <1>4, <1>5

Beats(shares, o, p) == shares[o] > shares[p] \/ (shares[o] = shares[p] /\ o < p)

\* Of finitely many options one has more than, or as much as and comes before, any other.
LEMMA LeadingBeats ==
  ASSUME NEW among \in SUBSET Nat, IsFiniteSet(among), among # {},
         NEW shares, \A o \in among : shares[o] \in Int
  PROVE  /\ Leading(shares, among) \in among
         /\ \A p \in among \ {Leading(shares, among)} : Beats(shares, Leading(shares, among), p)
<1> DEFINE G == {s \in SUBSET among : s # {} => \E o \in s : \A p \in s \ {o} : Beats(shares, o, p)}
<1>1. ASSUME NEW s \in SUBSET among, \A x \in s : s \ {x} \in G PROVE s \in G
  <2>1. CASE s = {}
    BY <2>1
  <2>2. CASE s # {}
    <3>1. PICK y \in s : TRUE
      BY <2>2
    <3>2. CASE s = {y}
      BY <3>2
    <3>3. CASE s # {y}
      <4>1. PICK o \in s \ {y} : \A p \in (s \ {y}) \ {o} : Beats(shares, o, p)
        BY <1>1, <3>1, <3>3
      <4>2. /\ o \in Nat /\ y \in Nat /\ s \subseteq Nat /\ o # y
            /\ \A p \in s : shares[p] \in Int
        OBVIOUS
      <4>3. CASE Beats(shares, o, y)
        BY <4>1, <4>3
      <4>4. CASE ~Beats(shares, o, y)
        <5>1. Beats(shares, y, o)
          BY <4>2, <4>4 DEF Beats
        <5>2. ASSUME NEW p \in s \ {y} PROVE Beats(shares, y, p)
          <6>1. CASE p = o
            BY <5>1, <6>1
          <6>2. CASE p # o
            <7>1. Beats(shares, o, p)
              BY <4>1, <6>2
            <7> QED BY <4>2, <5>1, <7>1 DEF Beats
          <6> QED BY <6>1, <6>2
        <5> QED BY <3>1, <5>2
      <4> QED BY <4>3, <4>4
    <3> QED BY <3>2, <3>3
  <2> QED BY <2>1, <2>2
<1> HIDE DEF G
<1>2. SUBSET among \subseteq G
  <2>1. Adding!IsFiniteSet(among)
    BY DEF IsFiniteSet, Adding!IsFiniteSet
  <2> QED BY <1>1, <2>1, Adding!FiniteByInduction
<1>3. \E o \in among : \A p \in among \ {o} : Beats(shares, o, p)
  BY <1>2 DEF G
<1> QED BY <1>3 DEF Leading, Beats

LEMMA WinnerLeads ==
  ASSUME DecisionAssumption, NEW shares \in [Live -> Nat]
  PROVE  /\ Winner(shares) \in Live
         /\ Margin(shares) \in Int
         /\ \A o \in Live \ {Winner(shares)} : shares[Winner(shares)] - shares[o] >= Margin(shares)
<1>1. Winner(shares) \in Live
  BY LiveIs, LeadingBeats DEF Winner
<1>2. PICK top \in Live : top = Winner(shares)
  BY <1>1
<1>3. PICK others : others = Live \ {top}
  OBVIOUS
<1>4. CASE others = {}
  BY <1>2, <1>3, <1>4 DEF Margin
<1>5. CASE others # {}
  <2>1. others \in SUBSET Nat /\ IsFiniteSet(others) /\ \A o \in others : shares[o] \in Int
    BY <1>3, LiveIs, FS_Subset
  <2>2. /\ Leading(shares, others) \in others
        /\ \A p \in others \ {Leading(shares, others)} : Beats(shares, Leading(shares, others), p)
    BY <1>5, <2>1, LeadingBeats
  <2>3. PICK second \in others : second = Leading(shares, others)
    BY <2>2
  <2>4. Margin(shares) = shares[top] - shares[second]
    BY <1>2, <1>3, <1>5, <2>3 DEF Margin
  <2>5. shares[top] \in Nat /\ shares[second] \in Nat
    BY <1>3
  <2>6. \A o \in others : shares[o] \in Nat /\ shares[o] <= shares[second]
    BY <1>3, <2>2, <2>3 DEF Beats
  <2>7. \A o \in others : shares[top] - shares[o] >= shares[top] - shares[second]
    BY <2>5, <2>6
  <2> QED BY <1>2, <1>3, <2>4, <2>5, <2>7
<1> QED BY <1>4, <1>5

LEMMA MeanIsInt ==
  ASSUME GraphAssumption, NEW standing \in Standings, NEW S \in SUBSET Claim
  PROVE  Mean(standing, S) \in Int
<1>1. CASE S = {}
  BY <1>1 DEF Mean
<1>2. CASE S # {}
  <2>1. PICK x \in Nat : x = SumFunction([c \in S |-> standing[c]])
    BY StandingSum
  <2>2. PICK n \in Nat \ {0} : n = Cardinality(S)
    BY <1>2, StandingSum, FS_CardinalityType, FS_EmptySet
  <2>3. x \div n \in Int
    OBVIOUS
  <2>4. Mean(standing, S) = x \div n
    BY <1>2, <2>1, <2>2 DEF Mean
  <2> QED BY <2>3, <2>4
<1> QED BY <1>1, <1>2

---------------------------------------------------------------------------
(* Converged *)

\* The evidence for the claims the rounds ended with, under some marks.
EvidenceOf(ending, marks) == [c \in Claim |-> Evidence(c, ending[c], marks)]

LEMMA EvidenceTyped ==
  ASSUME GraphAssumption, JudgementAssumption, NEW ending \in Ending, NEW D, NEW marks \in [D -> 0..Scale]
  PROVE  EvidenceOf(ending, marks) \in Standings
<1>1. ASSUME NEW c \in Claim PROVE Evidence(c, ending[c], marks) \in 0..Scale
  <2>1. ending[c] \in ClaimState
    BY DEF JudgementAssumption
  <2> QED BY <2>1, EvidenceIn
<1> QED BY <1>1 DEF EvidenceOf, Standings

LEMMA StandingTyped ==
  ASSUME GraphAssumption, JudgementAssumption, NEW ending \in Ending, NEW cells,
         NEW D, NEW marks \in [D -> 0..Scale]
  PROVE  Resolve(ending, cells, marks).standing \in Standings
<1>1. EvidenceOf(ending, marks) \in Standings
  BY EvidenceTyped
<1>2. Relation \in SUBSET Relation
  OBVIOUS
<1>3. Ended(Relation, EvidenceOf(ending, marks), SolveOver(Relation, EvidenceOf(ending, marks)))
  BY <1>1, <1>2, SolveEnds
<1>4. Resolve(ending, cells, marks).standing = SolveOver(Relation, EvidenceOf(ending, marks)).standing
  BY DEF Resolve, EvidenceOf
<1> QED BY <1>3, <1>4 DEF Ended

LEMMA NotMarked ==
  ASSUME DOMAIN scores = {}
  PROVE  ScoresByModel = NoMarks
BY DEF ScoresByModel, NoMarks

LEMMA ScoresAreMarks ==
  ASSUME MarksOfTheRead
  PROVE  ScoresByModel \in [DOMAIN scores -> 0..Scale]
<1>1. \A m \in DOMAIN scores : scores[m] \in Seq(0..Scale)
  BY DEF MarksOfTheRead, Heard
<1>2. \A m \in DOMAIN scores : MeanOf(scores[m]) \in 0..Scale
  <2>1. \A m \in DOMAIN scores : scores[m] \in MarkLists
    BY <1>1 DEF MarkLists
  <2> QED BY <2>1, MeanOfIn
<1> QED BY <1>2 DEF ScoresByModel

\* The outcome of a resolution on which the controller would have stopped.
LEMMA ConvergedOutcome ==
  ASSUME GraphAssumption, DecisionAssumption, NEW made, made.standing \in Standings,
         Converged(made), NEW stop,
         NEW shares, shares = Shares(made.matrix, made.standing)
  PROVE  /\ Outcome(made, shares, stop \in CutShort) # "SplitDecision"
         /\ Outcome(made, shares, stop \in CutShort) = "MajorityWithDissent" =>
              \E o \in Live \ {Winner(shares)} : shares[o] >= 200
<1>1. shares \in [Live -> Nat]
  BY SharesIn
<1>2. PICK top : top = Winner(shares)
  OBVIOUS
<1>3. /\ top \in Live /\ Margin(shares) \in Int
      /\ \A o \in Live \ {top} : shares[top] - shares[o] >= Margin(shares)
  BY <1>1, <1>2, WinnerLeads
<1>4. ~LiveDissent(made, top) /\ Margin(shares) >= 225
  BY <1>2 DEF Converged
<1>5. PICK mass \in Int : mass = EvidenceMass(made, top)
  <2>1. Decisive(made.matrix, top) \in SUBSET Claim
    BY DEF Decisive, Bears
  <2> QED BY <2>1, MeanIsInt DEF EvidenceMass
<1> DEFINE floor == IF stop \in CutShort THEN 420 ELSE 350
           short == mass < floor \/ UnresolvedRatio(made) > 400 \/ shares[top] < 200
           split == \E o \in Live \ {top} : shares[top] - shares[o] < 150 /\ shares[o] >= 200
           alone == \A o \in Live \ {top} : shares[o] < 200
<1>6. Outcome(made, shares, stop \in CutShort) =
        IF short THEN "InsufficientEvidence"
        ELSE IF split THEN "SplitDecision"
        ELSE IF ~LiveDissent(made, top) /\ alone /\ mass >= 350 THEN "Consensus"
        ELSE "MajorityWithDissent"
  BY <1>2, <1>5 DEF Outcome
<1>7. ~split
  <2> SUFFICES ASSUME NEW o \in Live \ {top} PROVE ~(shares[top] - shares[o] < 150)
    OBVIOUS
  <2>1. shares[top] \in Nat /\ shares[o] \in Nat
    BY <1>1, <1>3
  <2> QED BY <1>3, <1>4, <2>1
<1>8. ~short => mass >= 350
  OBVIOUS
<1>9. ~alone => \E o \in Live \ {top} : shares[o] >= 200
  BY <1>1
<1> HIDE DEF short, split, alone
<1> QED BY <1>2, <1>4, <1>6, <1>7, <1>8, <1>9

LEMMA ConvergedIsSettledHere ==
  ASSUME GraphAssumption, DecisionAssumption, JudgementAssumption, JudgementInv
  PROVE  ConvergedIsSettled
<1> SUFFICES ASSUME Decided, Converged(graph), DOMAIN scores = {}
             PROVE  /\ record.outcome # "SplitDecision"
                    /\ record.outcome = "MajorityWithDissent" =>
                         \E o \in Live \ {record.recommendation} : record.options[o] >= 200
                    /\ \A t \in record.triggers : record.classified[t.claim] = "Disputed"
  BY DEF ConvergedIsSettled
<1>1. PICK stop \in Stop : record = Decision(stop)
  BY DEF Decided, JudgementInv, Recorded
<1>2. graph = Resolve(settled, direct, ScoresByModel)
  BY NotMarked DEF JudgementInv, HandedOn
<1>3. PICK shares : shares = Shares(graph.matrix, graph.standing)
  OBVIOUS
<1>4. PICK top : top = Winner(shares)
  OBVIOUS
<1>6. /\ record.outcome = Outcome(graph, shares, stop \in CutShort)
      /\ record.recommendation = top
      /\ record.options = shares
      /\ record.classified = graph.classified
      /\ record.triggers = {[claim |-> f.claim, direction |-> f.direction, newWinner |-> f.newWinner] :
                              f \in {f \in graph.flips : f.newWinner # top}}
  BY <1>1, <1>2, <1>3, <1>4 DEF Decision, Record
<1>7. graph.standing \in Standings
  <2>1. NoMarks \in [{} -> 0..Scale]
    BY DEF NoMarks
  <2> QED BY <2>1, StandingTyped DEF JudgementInv, HandedOn
<1>8. /\ record.outcome # "SplitDecision"
      /\ record.outcome = "MajorityWithDissent" => \E o \in Live \ {top} : shares[o] >= 200
  BY <1>3, <1>4, <1>6, <1>7, ConvergedOutcome
<1>10. /\ graph.flips = {Flip(c, EvidenceOf(settled, NoMarks), graph.standing, Propagate(direct)) :
                          c \in Candidates(settled, graph.standing)}
       /\ graph.classified = [c \in Claim |-> Classify(c, settled[c], graph.standing)]
  BY DEF Resolve, EvidenceOf, JudgementInv, HandedOn
<1>9. ASSUME NEW t \in record.triggers PROVE record.classified[t.claim] = "Disputed"
  <2>1. PICK f \in graph.flips : f.newWinner # top /\ t.claim = f.claim
    BY <1>6
  <2>2. \E c \in Candidates(settled, graph.standing) : f.claim = c
    <3>1. PICK c \in Candidates(settled, graph.standing) :
            f = Flip(c, EvidenceOf(settled, NoMarks), graph.standing, Propagate(direct))
      BY <1>10
    <3> QED BY <3>1 DEF Flip
  <2>3. graph.classified[f.claim] \in {"Disputed", "Unresolved"}
    BY <1>10, <2>2 DEF Candidates
  <2>4. graph.classified[f.claim] = "Unresolved" => f.newWinner = top
    BY <1>3, <1>4 DEF Converged
  <2> QED BY <1>6, <2>1, <2>3, <2>4
<1> QED BY <1>6, <1>8, <1>9

\* What the controller stops for as converged, the record does not undo.
THEOREM ConvergedStaysSettled == JudgementSpec => []ConvergedIsSettled
<1>1. JudgementInv => ConvergedIsSettled
  BY GraphAssumption, DecisionAssumption, JudgementAssumption, ConvergedIsSettledHere
<1> QED BY <1>1, JudgementHolds, PTL

---------------------------------------------------------------------------
(* Holding a claim *)

Cut(c) == {r \in Relation : r.to # c}

\* Nothing weighs on a claim to which no relation leads, and what leads to others is left.
LEMMA CutWeighs ==
  ASSUME GraphAssumption, NEW c, NEW d, NEW kind, NEW s
  PROVE  /\ Weighed(Cut(c), kind, c, s) = 0
         /\ d # c => Weighed(Cut(c), kind, d, s) = Weighed(Relation, kind, d, s)
<1>1. {r \in Cut(c) : r.kind = kind /\ r.to = c} = {}
  BY DEF Cut
<1>2. SumFunction([r \in {} |-> Times(r.confidence, s[r.from])]) = 0
  <2>1. PICK f : f = [r \in {} |-> Times(r.confidence, s[r.from])]
    OBVIOUS
  <2>2. PICK none : none = {}
    OBVIOUS
  <2>3. IsFiniteSet(none) /\ DOMAIN f = none
    BY <2>1, <2>2, FS_EmptySet
  <2>4. SumFunction(f) = Adding!Total(f, none)
    BY <2>3, SumIsTotal
  <2> QED BY <2>1, <2>2, <2>4, Adding!TotalEmpty
<1>3. Weighed(Cut(c), kind, c, s) = 0
  BY <1>1, <1>2 DEF Weighed
<1>4. d # c => {r \in Cut(c) : r.kind = kind /\ r.to = d} = {r \in Relation : r.kind = kind /\ r.to = d}
  BY DEF Cut
<1>5. d # c => Weighed(Cut(c), kind, d, s) = Weighed(Relation, kind, d, s)
  BY <1>4 DEF Weighed
<1> QED BY <1>3, <1>5

LEMMA SweepHeld ==
  ASSUME GraphAssumption, NEW c \in Claim, NEW x \in {0, Scale}, NEW evidence \in Standings,
         NEW s \in Standings, s[c] = x
  PROVE  Sweep(Cut(c), [evidence EXCEPT ![c] = x], s) = [Sweep(Relation, evidence, s) EXCEPT ![c] = x]
<1> DEFINE e == [evidence EXCEPT ![c] = x]
<1>1. e[c] = x /\ \A d \in Claim \ {c} : e[d] = evidence[d]
  BY DEF Standings
<1>2. Target(Cut(c), c, x, s) = x
  <2>1. Weighed(Cut(c), "Supports", c, s) = 0 /\ Weighed(Cut(c), "Contradicts", c, s) = 0
        /\ Weighed(Cut(c), "Qualifies", c, s) = 0
    BY CutWeighs
  <2> QED BY <2>1 DEF Target, Times, CapAt, Clamp, Scale
<1>3. ASSUME NEW d \in Claim \ {c}
      PROVE  Target(Cut(c), d, e[d], s) = Target(Relation, d, evidence[d], s)
  <2>1. /\ Weighed(Cut(c), "Supports", d, s) = Weighed(Relation, "Supports", d, s)
        /\ Weighed(Cut(c), "Contradicts", d, s) = Weighed(Relation, "Contradicts", d, s)
        /\ Weighed(Cut(c), "Qualifies", d, s) = Weighed(Relation, "Qualifies", d, s)
    BY CutWeighs
  <2> QED BY <1>1, <2>1 DEF Target
<1> HIDE DEF e
<1>4. (s[c] + Target(Cut(c), c, e[c], s)) \div 2 = x
  BY <1>1, <1>2 DEF Scale
<1>5. ASSUME NEW d \in Claim
      PROVE  (s[d] + Target(Cut(c), d, e[d], s)) \div 2 =
               IF d = c THEN x ELSE (s[d] + Target(Relation, d, evidence[d], s)) \div 2
  BY <1>3, <1>4
<1> QED BY <1>5 DEF Sweep, e

\* What the loop of Held ends with.
Holds(sweep, c, value, evidence) ==
  sweep = [loop \in Loop |->
             LET after == [Sweep(Relation, evidence, loop.standing) EXCEPT ![c] = value]
             IN  IF loop.left = 0 THEN loop.standing
                 ELSE sweep[[left |-> loop.left - 1, standing |-> after]]]

LEMMA HeldUnfolds ==
  ASSUME GraphAssumption, NEW c \in Claim, NEW value \in 0..Scale, NEW evidence \in Standings
  PROVE  \E sweep : /\ Holds(sweep, c, value, evidence)
                    /\ Held(c, value, evidence) =
                         sweep[At(MaxIterations, [evidence EXCEPT ![c] = value])]
<1> DEFINE after(s) == [Sweep(Relation, evidence, s) EXCEPT ![c] = value]
           Done == {b \in Loop : b.left = 0}
           out == [b \in Loop |-> b.standing]
           next == [b \in Loop |-> [left |-> b.left - 1, standing |-> after(b.standing)]]
           measure == [b \in Loop |-> b.left]
<1>1. MaxIterations \in Nat /\ Relation \in SUBSET Relation
  BY DEF GraphAssumption
<1>2. measure \in [Loop -> 0..MaxIterations]
  BY DEF Loop
<1>3. Adding!Shrinks(Loop, Done, next, measure)
  <2> SUFFICES ASSUME NEW b \in Loop, b \notin Done PROVE next[b] \in Loop /\ measure[next[b]] < measure[b]
    BY DEF Adding!Shrinks
  <2>1. b.left \in 1..MaxIterations /\ b.standing \in Standings
    BY <1>1 DEF Loop, Standings
  <2>2. Sweep(Relation, evidence, b.standing) \in Standings
    BY <1>1, <2>1, SweepIn DEF Standings
  <2>3. after(b.standing) \in Standings
    BY <2>2 DEF Standings
  <2>4. next[b] \in Loop /\ next[b].left = b.left - 1
    BY <1>1, <2>1, <2>3 DEF Loop, Standings
  <2> QED BY <2>1, <2>4
<1>4. \E f : Adding!Loops(f, Loop, Done, out, next)
  <2> HIDE DEF Done, out, next, measure
  <2> QED BY <1>1, <1>2, <1>3, Adding!LoopExists
<1>5. ASSUME NEW f, Adding!Loops(f, Loop, Done, out, next) PROVE Holds(f, c, value, evidence)
  <2>1. ASSUME NEW b \in Loop
        PROVE  (IF b \in Done THEN out[b] ELSE f[next[b]]) =
                 IF b.left = 0 THEN b.standing
                 ELSE f[[left |-> b.left - 1, standing |-> after(b.standing)]]
    OBVIOUS
  <2> HIDE DEF Done, out, next
  <2> QED BY <1>5, <2>1 DEF Holds, Adding!Loops
<1>6. \E f : Holds(f, c, value, evidence)
  BY <1>4, <1>5
<1> DEFINE fixed == CHOOSE f : Holds(f, c, value, evidence)
<1>7. Holds(fixed, c, value, evidence)
  BY <1>6
<1>8. Held(c, value, evidence) = fixed[At(MaxIterations, [evidence EXCEPT ![c] = value])]
  BY DEF Held, Holds, At
<1> QED BY <1>7, <1>8

HoldSteps(sweep, c, value, evidence, n, s) ==
  /\ n = 0 => sweep[At(n, s)] = s
  /\ n # 0 => sweep[At(n, s)] = sweep[At(n - 1, [Sweep(Relation, evidence, s) EXCEPT ![c] = value])]

LEMMA HeldSteps ==
  ASSUME GraphAssumption, NEW c \in Claim, NEW value, NEW evidence,
         NEW sweep, Holds(sweep, c, value, evidence), NEW n \in 0..MaxIterations, NEW s \in Standings
  PROVE  HoldSteps(sweep, c, value, evidence, n, s)
<1>1. At(n, s) \in Loop /\ At(n, s).left = n /\ At(n, s).standing = s
  BY DEF At, Loop, Standings
<1>2. sweep[At(n, s)] =
        LET after == [Sweep(Relation, evidence, At(n, s).standing) EXCEPT ![c] = value]
        IN  IF At(n, s).left = 0 THEN At(n, s).standing
            ELSE sweep[[left |-> At(n, s).left - 1, standing |-> after]]
  BY <1>1 DEF Holds
<1> QED BY <1>1, <1>2 DEF At, HoldSteps

\* To change the evidence and drop the relations is to hold the claim.
LEMMA FlipHolds ==
  ASSUME GraphAssumption, NEW c \in Claim, NEW x \in {0, Scale}, NEW evidence \in Standings
  PROVE  Held(c, x, evidence) = SolveOver(Cut(c), [evidence EXCEPT ![c] = x]).standing
<1> DEFINE e == [evidence EXCEPT ![c] = x]
<1>1. x \in 0..Scale /\ Cut(c) \in SUBSET Relation /\ MaxIterations \in 0..MaxIterations
  BY ScaleIs DEF Cut, GraphAssumption
<1>2. e \in Standings /\ e[c] = x
  BY <1>1 DEF Standings
<1>3. PICK fixed : Holds(fixed, c, x, evidence) /\ Held(c, x, evidence) = fixed[At(MaxIterations, e)]
  BY <1>1, HeldUnfolds
<1> HIDE DEF e
<1>4. PICK sweep : /\ Solves(sweep, Cut(c), e)
                   /\ SolveOver(Cut(c), e) = sweep[At(MaxIterations, e)]
  BY <1>1, <1>2, SolveUnfolds DEF Standings, At
<1> DEFINE Same(n) == \A s \in Standings : s[c] = x => fixed[At(n, s)] = sweep[At(n, s)].standing
           G == {n \in Nat : n <= MaxIterations => Same(n)}
<1>5. ASSUME NEW n \in 0..MaxIterations, NEW s \in Standings
      PROVE  Steps(sweep, Cut(c), e, n, s) /\ HoldSteps(fixed, c, x, evidence, n, s)
  BY <1>1, <1>2, <1>3, <1>4, SolveSteps, HeldSteps
<1>6. 0 \in G
  <2> SUFFICES ASSUME NEW s \in Standings, s[c] = x PROVE fixed[At(0, s)] = sweep[At(0, s)].standing
    OBVIOUS
  <2>1. PICK n \in 0..MaxIterations : n = 0
    BY DEF GraphAssumption
  <2>2. Steps(sweep, Cut(c), e, n, s) /\ HoldSteps(fixed, c, x, evidence, n, s)
    BY <1>5
  <2> QED BY <2>1, <2>2 DEF Steps, HoldSteps
<1>7. ASSUME NEW n \in Nat, n \in G PROVE n + 1 \in G
  <2> SUFFICES ASSUME n + 1 <= MaxIterations, NEW s \in Standings, s[c] = x
               PROVE  fixed[At(n + 1, s)] = sweep[At(n + 1, s)].standing
    OBVIOUS
  <2>1. n \in 0..MaxIterations /\ n + 1 \in 0..MaxIterations /\ n + 1 # 0 /\ (n + 1) - 1 = n
    BY DEF GraphAssumption
  <2>2. PICK m \in 0..MaxIterations : m = n + 1 /\ m # 0 /\ m - 1 = n
    BY <2>1
  <2>3. PICK after : after = Sweep(Cut(c), e, s)
    OBVIOUS
  <2>4. after = [Sweep(Relation, evidence, s) EXCEPT ![c] = x]
    BY <2>3, SweepHeld DEF e
  <2>5. after \in Standings
    BY <1>1, <1>2, <2>3, SweepIn DEF Standings
  <2>6. after[c] = x
    BY <2>4 DEF Sweep
  <2>7. fixed[At(m, s)] = fixed[At(n, after)]
    <3>1. HoldSteps(fixed, c, x, evidence, m, s)
      BY <1>5
    <3>2. m # 0 /\ m - 1 = n
      BY <2>2
    <3> QED BY <2>4, <3>1, <3>2 DEF HoldSteps
  <2>8. Same(n)
    BY <1>7, <2>1
  <2>9. fixed[At(n, after)] = sweep[At(n, after)].standing
    BY <2>5, <2>6, <2>8
  <2>10. sweep[At(n + 1, s)].standing = sweep[At(n, after)].standing
    BY <1>1, <1>2, <1>4, <2>3, SolveGoesOn
  <2> QED BY <2>2, <2>7, <2>9, <2>10
<1> HIDE DEF G
<1>8. Nat \subseteq G
  BY <1>6, <1>7, Adding!NatByInduction
<1>9. Same(MaxIterations)
  BY <1>1, <1>8 DEF G, GraphAssumption
<1>10. fixed[At(MaxIterations, e)] = sweep[At(MaxIterations, e)].standing
  BY <1>2, <1>9
<1> QED BY <1>3, <1>4, <1>10 DEF e

\* What a flip makes win is what wins with the claim held.
LEMMA FlipWins ==
  ASSUME GraphAssumption, NEW c \in Claim, NEW evidence \in Standings, NEW standing, NEW matrix
  PROVE  /\ Flip(c, evidence, standing, matrix).claim = c
         /\ Flip(c, evidence, standing, matrix).newWinner =
              Winner(Shares(matrix, Held(c, Extreme(standing, c), evidence)))
<1>1. PICK x \in {0, Scale} : x = Extreme(standing, c)
  BY DEF Extreme
<1>2. Held(c, x, evidence) = SolveOver(Cut(c), [evidence EXCEPT ![c] = x]).standing
  BY FlipHolds
<1>3. PICK fixed : fixed = Held(c, x, evidence)
  OBVIOUS
<1>4. SolveOver({r \in Relation : r.to # c}, [evidence EXCEPT ![c] = Extreme(standing, c)]).standing = fixed
  BY <1>1, <1>2, <1>3 DEF Cut
<1>5. Flip(c, evidence, standing, matrix).newWinner = Winner(Shares(matrix, fixed))
  BY <1>4 DEF Flip
<1>6. Flip(c, evidence, standing, matrix).claim = c
  BY DEF Flip
<1> QED BY <1>1, <1>3, <1>5, <1>6

LEMMA TriggersAreRealHere ==
  ASSUME GraphAssumption, DecisionAssumption, JudgementAssumption, JudgementInv
  PROVE  TriggersAreReal
<1> SUFFICES ASSUME Decided
             PROVE  {<<t.claim, t.newWinner>> : t \in record.triggers}
                      = {<<c, WinnerIfHeld(c)>> : c \in
                           {c \in Claim : /\ record.classified[c] \in {"Disputed", "Unresolved"}
                                          /\ WinnerIfHeld(c) # record.recommendation}}
  BY DEF TriggersAreReal
<1>1. PICK stop \in Stop : record = Decision(stop)
  BY DEF Decided, JudgementInv, Recorded
<1>2. PICK made : made = Resolve(settled, direct, ScoresByModel)
  OBVIOUS
<1>3. PICK e : e = EvidenceOf(settled, ScoresByModel)
  OBVIOUS
<1>4. PICK top : top = Winner(Shares(made.matrix, made.standing))
  OBVIOUS
<1>5. /\ record.recommendation = top
      /\ record.standing = made.standing
      /\ record.classified = made.classified
      /\ record.triggers = {[claim |-> f.claim, direction |-> f.direction, newWinner |-> f.newWinner] :
                              f \in {f \in made.flips : f.newWinner # top}}
  BY <1>1, <1>2, <1>4 DEF Decision, Record
<1>6. e \in Standings
  <2>1. ScoresByModel \in [DOMAIN scores -> 0..Scale]
    BY ScoresAreMarks DEF JudgementInv
  <2>2. settled \in Ending
    BY DEF JudgementInv, HandedOn
  <2> QED BY <1>3, <2>1, <2>2, EvidenceTyped
<1>7. /\ made.matrix = graph.matrix
      /\ made.classified = [c \in Claim |-> Classify(c, settled[c], made.standing)]
      /\ made.flips = {Flip(c, e, made.standing, made.matrix) : c \in Candidates(settled, made.standing)}
  BY <1>2, <1>3 DEF Resolve, EvidenceOf, JudgementInv, HandedOn
<1>8. ASSUME NEW c \in Claim
      PROVE  /\ Flip(c, e, made.standing, made.matrix).claim = c
             /\ Flip(c, e, made.standing, made.matrix).newWinner = WinnerIfHeld(c)
  <2>1. WinnerIfHeld(c) = Winner(Shares(made.matrix, Held(c, Extreme(made.standing, c), e)))
    BY <1>3, <1>5, <1>7 DEF WinnerIfHeld, EvidenceOf
  <2>2. PICK standing : standing = made.standing
    OBVIOUS
  <2>3. PICK matrix : matrix = made.matrix
    OBVIOUS
  <2>4. PICK flip : flip = Flip(c, e, standing, matrix)
    OBVIOUS
  <2>5. PICK wins : wins = Winner(Shares(matrix, Held(c, Extreme(standing, c), e)))
    OBVIOUS
  <2>6. flip.claim = c /\ flip.newWinner = wins
    BY <1>6, <2>4, <2>5, FlipWins
  <2>7. Flip(c, e, made.standing, made.matrix) = flip
    BY <2>2, <2>3, <2>4
  <2>8. WinnerIfHeld(c) = wins
    BY <2>1, <2>2, <2>3, <2>5
  <2> QED BY <2>6, <2>7, <2>8
<1>9. Candidates(settled, made.standing) = {c \in Claim : record.classified[c] \in {"Disputed", "Unresolved"}}
  BY <1>5, <1>7 DEF Candidates
<1> DEFINE listed == {<<t.claim, t.newWinner>> : t \in record.triggers}
           real == {c \in Claim : /\ record.classified[c] \in {"Disputed", "Unresolved"}
                                  /\ WinnerIfHeld(c) # record.recommendation}
<1>10. listed = {<<f.claim, f.newWinner>> : f \in {f \in made.flips : f.newWinner # top}}
  <2>1. PICK flips : flips = {f \in made.flips : f.newWinner # top}
    OBVIOUS
  <2>2. record.triggers = {[claim |-> f.claim, direction |-> f.direction, newWinner |-> f.newWinner] : f \in flips}
    BY <1>5, <2>1
  <2>3. ASSUME NEW t \in record.triggers PROVE \E f \in flips : t.claim = f.claim /\ t.newWinner = f.newWinner
    BY <2>2
  <2>4. ASSUME NEW f \in flips PROVE \E t \in record.triggers : t.claim = f.claim /\ t.newWinner = f.newWinner
    <3>1. [claim |-> f.claim, direction |-> f.direction, newWinner |-> f.newWinner] \in record.triggers
      BY <2>2
    <3> QED BY <3>1
  <2> QED BY <2>1, <2>3, <2>4, SMTT(30)
<1>11. {f \in made.flips : f.newWinner # top} = {Flip(c, e, made.standing, made.matrix) : c \in real}
  <2>1. real = {c \in Candidates(settled, made.standing) : WinnerIfHeld(c) # top}
    BY <1>5, <1>9
  <2>2. \A c \in Candidates(settled, made.standing) :
          Flip(c, e, made.standing, made.matrix).newWinner = WinnerIfHeld(c)
    BY <1>8, <1>9
  <2> HIDE DEF real
  <2> QED BY <1>7, <2>1, <2>2
<1>12. listed = {<<Flip(c, e, made.standing, made.matrix).claim,
                   Flip(c, e, made.standing, made.matrix).newWinner>> : c \in real}
  BY <1>10, <1>11
<1>13. \A c \in real : /\ Flip(c, e, made.standing, made.matrix).claim = c
                       /\ Flip(c, e, made.standing, made.matrix).newWinner = WinnerIfHeld(c)
  BY <1>8
<1>14. listed = {<<c, WinnerIfHeld(c)>> : c \in real}
  <2> HIDE DEF listed, real
  <2> QED BY <1>12, <1>13
<1> QED BY <1>14

\* What the record says would change the answer is what does so when held, and nothing else.
THEOREM TriggersStayReal == JudgementSpec => []TriggersAreReal
<1>1. JudgementInv => TriggersAreReal
  BY GraphAssumption, DecisionAssumption, JudgementAssumption, TriggersAreRealHere
<1> QED BY <1>1, JudgementHolds, PTL

---------------------------------------------------------------------------
(* What the marks reach *)

Agree(S, f, g) == \A c \in S : f[c] = g[c]

Upstream(S) == \A r \in Relation : r.to \in S => r.from \in S

LEMMA SweepsAgree ==
  ASSUME GraphAssumption, NEW S \in SUBSET Claim, Upstream(S),
         NEW e1, NEW e2, Agree(S, e1, e2), NEW s1, NEW s2, Agree(S, s1, s2)
  PROVE  Agree(S, Sweep(Relation, e1, s1), Sweep(Relation, e2, s2))
<1> SUFFICES ASSUME NEW c \in S
             PROVE  Sweep(Relation, e1, s1)[c] = Sweep(Relation, e2, s2)[c]
  BY DEF Agree
<1>1. ASSUME NEW kind PROVE Weighed(Relation, kind, c, s1) = Weighed(Relation, kind, c, s2)
  <2>1. PICK R : R = {r \in Relation : r.kind = kind /\ r.to = c}
    OBVIOUS
  <2>2. \A r \in R : s1[r.from] = s2[r.from]
    BY <2>1 DEF Upstream, Agree
  <2>3. [r \in R |-> Times(r.confidence, s1[r.from])] = [r \in R |-> Times(r.confidence, s2[r.from])]
    BY <2>2
  <2> QED BY <2>1, <2>3 DEF Weighed
<1>2. e1[c] = e2[c] /\ s1[c] = s2[c]
  BY DEF Agree
<1>3. Target(Relation, c, e1[c], s1) = Target(Relation, c, e2[c], s2)
  BY <1>1, <1>2 DEF Target
<1> QED BY <1>2, <1>3 DEF Sweep

\* The fixpoint of a part to which no relation leads from outside is its own.
LEMMA SolvesAgree ==
  ASSUME GraphAssumption, NEW S \in SUBSET Claim, Upstream(S),
         NEW e1 \in Standings, NEW e2 \in Standings, Agree(S, e1, e2)
  PROVE  Agree(S, SolveOver(Relation, e1).standing, SolveOver(Relation, e2).standing)
<1>1. Relation \in SUBSET Relation
  OBVIOUS
<1>2. PICK f : Solves(f, Relation, e1) /\ SolveOver(Relation, e1) = f[At(MaxIterations, e1)]
  BY <1>1, SolveUnfolds DEF Standings, At
<1>3. PICK g : Solves(g, Relation, e2) /\ SolveOver(Relation, e2) = g[At(MaxIterations, e2)]
  BY <1>1, SolveUnfolds DEF Standings, At
<1> DEFINE Same(n) == \A s1, s2 \in Standings : Agree(S, s1, s2) =>
                        Agree(S, f[At(n, s1)].standing, g[At(n, s2)].standing)
           G == {n \in Nat : n <= MaxIterations => Same(n)}
<1>4. 0 \in G
  <2> SUFFICES ASSUME NEW s1 \in Standings, NEW s2 \in Standings, Agree(S, s1, s2)
               PROVE  Agree(S, f[At(0, s1)].standing, g[At(0, s2)].standing)
    OBVIOUS
  <2>1. PICK n \in 0..MaxIterations : n = 0
    BY DEF GraphAssumption
  <2>2. Steps(f, Relation, e1, n, s1)
    BY <1>1, <1>2, SolveSteps
  <2>3. Steps(g, Relation, e2, n, s2)
    BY <1>1, <1>3, SolveSteps
  <2>4. f[At(0, s1)].standing = s1
    BY <2>1, <2>2 DEF Steps
  <2>5. g[At(0, s2)].standing = s2
    BY <2>1, <2>3 DEF Steps
  <2> QED BY <2>4, <2>5
<1>5. ASSUME NEW n \in Nat, n \in G PROVE n + 1 \in G
  <2> SUFFICES ASSUME n + 1 <= MaxIterations, NEW s1 \in Standings, NEW s2 \in Standings, Agree(S, s1, s2)
               PROVE  Agree(S, f[At(n + 1, s1)].standing, g[At(n + 1, s2)].standing)
    OBVIOUS
  <2>1. PICK a1 : a1 = Sweep(Relation, e1, s1)
    OBVIOUS
  <2>2. PICK a2 : a2 = Sweep(Relation, e2, s2)
    OBVIOUS
  <2>3. a1 \in Standings /\ a2 \in Standings
    BY <1>1, <2>1, <2>2, SweepIn DEF Standings
  <2>4. Agree(S, a1, a2)
    BY <2>1, <2>2, SweepsAgree
  <2>5. f[At(n + 1, s1)].standing = f[At(n, a1)].standing
    BY <1>1, <1>2, <2>1, SolveGoesOn
  <2>6. g[At(n + 1, s2)].standing = g[At(n, a2)].standing
    BY <1>1, <1>3, <2>2, SolveGoesOn
  <2>7. Same(n)
    BY <1>5 DEF GraphAssumption
  <2>8. Agree(S, f[At(n, a1)].standing, g[At(n, a2)].standing)
    BY <2>3, <2>4, <2>7
  <2> QED BY <2>5, <2>6, <2>8
<1> HIDE DEF G
<1>6. Nat \subseteq G
  BY <1>4, <1>5, Adding!NatByInduction
<1>7. Same(MaxIterations)
  BY <1>6 DEF G, GraphAssumption
<1>8. Agree(S, f[At(MaxIterations, e1)].standing, g[At(MaxIterations, e2)].standing)
  BY <1>7
<1> QED BY <1>2, <1>3, <1>8

LEMMA EvidenceUnmarked ==
  ASSUME GraphAssumption, NEW c \in Claim, NEW state, NEW marks, authorsOf[c] \intersect DOMAIN marks = {}
  PROVE  Evidence(c, state, marks) = Evidence(c, state, NoMarks)
<1>1. DOMAIN NoMarks = {}
  BY DEF NoMarks
<1>2. JudgeFactor(c, state, marks) = Scale
  BY DEF JudgeFactor
<1>3. JudgeFactor(c, state, NoMarks) = Scale
  BY <1>1 DEF JudgeFactor
<1> QED BY <1>2, <1>3 DEF Evidence

LEMMA MarksMoveTheirClaimsHere ==
  ASSUME GraphAssumption, JudgementAssumption, JudgementInv
  PROVE  MarksMoveTheirClaims
<1>1. PICK D : D = {d \in Claim : \E m \in authorsOf[d] : Read(m)}
  OBVIOUS
<1> SUFFICES ASSUME Decided, NEW c \in Claim, c \notin Downstream(D)
             PROVE  record.standing[c] = graph.standing[c]
  BY <1>1 DEF MarksMoveTheirClaims
<1>2. PICK S : S = Claim \ Downstream(D)
  OBVIOUS
<1>3. Upstream(S)
  <2> SUFFICES ASSUME NEW r \in Relation, r.to \in S, r.from \notin S PROVE FALSE
    BY DEF Upstream
  <2>1. r.from \in Claim /\ r.to \in Claim
    BY DEF GraphAssumption
  <2>2. r.from \in Downstream(D)
    BY <1>2, <2>1
  <2>3. r.to \in Downstream(D)
    BY <2>1, <2>2 DEF Downstream
  <2> QED BY <1>2, <2>3
<1>4. D \subseteq Downstream(D)
  BY <1>1 DEF Downstream
<1>5. PICK e1 : e1 = EvidenceOf(settled, ScoresByModel)
  OBVIOUS
<1>6. PICK e2 : e2 = EvidenceOf(settled, NoMarks)
  OBVIOUS
<1>7. e1 \in Standings /\ e2 \in Standings
  <2>1. ScoresByModel \in [DOMAIN scores -> 0..Scale]
    BY ScoresAreMarks DEF JudgementInv
  <2>2. NoMarks \in [{} -> 0..Scale]
    BY DEF NoMarks
  <2>3. settled \in Ending
    BY DEF JudgementInv, HandedOn
  <2>4. e1 \in Standings
    BY <1>5, <2>1, <2>3, EvidenceTyped
  <2>5. e2 \in Standings
    BY <1>6, <2>2, <2>3, EvidenceTyped
  <2> QED BY <2>4, <2>5
<1>8. Agree(S, e1, e2)
  <2> SUFFICES ASSUME NEW d \in S PROVE e1[d] = e2[d]
    BY DEF Agree
  <2>1. d \in Claim /\ d \notin D
    BY <1>2, <1>4
  <2>2. DOMAIN scores \subseteq {m \in Model : Read(m)}
    BY DEF JudgementInv, MarksOfTheRead, Heard
  <2>3. DOMAIN ScoresByModel = DOMAIN scores
    BY DEF ScoresByModel
  <2>4. authorsOf[d] \intersect DOMAIN ScoresByModel = {}
    BY <1>1, <2>1, <2>2, <2>3
  <2>5. PICK marks : marks = ScoresByModel
    OBVIOUS
  <2>6. PICK state : state = settled[d]
    OBVIOUS
  <2>7. Evidence(d, state, marks) = Evidence(d, state, NoMarks)
    BY <2>1, <2>4, <2>5, EvidenceUnmarked
  <2>8. e1[d] = Evidence(d, state, marks)
    BY <1>5, <2>1, <2>5, <2>6 DEF EvidenceOf
  <2>9. e2[d] = Evidence(d, state, NoMarks)
    BY <1>6, <2>1, <2>6 DEF EvidenceOf
  <2> QED BY <2>7, <2>8, <2>9
<1>9. Agree(S, SolveOver(Relation, e1).standing, SolveOver(Relation, e2).standing)
  BY <1>2, <1>3, <1>7, <1>8, SolvesAgree
<1>10. PICK stop \in Stop : record = Decision(stop)
  BY DEF Decided, JudgementInv, Recorded
<1>11. record.standing = SolveOver(Relation, e1).standing
  BY <1>5, <1>10 DEF Decision, Record, Resolve, EvidenceOf
<1>12. graph.standing = SolveOver(Relation, e2).standing
  BY <1>6 DEF JudgementInv, HandedOn, Resolve, EvidenceOf
<1>13. c \in S
  BY <1>2
<1> QED BY <1>9, <1>11, <1>12, <1>13 DEF Agree

\* A mark moves no claim but those of the author who was read, and what hangs on them.
THEOREM MarksStayInPlace == JudgementSpec => []MarksMoveTheirClaims
<1>1. JudgementInv => MarksMoveTheirClaims
  BY GraphAssumption, JudgementAssumption, MarksMoveTheirClaimsHere
<1> QED BY <1>1, JudgementHolds, PTL

---------------------------------------------------------------------------
(* The parts a chain is made of *)

LEMMA SumPlus ==
  ASSUME NEW S, IsFiniteSet(S), NEW f, DOMAIN f = S, NEW g \in [S -> Int], NEW h \in [S -> Int],
         \A x \in S : f[x] = g[x] + h[x]
  PROVE  SumFunction(f) = SumFunction(g) + SumFunction(h)
<1>1. /\ Adding!Adds /\ Adding!IsFiniteSet(S) /\ SumFunction(f) = Adding!Total(f, S)
      /\ SumFunction(g) = Adding!Total(g, S) /\ SumFunction(h) = Adding!Total(h, S)
  BY SumIsTotal
<1>2. \A x \in S : g[x] \in Int /\ h[x] \in Int /\ f[x] = g[x] + h[x]
  OBVIOUS
<1> QED BY <1>1, <1>2, Adding!TotalPlus

Rounds(m, d, w) == m * d <= w /\ w < m * d + m

\* Roundings down add up to at most one for each.
LEMMA SumFloors ==
  ASSUME NEW S, IsFiniteSet(S), NEW m \in Nat, NEW d \in [S -> Int], NEW w \in [S -> Int],
         \A x \in S : Rounds(m, d[x], w[x])
  PROVE  /\ SumFunction(d) \in Int /\ SumFunction(w) \in Int /\ Cardinality(S) \in Nat
         /\ m * SumFunction(d) <= SumFunction(w)
         /\ SumFunction(w) <= m * (SumFunction(d) + Cardinality(S))
<1> DEFINE low == [x \in S |-> m * d[x]]
           one == [x \in S |-> 1]
           next == [x \in S |-> d[x] + 1]
           high == [x \in S |-> m * (d[x] + 1)]
<1>1. low \in [S -> Int] /\ one \in [S -> Int] /\ next \in [S -> Int] /\ high \in [S -> Int]
  OBVIOUS
<1>2. \A x \in S : low[x] = m * d[x] /\ one[x] = 1 /\ next[x] = d[x] + one[x] /\ high[x] = m * next[x]
  OBVIOUS
<1>3. \A x \in S : low[x] <= w[x]
  BY DEF Rounds
<1>4. ASSUME NEW x \in S PROVE w[x] <= high[x]
  <2>1. PICK a \in Int : a = d[x]
    OBVIOUS
  <2>2. m * (a + 1) = m * a + m /\ m * a \in Int
    OBVIOUS
  <2>3. high[x] = m * (a + 1)
    BY <2>1
  <2>4. w[x] < m * a + m /\ w[x] \in Int
    BY <2>1 DEF Rounds
  <2> QED BY <2>2, <2>3, <2>4
<1> HIDE DEF low, one, next, high
<1>5. SumFunction(low) <= SumFunction(w) /\ SumFunction(w) \in Int /\ SumFunction(low) \in Int
  BY <1>1, <1>3, SumGrows
<1>6. SumFunction(w) <= SumFunction(high)
  BY <1>1, <1>4, SumGrows
<1>7. SumFunction(low) = m * SumFunction(d)
  BY <1>1, <1>2, SumTimes
<1>8. SumFunction(high) = m * SumFunction(next)
  BY <1>1, <1>2, SumTimes
<1>9. SumFunction(one) = 1 * Cardinality(S)
  BY <1>1, <1>2, SumOfSame
<1>10. SumFunction(next) = SumFunction(d) + SumFunction(one)
  BY <1>1, <1>2, SumPlus
<1>11. SumFunction(d) \in Int /\ Cardinality(S) \in Nat
  BY SumOfInts, FS_CardinalityType
<1>12. SumFunction(next) = SumFunction(d) + Cardinality(S)
  BY <1>9, <1>10, <1>11
<1> QED BY <1>5, <1>6, <1>7, <1>8, <1>11, <1>12

LEMMA FloorOf ==
  ASSUME NEW a \in Int, NEW m \in Nat \ {0}
  PROVE  a \div m \in Int /\ Rounds(m, a \div m, a)
<1>1. PICK q \in Int : q = a \div m
  OBVIOUS
<1>2. m * q <= a /\ a < m * q + m
  BY <1>1, Z3
<1> QED BY <1>1, <1>2 DEF Rounds

LEMMA Cancels ==
  ASSUME NEW m \in Nat \ {0}, NEW a \in Nat, NEW b \in Nat, m * a <= m * b
  PROVE  a <= b
<1> SUFFICES ASSUME b + 1 <= a PROVE FALSE
  OBVIOUS
<1>1. m * (b + 1) <= m * a /\ m * a \in Nat /\ m * (b + 1) \in Nat
  BY TimesGrows
<1>2. m * (b + 1) = m * b + m /\ m * b \in Nat
  OBVIOUS
<1> QED BY <1>1, <1>2

\* A capped sum is scaled down to its cap, but for the roundings.
LEMMA CappedParts ==
  ASSUME NEW S, IsFiniteSet(S), NEW w \in [S -> Nat], NEW cap \in Nat, NEW raw, raw = SumFunction(w), raw > cap,
         NEW v, v = [x \in S |-> (w[x] * cap) \div raw]
  PROVE  /\ v \in [S -> Nat] /\ SumFunction(v) \in Nat /\ Cardinality(S) \in Nat
         /\ SumFunction(v) <= cap /\ cap <= SumFunction(v) + Cardinality(S)
<1>1. raw \in Nat \ {0}
  <2>1. raw \in Nat
    BY SumOfNats
  <2> QED BY <2>1
<1> DEFINE t == [x \in S |-> cap * w[x]]
<1>2. t \in [S -> Int] /\ \A x \in S : t[x] = cap * w[x] /\ t[x] = w[x] * cap /\ t[x] \in Nat
  OBVIOUS
<1> HIDE DEF t
<1>3. ASSUME NEW x \in S PROVE v[x] \in Nat /\ Rounds(raw, v[x], t[x])
  <2>1. PICK a \in Nat : a = t[x]
    BY <1>2
  <2>2. v[x] = a \div raw
    BY <1>2, <2>1
  <2>3. PICK q \in Int : q = a \div raw
    BY <1>1
  <2>4. Rounds(raw, q, a)
    BY <1>1, <2>3, FloorOf
  <2>5. q \in Nat
    BY <1>1, <2>3, Z3
  <2> QED BY <2>1, <2>2, <2>3, <2>4, <2>5
<1>4. v \in [S -> Nat]
  BY <1>3
<1>5. PICK m \in Nat : m = raw
  BY <1>1
<1>6. /\ raw * SumFunction(v) <= SumFunction(t)
      /\ SumFunction(t) <= raw * (SumFunction(v) + Cardinality(S))
      /\ Cardinality(S) \in Nat
  <2>1. v \in [S -> Int]
    BY <1>4
  <2>2. \A x \in S : Rounds(m, v[x], t[x])
    BY <1>3, <1>5
  <2> QED BY <1>2, <1>5, <2>1, <2>2, SumFloors
<1>7. SumFunction(t) = cap * raw
  BY <1>2, SumTimes
<1>8. PICK x \in Nat : x = SumFunction(v)
  BY <1>4, SumOfNats
<1>9. PICK n \in Nat : n = Cardinality(S)
  BY <1>6
<1>10. cap * raw = raw * cap
  BY <1>1
<1>11. x <= cap
  BY <1>1, <1>6, <1>7, <1>8, <1>10, Cancels
<1>12. cap <= x + n
  BY <1>1, <1>6, <1>7, <1>8, <1>9, <1>10, Cancels
<1> QED BY <1>4, <1>8, <1>9, <1>11, <1>12

\* What the steps of one kind add up to: the gain times a sum V, which is
\* the cap for a sum above it.
Sums(S, gain, raw, cap, total, V) ==
  /\ total \in Int /\ V \in Nat /\ raw \in Nat /\ Cardinality(S) \in Nat
  /\ 1000 * total <= gain * V /\ gain * V <= 1000 * (total + Cardinality(S))
  /\ raw <= cap => V = raw
  /\ raw > cap => V <= cap /\ cap <= V + Cardinality(S)

Part(gain, amount) == (gain * amount) \div 1000

Scaled(cap, raw, amount) == IF raw > cap THEN (amount * cap) \div raw ELSE amount

PartSums(S, gain, total, V) ==
  /\ total \in Int /\ V \in Nat /\ Cardinality(S) \in Nat
  /\ 1000 * total <= gain * V /\ gain * V <= 1000 * (total + Cardinality(S))

LEMMA SumOfParts ==
  ASSUME NEW S, IsFiniteSet(S), NEW v \in [S -> Nat], NEW gain \in Int,
         NEW d, d = [x \in S |-> Part(gain, v[x])]
  PROVE  PartSums(S, gain, SumFunction(d), SumFunction(v))
<1> DEFINE t == [x \in S |-> gain * v[x]]
<1>1. t \in [S -> Int] /\ \A x \in S : t[x] = gain * v[x] /\ v[x] \in Int
  OBVIOUS
<1>2. d = [x \in S |-> t[x] \div 1000]
  BY DEF Part
<1> HIDE DEF t
<1>3. PICK m \in Nat \ {0} : m = 1000
  OBVIOUS
<1>4. \A x \in S : d[x] \in Int /\ Rounds(m, d[x], t[x])
  <2> SUFFICES ASSUME NEW x \in S PROVE d[x] \in Int /\ Rounds(m, d[x], t[x])
    OBVIOUS
  <2>1. PICK a \in Int : a = t[x]
    BY <1>1
  <2>2. d[x] = a \div m
    BY <1>2, <1>3, <2>1
  <2>3. a \div m \in Int /\ Rounds(m, a \div m, a)
    BY FloorOf
  <2> QED BY <2>1, <2>2, <2>3
<1>5. d \in [S -> Int]
  BY <1>2, <1>4
<1>6. /\ SumFunction(d) \in Int /\ Cardinality(S) \in Nat
      /\ m * SumFunction(d) <= SumFunction(t)
      /\ SumFunction(t) <= m * (SumFunction(d) + Cardinality(S))
  BY <1>1, <1>4, <1>5, SumFloors
<1>7. SumFunction(t) = gain * SumFunction(v)
  <2>1. v \in [S -> Int]
    OBVIOUS
  <2> QED BY <1>1, <2>1, SumTimes
<1>8. SumFunction(v) \in Nat
  BY SumOfNats
<1> QED BY <1>3, <1>6, <1>7, <1>8 DEF PartSums

LEMMA StepsOfAKind ==
  ASSUME NEW S, IsFiniteSet(S), NEW w \in [S -> Nat], NEW gain \in Int, NEW cap \in Nat,
         NEW raw, raw = SumFunction(w),
         NEW d, d = [x \in S |-> Part(gain, Scaled(cap, raw, w[x]))]
  PROVE  \E V : Sums(S, gain, raw, cap, SumFunction(d), V)
<1>1. raw \in Nat
  BY SumOfNats
<1>2. CASE raw > cap
  <2>1. PICK v : v = [x \in S |-> (w[x] * cap) \div raw]
    OBVIOUS
  <2>2. /\ v \in [S -> Nat] /\ SumFunction(v) <= cap /\ cap <= SumFunction(v) + Cardinality(S)
    BY <1>2, <2>1, CappedParts
  <2>3. d = [x \in S |-> Part(gain, v[x])]
    BY <1>2, <2>1 DEF Scaled
  <2>4. PartSums(S, gain, SumFunction(d), SumFunction(v))
    BY <2>2, <2>3, SumOfParts
  <2>5. Sums(S, gain, raw, cap, SumFunction(d), SumFunction(v))
    BY <1>1, <1>2, <2>2, <2>4 DEF Sums, PartSums
  <2> QED BY <2>5
<1>3. CASE ~(raw > cap)
  <2>1. d = [x \in S |-> Part(gain, w[x])]
    BY <1>3 DEF Scaled
  <2>2. PartSums(S, gain, SumFunction(d), SumFunction(w))
    BY <2>1, SumOfParts
  <2>3. Sums(S, gain, raw, cap, SumFunction(d), raw)
    BY <1>1, <1>3, <2>2 DEF Sums, PartSums
  <2> QED BY <2>3
<1> QED BY <1>2, <1>3

Near(x, y, n) == x - y \in -(2 * n)..(2 * n)

\* What the relations of each kind do to the target.
Pull(kind, c, s) ==
  CASE kind = "Supports" -> Times(250, CapAt(2000, Weighed(Relation, "Supports", c, s)))
    [] kind = "Contradicts" -> -Times(600, CapAt(1500, Weighed(Relation, "Contradicts", c, s)))
    [] kind = "Qualifies" -> -Times(150, Weighed(Relation, "Qualifies", c, s))

OfKind(kind, c) == {r \in Relation : r.kind = kind /\ r.to = c}

PullsNear(kind, c, s) ==
  LET S == OfKind(kind, c)
      steps == SumFunction([r \in S |-> Delta(r, s)])
  IN  Pull(kind, c, s) \in Int /\ steps \in Int /\ Cardinality(S) \in Nat /\ Near(Pull(kind, c, s), steps, Cardinality(S))

LEMMA OfKindWeighs ==
  ASSUME GraphAssumption, NEW s \in Standings, NEW kind, NEW c
  PROVE  /\ IsFiniteSet(OfKind(kind, c))
         /\ [r \in OfKind(kind, c) |-> Weight(r, s)] \in [OfKind(kind, c) -> Nat]
         /\ Weighed(Relation, kind, c, s) = SumFunction([r \in OfKind(kind, c) |-> Weight(r, s)])
<1>1. IsFiniteSet(OfKind(kind, c))
  BY FS_Subset DEF GraphAssumption, OfKind
<1>2. ASSUME NEW r \in OfKind(kind, c) PROVE Weight(r, s) \in Nat
  <2>1. r.confidence \in 0..Scale /\ r.from \in Claim
    BY DEF GraphAssumption, OfKind
  <2>2. s[r.from] \in 0..Scale
    BY <2>1 DEF Standings
  <2>3. PICK t \in 0..Scale : t = Times(r.confidence, s[r.from])
    BY <2>1, <2>2, TimesIn
  <2>4. t \in Nat
    BY ThousandthsAreNats
  <2> QED BY <2>3, <2>4 DEF Weight
<1>3. Weighed(Relation, kind, c, s) = SumFunction([r \in OfKind(kind, c) |-> Weight(r, s)])
  BY DEF Weighed, Weight, OfKind
<1> QED BY <1>1, <1>2, <1>3

LEMMA SupportPullsNear ==
  ASSUME GraphAssumption, NEW s \in Standings, NEW c
  PROVE  PullsNear("Supports", c, s)
<1>1. PICK S : S = OfKind("Supports", c)
  OBVIOUS
<1>2. PICK w : w = [r \in S |-> Weight(r, s)]
  OBVIOUS
<1>3. PICK raw : raw = Weighed(Relation, "Supports", c, s)
  OBVIOUS
<1>4. IsFiniteSet(S) /\ w \in [S -> Nat] /\ raw = SumFunction(w)
  BY <1>1, <1>2, <1>3, OfKindWeighs
<1>5. PICK d : d = [r \in S |-> Delta(r, s)]
  OBVIOUS
<1>6. d = [r \in S |-> Part(250, Scaled(2000, raw, w[r]))]
  <2> SUFFICES ASSUME NEW r \in S
               PROVE  Delta(r, s) = Part(250, Scaled(2000, raw, w[r]))
    BY <1>5
  <2>1. r.kind = "Supports" /\ r.to = c
    BY <1>1 DEF OfKind
  <2>2. Weight(r, s) = w[r]
    BY <1>2
  <2> QED BY <1>3, <2>1, <2>2, ScaleIs DEF Part, Delta, Gain, Cap, Scaled
<1>7. PICK V : Sums(S, 250, raw, 2000, SumFunction(d), V)
  <2>1. PICK g \in Int, cap \in Nat : g = 250 /\ cap = 2000
    OBVIOUS
  <2>2. d = [r \in S |-> Part(g, Scaled(cap, raw, w[r]))]
    BY <1>6, <2>1
  <2>3. \E V : Sums(S, g, raw, cap, SumFunction(d), V)
    BY <1>4, <2>2, StepsOfAKind
  <2> QED BY <2>1, <2>3
<1>8. PICK sum \in Int : sum = SumFunction(d)
  BY <1>7 DEF Sums
<1>9. PICK n \in Nat : n = Cardinality(S)
  BY <1>7 DEF Sums
<1>10. PICK p : p = Pull("Supports", c, s)
  OBVIOUS
<1>11. p = (250 * (IF raw > 2000 THEN 2000 ELSE raw)) \div 1000
  BY <1>3, <1>10, ScaleIs DEF Pull, Times, CapAt
<1>12. /\ raw \in Nat /\ V \in Nat /\ 1000 * sum <= 250 * V /\ 250 * V <= 1000 * (sum + n)
       /\ raw <= 2000 => V = raw
       /\ raw > 2000 => V <= 2000 /\ 2000 <= V + n
  BY <1>7, <1>8, <1>9 DEF Sums
<1>13. p \in Int /\ Near(p, sum, n)
  BY <1>11, <1>12 DEF Near
<1> QED BY <1>1, <1>5, <1>8, <1>9, <1>10, <1>13 DEF PullsNear

LEMMA AttackPullsNear ==
  ASSUME GraphAssumption, NEW s \in Standings, NEW c
  PROVE  PullsNear("Contradicts", c, s)
<1>1. PICK S : S = OfKind("Contradicts", c)
  OBVIOUS
<1>2. PICK w : w = [r \in S |-> Weight(r, s)]
  OBVIOUS
<1>3. PICK raw : raw = Weighed(Relation, "Contradicts", c, s)
  OBVIOUS
<1>4. IsFiniteSet(S) /\ w \in [S -> Nat] /\ raw = SumFunction(w)
  BY <1>1, <1>2, <1>3, OfKindWeighs
<1>5. PICK d : d = [r \in S |-> Delta(r, s)]
  OBVIOUS
<1>6. d = [r \in S |-> Part(-600, Scaled(1500, raw, w[r]))]
  <2> SUFFICES ASSUME NEW r \in S
               PROVE  Delta(r, s) = Part(-600, Scaled(1500, raw, w[r]))
    BY <1>5
  <2>1. r.kind = "Contradicts" /\ r.to = c
    BY <1>1 DEF OfKind
  <2>2. Weight(r, s) = w[r]
    BY <1>2
  <2> QED BY <1>3, <2>1, <2>2, ScaleIs DEF Part, Delta, Gain, Cap, Scaled
<1>7. PICK V : Sums(S, -600, raw, 1500, SumFunction(d), V)
  <2>1. PICK g \in Int, cap \in Nat : g = -600 /\ cap = 1500
    OBVIOUS
  <2>2. d = [r \in S |-> Part(g, Scaled(cap, raw, w[r]))]
    BY <1>6, <2>1
  <2>3. \E V : Sums(S, g, raw, cap, SumFunction(d), V)
    BY <1>4, <2>2, StepsOfAKind
  <2> QED BY <2>1, <2>3
<1>8. PICK sum \in Int : sum = SumFunction(d)
  BY <1>7 DEF Sums
<1>9. PICK n \in Nat : n = Cardinality(S)
  BY <1>7 DEF Sums
<1>10. PICK p : p = Pull("Contradicts", c, s)
  OBVIOUS
<1>11. p = -((600 * (IF raw > 1500 THEN 1500 ELSE raw)) \div 1000)
  BY <1>3, <1>10, ScaleIs DEF Pull, Times, CapAt
<1>12. /\ raw \in Nat /\ V \in Nat /\ 1000 * sum <= -600 * V /\ -600 * V <= 1000 * (sum + n)
       /\ raw <= 1500 => V = raw
       /\ raw > 1500 => V <= 1500 /\ 1500 <= V + n
  BY <1>7, <1>8, <1>9 DEF Sums
<1>13. p \in Int /\ Near(p, sum, n)
  BY <1>11, <1>12 DEF Near
<1> QED BY <1>1, <1>5, <1>8, <1>9, <1>10, <1>13 DEF PullsNear

LEMMA QualificationPullsNear ==
  ASSUME GraphAssumption, NEW s \in Standings, NEW c
  PROVE  PullsNear("Qualifies", c, s)
<1>1. PICK S : S = OfKind("Qualifies", c)
  OBVIOUS
<1>2. PICK w : w = [r \in S |-> Weight(r, s)]
  OBVIOUS
<1>3. PICK raw : raw = Weighed(Relation, "Qualifies", c, s)
  OBVIOUS
<1>4. IsFiniteSet(S) /\ w \in [S -> Nat] /\ raw = SumFunction(w)
  BY <1>1, <1>2, <1>3, OfKindWeighs
<1>5. PICK d : d = [r \in S |-> Delta(r, s)]
  OBVIOUS
<1>6. d = [r \in S |-> Part(-150, w[r])]
  <2> SUFFICES ASSUME NEW r \in S PROVE Delta(r, s) = Part(-150, w[r])
    BY <1>5
  <2>1. r.kind = "Qualifies"
    BY <1>1 DEF OfKind
  <2>2. Weight(r, s) = w[r]
    BY <1>2
  <2> QED BY <2>1, <2>2, ScaleIs DEF Part, Delta, Gain
<1>7. /\ SumFunction(d) \in Int /\ raw \in Nat /\ Cardinality(S) \in Nat
      /\ 1000 * SumFunction(d) <= -150 * raw
      /\ -150 * raw <= 1000 * (SumFunction(d) + Cardinality(S))
  <2>1. PICK g \in Int : g = -150
    OBVIOUS
  <2>2. d = [r \in S |-> Part(g, w[r])]
    BY <1>6, <2>1
  <2>3. PartSums(S, g, SumFunction(d), SumFunction(w))
    BY <1>4, <2>2, SumOfParts
  <2> QED BY <1>4, <2>1, <2>3 DEF PartSums
<1>8. PICK sum \in Int : sum = SumFunction(d)
  BY <1>7
<1>9. PICK n \in Nat : n = Cardinality(S)
  BY <1>7
<1>10. PICK p : p = Pull("Qualifies", c, s)
  OBVIOUS
<1>11. p = -((150 * raw) \div 1000)
  BY <1>3, <1>10, ScaleIs DEF Pull, Times
<1>12. p \in Int /\ Near(p, sum, n)
  BY <1>7, <1>8, <1>9, <1>11 DEF Near
<1> QED BY <1>1, <1>5, <1>8, <1>9, <1>10, <1>12 DEF PullsNear

Into(c) == {r \in Relation : r.to = c}

\* The chain of a claim is that of its supports, of its contradictions and of its qualifications.
LEMMA ChainSums ==
  ASSUME GraphAssumption, NEW s \in Standings, NEW c
  PROVE  LET sum(kind) == SumFunction([r \in OfKind(kind, c) |-> Delta(r, s)])
             number(kind) == Cardinality(OfKind(kind, c))
         IN  /\ SumFunction(DefeatChain(c, s)) = sum("Supports") + sum("Contradicts") + sum("Qualifies")
             /\ Cardinality(Into(c)) = number("Supports") + number("Contradicts") + number("Qualifies")
<1>1. PICK f : f = DefeatChain(c, s)
  OBVIOUS
<1>2. PICK A : A = OfKind("Supports", c)
  OBVIOUS
<1>3. PICK B : B = OfKind("Contradicts", c)
  OBVIOUS
<1>4. PICK C : C = OfKind("Qualifies", c)
  OBVIOUS
<1>5. PICK all : all = Into(c)
  OBVIOUS
<1>6. /\ IsFiniteSet(A) /\ IsFiniteSet(B) /\ IsFiniteSet(C)
      /\ A \intersect B = {} /\ (A \union B) \intersect C = {}
  <2>1. IsFiniteSet(A) /\ IsFiniteSet(B) /\ IsFiniteSet(C)
    BY <1>2, <1>3, <1>4, OfKindWeighs
  <2>2. A \intersect B = {} /\ (A \union B) \intersect C = {}
    BY <1>2, <1>3, <1>4 DEF OfKind
  <2> QED BY <2>1, <2>2
<1>7. all = (A \union B) \union C
  BY <1>2, <1>3, <1>4, <1>5 DEF OfKind, Into, GraphAssumption
<1>8. DOMAIN f = all /\ \A r \in all : f[r] = Delta(r, s)
  BY <1>1, <1>5 DEF DefeatChain, Into
<1>9. IsFiniteSet(all)
  BY <1>6, <1>7, FS_Union
<1>10. ASSUME NEW kind \in {"Supports", "Contradicts", "Qualifies"}, NEW r \in OfKind(kind, c)
       PROVE  Delta(r, s) \in Int
  <2>1. Weight(r, s) \in Nat
    <3>1. [q \in OfKind(kind, c) |-> Weight(q, s)] \in [OfKind(kind, c) -> Nat]
      BY OfKindWeighs
    <3>2. [q \in OfKind(kind, c) |-> Weight(q, s)][r] \in Nat
      BY <3>1
    <3> QED BY <3>2
  <2>2. PICK w \in Nat : w = Weight(r, s)
    BY <2>1
  <2>3. PICK raw \in Nat : raw = Weighed(Relation, kind, c, s)
    BY WeighedIn DEF Standings
  <2>4. r.kind = kind /\ r.to = c
    BY DEF OfKind
  <2>5. PICK g \in Int : g = Gain(kind)
    BY DEF Gain
  <2>6. PICK cap \in Nat : cap = Cap(kind)
    BY DEF Cap
  <2>7. PICK v : v = IF kind # "Qualifies" /\ raw > cap THEN (w * cap) \div raw ELSE w
    OBVIOUS
  <2>8. v \in Int
    <3>1. CASE raw > cap
      <4>1. PICK p \in Nat : p = w * cap
        OBVIOUS
      <4>2. raw \in Nat \ {0}
        BY <3>1
      <4>3. p \div raw \in Int
        BY <4>2
      <4> QED BY <2>7, <4>1, <4>3
    <3>2. CASE ~(raw > cap)
      BY <2>7, <3>2
    <3> QED BY <3>1, <3>2
  <2>9. Delta(r, s) = (g * v) \div 1000
    BY <2>2, <2>3, <2>4, <2>5, <2>6, <2>7, ScaleIs DEF Delta
  <2>10. PICK p \in Int : p = g * v
    BY <2>8
  <2>11. p \div 1000 \in Int
    OBVIOUS
  <2> QED BY <2>9, <2>10, <2>11
<1>11. \A r \in all : f[r] \in Int
  BY <1>2, <1>3, <1>4, <1>7, <1>8, <1>10
<1>12. /\ Adding!Adds /\ Adding!IsFiniteSet(all) /\ SumFunction(f) = Adding!Total(f, all)
  BY <1>8, <1>9, SumIsTotal
<1>13. Adding!IsFiniteSet(A) /\ Adding!IsFiniteSet(B) /\ Adding!IsFiniteSet(C) /\ Adding!IsFiniteSet(A \union B)
  <2>1. IsFiniteSet(A \union B)
    BY <1>6, FS_Union
  <2> QED BY <1>6, <2>1 DEF IsFiniteSet, Adding!IsFiniteSet
<1>14. Adding!Total(f, all) = Adding!Total(f, A) + Adding!Total(f, B) + Adding!Total(f, C)
  <2>1. Adding!Total(f, all) = Adding!Total(f, A \union B) + Adding!Total(f, C)
    BY <1>6, <1>7, <1>11, <1>12, <1>13, Adding!TotalUnion
  <2>2. Adding!Total(f, A \union B) = Adding!Total(f, A) + Adding!Total(f, B)
    BY <1>6, <1>7, <1>11, <1>12, <1>13, Adding!TotalUnion
  <2> QED BY <2>1, <2>2
<1>15. ASSUME NEW S \in SUBSET all, Adding!IsFiniteSet(S)
       PROVE  SumFunction([r \in S |-> Delta(r, s)]) = Adding!Total(f, S)
  <2>1. PICK g : g = [r \in S |-> Delta(r, s)]
    OBVIOUS
  <2>2. IsFiniteSet(S)
    BY <1>9, FS_Subset
  <2>3. SumFunction(g) = Adding!Total(g, S)
    BY <2>1, <2>2, SumIsTotal
  <2>4. \A r \in S : f[r] \in Int /\ g[r] = f[r]
    BY <1>8, <1>11, <2>1
  <2>5. Adding!Total(g, S) = Adding!Total(f, S)
    BY <1>12, <1>15, <2>4, Adding!TotalSame
  <2> QED BY <2>1, <2>3, <2>5
<1>16. Cardinality(all) = Cardinality(A) + Cardinality(B) + Cardinality(C)
  <2>1. Cardinality(A \union B) = Cardinality(A) + Cardinality(B) - 0
    BY <1>6, FS_Union, FS_EmptySet
  <2>2. IsFiniteSet(A \union B)
    BY <1>6, FS_Union
  <2>3. Cardinality(all) = Cardinality(A \union B) + Cardinality(C) - 0
    BY <1>6, <1>7, <2>2, FS_Union, FS_EmptySet
  <2>4. Cardinality(A) \in Nat /\ Cardinality(B) \in Nat /\ Cardinality(C) \in Nat
    BY <1>6, FS_CardinalityType
  <2> QED BY <2>1, <2>3, <2>4
<1>17. /\ SumFunction([r \in A |-> Delta(r, s)]) = Adding!Total(f, A)
       /\ SumFunction([r \in B |-> Delta(r, s)]) = Adding!Total(f, B)
       /\ SumFunction([r \in C |-> Delta(r, s)]) = Adding!Total(f, C)
  BY <1>7, <1>13, <1>15
<1>18. SumFunction(f) = SumFunction([r \in A |-> Delta(r, s)]) + SumFunction([r \in B |-> Delta(r, s)])
                          + SumFunction([r \in C |-> Delta(r, s)])
  BY <1>12, <1>14, <1>17
<1> QED BY <1>1, <1>2, <1>3, <1>4, <1>5, <1>16, <1>18

LEMMA ClampNear ==
  ASSUME NEW x \in Int, NEW y \in Int, NEW n \in Nat, Near(x, y, n)
  PROVE  Near(Clamp(x), Clamp(y), n) /\ Clamp(x) \in Int /\ Clamp(y) \in Int
BY DEF Near, Clamp, CapAt, Scale

\* A claim on which the sweeps have come to rest stands where its chain puts it.
LEMMA RestIsExplained ==
  ASSUME GraphAssumption, NEW e \in Standings, NEW s \in Standings, Sweep(Relation, e, s) = s, NEW c \in Claim
  PROVE  s[c] - Clamp(e[c] + SumFunction(DefeatChain(c, s))) \in -Slack(c)..Slack(c)
<1>1. PICK v \in 0..Scale : v = s[c]
  BY DEF Standings
<1>2. PICK a \in 0..Scale : a = e[c]
  BY DEF Standings
<1>nats. v \in Nat /\ a \in Nat
  BY ThousandthsAreNats
<1>3. PICK t : t = Target(Relation, c, a, s)
  OBVIOUS
<1>4. v = (v + t) \div 2
  <2>1. Sweep(Relation, e, s)[c] = (s[c] + Target(Relation, c, e[c], s)) \div 2
    BY DEF Sweep
  <2> QED BY <1>1, <1>2, <1>3, <2>1
<1>5. PullsNear("Supports", c, s) /\ PullsNear("Contradicts", c, s) /\ PullsNear("Qualifies", c, s)
  BY SupportPullsNear, AttackPullsNear, QualificationPullsNear
<1>6. PICK p1 \in Int, p2 \in Int, p3 \in Int :
        p1 = Pull("Supports", c, s) /\ p2 = Pull("Contradicts", c, s) /\ p3 = Pull("Qualifies", c, s)
  BY <1>5 DEF PullsNear
<1>7. PICK d1 \in Int : d1 = SumFunction([r \in OfKind("Supports", c) |-> Delta(r, s)])
  BY <1>5 DEF PullsNear
<1>8. PICK d2 \in Int : d2 = SumFunction([r \in OfKind("Contradicts", c) |-> Delta(r, s)])
  BY <1>5 DEF PullsNear
<1>9. PICK d3 \in Int : d3 = SumFunction([r \in OfKind("Qualifies", c) |-> Delta(r, s)])
  BY <1>5 DEF PullsNear
<1>10. PICK n1 \in Nat, n2 \in Nat, n3 \in Nat :
         /\ n1 = Cardinality(OfKind("Supports", c)) /\ n2 = Cardinality(OfKind("Contradicts", c))
         /\ n3 = Cardinality(OfKind("Qualifies", c))
  BY <1>5 DEF PullsNear
<1>11. Near(p1, d1, n1) /\ Near(p2, d2, n2) /\ Near(p3, d3, n3)
  BY <1>5, <1>6, <1>7, <1>8, <1>9, <1>10 DEF PullsNear
<1>12. PICK sum : sum = SumFunction(DefeatChain(c, s))
  OBVIOUS
<1>13. PICK n : n = Cardinality(Into(c))
  OBVIOUS
<1>14. sum = d1 + d2 + d3
  BY <1>7, <1>8, <1>9, <1>12, ChainSums
<1>15. n = n1 + n2 + n3
  BY <1>10, <1>13, ChainSums
<1>16. Slack(c) = 2 * n + 1
  BY <1>13 DEF Slack, Into
<1>17. t = Clamp(a + p1 + p2 + p3)
  <2>1. /\ p1 = Times(250, CapAt(2000, Weighed(Relation, "Supports", c, s)))
        /\ p2 = -Times(600, CapAt(1500, Weighed(Relation, "Contradicts", c, s)))
        /\ p3 = -Times(150, Weighed(Relation, "Qualifies", c, s))
    BY <1>6 DEF Pull
  <2>2. PICK q2 \in Int : q2 = Times(600, CapAt(1500, Weighed(Relation, "Contradicts", c, s)))
    <3>1. PICK raw \in Nat : raw = Weighed(Relation, "Contradicts", c, s)
      BY WeighedIn DEF Standings
    <3> QED BY <3>1, ScaleIs DEF Times, CapAt
  <2>3. PICK q3 \in Int : q3 = Times(150, Weighed(Relation, "Qualifies", c, s))
    <3>1. PICK raw \in Nat : raw = Weighed(Relation, "Qualifies", c, s)
      BY WeighedIn DEF Standings
    <3> QED BY <3>1, ScaleIs DEF Times
  <2>4. t = Clamp(a + p1 - q2 - q3)
    BY <1>3, <2>1, <2>2, <2>3 DEF Target
  <2>5. a + p1 - q2 - q3 = a + p1 + p2 + p3
    BY <1>nats, <2>1, <2>2, <2>3
  <2> QED BY <2>4, <2>5
<1>18. Near(a + p1 + p2 + p3, a + sum, n)
  BY <1>nats, <1>11, <1>14, <1>15 DEF Near
<1>19. PICK y \in Int : y = Clamp(a + sum)
  <2>1. PICK k \in Int : k = a + sum
    BY <1>nats, <1>14
  <2>2. Clamp(k) \in Int
    BY DEF Clamp, CapAt, Scale
  <2> QED BY <2>1, <2>2
<1>20. t \in Int /\ Near(t, y, n)
  <2>1. PICK k1 \in Int : k1 = a + p1 + p2 + p3
    BY <1>nats
  <2>2. PICK k2 \in Int : k2 = a + sum
    BY <1>nats, <1>14
  <2>3. n \in Nat
    BY <1>15
  <2>4. Near(Clamp(k1), Clamp(k2), n) /\ Clamp(k1) \in Int
    BY <1>18, <2>1, <2>2, <2>3, ClampNear
  <2> QED BY <1>17, <1>19, <2>1, <2>2, <2>4
<1>21. v - t \in -1..0
  BY <1>nats, <1>4, <1>20
<1>22. v - y \in -(2 * n + 1)..(2 * n + 1)
  BY <1>nats, <1>15, <1>19, <1>20, <1>21 DEF Near
<1> QED BY <1>1, <1>2, <1>12, <1>16, <1>19, <1>22

LEMMA ChainsExplainStandingHere ==
  ASSUME GraphAssumption, JudgementAssumption, JudgementInv
  PROVE  ChainsExplainStanding
<1> SUFFICES ASSUME graph.converged, NEW c \in Claim
             PROVE  graph.standing[c] - Clamp(graph.evidence[c] + SumFunction(DefeatChain(c, graph.standing)))
                      \in -Slack(c)..Slack(c)
  BY DEF ChainsExplainStanding
<1>1. PICK e : e = EvidenceOf(settled, NoMarks)
  OBVIOUS
<1>2. PICK s : s = graph.standing
  OBVIOUS
<1>3. /\ graph.evidence = e /\ graph.standing = SolveOver(Relation, e).standing
      /\ graph.converged = SolveOver(Relation, e).converged
  BY <1>1 DEF JudgementInv, HandedOn, Resolve, EvidenceOf
<1>4. e \in Standings
  <2>1. NoMarks \in [{} -> 0..Scale]
    BY DEF NoMarks
  <2>2. settled \in Ending
    BY DEF JudgementInv, HandedOn
  <2> QED BY <1>1, <2>1, <2>2, EvidenceTyped
<1>5. Ended(Relation, e, SolveOver(Relation, e))
  <2>1. Relation \in SUBSET Relation
    OBVIOUS
  <2> QED BY <1>4, <2>1, SolveEnds
<1>6. s \in Standings /\ Sweep(Relation, e, s) = s
  BY <1>2, <1>3, <1>5 DEF Ended
<1>7. s[c] - Clamp(e[c] + SumFunction(DefeatChain(c, s))) \in -Slack(c)..Slack(c)
  BY <1>4, <1>6, RestIsExplained
<1> QED BY <1>2, <1>3, <1>7

\* What `explain` prints of a claim adds up to where it stands, but for the roundings.
THEOREM ChainsAddUp == JudgementSpec => []ChainsExplainStanding
<1>1. JudgementInv => ChainsExplainStanding
  BY GraphAssumption, JudgementAssumption, ChainsExplainStandingHere
<1> QED BY <1>1, JudgementHolds, PTL

---------------------------------------------------------------------------
(* Rounds of propagation *)

\* What some relation makes bear on an option, through a claim that supports it.
Bearer(cells, r, c, o) ==
  /\ r.from = c /\ <<r.to, o>> \in DOMAIN cells /\ cells[<<r.to, o>>].polarity = "Supports"

Attached(cells) ==
  DOMAIN cells \subseteq Claim \X Option /\ \A k \in DOMAIN cells : cells[k].confidence \in Int

LEMMA SurestIsOffered ==
  ASSUME GraphAssumption, NEW cells, Attached(cells), NEW c \in Claim, NEW o \in Option,
         NEW q \in Relation, Bearer(cells, q, c, o)
  PROVE  /\ \E r \in Relation : Bearer(cells, r, c, o) /\ Surest(Offers(cells, c, o)).polarity = Bearing(r.kind)
         /\ Surest(Offers(cells, c, o)).confidence \in Int
<1>1. PICK R : R = {r \in Relation : Bearer(cells, r, c, o)}
  OBVIOUS
<1>2. PICK conf : conf = [r \in R |-> Times(Times(cells[<<r.to, o>>].confidence, r.confidence), BearingWeight(r.kind))]
  OBVIOUS
<1>3. PICK offer : offer = [r \in R |-> [polarity |-> Bearing(r.kind), source |-> "Propagated", confidence |-> conf[r]]]
  OBVIOUS
<1>4. Offers(cells, c, o) = {offer[r] : r \in R}
  <2>1. {r \in Relation : /\ r.from = c
                          /\ <<r.to, o>> \in DOMAIN cells
                          /\ cells[<<r.to, o>>].polarity = "Supports"} = R
    BY <1>1 DEF Bearer
  <2>2. \A r \in R : offer[r] = [polarity |-> Bearing(r.kind), source |-> "Propagated",
                                 confidence |-> Times(Times(cells[<<r.to, o>>].confidence, r.confidence),
                                                      BearingWeight(r.kind))]
    BY <1>2, <1>3
  <2>3. Offers(cells, c, o) = {[polarity |-> Bearing(r.kind), source |-> "Propagated",
                                confidence |-> Times(Times(cells[<<r.to, o>>].confidence, r.confidence),
                                                     BearingWeight(r.kind))] : r \in R}
    BY <2>1, Zenon DEF Offers
  <2>4. ASSUME NEW x \in Offers(cells, c, o) PROVE \E r \in R : x = offer[r]
    <3>1. PICK r \in R : x = [polarity |-> Bearing(r.kind), source |-> "Propagated",
                             confidence |-> Times(Times(cells[<<r.to, o>>].confidence, r.confidence),
                                                  BearingWeight(r.kind))]
      BY <2>3, Zenon
    <3> QED BY <2>2, <3>1, Zenon
  <2>5. ASSUME NEW r \in R PROVE offer[r] \in Offers(cells, c, o)
    BY <2>2, <2>3, Zenon
  <2> QED BY <2>4, <2>5
<1>5. ASSUME NEW r \in R PROVE conf[r] \in Int
  <2>1. PICK x \in Int : x = cells[<<r.to, o>>].confidence
    BY <1>1 DEF Bearer, Attached
  <2>2. PICK y \in Int : y = r.confidence
    <3>1. r \in Relation
      BY <1>1
    <3>2. r.confidence \in 0..Scale
      BY <3>1 DEF GraphAssumption
    <3> QED BY <3>2, ThousandthsAreNats
  <2>3. PICK z \in Int : z = BearingWeight(r.kind)
    BY ScaleIs DEF BearingWeight
  <2>4. PICK p \in Int : p = x * y
    OBVIOUS
  <2>5. PICK t \in Int : t = p \div 1000
    OBVIOUS
  <2>6. PICK u \in Int : u = t * z
    <3>1. t * z \in Int
      OBVIOUS
    <3> QED BY <3>1
  <2>7. u \div 1000 \in Int
    OBVIOUS
  <2>8. conf[r] = u \div 1000
    BY <1>2, <2>1, <2>2, <2>3, <2>4, <2>5, <2>6, ScaleIs DEF Times
  <2> QED BY <2>7, <2>8
<1>6. \E x \in R : \A y \in R : conf[y] <= conf[x]
  <2>1. IsFiniteSet(R)
    BY <1>1, FS_Subset DEF GraphAssumption
  <2>2. q \in R
    BY <1>1
  <2> QED BY <1>5, <2>1, <2>2, SomeGreatest
<1>9. PICK best \in R : \A y \in R : conf[y] <= conf[best]
  BY <1>6
<1>10. \A r \in R : offer[r].confidence = conf[r] /\ offer[r].polarity = Bearing(r.kind)
  BY <1>3
<1>11. \E x \in Offers(cells, c, o) : \A y \in Offers(cells, c, o) : y.confidence <= x.confidence
  <2>1. \A r \in R : offer[r].confidence <= offer[best].confidence
    BY <1>9, <1>10
  <2> QED BY <1>4, <2>1
<1>12. Surest(Offers(cells, c, o)) \in Offers(cells, c, o)
  BY <1>11 DEF Surest
<1>13. PICK r \in R : Surest(Offers(cells, c, o)) = offer[r]
  BY <1>4, <1>12
<1> QED BY <1>1, <1>5, <1>10, <1>13

\* One round: what is there stays, and what some relation makes bear is added as the relation says.
Once(cells, after) ==
  /\ Attached(after) /\ DOMAIN cells \subseteq DOMAIN after
  /\ \A k \in DOMAIN cells : after[k] = cells[k]
  /\ \A c \in Claim, o \in Option : <<c, o>> \notin DOMAIN cells =>
       /\ <<c, o>> \in DOMAIN after <=> \E r \in Relation : Bearer(cells, r, c, o)
       /\ <<c, o>> \in DOMAIN after =>
            \E r \in Relation : Bearer(cells, r, c, o) /\ after[<<c, o>>].polarity = Bearing(r.kind)

LEMMA OnceIs ==
  ASSUME GraphAssumption, NEW cells, Attached(cells)
  PROVE  Once(cells, PropagateOnce(cells))
<1>1. PICK new : new = {k \in (Claim \X Option) \ DOMAIN cells : Offers(cells, k[1], k[2]) # {}}
  OBVIOUS
<1>2. PICK after : after = PropagateOnce(cells)
  OBVIOUS
<1>3. after = [k \in DOMAIN cells \union new |-> IF k \in new THEN Surest(Offers(cells, k[1], k[2])) ELSE cells[k]]
  BY <1>1, <1>2 DEF PropagateOnce
<1>4. DOMAIN after = DOMAIN cells \union new /\ \A k \in DOMAIN cells : after[k] = cells[k]
  BY <1>1, <1>3
<1>5. ASSUME NEW c \in Claim, NEW o \in Option
      PROVE  Offers(cells, c, o) # {} <=> \E r \in Relation : Bearer(cells, r, c, o)
  <2>1. PICK R : R = {r \in Relation : /\ r.from = c
                                      /\ <<r.to, o>> \in DOMAIN cells
                                      /\ cells[<<r.to, o>>].polarity = "Supports"}
    OBVIOUS
  <2>2. R # {} <=> \E r \in Relation : Bearer(cells, r, c, o)
    BY <2>1 DEF Bearer
  <2>3. Offers(cells, c, o) # {} <=> R # {}
    <3>1. PICK offer : offer = [r \in R |-> [polarity |-> Bearing(r.kind), source |-> "Propagated",
                                            confidence |-> Times(Times(cells[<<r.to, o>>].confidence, r.confidence),
                                                                 BearingWeight(r.kind))]]
      OBVIOUS
    <3>2. Offers(cells, c, o) = {offer[r] : r \in R}
      BY <2>1, <3>1 DEF Offers
    <3> QED BY <3>2
  <2> QED BY <2>2, <2>3
<1>6. ASSUME NEW c \in Claim, NEW o \in Option, <<c, o>> \notin DOMAIN cells
      PROVE  /\ <<c, o>> \in DOMAIN after <=> \E r \in Relation : Bearer(cells, r, c, o)
             /\ <<c, o>> \in DOMAIN after =>
                  /\ after[<<c, o>>].confidence \in Int
                  /\ \E r \in Relation : Bearer(cells, r, c, o) /\ after[<<c, o>>].polarity = Bearing(r.kind)
  <2>1. <<c, o>> \in DOMAIN after <=> <<c, o>> \in new
    BY <1>4, <1>6
  <2>2. <<c, o>> \in new <=> Offers(cells, c, o) # {}
    BY <1>1, <1>6
  <2>3. <<c, o>> \in new => after[<<c, o>>] = Surest(Offers(cells, c, o))
    BY <1>3
  <2>4. <<c, o>> \in DOMAIN after <=> \E r \in Relation : Bearer(cells, r, c, o)
    BY <1>5, <2>1, <2>2
  <2>5. ASSUME <<c, o>> \in DOMAIN after
        PROVE  /\ after[<<c, o>>].confidence \in Int
               /\ \E r \in Relation : Bearer(cells, r, c, o) /\ after[<<c, o>>].polarity = Bearing(r.kind)
    <3>1. PICK q \in Relation : Bearer(cells, q, c, o)
      BY <2>4, <2>5
    <3>2. after[<<c, o>>] = Surest(Offers(cells, c, o))
      BY <2>1, <2>3, <2>5
    <3>3. PICK surest : surest = Surest(Offers(cells, c, o))
      OBVIOUS
    <3>4. /\ \E r \in Relation : Bearer(cells, r, c, o) /\ surest.polarity = Bearing(r.kind)
          /\ surest.confidence \in Int
      BY <3>1, <3>3, SurestIsOffered
    <3> QED BY <3>2, <3>3, <3>4
  <2> QED BY <2>4, <2>5
<1>7. Attached(after)
  <2>1. DOMAIN after \subseteq Claim \X Option
    BY <1>1, <1>4 DEF Attached
  <2>2. ASSUME NEW k \in DOMAIN after PROVE after[k].confidence \in Int
    <3>1. CASE k \in DOMAIN cells
      BY <1>4, <3>1 DEF Attached
    <3>2. CASE k \notin DOMAIN cells
      <4>1. PICK c \in Claim : c = k[1]
        BY <2>1
      <4>2. PICK o \in Option : o = k[2]
        BY <2>1
      <4>3. k = <<c, o>>
        BY <2>1, <4>1, <4>2
      <4> QED BY <1>6, <2>2, <3>2, <4>3
    <3> QED BY <3>1, <3>2
  <2> QED BY <2>1, <2>2 DEF Attached
<1> QED BY <1>2, <1>4, <1>6, <1>7 DEF Once

Onward(cells, turn) == PropagateOnce(cells)

Repeating == INSTANCE FoldLemmas WITH Op <- Onward

\* The rounds, one after the other.
Spreads(rounds, cells) ==
  rounds[0] = cells /\ \A n \in 1..PropagationDepth : rounds[n] = PropagateOnce(rounds[n - 1])

LEMMA PropagateUnfolds ==
  ASSUME DecisionAssumption, NEW cells
  PROVE  \E rounds : Spreads(rounds, cells) /\ Propagate(cells) = rounds[PropagationDepth]
<1>1. PropagationDepth \in Nat
  BY DEF DecisionAssumption
<1>2. PICK seq : seq = [i \in 1..PropagationDepth |-> 0]
  OBVIOUS
<1>3. PICK g : Repeating!InTurn(g, cells, seq, PropagationDepth)
  BY <1>1, <1>2, Repeating!SequenceFoldUnfolds
<1>4. g[0] = cells /\ \A i \in 1..PropagationDepth : g[i] = PropagateOnce(g[i - 1])
  BY <1>3 DEF Repeating!InTurn, Onward
<1> DEFINE Is(f) == f = [n \in 0..PropagationDepth |-> IF n = 0 THEN cells ELSE PropagateOnce(f[n - 1])]
           after == CHOOSE f : Is(f)
<1>5. PICK h : h = [n \in 0..PropagationDepth |-> g[n]]
  OBVIOUS
<1>6. Is(h)
  <2>1. ASSUME NEW n \in 0..PropagationDepth
        PROVE  h[n] = IF n = 0 THEN cells ELSE PropagateOnce(h[n - 1])
    <3>1. CASE n = 0
      BY <1>4, <1>5, <3>1
    <3>2. CASE n # 0
      <4>1. n \in 1..PropagationDepth /\ n - 1 \in 0..PropagationDepth
        BY <1>1, <3>2
      <4>2. h[n] = g[n] /\ h[n - 1] = g[n - 1]
        BY <1>5, <4>1
      <4>3. g[n] = PropagateOnce(g[n - 1])
        BY <1>4, <4>1
      <4> QED BY <3>2, <4>2, <4>3
    <3> QED BY <3>1, <3>2
  <2> QED BY <1>5, <2>1
<1>7. Is(after)
  <2>1. \E f : Is(f)
    BY <1>6
  <2> HIDE DEF Is
  <2> QED BY <2>1
<1>8. Propagate(cells) = after[PropagationDepth]
  BY DEF Propagate
<1> HIDE DEF after
<1>9. Spreads(after, cells)
  <2>1. after[0] = cells
    BY <1>1, <1>7
  <2>2. ASSUME NEW n \in 1..PropagationDepth PROVE after[n] = PropagateOnce(after[n - 1])
    <3>1. n \in 0..PropagationDepth /\ n # 0
      BY <1>1
    <3> QED BY <1>7, <3>1
  <2> QED BY <2>1, <2>2 DEF Spreads
<1> QED BY <1>8, <1>9

---------------------------------------------------------------------------
(* Chains *)

\* The first n for which something holds that holds in the end and not at first.
Reaches(rounds, k, n) == k \in DOMAIN rounds[n] /\ (n = 0 \/ k \notin DOMAIN rounds[n - 1])

\* What the rounds are, of one before another.
Kept(rounds, i, j) ==
  /\ DOMAIN rounds[i] \subseteq DOMAIN rounds[j] /\ \A k \in DOMAIN rounds[i] : rounds[j][k] = rounds[i][k]

LEMMA RoundsAreAttached ==
  ASSUME GraphAssumption, DecisionAssumption, NEW cells, Attached(cells), NEW rounds, Spreads(rounds, cells)
  PROVE  /\ \A n \in 0..PropagationDepth : Attached(rounds[n])
         /\ \A n \in 0..PropagationDepth : n + 1 <= PropagationDepth => Once(rounds[n], rounds[n + 1])
<1> DEFINE G == {n \in Nat : n <= PropagationDepth => Attached(rounds[n])}
<1>1. PropagationDepth \in Nat
  BY DEF DecisionAssumption
<1>2. 0 \in G
  BY DEF Spreads
<1>3. ASSUME NEW n \in Nat, n + 1 <= PropagationDepth PROVE rounds[n + 1] = PropagateOnce(rounds[n])
  <2>1. PICK m \in 1..PropagationDepth : m = n + 1 /\ m - 1 = n
    BY <1>1, <1>3
  <2> QED BY <2>1 DEF Spreads
<1>4. ASSUME NEW n \in Nat, n \in G PROVE n + 1 \in G
  <2> SUFFICES ASSUME n + 1 <= PropagationDepth PROVE Attached(rounds[n + 1])
    OBVIOUS
  <2>1. Attached(rounds[n])
    BY <1>1, <1>4
  <2>2. Once(rounds[n], PropagateOnce(rounds[n]))
    BY <2>1, OnceIs
  <2> QED BY <1>3, <2>2 DEF Once
<1> HIDE DEF G
<1>5. Nat \subseteq G
  BY <1>2, <1>4, Adding!NatByInduction
<1>6. \A n \in 0..PropagationDepth : Attached(rounds[n])
  BY <1>1, <1>5 DEF G
<1>7. ASSUME NEW n \in 0..PropagationDepth, n + 1 <= PropagationDepth PROVE Once(rounds[n], rounds[n + 1])
  <2>1. Once(rounds[n], PropagateOnce(rounds[n]))
    BY <1>6, OnceIs
  <2> QED BY <1>1, <1>3, <1>7, <2>1
<1> QED BY <1>6, <1>7

LEMMA RoundsKeep ==
  ASSUME GraphAssumption, DecisionAssumption, NEW cells, Attached(cells), NEW rounds, Spreads(rounds, cells),
         NEW i \in 0..PropagationDepth
  PROVE  \A j \in i..PropagationDepth : Kept(rounds, i, j)
<1> DEFINE G == {d \in Nat : i + d <= PropagationDepth => Kept(rounds, i, i + d)}
<1>1. PropagationDepth \in Nat
  BY DEF DecisionAssumption
<1>2. 0 \in G
  BY DEF Kept
<1>3. ASSUME NEW d \in Nat, d \in G PROVE d + 1 \in G
  <2> SUFFICES ASSUME i + (d + 1) <= PropagationDepth PROVE Kept(rounds, i, i + (d + 1))
    OBVIOUS
  <2>1. PICK n \in 0..PropagationDepth : n = i + d /\ n + 1 = i + (d + 1)
    BY <1>1
  <2>2. Kept(rounds, i, n)
    BY <1>1, <1>3, <2>1
  <2>3. Once(rounds[n], rounds[n + 1])
    BY <2>1, RoundsAreAttached
  <2>4. Kept(rounds, i, n + 1)
    BY <2>2, <2>3 DEF Kept, Once
  <2> QED BY <2>1, <2>4
<1> HIDE DEF G
<1>4. Nat \subseteq G
  BY <1>2, <1>3, Adding!NatByInduction
<1> SUFFICES ASSUME NEW j \in i..PropagationDepth PROVE Kept(rounds, i, j)
  OBVIOUS
<1>5. PICK d \in Nat : d = j - i /\ i + d = j
  BY <1>1
<1> QED BY <1>4, <1>5 DEF G

\* Leads, of any two matrices, with its path.
Along(cells, matrix, path, c, o, n, kinds) ==
  /\ path \in [0..n -> Claim]
  /\ path[0] = c
  /\ \A i \in 1..n : <<path[i], o>> \in DOMAIN matrix /\ matrix[<<path[i], o>>].polarity = "Supports"
  /\ \A i \in 1..n : <<path[i], o>> \in DOMAIN cells <=> i = n
  /\ \E r \in Relation : r.from = c /\ r.to = path[1] /\ r.kind \in kinds
  /\ \A i \in 2..n : \E r \in Relation : r.from = path[i - 1] /\ r.to = path[i] /\ r.kind = "Supports"

AnyKind == {"Supports", "Contradicts", "Qualifies"}

\* The rest of a chain is one, of supports.
LEMMA ChainRest ==
  ASSUME NEW cells, NEW matrix, NEW path, NEW c, NEW o, NEW n \in Nat, n >= 1, NEW kinds,
         Along(cells, matrix, path, c, o, n + 1, kinds)
  PROVE  \E rest : Along(cells, matrix, rest, path[1], o, n, {"Supports"})
<1>1. PICK rest : rest = [i \in 0..n |-> path[i + 1]]
  OBVIOUS
<1>2. \A i \in 0..n : i + 1 \in 0..(n + 1) /\ i + 1 \in 1..(n + 1) /\ rest[i] = path[i + 1]
  BY <1>1
<1>3. rest \in [0..n -> Claim] /\ rest[0] = path[1]
  BY <1>1, <1>2 DEF Along
<1>4. ASSUME NEW i \in 1..n
      PROVE  /\ <<rest[i], o>> \in DOMAIN matrix /\ matrix[<<rest[i], o>>].polarity = "Supports"
             /\ <<rest[i], o>> \in DOMAIN cells <=> i = n
             /\ \E r \in Relation : r.from = rest[i - 1] /\ r.to = rest[i] /\ r.kind = "Supports"
  <2>1. PICK j \in 2..(n + 1) : j = i + 1
    OBVIOUS
  <2>2. rest[i] = path[j] /\ rest[i - 1] = path[j - 1] /\ j \in 1..(n + 1)
    BY <1>2, <2>1
  <2>3. <<path[j], o>> \in DOMAIN cells <=> j = n + 1
    BY <2>2 DEF Along
  <2>4. <<path[j], o>> \in DOMAIN matrix /\ matrix[<<path[j], o>>].polarity = "Supports"
    BY <2>2 DEF Along
  <2>5. \E r \in Relation : r.from = path[j - 1] /\ r.to = path[j] /\ r.kind = "Supports"
    BY <2>1 DEF Along
  <2> QED BY <2>1, <2>2, <2>3, <2>4, <2>5
<1>5. \E r \in Relation : r.from = path[1] /\ r.to = rest[1] /\ r.kind \in {"Supports"}
  <2>1. PICK i \in 1..n : i = 1 /\ i - 1 = 0
    OBVIOUS
  <2>2. \E r \in Relation : r.from = rest[i - 1] /\ r.to = rest[i] /\ r.kind = "Supports"
    BY <1>4
  <2> QED BY <1>3, <2>1, <2>2
<1>6. ASSUME NEW i \in 2..n
      PROVE  \E r \in Relation : r.from = rest[i - 1] /\ r.to = rest[i] /\ r.kind = "Supports"
  <2>1. i \in 1..n
    OBVIOUS
  <2> QED BY <1>4, <2>1
<1>7. \A i \in 1..n : <<rest[i], o>> \in DOMAIN matrix /\ matrix[<<rest[i], o>>].polarity = "Supports"
  BY <1>4
<1>8. \A i \in 1..n : <<rest[i], o>> \in DOMAIN cells <=> i = n
  BY <1>4
<1>9. Along(cells, matrix, rest, path[1], o, n, {"Supports"})
  <2>1. PICK w : w = path[1]
    OBVIOUS
  <2>2. Along(cells, matrix, rest, w, o, n, {"Supports"})
    BY <1>3, <1>5, <1>6, <1>7, <1>8, <2>1 DEF Along
  <2> QED BY <2>1, <2>2
<1> QED BY <1>9

\* A relation to the start of a chain of supports, from a claim that is not attached, makes one.
LEMMA ChainLonger ==
  ASSUME NEW cells, NEW matrix, NEW rest, NEW w, NEW o, NEW n \in Nat, n >= 1,
         Along(cells, matrix, rest, w, o, n, {"Supports"}),
         <<w, o>> \in DOMAIN matrix, matrix[<<w, o>>].polarity = "Supports", <<w, o>> \notin DOMAIN cells,
         NEW c \in Claim, NEW r \in Relation, r.from = c, r.to = w, NEW kinds, r.kind \in kinds
  PROVE  \E path : Along(cells, matrix, path, c, o, n + 1, kinds)
<1>1. PICK path : path = [i \in 0..(n + 1) |-> IF i = 0 THEN c ELSE rest[i - 1]]
  OBVIOUS
<1>2. path[0] = c /\ \A i \in 1..(n + 1) : i - 1 \in 0..n /\ path[i] = rest[i - 1]
  BY <1>1
<1>3. path \in [0..(n + 1) -> Claim]
  BY <1>1, <1>2 DEF Along
<1>4. path[1] = w
  BY <1>2 DEF Along
<1>5. ASSUME NEW i \in 1..(n + 1)
      PROVE  /\ <<path[i], o>> \in DOMAIN matrix /\ matrix[<<path[i], o>>].polarity = "Supports"
             /\ <<path[i], o>> \in DOMAIN cells <=> i = n + 1
  <2>1. CASE i = 1
    BY <1>4, <2>1
  <2>2. CASE i # 1
    <3>1. PICK j \in 1..n : j = i - 1
      BY <2>2
    <3>2. path[i] = rest[j]
      BY <1>2, <3>1
    <3>3. <<rest[j], o>> \in DOMAIN cells <=> j = n
      BY DEF Along
    <3>4. <<rest[j], o>> \in DOMAIN matrix /\ matrix[<<rest[j], o>>].polarity = "Supports"
      BY DEF Along
    <3> QED BY <3>1, <3>2, <3>3, <3>4
  <2> QED BY <2>1, <2>2
<1>6. ASSUME NEW i \in 2..(n + 1)
      PROVE  \E q \in Relation : q.from = path[i - 1] /\ q.to = path[i] /\ q.kind = "Supports"
  <2>1. PICK j \in 1..n : j = i - 1
    OBVIOUS
  <2>2. path[i] = rest[j] /\ path[i - 1] = rest[j - 1]
    <3>1. i \in 1..(n + 1) /\ i - 1 \in 1..(n + 1) /\ (i - 1) - 1 = j - 1
      BY <2>1
    <3> QED BY <1>2, <2>1, <3>1
  <2>3. CASE j = 1
    <3>1. \E q \in Relation : q.from = w /\ q.to = rest[1] /\ q.kind \in {"Supports"}
      BY DEF Along
    <3>2. rest[0] = w
      BY DEF Along
    <3> QED BY <2>2, <2>3, <3>1, <3>2
  <2>4. CASE j # 1
    <3>1. j \in 2..n
      BY <2>4
    <3>2. \E q \in Relation : q.from = rest[j - 1] /\ q.to = rest[j] /\ q.kind = "Supports"
      BY <3>1 DEF Along
    <3> QED BY <2>2, <3>2
  <2> QED BY <2>3, <2>4
<1>7. \E q \in Relation : q.from = c /\ q.to = path[1] /\ q.kind \in kinds
  BY <1>4
<1>8. \A i \in 1..(n + 1) : <<path[i], o>> \in DOMAIN matrix /\ matrix[<<path[i], o>>].polarity = "Supports"
  BY <1>5
<1>9. \A i \in 1..(n + 1) : <<path[i], o>> \in DOMAIN cells <=> i = n + 1
  BY <1>5
<1>10. PICK m \in Nat : m = n + 1
  OBVIOUS
<1>11. Along(cells, matrix, path, c, o, m, kinds)
  BY <1>2, <1>3, <1>6, <1>7, <1>8, <1>9, <1>10 DEF Along
<1> QED BY <1>10, <1>11

---------------------------------------------------------------------------
(* Where propagation reaches *)

Propagation(cells, rounds, matrix) ==
  Attached(cells) /\ Spreads(rounds, cells) /\ matrix = rounds[PropagationDepth]

\* A chain of n relations is gone through in n rounds.
LEMMA ChainsAreReached ==
  ASSUME GraphAssumption, DecisionAssumption, NEW cells, NEW rounds, NEW matrix, Propagation(cells, rounds, matrix),
         NEW o \in Option
  PROVE  \A n \in 1..PropagationDepth : \A c \in Claim :
           (\E path : Along(cells, matrix, path, c, o, n, AnyKind)) => <<c, o>> \in DOMAIN rounds[n]
<1> DEFINE P(n) == \A c \in Claim : (\E path : Along(cells, matrix, path, c, o, n, AnyKind)) =>
                                      <<c, o>> \in DOMAIN rounds[n]
           G == {n \in Nat : n + 1 <= PropagationDepth => P(n + 1)}
<1>1. PropagationDepth \in Nat
  BY DEF DecisionAssumption
<1>2. Attached(cells) /\ Spreads(rounds, cells) /\ matrix = rounds[PropagationDepth]
  BY DEF Propagation
\* The next claim of a chain is there, and supports the option.
<1>3. ASSUME NEW n \in Nat, n + 1 <= PropagationDepth, NEW c \in Claim,
             NEW path, Along(cells, matrix, path, c, o, n + 1, AnyKind), <<path[1], o>> \in DOMAIN rounds[n]
      PROVE  <<c, o>> \in DOMAIN rounds[n + 1]
  <2>1. n \in 0..PropagationDepth /\ PropagationDepth \in n..PropagationDepth /\ 1 \in 1..(n + 1)
    BY <1>1, <1>3
  <2>2. Kept(rounds, n, PropagationDepth)
    BY <1>2, <2>1, RoundsKeep
  <2>3. matrix[<<path[1], o>>].polarity = "Supports"
    BY <1>3, <2>1 DEF Along
  <2>4. rounds[n][<<path[1], o>>].polarity = "Supports"
    BY <1>2, <1>3, <2>2, <2>3 DEF Kept
  <2>5. PICK r \in Relation : r.from = c /\ r.to = path[1]
    BY <1>3 DEF Along
  <2>6. Bearer(rounds[n], r, c, o)
    BY <1>3, <2>4, <2>5 DEF Bearer
  <2>7. Once(rounds[n], rounds[n + 1])
    BY <1>2, <1>3, <2>1, RoundsAreAttached
  <2>8. CASE <<c, o>> \in DOMAIN rounds[n]
    BY <2>7, <2>8 DEF Once
  <2>9. CASE <<c, o>> \notin DOMAIN rounds[n]
    BY <2>6, <2>7, <2>9 DEF Once
  <2> QED BY <2>8, <2>9
<1>4. 0 \in G
  <2> SUFFICES ASSUME 0 + 1 <= PropagationDepth, NEW c \in Claim,
                      NEW path, Along(cells, matrix, path, c, o, 0 + 1, AnyKind)
               PROVE  <<c, o>> \in DOMAIN rounds[0 + 1]
    OBVIOUS
  <2>1. <<path[1], o>> \in DOMAIN cells
    <3>1. PICK n \in Nat : n = 0 + 1 /\ n = 1 /\ 1 \in 1..n
      OBVIOUS
    <3> QED BY <3>1 DEF Along
  <2>2. <<path[1], o>> \in DOMAIN rounds[0]
    BY <1>2, <2>1 DEF Spreads
  <2> QED BY <1>3, <2>2
<1>5. ASSUME NEW n \in Nat, n \in G PROVE n + 1 \in G
  <2> SUFFICES ASSUME (n + 1) + 1 <= PropagationDepth, NEW c \in Claim,
                      NEW path, Along(cells, matrix, path, c, o, (n + 1) + 1, AnyKind)
               PROVE  <<c, o>> \in DOMAIN rounds[(n + 1) + 1]
    OBVIOUS
  <2>1. PICK m \in Nat : m = n + 1 /\ m >= 1
    OBVIOUS
  <2>2. PICK rest : Along(cells, matrix, rest, path[1], o, m, {"Supports"})
    BY <2>1, ChainRest
  <2>3. Along(cells, matrix, rest, path[1], o, m, AnyKind)
    BY <2>2 DEF Along, AnyKind
  <2>4. path[1] \in Claim
    <3>1. 1 \in 0..(m + 1)
      BY <2>1
    <3> QED BY <2>1, <3>1 DEF Along
  <2>5. P(m)
    BY <1>1, <1>5, <2>1
  <2>6. <<path[1], o>> \in DOMAIN rounds[m]
    BY <2>3, <2>4, <2>5
  <2> QED BY <1>3, <2>1, <2>6
<1> HIDE DEF G, P
<1>6. Nat \subseteq G
  BY <1>4, <1>5, Adding!NatByInduction
<1> SUFFICES ASSUME NEW n \in 1..PropagationDepth PROVE P(n)
  BY DEF P
<1>7. PICK m \in Nat : n = m + 1 /\ m + 1 <= PropagationDepth
  <2>1. n - 1 \in Nat /\ n = (n - 1) + 1 /\ (n - 1) + 1 <= PropagationDepth
    BY <1>1
  <2> QED BY <2>1
<1> QED BY <1>6, <1>7 DEF G

KindsThat(polarity) == IF polarity = "Supports" THEN {"Supports"} ELSE {"Contradicts", "Qualifies"}

\* What a round adds lies at the start of a chain of as many relations, the first of which bears as it does.
LEMMA ReachedByChains ==
  ASSUME GraphAssumption, DecisionAssumption, NEW cells, NEW rounds, NEW matrix, Propagation(cells, rounds, matrix),
         NEW o \in Option
  PROVE  \A n \in 1..PropagationDepth : \A c \in Claim :
           Reaches(rounds, <<c, o>>, n) =>
             \E path : Along(cells, matrix, path, c, o, n, KindsThat(matrix[<<c, o>>].polarity))
<1> DEFINE P(n) == \A c \in Claim : Reaches(rounds, <<c, o>>, n) =>
                     \E path : Along(cells, matrix, path, c, o, n, KindsThat(matrix[<<c, o>>].polarity))
           G == {n \in Nat : n + 1 <= PropagationDepth => P(n + 1)}
<1>1. PropagationDepth \in Nat
  BY DEF DecisionAssumption
<1>2. Attached(cells) /\ Spreads(rounds, cells) /\ matrix = rounds[PropagationDepth]
  BY DEF Propagation
\* The relation by which it was added.
<1>3. ASSUME NEW n \in Nat, n + 1 <= PropagationDepth, NEW c \in Claim, Reaches(rounds, <<c, o>>, n + 1)
      PROVE  \E r \in Relation : /\ r.from = c /\ r.to \in Claim /\ r.kind \in KindsThat(matrix[<<c, o>>].polarity)
                                 /\ <<r.to, o>> \in DOMAIN rounds[n] /\ <<r.to, o>> \in DOMAIN matrix
                                 /\ matrix[<<r.to, o>>].polarity = "Supports"
                                 /\ rounds[n][<<r.to, o>>].polarity = "Supports"
  <2>1. n \in 0..PropagationDepth /\ n + 1 \in 0..PropagationDepth /\ PropagationDepth \in n..PropagationDepth
        /\ PropagationDepth \in (n + 1)..PropagationDepth /\ n + 1 # 0 /\ (n + 1) - 1 = n
    BY <1>1, <1>3
  <2>2. Kept(rounds, n, PropagationDepth)
    BY <1>2, <2>1, RoundsKeep
  <2>3. Kept(rounds, n + 1, PropagationDepth)
    BY <1>2, <2>1, RoundsKeep
  <2>4. <<c, o>> \in DOMAIN rounds[n + 1] /\ <<c, o>> \notin DOMAIN rounds[n]
    BY <1>3, <2>1 DEF Reaches
  <2>5. Once(rounds[n], rounds[n + 1])
    BY <1>2, <1>3, <2>1, RoundsAreAttached
  <2>6. PICK r \in Relation : Bearer(rounds[n], r, c, o) /\ rounds[n + 1][<<c, o>>].polarity = Bearing(r.kind)
    BY <2>4, <2>5 DEF Once
  <2>7. matrix[<<c, o>>] = rounds[n + 1][<<c, o>>]
    BY <1>2, <2>3, <2>4 DEF Kept
  <2>8. r.to \in Claim /\ r.kind \in AnyKind
    BY DEF GraphAssumption, AnyKind
  <2>9. r.kind \in KindsThat(matrix[<<c, o>>].polarity)
    BY <2>6, <2>7, <2>8 DEF KindsThat, Bearing, AnyKind
  <2>10. /\ r.from = c /\ <<r.to, o>> \in DOMAIN rounds[n] /\ rounds[n][<<r.to, o>>].polarity = "Supports"
    BY <2>6 DEF Bearer
  <2>11. <<r.to, o>> \in DOMAIN matrix /\ matrix[<<r.to, o>>].polarity = "Supports"
    BY <1>2, <2>2, <2>10 DEF Kept
  <2> QED BY <2>8, <2>9, <2>10, <2>11
<1>4. 0 \in G
  <2> SUFFICES ASSUME 0 + 1 <= PropagationDepth, NEW c \in Claim, Reaches(rounds, <<c, o>>, 0 + 1)
               PROVE  \E path : Along(cells, matrix, path, c, o, 0 + 1, KindsThat(matrix[<<c, o>>].polarity))
    OBVIOUS
  <2>1. PICK kinds : kinds = KindsThat(matrix[<<c, o>>].polarity)
    OBVIOUS
  <2>2. PICK z \in Nat : z = 0
    OBVIOUS
  <2>3. PICK r \in Relation : /\ r.from = c /\ r.to \in Claim /\ r.kind \in kinds
                              /\ <<r.to, o>> \in DOMAIN rounds[z] /\ <<r.to, o>> \in DOMAIN matrix
                              /\ matrix[<<r.to, o>>].polarity = "Supports"
    BY <1>3, <2>1, <2>2
  <2>4. <<r.to, o>> \in DOMAIN cells
    BY <1>2, <2>2, <2>3 DEF Spreads
  <2>5. PICK path : path = [i \in 0..1 |-> IF i = 0 THEN c ELSE r.to]
    OBVIOUS
  <2>6. path \in [0..1 -> Claim] /\ path[0] = c /\ path[1] = r.to
    BY <2>3, <2>5
  <2>7. \A i \in 1..1 : i = 1
    OBVIOUS
  <2>8. \A i \in 2..1 : FALSE
    OBVIOUS
  <2>9. Along(cells, matrix, path, c, o, 1, kinds)
    BY <2>3, <2>4, <2>6, <2>7, <2>8, Zenon DEF Along
  <2>10. 0 + 1 = 1
    OBVIOUS
  <2> QED BY <2>1, <2>9, <2>10
<1>5. ASSUME NEW n \in Nat, n \in G PROVE n + 1 \in G
  <2> SUFFICES ASSUME (n + 1) + 1 <= PropagationDepth, NEW c \in Claim, Reaches(rounds, <<c, o>>, (n + 1) + 1)
               PROVE  \E path : Along(cells, matrix, path, c, o, (n + 1) + 1, KindsThat(matrix[<<c, o>>].polarity))
    OBVIOUS
  <2>1. PICK kinds : kinds = KindsThat(matrix[<<c, o>>].polarity)
    OBVIOUS
  <2>2. PICK m \in Nat : m = n + 1 /\ m >= 1 /\ m - 1 = n
    OBVIOUS
  <2>3. PICK r \in Relation : /\ r.from = c /\ r.to \in Claim /\ r.kind \in kinds
                              /\ <<r.to, o>> \in DOMAIN rounds[m] /\ <<r.to, o>> \in DOMAIN matrix
                              /\ matrix[<<r.to, o>>].polarity = "Supports"
                              /\ rounds[m][<<r.to, o>>].polarity = "Supports"
    BY <1>3, <2>1, <2>2
  <2>4. n \in 0..PropagationDepth /\ m \in 0..PropagationDepth /\ n + 1 <= PropagationDepth
        /\ m \in n..PropagationDepth /\ n \in 0..n
    BY <1>1, <2>2
  \* Had it been there a round earlier, so would the claim have been added.
  <2>5. <<r.to, o>> \notin DOMAIN rounds[n]
    <3> SUFFICES ASSUME <<r.to, o>> \in DOMAIN rounds[n] PROVE FALSE
      OBVIOUS
    <3>1. Kept(rounds, n, m)
      BY <1>2, <2>4, RoundsKeep
    <3>2. rounds[n][<<r.to, o>>].polarity = "Supports"
      BY <2>3, <3>1 DEF Kept
    <3>3. Bearer(rounds[n], r, c, o)
      BY <2>3, <3>2 DEF Bearer
    <3>4. Once(rounds[n], rounds[n + 1])
      BY <1>2, <2>4, RoundsAreAttached
    <3>5. <<c, o>> \in DOMAIN rounds[n + 1]
      BY <3>3, <3>4 DEF Once
    <3>6. <<c, o>> \notin DOMAIN rounds[n + 1]
      <4>1. (n + 1) + 1 # 0 /\ ((n + 1) + 1) - 1 = n + 1
        OBVIOUS
      <4> QED BY <4>1 DEF Reaches
    <3> QED BY <3>5, <3>6
  <2>6. Reaches(rounds, <<r.to, o>>, m)
    BY <2>2, <2>3, <2>5 DEF Reaches
  <2>7. P(m)
    BY <1>5, <2>2, <2>4
  <2>8. PICK rest : Along(cells, matrix, rest, r.to, o, m, KindsThat(matrix[<<r.to, o>>].polarity))
    BY <2>3, <2>6, <2>7
  <2>9. Along(cells, matrix, rest, r.to, o, m, {"Supports"})
    BY <2>3, <2>8 DEF KindsThat
  <2>10. <<r.to, o>> \notin DOMAIN cells
    <3>1. Kept(rounds, 0, n)
      <4>1. 0 \in 0..PropagationDepth /\ n \in 0..PropagationDepth
        BY <1>1, <2>4
      <4> QED BY <1>2, <4>1, RoundsKeep
    <3> QED BY <1>2, <2>5, <3>1 DEF Kept, Spreads
  <2>11. \E path : Along(cells, matrix, path, c, o, m + 1, kinds)
    BY <2>2, <2>3, <2>9, <2>10, ChainLonger
  <2> QED BY <2>1, <2>2, <2>11
<1> HIDE DEF G, P
<1>6. Nat \subseteq G
  BY <1>4, <1>5, Adding!NatByInduction
<1> SUFFICES ASSUME NEW n \in 1..PropagationDepth PROVE P(n)
  BY DEF P
<1>7. PICK m \in Nat : n = m + 1 /\ m + 1 <= PropagationDepth
  <2>1. n - 1 \in Nat /\ n = (n - 1) + 1 /\ (n - 1) + 1 <= PropagationDepth
    BY <1>1
  <2> QED BY <2>1
<1> QED BY <1>6, <1>7 DEF G

LEMMA PropagatesNearestHere ==
  ASSUME GraphAssumption, DecisionAssumption, JudgementAssumption, JudgementInv
  PROVE  PropagatesNearest
<1>1. PICK cells : cells = direct
  OBVIOUS
<1>2. PICK matrix : matrix = graph.matrix
  OBVIOUS
<1>3. PICK rounds : Spreads(rounds, cells) /\ Propagate(cells) = rounds[PropagationDepth]
  BY PropagateUnfolds
<1>4. Propagation(cells, rounds, matrix)
  <2>1. matrix = Propagate(cells) /\ cells \in Matrix
    BY <1>1, <1>2 DEF JudgementInv, HandedOn, Resolve
  <2>2. Attached(cells)
    <3>1. DOMAIN cells \subseteq Claim \X Option /\ \A k \in DOMAIN cells : cells[k] \in Cell
      BY <2>1 DEF JudgementAssumption
    <3>2. ASSUME NEW k \in DOMAIN cells PROVE cells[k].confidence \in Int
      <4>1. PICK x \in 0..Scale : x = cells[k].confidence
        BY <3>1 DEF Cell
      <4>2. x \in Nat
        BY ThousandthsAreNats
      <4> QED BY <4>1, <4>2
    <3> QED BY <3>1, <3>2 DEF Attached
  <2> QED BY <1>3, <2>1, <2>2 DEF Propagation
<1>5. PropagationDepth \in Nat
  BY DEF DecisionAssumption
<1>6. ASSUME NEW c \in Claim, NEW o \in Option, <<c, o>> \in DOMAIN cells
      PROVE  matrix[<<c, o>>] = cells[<<c, o>>]
  <2>1. Kept(rounds, 0, PropagationDepth)
    <3>1. 0 \in 0..PropagationDepth /\ PropagationDepth \in 0..PropagationDepth
      BY <1>5
    <3> QED BY <1>4, <3>1, RoundsKeep DEF Propagation
  <2> QED BY <1>4, <1>6, <2>1 DEF Kept, Propagation, Spreads
<1>7. ASSUME NEW c \in Claim, NEW o \in Option, NEW n, NEW kinds
      PROVE  Leads(c, o, n, kinds) <=> \E path : Along(cells, matrix, path, c, o, n, kinds)
  <2>1. ASSUME NEW path
        PROVE  Along(cells, matrix, path, c, o, n, kinds) <=>
                 /\ path \in [0..n -> Claim]
                 /\ path[0] = c
                 /\ \A i \in 1..n : /\ <<path[i], o>> \in DOMAIN graph.matrix
                                    /\ graph.matrix[<<path[i], o>>].polarity = "Supports"
                 /\ \A i \in 1..n : <<path[i], o>> \in DOMAIN direct <=> i = n
                 /\ \E r \in Relation : r.from = c /\ r.to = path[1] /\ r.kind \in kinds
                 /\ \A i \in 2..n : \E r \in Relation : /\ r.from = path[i - 1] /\ r.to = path[i]
                                                        /\ r.kind = "Supports"
    BY <1>1, <1>2, Zenon DEF Along
  <2>2. ASSUME Leads(c, o, n, kinds) PROVE \E path : Along(cells, matrix, path, c, o, n, kinds)
    <3>1. PICK path \in [0..n -> Claim] :
            /\ path[0] = c
            /\ \A i \in 1..n : /\ <<path[i], o>> \in DOMAIN graph.matrix
                               /\ graph.matrix[<<path[i], o>>].polarity = "Supports"
            /\ \A i \in 1..n : <<path[i], o>> \in DOMAIN direct <=> i = n
            /\ \E r \in Relation : r.from = c /\ r.to = path[1] /\ r.kind \in kinds
            /\ \A i \in 2..n : \E r \in Relation : /\ r.from = path[i - 1] /\ r.to = path[i]
                                                   /\ r.kind = "Supports"
      BY <2>2, ZenonT(30) DEF Leads
    <3>2. Along(cells, matrix, path, c, o, n, kinds)
      BY <2>1, <3>1
    <3> QED BY <3>2
  <2>3. ASSUME NEW path, Along(cells, matrix, path, c, o, n, kinds) PROVE Leads(c, o, n, kinds)
    BY <2>1, <2>3, ZenonT(30) DEF Leads
  <2> QED BY <2>2, <2>3
<1>8. ASSUME NEW c \in Claim, NEW o \in Option, <<c, o>> \notin DOMAIN cells
      PROVE  LET against == {"Contradicts", "Qualifies"}
                 lengths(kinds) == {n \in 1..PropagationDepth : Leads(c, o, n, kinds)}
                 any == lengths({"Supports"} \union against)
             IN  /\ <<c, o>> \in DOMAIN matrix <=> any # {}
                 /\ any # {} =>
                      Min(any) \in lengths(IF matrix[<<c, o>>].polarity = "Supports" THEN {"Supports"} ELSE against)
  <2>1. PICK k : k = <<c, o>>
    OBVIOUS
  <2>2. PICK any : any = {n \in 1..PropagationDepth : Leads(c, o, n, {"Supports"} \union {"Contradicts", "Qualifies"})}
    OBVIOUS
  <2>3. any = {n \in 1..PropagationDepth : \E path : Along(cells, matrix, path, c, o, n, AnyKind)}
    <3>1. {"Supports"} \union {"Contradicts", "Qualifies"} = AnyKind
      BY DEF AnyKind
    <3> QED BY <1>7, <2>2, <3>1
  <2>4. PICK kinds : kinds = KindsThat(matrix[<<c, o>>].polarity)
    OBVIOUS
  <2>5. kinds = IF matrix[<<c, o>>].polarity = "Supports" THEN {"Supports"} ELSE {"Contradicts", "Qualifies"}
    BY <2>4 DEF KindsThat
  \* From the round on by which a chain is gone through.
  <2>6. ASSUME NEW n \in any, NEW m \in n..PropagationDepth PROVE n \in 1..PropagationDepth /\ k \in DOMAIN rounds[m]
    <3>1. n \in 1..PropagationDepth /\ n \in 0..PropagationDepth
      BY <1>5, <2>3
    <3>2. k \in DOMAIN rounds[n]
      BY <1>4, <2>1, <2>3, <3>1, ChainsAreReached
    <3>3. Kept(rounds, n, m)
      BY <1>4, <3>1, RoundsKeep DEF Propagation
    <3> QED BY <3>1, <3>2, <3>3 DEF Kept
  <2>7. matrix = rounds[PropagationDepth] /\ cells = rounds[0]
    BY <1>4 DEF Propagation, Spreads
  <2>8. any # {} => k \in DOMAIN matrix
    <3> SUFFICES ASSUME NEW n \in any PROVE k \in DOMAIN matrix
      OBVIOUS
    <3>1. PropagationDepth \in n..PropagationDepth
      BY <1>5, <2>3
    <3> QED BY <2>6, <2>7, <3>1
  <2>9. ASSUME k \in DOMAIN matrix
        PROVE  \E n \in any : /\ \A m \in any : n <= m
                              /\ \E path : Along(cells, matrix, path, c, o, n, kinds)
    <3>1. PICK T : T = {n \in Nat : n <= PropagationDepth /\ k \in DOMAIN rounds[n]}
      OBVIOUS
    <3>2. T \in SUBSET Nat /\ T # {}
      BY <1>5, <2>7, <2>9, <3>1
    <3>3. PICK n \in T : \A m \in T : n <= m
      BY <3>2, Adding!LeastElement
    <3>4. n # 0
      BY <1>8, <2>1, <2>7, <3>1
    <3>5. n \in 1..PropagationDepth /\ n \in Nat /\ n - 1 \in Nat /\ n - 1 <= PropagationDepth /\ ~(n <= n - 1)
      BY <1>5, <3>1, <3>4
    <3>6. k \notin DOMAIN rounds[n - 1]
      BY <3>1, <3>3, <3>5
    <3>7. Reaches(rounds, <<c, o>>, n)
      BY <2>1, <3>1, <3>6 DEF Reaches
    <3>8. PICK path : Along(cells, matrix, path, c, o, n, kinds)
      BY <1>4, <2>4, <3>5, <3>7, ReachedByChains
    <3>9. kinds \subseteq AnyKind
      BY <2>5 DEF AnyKind
    <3>10. Along(cells, matrix, path, c, o, n, AnyKind)
      BY <3>8, <3>9 DEF Along
    <3>11. n \in any
      BY <2>3, <3>5, <3>10
    <3>12. ASSUME NEW m \in any PROVE n <= m
      <4>1. m \in 1..PropagationDepth /\ m \in m..PropagationDepth /\ m \in Nat /\ m <= PropagationDepth
        BY <1>5, <2>3
      <4>2. k \in DOMAIN rounds[m]
        BY <2>6, <4>1
      <4>3. m \in T
        BY <3>1, <4>1, <4>2
      <4> QED BY <3>3, <4>3
    <3> QED BY <3>8, <3>11, <3>12
  <2>10. ASSUME any # {} PROVE Min(any) \in {n \in 1..PropagationDepth : Leads(c, o, n, kinds)}
    <3>1. PICK n \in any : /\ \A m \in any : n <= m
                           /\ \E path : Along(cells, matrix, path, c, o, n, kinds)
      BY <2>8, <2>9, <2>10
    <3>2. any \subseteq Int
      BY <2>3
    <3>3. Min(any) \in any /\ \A m \in any : Min(any) <= m
      BY <3>1 DEF Min
    <3>4. Min(any) = n
      <4>1. PICK least \in any : least = Min(any)
        BY <3>3
      <4>2. least <= n /\ n <= least /\ least \in Int /\ n \in Int
        BY <3>1, <3>2, <3>3, <4>1
      <4> QED BY <4>1, <4>2
    <3>5. Leads(c, o, n, kinds)
      BY <1>7, <3>1
    <3>6. n \in 1..PropagationDepth
      BY <2>3
    <3> QED BY <3>4, <3>5, <3>6
  <2>11. <<c, o>> \in DOMAIN matrix <=> any # {}
    BY <2>1, <2>8, <2>9
  <2> QED BY <2>2, <2>5, <2>10, <2>11
<1> QED BY <1>1, <1>2, <1>6, <1>8 DEF PropagatesNearest

\* A claim bears on an option by the shortest chain to it, and on no option without one.
THEOREM PropagationIsNearest == JudgementSpec => []PropagatesNearest
<1>1. JudgementInv => PropagatesNearest
  BY GraphAssumption, DecisionAssumption, JudgementAssumption, PropagatesNearestHere
<1> QED BY <1>1, JudgementHolds, PTL
=============================================================================
