---------------------------- MODULE DebateRounds ----------------------------
(***************************************************************************)
(* The controlled loop of run_pipeline (arbiter-cli/src/orchestrator.rs):  *)
(* challenge.plan, challenge.run, rebuttal.run, controller.decide, round   *)
(* after round, and then judge.evaluate and decision.synthesize.  Claims   *)
(* and relations come from the stages before and neither grows here; what  *)
(* changes is what has become of each claim, and its standing with it.     *)
(*                                                                         *)
(* The two stages that call providers share their shape: up to MaxParallel *)
(* items at once, each looking at the cancellation token, then the cache,  *)
(* then reserving.  A prompt is named by what it is rendered from, which   *)
(* the round is not part of.  Options are left out: whether the controller *)
(* finds the debate converged, and how far a dispute could change the      *)
(* answer, are choices.  Money is in units of which CallCost makes a call. *)
(***************************************************************************)
EXTENDS ArgumentGraph

CONSTANTS
  MaxRounds,         \* 1 (standard) or 3 (deep)
  MaxChallenges,     \* MAX_CHALLENGES_PER_MODEL
  MaxParallel,       \* MAX_PARALLELISM
  CallCost,          \* CALL_COST, the estimate of every call
  ExchangeCost,      \* EXCHANGE_COST, what a challenge and its rebuttal may take
  JudgeReservation,  \* JUDGE_RESERVATION
  ActualCost,        \* what a call turns out to cost
  Funds,             \* remaining() when the loop begins
  Judges,            \* how many judges there are
  MinStandingDelta   \* DEFAULT_MIN_STANDING_DELTA, in units of 1/Scale

HARD_ROUND_CEILING == 6

ASSUME LoopAssumption ==
  /\ MaxRounds \in 1..HARD_ROUND_CEILING
  /\ MaxChallenges \in Nat
  /\ MaxParallel \in Nat \ {0}
  /\ CallCost \in Nat \ {0}
  /\ ExchangeCost \in Nat /\ ExchangeCost >= 2 * CallCost
  /\ JudgeReservation \in Nat
  /\ ActualCost \subseteq Nat
  /\ Funds \in Nat
  /\ Judges \in Nat
  /\ MinStandingDelta \in Nat \ {0}

VARIABLES
  phase,      \* the stage run_pipeline awaits, or how it returned
  round,
  claims,     \* the claims as the stages of this round hand them on
  resolved,   \* the claims and standings the last resolution was made from
  ranked,     \* disputes that challenge.plan has yet to look at
  pairs,      \* the pairs it planned, in the order of selection
  item,       \* how far the current stage has come with each pair
  heard,      \* ResponseCache: the reply to each prompt
  left,       \* BudgetLedger::remaining()
  held,       \* reservations of calls in doubt, which nothing settles
  seated,     \* how many judges have had their turn
  control,    \* the StopReason, or Continue
  cancelled,  \* the CancellationToken
  expired,    \* whether the deadline has passed
  overran,    \* history: some call cost more than its estimate
  news        \* history: a provider has answered in this round

purse == <<left, held, overran>>

signals == <<cancelled, expired>>

loopVars == <<phase, round, claims, resolved, ranked, pairs, item, heard, purse, seated,
              control, news, signals>>

---------------------------------------------------------------------------
\* What disputes.rank and controller.decide hand on of a resolution.
Resolution(state) == [claims |-> state, standing |-> Solve(state)]

\* An author of an attacking claim, but not of the claim attacked.
Pair ==
  {p \in [claim : Claim, attacker : Claim, challenger : Model] :
     /\ p.challenger \in authorsOf[p.attacker] \ authorsOf[p.claim]
     /\ \E r \in Relation :
          r.kind = "Contradicts" /\ r.from = p.attacker /\ r.to = p.claim}

Stage == {"challenge", "rebut"}

\* Both prompts are rendered from the original texts, which a revision leaves.
Prompt == Stage \X Pair

Silence == "silence"

\* What can come back in a stage; garbage is what the rebuttal's parser refuses.
Replies(stage) ==
  IF stage = "challenge" THEN {"text"} ELSE {"defend", "modify", "withdraw", "garbage"}

Reply == Replies("challenge") \union Replies("rebut")

\* What became of a pair in the current stage.
Item == {"todo", "asking", "dropped", "replied"}

Reached(i) == item[i] = "replied"

Asking == {i \in DOMAIN item : item[i] = "asking"}

Settled == \A i \in DOMAIN item : item[i] \notin {"todo", "asking"}

---------------------------------------------------------------------------
(* challenge.plan *)

\* The pairs chosen so far give no model more than its share.
Available(m, chosen) ==
  Cardinality({i \in DOMAIN chosen : chosen[i].challenger = m}) < MaxChallenges

\* Who could challenge c, over which attacking claim.
Openings(c, chosen) == {p \in Pair : p.claim = c /\ Available(p.challenger, chosen)}

Strength(p, standing) ==
  Max({Times(r.confidence, standing[r.from]) :
         r \in {r \in Relation : r.kind = "Contradicts" /\ r.from = p.attacker /\ r.to = p.claim}})

\* attackers.sort_by, then the models in order.
Before(p, q, standing) ==
  \/ Strength(p, standing) > Strength(q, standing)
  \/ /\ Strength(p, standing) = Strength(q, standing)
     /\ \/ p.attacker < q.attacker
        \/ p.attacker = q.attacker /\ p.challenger <= q.challenger

\* The break out of the loop over a dispute's attackers.
First(p, openings, standing) == \A q \in openings : Before(p, q, standing)

(***************************************************************************)
(* Whether n + 1 exchanges fit challenge_budget: max(round_budget less the *)
(* judge's reservation, 0), where round_budget is an equal share of what   *)
(* is left for each remaining round.  Told without the division.           *)
(***************************************************************************)
RemainingRounds == MaxRounds - round + 1

RoomFor(n) == ((n + 1) * ExchangeCost + JudgeReservation) * RemainingRounds <= left

\* The order of the ranking, with some leverage for c and some for d.
MayPrecede(c, d) ==
  LET priority(x, leverage) == Priority(x, resolved.claims[x], resolved.standing, leverage)
  IN  \/ priority(c, Scale) > priority(d, 0)
      \/ priority(c, Scale) = priority(d, 0) /\ c <= d

\* One turn of the loop over the ranked disputes.
Consider(c) ==
  /\ phase = "plan"
  /\ c \in ranked
  /\ \A d \in ranked : MayPrecede(c, d)
  /\ RoomFor(Len(pairs))
  /\ ranked' = ranked \ {c}
  /\ \/ Openings(c, pairs) = {} /\ UNCHANGED pairs
     \/ \E p \in Openings(c, pairs) :
          /\ First(p, Openings(c, pairs), resolved.standing)
          /\ pairs' = Append(pairs, p)
  /\ UNCHANGED <<phase, round, claims, resolved, item, heard, purse, seated, control,
                 news, signals>>

EndPlan ==
  /\ phase = "plan"
  /\ ranked = {} \/ ~RoomFor(Len(pairs))
  /\ ranked' = {}
  /\ item' = [i \in DOMAIN pairs |-> "todo"]
  /\ phase' = "challenge"
  /\ UNCHANGED <<round, claims, resolved, pairs, heard, purse, seated, control, news,
                 signals>>

---------------------------------------------------------------------------
(* challenge.run and rebuttal.run: one call per pair *)

Calling == phase \in Stage

PromptOf(i) == <<phase, pairs[i]>>

\* Named by stage, claim and model; the first author of a claim defends it.
Reservation == ({"challenge"} \X Claim \X Model) \union ({"rebut"} \X Claim)

ReservationOf(i) ==
  IF phase = "challenge"
    THEN <<phase, pairs[i].claim, pairs[i].challenger>>
    ELSE <<phase, pairs[i].claim>>

\* reserve() replaces the entry of its id, and with it a hold from an earlier round.
Retrieved(i) == IF ReservationOf(i) \in held THEN left + CallCost ELSE left

Settle(i, how) == item' = [item EXCEPT ![i] = how]

\* Nothing comes of a reply that does not parse.
Take(i, reply) == Settle(i, IF reply = "garbage" THEN "dropped" ELSE "replied")

MayBegin(i) ==
  /\ Calling
  /\ item[i] = "todo"
  /\ Cardinality(Asking) < MaxParallel

\* Cancelled, not in the cache and not affordable.
Skip(i) ==
  /\ MayBegin(i)
  /\ cancelled \/ (heard[PromptOf(i)] = Silence /\ left < CallCost)
  /\ Settle(i, "dropped")
  /\ UNCHANGED <<phase, round, claims, resolved, ranked, pairs, heard, purse, seated,
                 control, news, signals>>

Reuse(i) ==
  /\ MayBegin(i)
  /\ ~cancelled
  /\ heard[PromptOf(i)] # Silence
  /\ Take(i, heard[PromptOf(i)])
  /\ UNCHANGED <<phase, round, claims, resolved, ranked, pairs, heard, purse, seated,
                 control, news, signals>>

\* Mutant: the stage does not look at the token.
AskRegardless(i) ==
  /\ MayBegin(i)
  /\ heard[PromptOf(i)] = Silence
  /\ left >= CallCost
  /\ left' = Retrieved(i) - CallCost
  /\ held' = held \ {ReservationOf(i)}
  /\ Settle(i, "asking")
  /\ UNCHANGED <<phase, round, claims, resolved, ranked, pairs, heard, overran, seated,
                 control, news, signals>>

\* reserve, then the call.
Ask(i) ==
  /\ MayBegin(i)
  /\ ~cancelled
  /\ heard[PromptOf(i)] = Silence
  /\ left >= CallCost
  /\ left' = Retrieved(i) - CallCost
  /\ held' = held \ {ReservationOf(i)}
  /\ Settle(i, "asking")
  /\ UNCHANGED <<phase, round, claims, resolved, ranked, pairs, heard, overran, seated,
                 control, news, signals>>

\* Mutant: commit keeps the estimate set aside.
AnsweredAtBothCosts(i, reply, cost) ==
  /\ Calling
  /\ item[i] = "asking"
  /\ heard' = [heard EXCEPT ![PromptOf(i)] = reply]
  /\ left' = left - cost
  /\ overran' = (overran \/ cost > CallCost)
  /\ news' = TRUE
  /\ Take(i, reply)
  /\ UNCHANGED <<phase, round, claims, resolved, ranked, pairs, held, seated, control, signals>>

\* commit, then the cache.
Answered(i, reply, cost) ==
  /\ Calling
  /\ item[i] = "asking"
  /\ heard' = [heard EXCEPT ![PromptOf(i)] = reply]
  /\ left' = left + CallCost - cost
  /\ overran' = (overran \/ cost > CallCost)
  /\ news' = TRUE
  /\ Take(i, reply)
  /\ UNCHANGED <<phase, round, claims, resolved, ranked, pairs, held, seated, control, signals>>

\* Released if the provider refused, held for good if nobody knows.
Unanswered(i) ==
  /\ Calling
  /\ item[i] = "asking"
  /\ \/ left' = left + CallCost /\ UNCHANGED held
     \/ held' = held \union {ReservationOf(i)} /\ UNCHANGED left
  /\ Settle(i, "dropped")
  /\ UNCHANGED <<phase, round, claims, resolved, ranked, pairs, heard, overran, seated,
                 control, news, signals>>

\* A claim that received its first challenge is Challenged.
EndChallenge ==
  /\ phase = "challenge"
  /\ Settled
  /\ claims' = [c \in Claim |->
       IF claims[c].lifecycle = "Proposed" /\ \E i \in DOMAIN pairs : pairs[i].claim = c /\ Reached(i)
         THEN [claims[c] EXCEPT !.lifecycle = "Challenged"]
         ELSE claims[c]]
  /\ item' = [i \in DOMAIN pairs |-> IF Reached(i) THEN "todo" ELSE "dropped"]
  /\ phase' = "rebut"
  /\ UNCHANGED <<round, resolved, ranked, pairs, heard, purse, seated, control, news,
                 signals>>

\* next_version, as it was before this rebuttal.
NextVersion(state) == IF state.lifecycle = "Modified" THEN state.version + 1 ELSE 1

Rebutted(state, outcome) ==
  CASE outcome = "defend" -> [state EXCEPT !.lifecycle = "Defended"]
    [] outcome = "withdraw" -> [state EXCEPT !.lifecycle = "Withdrawn"]
    [] outcome = "modify" ->
         [lifecycle |-> "Modified", version |-> NextVersion(state),
          revisions |-> Append(state.revisions, NextVersion(state))]

EndRebut ==
  /\ phase = "rebut"
  /\ Settled
  /\ claims' = [c \in Claim |->
       IF \E i \in DOMAIN pairs : pairs[i].claim = c /\ Reached(i)
         THEN LET i == CHOOSE i \in DOMAIN pairs : pairs[i].claim = c /\ Reached(i)
              IN  Rebutted(claims[c], heard[PromptOf(i)])
         ELSE claims[c]]
  /\ phase' = "decide"
  /\ UNCHANGED <<round, resolved, ranked, pairs, item, heard, purse, seated, control, news,
                 signals>>

---------------------------------------------------------------------------
(* controller.decide *)

StandingDelta(before, after) ==
  LET moved == {c \in Claim : after[c] # before[c]}
  IN  Max({0} \union {after[c] - before[c] : c \in moved}
              \union {before[c] - after[c] : c \in moved})

\* Mutant: only convergence counts, however little has changed.
ControlWithoutDelta(converged, delta) ==
  IF cancelled THEN "Cancelled"
  ELSE IF expired THEN "Deadline"
  ELSE IF round >= MaxRounds THEN "RoundLimit"
  ELSE IF left <= 0 THEN "BudgetExhausted"
  ELSE IF converged THEN "Converged" ELSE "Continue"

(***************************************************************************)
(* The precedence of the reasons.  Claims never grow in the loop, so that  *)
(* new_claim_count is 0 and the standings alone are NoNewInformation.      *)
(***************************************************************************)
Control(converged, delta) ==
  IF cancelled THEN "Cancelled"
  ELSE IF expired THEN "Deadline"
  ELSE IF round >= MaxRounds THEN "RoundLimit"
  ELSE IF left <= 0 THEN "BudgetExhausted"
  ELSE IF converged THEN "Converged"
  ELSE IF delta < MinStandingDelta THEN "NoNewInformation"
  ELSE "Continue"

Decide ==
  /\ phase = "decide"
  /\ resolved' = Resolution(claims)
  /\ \E converged \in BOOLEAN :
       control' = Control(converged, StandingDelta(resolved.standing, resolved'.standing))
  /\ IF control' = "Continue"
       THEN /\ phase' = "plan"
            /\ round' = round + 1
            /\ ranked' = Candidates(claims, resolved'.standing)
       ELSE phase' = "judge" /\ UNCHANGED <<round, ranked>>
  /\ pairs' = <<>>
  /\ item' = <<>>
  /\ news' = FALSE
  /\ UNCHANGED <<claims, heard, purse, seated, signals>>

---------------------------------------------------------------------------
(* judge.evaluate, one judge after the other, and decision.synthesize *)

\* Mutant: the judge whose reservation is refused is tried again.
TryAgain ==
  /\ phase = "judge"
  /\ seated < Judges
  /\ left < CallCost
  /\ UNCHANGED loopVars

\* reserve refuses, and the judge is passed over.
PassOver ==
  /\ phase = "judge"
  /\ seated < Judges
  /\ left < CallCost
  /\ seated' = seated + 1
  /\ UNCHANGED <<phase, round, claims, resolved, ranked, pairs, item, heard, purse, control,
                 news, signals>>

\* The judge is called, whatever the token and the deadline say; the call is
\* answered, refused (and released) or in doubt (and held).
Hear(cost) ==
  /\ phase = "judge"
  /\ seated < Judges
  /\ left >= CallCost
  /\ seated' = seated + 1
  /\ left' = left - cost
  /\ overran' = (overran \/ cost > CallCost)
  /\ UNCHANGED <<phase, round, claims, resolved, ranked, pairs, item, heard, held, control,
                 news, signals>>

Synthesize ==
  /\ phase = "judge"
  /\ seated = Judges
  /\ phase' = "synthesized"
  /\ UNCHANGED <<round, claims, resolved, ranked, pairs, item, heard, purse, seated,
                 control, news, signals>>

---------------------------------------------------------------------------
(* Around it *)

Running == phase \notin {"synthesized", "failed"}

\* The stage that is awaited has nothing left to do.
Returning ==
  /\ phase = "plan" => ranked = {} \/ ~RoomFor(Len(pairs))
  /\ Calling => Settled
  /\ phase = "judge" => seated = Judges

\* take_error, or a put_artifact that failed, once a stage has returned.
Fail ==
  /\ Running
  /\ Returning
  /\ phase' = "failed"
  /\ UNCHANGED <<round, claims, resolved, ranked, pairs, item, heard, purse, seated,
                 control, news, signals>>

Cancel ==
  /\ Running
  /\ ~cancelled
  /\ cancelled' = TRUE
  /\ UNCHANGED <<phase, round, claims, resolved, ranked, pairs, item, heard, purse, seated,
                 control, news, expired>>

Expire ==
  /\ Running
  /\ ~expired
  /\ expired' = TRUE
  /\ UNCHANGED <<phase, round, claims, resolved, ranked, pairs, item, heard, purse, seated,
                 control, news, cancelled>>

\* disputes.rank has resolved the claims once before the loop.
Init ==
  /\ phase = "plan"
  /\ round = 1
  /\ claims = [c \in Claim |-> Asserted]
  /\ resolved = Resolution(claims)
  /\ ranked = Candidates(claims, resolved.standing)
  /\ pairs = <<>>
  /\ item = <<>>
  /\ heard = [p \in Prompt |-> Silence]
  /\ left = Funds
  /\ held = {}
  /\ seated = 0
  /\ control = "Continue"
  /\ cancelled = FALSE
  /\ expired = FALSE
  /\ overran = FALSE
  /\ news = FALSE

\* What one pair's future does.
Exchange(i) ==
  \/ Skip(i) \/ Reuse(i) \/ Ask(i) \/ Unanswered(i)
  \/ \E reply \in Replies(phase), cost \in ActualCost : Answered(i, reply, cost)

Judge == PassOver \/ (\E cost \in ActualCost \union {0, CallCost} : Hear(cost)) \/ Synthesize

Pipeline ==
  \/ (\E c \in Claim : Consider(c)) \/ EndPlan
  \/ (\E i \in DOMAIN item : Exchange(i)) \/ EndChallenge \/ EndRebut
  \/ Decide \/ Judge

Rest == ~Running /\ UNCHANGED loopVars

Next == Pipeline \/ Fail \/ Cancel \/ Expire \/ Rest

Spec == Init /\ [][Next]_loopVars

\* The executor awaits each stage, and every provider call has a timeout.
FairSpec == Spec /\ WF_loopVars(Pipeline)

---------------------------------------------------------------------------
StopReason == {"Cancelled", "Deadline", "RoundLimit", "BudgetExhausted", "Converged",
               "NoNewInformation"}

Phase == Stage \union {"plan", "decide", "judge", "synthesized", "failed"}

\* The types of all but the standings, whose range is the fixpoint's doing.
LoopTypeOK ==
  /\ phase \in Phase
  /\ round \in 1..MaxRounds
  /\ claims \in [Claim -> ClaimState]
  /\ resolved.claims \in [Claim -> ClaimState]
  /\ ranked \subseteq Claim
  /\ pairs \in Seq(Pair)
  /\ item \in [DOMAIN item -> Item]
  /\ Calling => DOMAIN item = DOMAIN pairs
  /\ heard \in [Prompt -> Reply \union {Silence}]
  /\ left \in Int
  /\ held \subseteq Reservation
  /\ seated \in 0..Judges
  /\ control \in StopReason \union {"Continue"}
  /\ cancelled \in BOOLEAN
  /\ expired \in BOOLEAN
  /\ overran \in BOOLEAN
  /\ news \in BOOLEAN

\* The types of the loop's state.
DebateTypeOK == LoopTypeOK /\ resolved.standing \in [Claim -> 0..Scale]

(***************************************************************************)
(* ARCHITECTURE 5.5: a round "reserves the judge's share first".  However  *)
(* many rounds were played, and whatever was cached, refused or left in    *)
(* doubt, the loop leaves the judge what was set aside for it -- as long   *)
(* as no call cost more than its estimate and it was there to begin with.  *)
(***************************************************************************)
JudgeCanPay ==
  phase = "judge" /\ seated = 0 /\ ~overran /\ Funds >= JudgeReservation
    => left >= JudgeReservation

(***************************************************************************)
(* A withdrawn claim is at rest: whatever standing its supporters leave    *)
(* it, no later round plans a challenge to it, which could only cost money *)
(* or make it Defended or Modified again.                                  *)
(***************************************************************************)
WithdrawnRests ==
  phase = "plan" \/ Calling =>
    \A i \in DOMAIN pairs : claims[pairs[i].claim].lifecycle # "Withdrawn"

(***************************************************************************)
(* Once cancelled, no exchange is begun and no further round: the stages   *)
(* drop what is left of this one and the controller stops.                 *)
(***************************************************************************)
CancelStops ==
  [][cancelled => /\ round' = round
                  /\ Calling /\ phase' = phase => Cardinality(Asking') <= Cardinality(Asking)
    ]_loopVars

(***************************************************************************)
(* Every further round is due to a change: the controller only continues   *)
(* if the round before gave some claim another lifecycle or revision.      *)
(***************************************************************************)
ContinueNeedsChange ==
  [][round' # round => claims # resolved.claims]_loopVars

(***************************************************************************)
(* The debate ends: with a decision or a failure.                          *)
(***************************************************************************)
DebateEnds == <>(phase \in {"synthesized", "failed"})
=============================================================================
