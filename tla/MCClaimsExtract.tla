-------------------------- MODULE MCClaimsExtract --------------------------
(***************************************************************************)
(* Position pA is extracted into any of a rich set of three-claim lists;   *)
(* pB, with a failing fact or a small cycle, competes for the one repair   *)
(* that the budget has room for; pC has nothing to say.                    *)
(***************************************************************************)
EXTENDS ClaimsExtract, TLC

CONSTANTS pA, pB, pC

Fact(q) == [kind |-> "fact", quote |-> q, refs |-> {}, confidence |-> 5]
Inference(refs, conf) ==
    [kind |-> "inference", quote |-> "none", refs |-> refs, confidence |-> conf]
QuotedInference(refs) ==
    [kind |-> "inference", quote |-> "found", refs |-> refs, confidence |-> 5]
Unreadable == [kind |-> "other", quote |-> "found", refs |-> {1}, confidence |-> 5]

MCPosition == {pA, pB, pC}

First == {Fact("found"), Inference({2}, 1), Inference({3}, 9), QuotedInference({2})}
Other == {Fact("absent"), Unreadable, QuotedInference({1, 4}), Inference({1, 2}, 9)}
            \cup {Inference({j}, c) : j \in {1, 3}, c \in {1, 9}}

MCExtractions ==
    [p \in MCPosition |->
        CASE p = pA -> {<<a, b, c>> : a \in First, b \in Other, c \in Other}
          [] p = pB -> {<<Fact("absent")>>, <<Inference({2}, 1), Inference({0, 1}, 1)>>}
          [] p = pC -> {<< >>}]

MCRepairs ==
    {1 :> Fact("found"), 2 :> Inference({1}, 5),
     1 :> Fact("absent") @@ 3 :> Inference({2}, 1)}
============================================================================
