----------------------------- MODULE MCJudgement -----------------------------
(***************************************************************************)
(* Five claims of three models, two of one vendor, on three options, one   *)
(* of them retired.  2 is attacked by 1 and 4, both sure of it, so that    *)
(* the cap on attacks cuts; 4 supports 3, 3 supports 1, so that a chain is *)
(* longer than the depth; 2 qualifies 3.                                   *)
(***************************************************************************)
EXTENDS Judgement

MCClaim == 1..5
MCModel == 1..3
MCAuthorsOf == [c \in MCClaim |-> CASE c = 1 -> {1, 2} [] c = 2 -> {1, 3} [] c = 3 -> {3}
                                    [] c = 4 -> {1, 2} [] c = 5 -> {2}]
MCProviderOf == [m \in MCModel |-> IF m = 1 THEN "p" ELSE "q"]
MCKindOf == [c \in MCClaim |-> CASE c = 3 -> "Assumption" [] c = 5 -> "Opinion" [] OTHER -> "Fact"]
MCGrounded == {1, 2, 3, 4, 5}
MCEdge(a, kind, b, x) == [from |-> a, kind |-> kind, to |-> b, confidence |-> x]
MCRelation ==
  { MCEdge(1, "Contradicts", 2, 900), MCEdge(4, "Contradicts", 2, 800),
    MCEdge(4, "Supports", 3, 600), MCEdge(3, "Supports", 1, 700),
    MCEdge(2, "Qualifies", 3, 800), MCEdge(5, "Supports", 4, 500) }

MCOption == 1..3
MCRetired == {3}

MCCell(polarity, source) == [polarity |-> polarity, confidence |-> 900, source |-> source]
For == MCCell("Supports", "Authored")
MCMatrix ==
  { (<<1, 1>> :> For) @@ (<<2, 2>> :> For),
    (<<1, 1>> :> For) @@ (<<3, 2>> :> For) @@ (<<5, 2>> :> For),
    (<<2, 1>> :> For) @@ (<<3, 2>> :> MCCell("Supports", "Classified")) @@ (<<4, 2>> :> MCCell("Opposes", "Classified")),
    (<<1, 1>> :> For) @@ (<<4, 1>> :> MCCell("Neutral", "Classified")) @@ (<<2, 3>> :> For) @@ (<<3, 2>> :> For),
    (<<1, 2>> :> For) @@ (<<2, 1>> :> For) @@ (<<3, 1>> :> For) }

MCEndState(lifecycle) ==
  [lifecycle |-> lifecycle, version |-> IF lifecycle = "Modified" THEN 1 ELSE 0,
   revisions |-> IF lifecycle = "Modified" THEN <<1>> ELSE <<>>]
MCEnding ==
  { [c \in MCClaim |-> MCEndState("Proposed")],
    [c \in MCClaim |-> MCEndState(IF c = 1 THEN "Withdrawn" ELSE "Proposed")],
    [c \in MCClaim |-> MCEndState(IF c = 2 THEN "Defended" ELSE IF c = 4 THEN "Modified" ELSE "Challenged")] }

MCPanel == <<1, 2, 3>>
MCMark(p, x) == [pseudonym |-> p, mark |-> x]
MCAnswer ==
  { <<>>, <<MCMark(1, 1000), MCMark(2, 100)>>, <<MCMark(2, 1500), MCMark(2, 200)>>,
    <<MCMark(4, 500), MCMark(3, -100)>> }
MCStop == {"RoundLimit", "Deadline"}
=============================================================================
