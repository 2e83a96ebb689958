--------------------------- MODULE MCDebateRounds ---------------------------
(***************************************************************************)
(* Three claims, each of its own model, two of one vendor: 1 and 3 attack  *)
(* 2, 1 attacks 3, and 2 supports it -- so that which of its attackers is  *)
(* the stronger changes as 2 is modified, and a withdrawn 3 keeps some     *)
(* standing.                                                               *)
(***************************************************************************)
EXTENDS DebateRounds

MCClaim == 1..3
MCModel == 1..3
MCAuthorsOf == [c \in MCClaim |-> {c}]
MCProviderOf == [m \in MCModel |-> IF m = 1 THEN "p" ELSE "q"]
MCKindOf == [c \in MCClaim |-> IF c = 1 THEN "Assumption" ELSE "Fact"]
MCGrounded == MCClaim
MCEdge(a, kind, b, x) == [from |-> a, kind |-> kind, to |-> b, confidence |-> x]
MCRelation ==
  { MCEdge(1, "Contradicts", 2, 400), MCEdge(3, "Contradicts", 2, 200),
    MCEdge(1, "Contradicts", 3, 100), MCEdge(2, "Supports", 3, 1000) }
MCActualCost == {1, 2}
=============================================================================
