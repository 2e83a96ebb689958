--------------------------- MODULE MCRunRecovery ----------------------------
(***************************************************************************)
(* Two calls every run makes and one only a deep run makes, over two       *)
(* processes. Every process is given the same cap, with room for two       *)
(* estimates at a time; a call may cost less or more than its estimate.    *)
(***************************************************************************)
EXTENDS RunRecovery, TLC

CONSTANTS c1, c2, c3

Symmetry == Permutations({c1, c2})

MCCall == {c1, c2, c3}
MCDeepOnly == {c3}
MCRuns == {[depth |-> "standard", panel |-> "mock"],
           [depth |-> "deep", panel |-> "mock"],
           [depth |-> "standard", panel |-> "real"]}
MCWriters == {"events", "rows"}
MCCaps == {4}
MCCosts == {1, 3}
=============================================================================
