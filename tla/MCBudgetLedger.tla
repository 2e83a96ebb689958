-------------------------- MODULE MCBudgetLedger --------------------------
(***************************************************************************)
(* Instances of BudgetLedger for TLC.  MCDistinct* is a stage whose items  *)
(* have reservation ids of their own; MCShared* is claims.extract, whose   *)
(* repair calls all go to the one repair model and so all carry the id     *)
(* res_claims.extract_claims.repair_<provider>_<model>.                    *)
(***************************************************************************)
EXTENDS BudgetLedger

CONSTANTS c1, c2, c3, c4, c5

MCCall == {c1, c2, c3, c4, c5}

MCActualCost == {1, 2, 4}

MCChecksCancel == {c1, c2, c3}

\* c4's provider never registered.
MCRegistered == MCCall \ {c4}

MCDistinctResId == 1..5
MCDistinctResIdOf ==
  [c \in MCCall |-> CASE c = c1 -> 1 [] c = c2 -> 2 [] c = c3 -> 3 [] c = c4 -> 4 [] c = c5 -> 5]

\* c5 asks what c1 asked.
MCCacheKey == 1..4
MCCacheKeyOf ==
  [c \in MCCall |-> CASE c = c1 -> 1 [] c = c2 -> 2 [] c = c3 -> 3 [] c = c4 -> 4 [] c = c5 -> 1]

MCSharedCall == {c1, c2, c3}
MCSharedResId == {1}
MCSharedResIdOf == [c \in MCSharedCall |-> 1]
MCSharedCacheKeyOf == [c \in MCSharedCall |-> CASE c = c1 -> 1 [] c = c2 -> 2 [] c = c3 -> 3]
===========================================================================
