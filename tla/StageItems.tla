----------------------------- MODULE StageItems -----------------------------
(***************************************************************************)
(* What a stage with Parallelism::PerItem and FailurePolicy::SkipItem      *)
(* promises (stage.rs): every item is taken once, there are as many places *)
(* to work on items as it was given, and the output is collected when the  *)
(* last item has ended.                                                    *)
(***************************************************************************)
EXTENDS Integers

CONSTANTS Item, Places
VARIABLES waiting, running, free, ended, collected

vars == <<waiting, running, free, ended, collected>>

Init ==
    /\ waiting = Item /\ running = {} /\ free = Places
    /\ ended = {} /\ collected = FALSE

Begin(i) ==
    /\ i \in waiting /\ free > 0
    /\ waiting' = waiting \ {i} /\ running' = running \cup {i} /\ free' = free - 1
    /\ UNCHANGED <<ended, collected>>

\* A cancelled run takes the item and does nothing with it.
Skip(i) ==
    /\ i \in waiting
    /\ waiting' = waiting \ {i} /\ ended' = ended \cup {i}
    /\ UNCHANGED <<running, free, collected>>

End(i) ==
    /\ i \in running
    /\ running' = running \ {i} /\ ended' = ended \cup {i} /\ free' = free + 1
    /\ UNCHANGED <<waiting, collected>>

Collect ==
    /\ ~collected /\ ended = Item
    /\ collected' = TRUE
    /\ UNCHANGED <<waiting, running, free, ended>>

Next == Collect \/ \E i \in Item : Begin(i) \/ Skip(i) \/ End(i)

Spec == Init /\ [][Next]_vars
=============================================================================
