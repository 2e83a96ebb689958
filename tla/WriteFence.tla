---------------------------- MODULE WriteFence ----------------------------
(***************************************************************************)
(* What a run's lease promises: at any moment at most one writer, and a    *)
(* fencing number that is larger for every writer than for the ones before *)
(* it.  Nobody is displaced: the run is taken only when it is free, and it *)
(* becomes free only because its writer let go or died.                    *)
(***************************************************************************)
EXTENDS Integers

CONSTANT Writer

VARIABLES
  holder,  \* the writer, as a set of at most one
  fence    \* the number given to the latest one

fenceVars == <<holder, fence>>

Init == holder = {} /\ fence = 0

Acquire(w) ==
  /\ holder = {}
  /\ holder' = {w}
  /\ fence' = fence + 1

LetGo ==
  /\ holder # {}
  /\ holder' = {}
  /\ UNCHANGED fence

Next == LetGo \/ \E w \in Writer : Acquire(w)

Spec == Init /\ [][Next]_fenceVars
===========================================================================
