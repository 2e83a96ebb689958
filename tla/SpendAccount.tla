--------------------------- MODULE SpendAccount ---------------------------
(***************************************************************************)
(* What the budget ledger promises, told without ids, states or guards: an *)
(* account on which calls place holds of one fixed size.  A hold is placed *)
(* only if everything set aside and everything spent leaves room for it,   *)
(* and it ends by being spent or freed, or is stranded and then never ends *)
(* nor gives its money back.                                               *)
(***************************************************************************)
EXTENDS Integers

CONSTANTS Call, Cap, CallCost, ActualCost

VARIABLES
  held,      \* calls whose estimate is set aside
  stranded,  \* those among them nobody will settle during the run
  setAside,  \* the money held calls keep from others
  spent

accountVars == <<held, stranded, setAside, spent>>

Init == held = {} /\ stranded = {} /\ setAside = 0 /\ spent = 0

Hold(c) ==
  /\ c \notin held
  /\ setAside + spent + CallCost <= Cap
  /\ held' = held \union {c}
  /\ setAside' = setAside + CallCost
  /\ UNCHANGED <<stranded, spent>>

GiveUp(c) ==
  /\ c \in held \ stranded
  /\ held' = held \ {c}
  /\ setAside' = setAside - CallCost
  /\ UNCHANGED stranded

Spend(c, amount) == GiveUp(c) /\ spent' = spent + amount

Free(c) == GiveUp(c) /\ UNCHANGED spent

Strand(c) ==
  /\ c \in held \ stranded
  /\ stranded' = stranded \union {c}
  /\ UNCHANGED <<held, setAside, spent>>

Next ==
  \E c \in Call :
    Hold(c) \/ Free(c) \/ Strand(c) \/ \E amount \in ActualCost : Spend(c, amount)

Spec == Init /\ [][Next]_accountVars
===========================================================================
