------------------------ MODULE BudgetLedgerProofs ------------------------
(***************************************************************************)
(* Theorems about BudgetLedger, for every set of calls, every cap and      *)
(* every cost.  Those about money assume DistinctReservations: with a      *)
(* shared id they are false, as the run ledger_shared_id shows.            *)
(***************************************************************************)
EXTENDS BudgetLedger, FiniteSetTheorems, FunctionTheorems, TLAPS

\* No step leaves the types.
LEMMA TypeStep ==
  ASSUME TypeOK, [Next]_vars
  PROVE  TypeOK'
<1> USE CallAssumption DEF TypeOK, CallState, Guarded, Finished, Record, Advance
<1>1. CASE Cancel
  BY <1>1 DEF Cancel
<1>2. ASSUME NEW c \in Call, Step(c) PROVE TypeOK'
  <2>1. CASE SkipCancelled(c)
    BY <2>1 DEF SkipCancelled
  <2>2. CASE CacheHit(c)
    BY <2>2 DEF CacheHit
  <2>3. CASE Refuse(c)
    BY <2>3 DEF Refuse
  <2>4. CASE Reserve(c)
    BY <2>4 DEF Reserve
  <2>5. CASE DropGuard(c)
    BY <2>5 DEF DropGuard
  <2>6. CASE MarkSent(c)
    BY <2>6 DEF MarkSent
  <2>7. CASE MarkAcknowledged(c)
    BY <2>7 DEF MarkAcknowledged
  <2>8. ASSUME NEW actual \in ActualCost, Commit(c, actual) PROVE TypeOK'
    <3>1. actual \in Nat
      BY CostAssumption
    <3> QED
      BY <2>8, <3>1 DEF Commit
  <2>9. CASE Release(c)
    BY <2>9 DEF Release
  <2>10. CASE MarkOrphaned(c)
    BY <2>10 DEF MarkOrphaned
  <2> QED
    BY <1>2, <2>1, <2>2, <2>3, <2>4, <2>5, <2>6, <2>7, <2>8, <2>9, <2>10 DEF Step
<1>3. CASE UNCHANGED vars
  BY <1>3 DEF vars
<1> QED
  BY <1>1, <1>2, <1>3 DEF Next, Done

LEMMA TypeInit == Init => TypeOK
<1> SUFFICES ASSUME Init PROVE TypeOK
  OBVIOUS
<1>1. committed \in Nat /\ cache \subseteq CacheKey /\ cancelled \in BOOLEAN
  BY DEF Init
<1>2. calls \in [ResId -> CallState \union {Absent}]
  BY DEF Init
<1>3. progress \in [Call -> {"Waiting"} \union Guarded \union Finished]
  BY DEF Init
<1> QED
  BY <1>1, <1>2, <1>3 DEF TypeOK

\* The type invariant: the ledger only ever holds states of CallState, and
\* committed never falls below zero.
THEOREM TypeCorrect == Spec => []TypeOK
  BY TypeInit, TypeStep, PTL DEF Spec

---------------------------------------------------------------------------
(***************************************************************************)
(* The entry under a call's id is that call's own, and is in the state the *)
(* call's future has reached.                                              *)
(***************************************************************************)
OwnEntry(c) ==
  calls[resIdOf[c]] =
    IF progress[c] \in {"Waiting", "Cached", "Skipped"} THEN Absent ELSE progress[c]

EntriesOwned ==
  /\ \A c \in Call : OwnEntry(c)
  /\ \A r \in ResId : calls[r] # Absent => \E c \in Call : resIdOf[c] = r

\* Room the calls in flight may still need, should each be underestimated.
Margin ==
  /\ Cardinality(InFlight) <= MaxParallel
  /\ committed + reserved + Cardinality(InFlight) * Underestimate
       <= Cap + MaxParallel * Underestimate

\* The inductive invariant.
LedgerInv == TypeOK /\ EntriesOwned /\ Margin

\* The entries stay owned: a step of one call changes no other call's entry.
LEMMA EntriesOwnedStep ==
  ASSUME DistinctReservations, TypeOK, EntriesOwned, [Next]_vars
  PROVE  EntriesOwned'
<1> USE CallAssumption DEF TypeOK, EntriesOwned, OwnEntry, Record, Advance, Absent
<1>1. ASSUME NEW c \in Call, NEW s,
             s \in {"Reserved", "Sent", "Acknowledged", "Completed", "Failed", "Orphaned"},
             Record(c, s), Advance(c, s)
      PROVE  EntriesOwned'
  <2>1. \A d \in Call : OwnEntry(d)'
    <3> SUFFICES ASSUME NEW d \in Call PROVE OwnEntry(d)'
      OBVIOUS
    <3>1. CASE d = c
      BY <1>1, <3>1
    <3>2. CASE d # c
      <4>1. resIdOf[d] # resIdOf[c]
        BY <3>2 DEF DistinctReservations
      <4>2. calls'[resIdOf[d]] = calls[resIdOf[d]] /\ progress'[d] = progress[d]
        BY <1>1, <3>2, <4>1
      <4> QED
        BY <4>2
    <3> QED
      BY <3>1, <3>2
  <2>2. \A r \in ResId : calls'[r] # Absent => \E d \in Call : resIdOf[d] = r
    BY <1>1
  <2> QED
    BY <2>1, <2>2
<1>2. ASSUME NEW c \in Call, NEW s, s \in {"Cached", "Skipped"},
             progress[c] = "Waiting", Advance(c, s), UNCHANGED calls
      PROVE  EntriesOwned'
  <2>1. \A d \in Call : OwnEntry(d)'
    BY <1>2
  <2> QED
    BY <1>2, <2>1
<1>3. ASSUME NEW c \in Call, Step(c) PROVE EntriesOwned'
  <2>1. CASE SkipCancelled(c) \/ CacheHit(c) \/ Refuse(c)
    BY <1>2, <2>1 DEF SkipCancelled, CacheHit, Refuse, MayStart
  <2>2. CASE Reserve(c)
    BY <1>1, <2>2 DEF Reserve
  <2>3. CASE DropGuard(c) \/ Release(c)
    BY <1>1, <2>3 DEF DropGuard, Release
  <2>4. CASE MarkSent(c)
    BY <1>1, <2>4 DEF MarkSent
  <2>5. CASE MarkAcknowledged(c)
    BY <1>1, <2>5 DEF MarkAcknowledged
  <2>6. CASE \E actual \in ActualCost : Commit(c, actual)
    BY <1>1, <2>6 DEF Commit
  <2>7. CASE MarkOrphaned(c)
    BY <1>1, <2>7 DEF MarkOrphaned
  <2> QED
    BY <1>3, <2>1, <2>2, <2>3, <2>4, <2>5, <2>6, <2>7 DEF Step
<1>4. CASE Cancel \/ UNCHANGED vars
  BY <1>4 DEF Cancel, vars
<1> QED
  BY <1>3, <1>4 DEF Next, Done

---------------------------------------------------------------------------
\* Products with a constant factor: one unit more, and monotonicity.
LEMMA OneMore ==
  ASSUME NEW n \in Nat, NEW D \in Nat
  PROVE  /\ (n + 1) * D = n * D + D
         /\ D * (n + 1) = D * n + D
         /\ n * D \in Nat
         /\ D * n \in Nat
  BY SMT

LEMMA TimesMonotone ==
  ASSUME NEW m \in Nat, NEW n \in Nat, m <= n, NEW D \in Nat
  PROVE  m * D <= n * D
<1>1. PICK k \in Nat : n = m + k
  <2>1. n - m \in Nat /\ n = m + (n - m)
    BY SMT
  <2> QED
    BY <2>1
<1>2. n * D = m * D + k * D
  BY <1>1, SMT
<1>3. k * D \in Nat /\ m * D \in Nat
  BY OneMore
<1> QED
  BY <1>2, <1>3, SMT

\* No call costs more than its estimate and the worst underestimate.
LEMMA UnderestimateBounds ==
  /\ Underestimate \in Nat
  /\ \A actual \in ActualCost : actual \in Nat /\ actual <= CallCost + Underestimate
  BY CostAssumption DEF Underestimate

LEMMA Finiteness ==
  /\ IsFiniteSet(InFlight) /\ Cardinality(InFlight) \in Nat
  /\ IsFiniteSet(OpenReservations) /\ Cardinality(OpenReservations) \in Nat
  BY CallAssumption, FS_Subset, FS_CardinalityType DEF InFlight, OpenReservations

LEMMA FinitenessAfter ==
  Cardinality(InFlight') \in Nat /\ Cardinality(OpenReservations') \in Nat
<1>1. InFlight' \subseteq Call /\ OpenReservations' \subseteq ResId
  BY DEF InFlight, OpenReservations
<1> QED
  BY <1>1, CallAssumption, FS_Subset, FS_CardinalityType

\* What a move of one call does to the two counts of Margin.
LEMMA Entering ==
  ASSUME DistinctReservations, TypeOK, EntriesOwned, NEW c \in Call,
         progress[c] = "Waiting", Record(c, "Reserved"), Advance(c, "Reserved")
  PROVE  /\ Cardinality(InFlight') = Cardinality(InFlight) + 1
         /\ Cardinality(OpenReservations') = Cardinality(OpenReservations) + 1
<1> USE CallAssumption DEF TypeOK
<1>1. resIdOf[c] \in ResId /\ calls[resIdOf[c]] = Absent
  BY DEF EntriesOwned, OwnEntry
<1>2. c \notin InFlight /\ InFlight' = InFlight \union {c}
  BY DEF InFlight, Guarded, Advance
<1>3. /\ resIdOf[c] \notin OpenReservations
      /\ OpenReservations' = OpenReservations \union {resIdOf[c]}
  BY <1>1 DEF OpenReservations, NonTerminal, Absent, Record
<1> QED
  BY <1>2, <1>3, Finiteness, FS_AddElement

LEMMA Leaving ==
  ASSUME DistinctReservations, TypeOK, EntriesOwned, NEW c \in Call, NEW s,
         progress[c] \in Guarded, s \in {"Completed", "Failed"},
         Record(c, s), Advance(c, s)
  PROVE  /\ Cardinality(InFlight) = Cardinality(InFlight') + 1
         /\ Cardinality(OpenReservations) = Cardinality(OpenReservations') + 1
<1> USE CallAssumption DEF TypeOK
<1>1. resIdOf[c] \in ResId /\ calls[resIdOf[c]] \in Guarded
  BY DEF EntriesOwned, OwnEntry, Guarded
<1>2. c \in InFlight /\ InFlight' = InFlight \ {c}
  BY DEF InFlight, Guarded, Advance
<1>3. /\ resIdOf[c] \in OpenReservations
      /\ OpenReservations' = OpenReservations \ {resIdOf[c]}
  BY <1>1 DEF OpenReservations, NonTerminal, Guarded, Record
<1>4. Cardinality(InFlight \ {c}) = Cardinality(InFlight) - 1
  BY <1>2, Finiteness, FS_RemoveElement
<1>5. Cardinality(OpenReservations \ {resIdOf[c]}) = Cardinality(OpenReservations) - 1
  BY <1>3, Finiteness, FS_RemoveElement
<1> QED
  BY <1>2, <1>3, <1>4, <1>5, Finiteness

LEMMA Stranding ==
  ASSUME TypeOK, EntriesOwned, NEW c \in Call,
         progress[c] \in Guarded, Record(c, "Orphaned"), Advance(c, "Orphaned")
  PROVE  /\ Cardinality(InFlight) = Cardinality(InFlight') + 1
         /\ Cardinality(OpenReservations') = Cardinality(OpenReservations)
<1> USE CallAssumption DEF TypeOK
<1>1. resIdOf[c] \in ResId /\ calls[resIdOf[c]] \in Guarded
  BY DEF EntriesOwned, OwnEntry, Guarded
<1>2. c \in InFlight /\ InFlight' = InFlight \ {c}
  BY DEF InFlight, Guarded, Advance
<1>3. OpenReservations' = OpenReservations
  BY <1>1 DEF OpenReservations, NonTerminal, Guarded, Record
<1>4. Cardinality(InFlight \ {c}) = Cardinality(InFlight) - 1
  BY <1>2, Finiteness, FS_RemoveElement
<1> QED
  BY <1>2, <1>3, <1>4, Finiteness

LEMMA Progressing ==
  ASSUME TypeOK, EntriesOwned, NEW c \in Call, NEW s,
         progress[c] \in Guarded, s \in Guarded, Record(c, s), Advance(c, s)
  PROVE  InFlight' = InFlight /\ OpenReservations' = OpenReservations
<1> USE CallAssumption DEF TypeOK
<1>1. resIdOf[c] \in ResId /\ calls[resIdOf[c]] \in Guarded
  BY DEF EntriesOwned, OwnEntry, Guarded
<1>2. InFlight' = InFlight
  BY DEF InFlight, Advance
<1>3. OpenReservations' = OpenReservations
  BY <1>1 DEF OpenReservations, NonTerminal, Guarded, Record
<1> QED
  BY <1>2, <1>3

\* The margin survives every step: what a call takes from it, it had reserved.
LEMMA MarginStep ==
  ASSUME DistinctReservations, LedgerInv, [Next]_vars
  PROVE  Margin'
<1> USE CostAssumption, UnderestimateBounds DEF LedgerInv
<1> DEFINE k == Cardinality(InFlight)
           n == Cardinality(OpenReservations)
           U == Underestimate
           Room == Cap + MaxParallel * U
<1>1. /\ k \in Nat /\ n \in Nat /\ committed \in Nat /\ U \in Nat
      /\ Room \in Nat /\ CallCost \in Nat
  <2>1. U \in Nat /\ MaxParallel * U \in Nat
    BY OneMore
  <2> QED
    BY <2>1, Finiteness DEF TypeOK
<1>2. TypeOK'
  BY TypeStep
<1>3. k' \in Nat /\ n' \in Nat /\ committed' \in Nat /\ U' = U /\ Room' = Room
  BY <1>2, FinitenessAfter DEF TypeOK, Underestimate
<1>4. k <= MaxParallel /\ committed + CallCost * n + k * U <= Room
  BY DEF Margin, reserved
<1>5. SUFFICES k' <= MaxParallel /\ committed' + CallCost * n' + k' * U <= Room
  BY <1>3 DEF Margin, reserved
<1>6. ASSUME k' = k, n' = n, committed' = committed
      PROVE  k' <= MaxParallel /\ committed' + CallCost * n' + k' * U <= Room
  BY <1>4, <1>6
<1>7. ASSUME NEW c \in Call, Step(c)
      PROVE  k' <= MaxParallel /\ committed' + CallCost * n' + k' * U <= Room
  <2>1. CASE SkipCancelled(c) \/ CacheHit(c) \/ Refuse(c)
    <3>1. InFlight' = InFlight
      BY <2>1 DEF SkipCancelled, CacheHit, Refuse, MayStart, InFlight, Advance, TypeOK, Guarded
    <3>2. OpenReservations' = OpenReservations /\ committed' = committed
      BY <2>1 DEF SkipCancelled, CacheHit, Refuse, OpenReservations
    <3> QED
      BY <1>6, <3>1, <3>2
  <2>2. CASE Reserve(c)
    <3>1. k < MaxParallel /\ committed' = committed
      BY <2>2 DEF Reserve, MayStart
    <3>7. CallCost * n + committed + CallCost <= Cap
      BY <2>2 DEF Reserve, Affordable, reserved
    <3>2. k' = k + 1 /\ n' = n + 1
      BY <2>2, Entering DEF Reserve, MayStart
    <3>3. CallCost * n' = CallCost * n + CallCost
      BY <1>1, <3>2, OneMore
    <3>4. k' * U <= MaxParallel * U
      BY <1>1, <1>3, <3>1, <3>2, TimesMonotone
    <3>5. k' * U \in Nat /\ MaxParallel * U \in Nat /\ CallCost * n \in Nat
      BY <1>1, <1>3, OneMore
    <3>6. k' <= MaxParallel
      BY <1>1, <3>1, <3>2
    <3> HIDE DEF k, n, U
    <3> QED
      BY <1>1, <3>1, <3>7, <3>3, <3>4, <3>5, <3>6
  <2>3. ASSUME k = k' + 1, n = n' + 1, committed' <= committed + CallCost + U
        PROVE  k' <= MaxParallel /\ committed' + CallCost * n' + k' * U <= Room
    <3>1. k' <= MaxParallel
      BY <1>1, <1>3, <1>4, <2>3
    <3> HIDE DEF k, n, U, Room
    <3>2. CallCost * n = CallCost * n' + CallCost /\ CallCost * n' \in Nat
      BY <1>1, <1>3, <2>3, OneMore
    <3>3. k * U = k' * U + U /\ k' * U \in Nat
      BY <1>1, <1>3, <2>3, OneMore
    <3>4. committed + (CallCost * n' + CallCost) + (k' * U + U) <= Room
      BY <1>4, <3>2, <3>3
    <3>5. committed' + CallCost * n' + k' * U <= Room
      <4> DEFINE p == CallCost * n'
                 q == k' * U
      <4>1. /\ p \in Nat /\ q \in Nat
            /\ committed + (p + CallCost) + (q + U) <= Room
        BY <3>2, <3>3, <3>4
      <4>2. /\ committed \in Nat /\ committed' \in Nat /\ CallCost \in Nat
            /\ U \in Nat /\ Room \in Nat /\ committed' <= committed + CallCost + U
        BY <1>1, <1>3, <2>3
      <4>3. SUFFICES committed' + p + q <= Room
        OBVIOUS
      <4> HIDE DEF p, q
      <4>4. \A after \in Nat :
              after <= committed + CallCost + U => after + p + q <= Room
        BY <4>1, <4>2
      <4> QED
        BY <4>2, <4>4
    <3> QED
      BY <3>1, <3>5
  <2>4. CASE DropGuard(c) \/ Release(c)
    <3>1. k = k' + 1 /\ n = n' + 1
      BY <2>4, Leaving DEF DropGuard, Release, Guarded
    <3>2. committed' = committed
      BY <2>4 DEF DropGuard, Release
    <3> QED
      BY <1>1, <2>3, <3>1, <3>2
  <2>5. ASSUME NEW actual \in ActualCost, Commit(c, actual)
        PROVE  k' <= MaxParallel /\ committed' + CallCost * n' + k' * U <= Room
    <3>1. k = k' + 1 /\ n = n' + 1
      BY <2>5, Leaving DEF Commit, Guarded
    <3>2. committed' = committed + actual /\ actual \in Nat /\ actual <= CallCost + U
      BY <2>5 DEF Commit
    <3> QED
      BY <1>1, <2>3, <3>1, <3>2
  <2>6. CASE MarkOrphaned(c)
    <3>1. k = k' + 1 /\ n' = n /\ committed' = committed
      BY <2>6, Stranding DEF MarkOrphaned, Guarded
    <3>2. k' <= MaxParallel
      BY <1>1, <1>3, <1>4, <3>1
    <3> HIDE DEF k, n, U, Room
    <3>3. k * U = k' * U + U /\ k' * U \in Nat
      BY <1>1, <1>3, <3>1, OneMore
    <3>4. committed + CallCost * n + (k' * U + U) <= Room
      BY <1>4, <3>3
    <3>5. CallCost * n \in Nat /\ CallCost * n' = CallCost * n
      BY <1>1, <3>1, OneMore
    <3>6. committed' + CallCost * n' + k' * U <= Room
      <4> DEFINE p == CallCost * n
                 q == k' * U
      <4>1. p \in Nat /\ q \in Nat /\ committed + p + (q + U) <= Room
        BY <3>3, <3>4, <3>5
      <4>2. SUFFICES committed + p + q <= Room
        BY <3>1, <3>5
      <4> HIDE DEF p, q
      <4> QED
        BY <1>1, <4>1
    <3> QED
      BY <3>2, <3>6
  <2>7. CASE MarkSent(c) \/ MarkAcknowledged(c)
    <3>1. InFlight' = InFlight /\ OpenReservations' = OpenReservations
      BY <2>7, Progressing DEF MarkSent, MarkAcknowledged, Guarded
    <3>2. committed' = committed
      BY <2>7 DEF MarkSent, MarkAcknowledged
    <3> QED
      BY <1>6, <3>1, <3>2
  <2> QED
    BY <1>7, <2>1, <2>2, <2>4, <2>5, <2>6, <2>7 DEF Step
<1>8. CASE Cancel \/ UNCHANGED vars
  <2>1. InFlight' = InFlight /\ OpenReservations' = OpenReservations /\ committed' = committed
    BY <1>8 DEF Cancel, vars, InFlight, OpenReservations
  <2> QED
    BY <1>6, <2>1
<1> QED
  BY <1>7, <1>8 DEF Next, Done, LedgerInv

---------------------------------------------------------------------------
(***************************************************************************)
(* With an id of its own for every call, LedgerInv holds throughout a run. *)
(***************************************************************************)
THEOREM LedgerInvariant ==
  ASSUME DistinctReservations
  PROVE  Spec => []LedgerInv
<1>1. Init => LedgerInv
  <2> SUFFICES ASSUME Init PROVE LedgerInv
    OBVIOUS
  <2> USE CallAssumption, CostAssumption
  <2>1. TypeOK
    BY TypeInit
  <2>2. EntriesOwned
    BY DEF Init, EntriesOwned, OwnEntry
  <2>3. InFlight = {} /\ OpenReservations = {}
    BY DEF Init, InFlight, OpenReservations, Guarded, NonTerminal, Absent
  <2>4. Cardinality(InFlight) = 0 /\ reserved = 0
    BY <2>3, FS_EmptySet DEF reserved
  <2>5. 0 * Underestimate = 0 /\ MaxParallel * Underestimate \in Nat
    BY UnderestimateBounds, OneMore
  <2>6. Margin
    BY <2>4, <2>5 DEF Init, Margin
  <2> QED
    BY <2>1, <2>2, <2>6 DEF LedgerInv
<1>2. LedgerInv /\ [Next]_vars => LedgerInv'
  BY TypeStep, EntriesOwnedStep, MarginStep DEF LedgerInv
<1> QED
  BY <1>1, <1>2, PTL DEF Spec

(***************************************************************************)
(* No reservation leaks and none is released twice: reserved() counts the  *)
(* ids of unresolved calls and nothing else.                               *)
(***************************************************************************)
THEOREM NoLeak ==
  ASSUME DistinctReservations
  PROVE  Spec => []LedgerMatchesCalls
<1>1. LedgerInv => LedgerMatchesCalls
  <2> SUFFICES ASSUME LedgerInv, NEW r \in ResId
               PROVE  r \in OpenReservations <=>
                        \E c \in Call : resIdOf[c] = r
                                        /\ progress[c] \in Guarded \union {"Orphaned"}
    BY DEF LedgerMatchesCalls
  <2> USE CallAssumption DEF LedgerInv, TypeOK, EntriesOwned, OwnEntry,
        OpenReservations, NonTerminal, Guarded, Finished, Absent
  <2>1. ASSUME r \in OpenReservations
        PROVE  \E c \in Call : resIdOf[c] = r /\ progress[c] \in Guarded \union {"Orphaned"}
    <3>1. PICK c \in Call : resIdOf[c] = r
      BY <2>1
    <3>2. progress[c] \in Guarded \union {"Orphaned"}
      BY <2>1, <3>1
    <3> QED
      BY <3>1, <3>2
  <2>2. ASSUME NEW c \in Call, resIdOf[c] = r, progress[c] \in Guarded \union {"Orphaned"}
        PROVE  r \in OpenReservations
    BY <2>2
  <2> QED
    BY <2>1, <2>2
<1> QED
  BY <1>1, LedgerInvariant, PTL

(***************************************************************************)
(* The cap is missed by no more than the calls in flight underestimate,    *)
(* whatever the estimate, the cap, the costs and the number of calls.      *)
(***************************************************************************)
THEOREM BoundedOverdraft ==
  ASSUME DistinctReservations
  PROVE  Spec => []OverdraftBound
<1>1. LedgerInv => OverdraftBound
  <2> SUFFICES ASSUME LedgerInv PROVE OverdraftBound
    OBVIOUS
  <2>1. /\ committed \in Nat /\ CallCost * Cardinality(OpenReservations) \in Nat
        /\ Cardinality(InFlight) * Underestimate \in Nat
        /\ Cap + MaxParallel * Underestimate \in Nat
    BY CostAssumption, UnderestimateBounds, Finiteness, OneMore DEF LedgerInv, TypeOK
  <2>2. committed + reserved + Cardinality(InFlight) * Underestimate
          <= Cap + MaxParallel * Underestimate
    BY DEF LedgerInv, Margin
  <2> QED
    BY <2>1, <2>2 DEF OverdraftBound, reserved
<1> QED
  BY <1>1, LedgerInvariant, PTL

(***************************************************************************)
(* What is settled stays settled: no step rewrites a completed, failed or  *)
(* orphaned reservation.                                                   *)
(***************************************************************************)
THEOREM Settled ==
  ASSUME DistinctReservations
  PROVE  Spec => SettledIsFinal
<1> DEFINE Final == {"Completed", "Failed", "Orphaned"}
           Keeps == \A r \in ResId : calls[r] \in Final => calls'[r] = calls[r]
<1>1. LedgerInv /\ [Next]_vars => [Keeps]_vars
  <2> SUFFICES ASSUME LedgerInv, Next PROVE Keeps
    BY DEF vars
  <2> USE CallAssumption
  <2>1. ASSUME NEW c \in Call, NEW s, progress[c] \in {"Waiting"} \union Guarded, Record(c, s)
        PROVE  Keeps
    <3>1. calls[resIdOf[c]] \notin Final
      BY <2>1 DEF LedgerInv, EntriesOwned, OwnEntry, Guarded, Absent
    <3>2. \A r \in ResId : r # resIdOf[c] => calls'[r] = calls[r]
      BY <2>1 DEF LedgerInv, TypeOK, Record
    <3> QED
      BY <3>1, <3>2
  <2>2. ASSUME NEW c \in Call, Step(c) PROVE Keeps
    <3>1. CASE SkipCancelled(c) \/ CacheHit(c) \/ Refuse(c)
      BY <3>1 DEF SkipCancelled, CacheHit, Refuse
    <3>2. CASE Reserve(c)
      BY <2>1, <3>2 DEF Reserve, MayStart
    <3>3. CASE DropGuard(c) \/ MarkSent(c)
      BY <2>1, <3>3 DEF DropGuard, MarkSent, Guarded
    <3>4. CASE MarkAcknowledged(c)
      BY <2>1, <3>4 DEF MarkAcknowledged, Guarded
    <3>5. CASE \E actual \in ActualCost : Commit(c, actual)
      BY <2>1, <3>5 DEF Commit, Guarded
    <3>6. CASE Release(c) \/ MarkOrphaned(c)
      BY <2>1, <3>6 DEF Release, MarkOrphaned, Guarded
    <3> QED
      BY <2>2, <3>1, <3>2, <3>3, <3>4, <3>5, <3>6 DEF Step
  <2>3. CASE Cancel \/ Done
    BY <2>3 DEF Cancel, Done, vars
  <2> QED
    BY <2>2, <2>3 DEF Next
<1>2. []LedgerInv /\ [][Next]_vars => [][Keeps]_vars
  BY <1>1, PTL
<1> QED
  BY <1>2, LedgerInvariant, PTL DEF Spec, SettledIsFinal

---------------------------------------------------------------------------
\* reserved() moves with the number of open reservations, in steps of CallCost.
LEMMA ReservedMoves ==
  ASSUME LedgerInv, [Next]_vars
  PROVE  /\ reserved \in Nat /\ reserved' \in Nat
         /\ Cardinality(OpenReservations') = Cardinality(OpenReservations) + 1
              => reserved' = reserved + CallCost
         /\ Cardinality(OpenReservations) = Cardinality(OpenReservations') + 1
              => reserved' = reserved - CallCost
         /\ Cardinality(OpenReservations') = Cardinality(OpenReservations)
              => reserved' = reserved
<1> DEFINE n == Cardinality(OpenReservations)
<1>1. n \in Nat /\ n' \in Nat /\ CallCost \in Nat
  BY Finiteness, FinitenessAfter, CostAssumption
<1>2. reserved = CallCost * n /\ reserved' = CallCost * n'
  BY DEF reserved
<1> SUFFICES /\ CallCost * n \in Nat /\ CallCost * n' \in Nat
             /\ n' = n + 1 => CallCost * n' = CallCost * n + CallCost
             /\ n = n' + 1 => CallCost * n' = CallCost * n - CallCost
             /\ n' = n => CallCost * n' = CallCost * n
  BY <1>2
<1> HIDE DEF n
<1>3. CallCost * n \in Nat /\ CallCost * n' \in Nat
  BY <1>1, OneMore
<1>4. ASSUME n' = n + 1 PROVE CallCost * n' = CallCost * n + CallCost
  BY <1>1, <1>4, OneMore
<1>5. ASSUME n = n' + 1 PROVE CallCost * n' = CallCost * n - CallCost
  <2>1. CallCost * n = CallCost * n' + CallCost
    BY <1>1, <1>5, OneMore
  <2>2. \A p, q, C \in Nat : p = q + C => q = p - C
    OBVIOUS
  <2> QED
    BY <1>1, <1>3, <2>1, <2>2
<1> QED
  BY <1>3, <1>4, <1>5

(***************************************************************************)
(* The ledger implements the account: whatever happens between the stages, *)
(* the cache, the providers and the operator, money is held, spent, freed  *)
(* or stranded only as SpendAccount allows.                                *)
(***************************************************************************)
THEOREM Refinement ==
  ASSUME DistinctReservations
  PROVE  Spec => RefinesAccount
<1>1. Init => Account!Init
  <2> SUFFICES ASSUME Init PROVE Account!Init
    OBVIOUS
  <2>1. InFlight = {} /\ Stranded = {} /\ OpenReservations = {}
    BY DEF Init, InFlight, Stranded, Guarded, OpenReservations, NonTerminal, Absent
  <2>2. reserved = 0
    <3>1. Cardinality(OpenReservations) = 0
      BY <2>1, FS_EmptySet
    <3> QED
      BY <3>1, CostAssumption DEF reserved
  <2> QED
    BY <2>1, <2>2 DEF Init, Account!Init
<1>2. LedgerInv /\ [Next]_vars => [Account!Next]_(Account!accountVars)
  <2> SUFFICES ASSUME LedgerInv, [Next]_vars
               PROVE  [Account!Next]_(Account!accountVars)
    OBVIOUS
  <2> USE DEF Account!Next, Account!accountVars
  <2>1. progress \in [Call -> {"Waiting"} \union Guarded \union Finished]
    BY DEF LedgerInv, TypeOK
  <2>2. ASSUME UNCHANGED <<InFlight, Stranded, OpenReservations, committed>>
        PROVE  UNCHANGED Account!accountVars
    BY <2>2, ReservedMoves
  <2>3. ASSUME NEW c \in Call, Step(c)
        PROVE  Account!Next \/ UNCHANGED Account!accountVars
    <3>1. CASE SkipCancelled(c) \/ CacheHit(c) \/ Refuse(c)
      <4>1. UNCHANGED <<InFlight, Stranded, OpenReservations, committed>>
        BY <2>1, <3>1 DEF SkipCancelled, CacheHit, Refuse, MayStart, Advance,
                          InFlight, Stranded, Guarded, OpenReservations
      <4> QED
        BY <4>1, <2>2
    <3>2. CASE Reserve(c)
      <4>1. /\ c \notin InFlight \union Stranded
            /\ InFlight' = InFlight \union {c} /\ Stranded' = Stranded
        BY <2>1, <3>2 DEF Reserve, MayStart, Advance, InFlight, Stranded, Guarded
      <4>2. reserved' = reserved + CallCost
        BY <3>2, Entering, ReservedMoves DEF Reserve, MayStart, LedgerInv
      <4>3. Account!Hold(c)
        BY <3>2, <4>1, <4>2 DEF Reserve, Affordable, Account!Hold
      <4> QED
        BY <4>3
    <3>3. ASSUME NEW s, s \in {"Completed", "Failed"}, progress[c] \in Guarded,
                 Record(c, s), Advance(c, s)
          PROVE  Account!GiveUp(c)
      <4>1. /\ c \in InFlight /\ c \notin Stranded
            /\ InFlight' = InFlight \ {c} /\ Stranded' = Stranded
        BY <2>1, <3>3 DEF Advance, InFlight, Stranded, Guarded
      <4>2. reserved' = reserved - CallCost
        BY <3>3, Leaving, ReservedMoves DEF LedgerInv
      <4> QED
        BY <4>1, <4>2 DEF Account!GiveUp
    <3>4. CASE DropGuard(c) \/ Release(c)
      <4>1. Account!GiveUp(c)
        BY <3>3, <3>4 DEF DropGuard, Release, Guarded
      <4>2. Account!Free(c)
        BY <3>4, <4>1 DEF DropGuard, Release, Account!Free
      <4> QED
        BY <4>2
    <3>5. ASSUME NEW actual \in ActualCost, Commit(c, actual) PROVE Account!Next
      <4>1. Account!GiveUp(c)
        BY <3>3, <3>5 DEF Commit, Guarded
      <4>2. Account!Spend(c, actual)
        BY <3>5, <4>1 DEF Commit, Account!Spend
      <4> QED
        BY <4>2
    <3>6. CASE MarkSent(c) \/ MarkAcknowledged(c)
      <4>1. InFlight' = InFlight /\ OpenReservations' = OpenReservations
        BY <3>6, Progressing DEF MarkSent, MarkAcknowledged, Guarded, LedgerInv
      <4>2. Stranded' = Stranded /\ committed' = committed
        BY <2>1, <3>6 DEF MarkSent, MarkAcknowledged, Advance, Stranded
      <4> QED
        BY <4>1, <4>2, <2>2
    <3>7. CASE MarkOrphaned(c)
      <4>1. /\ c \in InFlight /\ c \notin Stranded
            /\ InFlight' = InFlight \ {c} /\ Stranded' = Stranded \union {c}
        BY <2>1, <3>7 DEF MarkOrphaned, Advance, InFlight, Stranded, Guarded
      <4>2. reserved' = reserved
        BY <3>7, Stranding, ReservedMoves DEF MarkOrphaned, Guarded, LedgerInv
      <4>3. Account!Strand(c)
        BY <3>7, <4>1, <4>2 DEF MarkOrphaned, Account!Strand
      <4> QED
        BY <4>3
    <3> QED
      BY <2>3, <3>1, <3>2, <3>4, <3>5, <3>6, <3>7 DEF Step
  <2>4. CASE Cancel \/ UNCHANGED vars
    <3>1. UNCHANGED <<InFlight, Stranded, OpenReservations, committed>>
      BY <2>4 DEF Cancel, vars, InFlight, Stranded, OpenReservations
    <3> QED
      BY <3>1, <2>2
  <2> QED
    BY <2>3, <2>4 DEF Next, Done
<1> QED
  BY <1>1, <1>2, LedgerInvariant, PTL DEF Spec, RefinesAccount, Account!Spec
===========================================================================
