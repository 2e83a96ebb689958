--------------------------- MODULE BudgetLedger ---------------------------
(***************************************************************************)
(* The in-memory budget ledger of one run (arbiter-kernel/src/budget.rs)   *)
(* together with the protocol every provider stage runs against it:        *)
(* cancellation check, cache lookup, reserve, send, acknowledge, and then  *)
(* commit, release or orphan.  A stage runs up to MaxParallel calls at     *)
(* once (buffer_unordered); the ledger's methods are each one critical     *)
(* section of its mutex, so each is one action here and calls interleave   *)
(* between any two of them.                                                *)
(*                                                                         *)
(* Every stage passes the same flat estimate (CALL_COST of                 *)
(* arbiter-cli/src/orchestrator.rs), so the sum over non-terminal          *)
(* reservations is CallCost times their number.  What a call turns out to  *)
(* cost is the provider's to say: any member of ActualCost.                *)
(***************************************************************************)
EXTENDS Integers, FiniteSets

CONSTANTS
  Call,          \* the provider calls the run attempts
  ResId,         \* reservation ids
  resIdOf,       \* the id a stage formats for a call, [Call -> ResId]
  CacheKey,      \* (provider, model, params, prompt_hash)
  cacheKeyOf,    \* the cache key of a call, [Call -> CacheKey]
  ChecksCancel,  \* calls whose stage consults the cancellation token first
  Registered,    \* calls whose provider is in the registry
  Cap,           \* `available`, the run's hard cap
  CallCost,      \* estimated_cost_per_call
  ActualCost,    \* what settled_cost may return
  MaxActual,     \* the largest of them
  MaxParallel    \* max_parallelism of the stage

ASSUME CallAssumption ==
  /\ IsFiniteSet(Call)
  /\ resIdOf \in [Call -> ResId]
  /\ IsFiniteSet(ResId)
  /\ cacheKeyOf \in [Call -> CacheKey]
  /\ ChecksCancel \subseteq Call
  /\ Registered \subseteq Call

ASSUME CostAssumption ==
  /\ Cap \in Nat
  /\ CallCost \in Nat
  /\ MaxActual \in Nat
  /\ ActualCost \subseteq 0..MaxActual
  /\ CallCost \in ActualCost
  /\ MaxParallel \in Nat \ {0}

(***************************************************************************)
(* Reservation ids are formatted from the stage, the item and the model.   *)
(* Nothing in the ledger enforces that two calls never share one: this     *)
(* predicate is what positions.generate's ids give for a panel without     *)
(* repeated members, and what the repair calls of claims.extract lack.     *)
(***************************************************************************)
DistinctReservations ==
  \A c, d \in Call : resIdOf[c] = resIdOf[d] => c = d

CallState == {"Reserved", "Sent", "Acknowledged", "Completed", "Failed", "Orphaned"}

\* Mutant: an orphaned call no longer counts as reserved.
NonTerminalForgetsOrphans == {"Reserved", "Sent", "Acknowledged"}

\* CallState::is_non_terminal
NonTerminal == {"Reserved", "Sent", "Acknowledged", "Orphaned"}

Absent == "absent"  \* no entry in LedgerState::calls

VARIABLES
  committed,  \* LedgerState::committed
  calls,      \* LedgerState::calls: the state recorded under each id
  progress,   \* how far each call's future has run
  cache,      \* keys ResponseCache holds
  cancelled   \* the CancellationToken

vars == <<committed, calls, progress, cache, cancelled>>

---------------------------------------------------------------------------
\* The ids whose estimate counts as reserved, and BudgetLedger::reserved().
OpenReservations == {r \in ResId : calls[r] \in NonTerminal}

reserved == CallCost * Cardinality(OpenReservations)

\* Calls that hold a live ReservationGuard.
Guarded == {"Reserved", "Sent", "Acknowledged"}

InFlight == {c \in Call : progress[c] \in Guarded}

Finished == {"Cached", "Skipped", "Completed", "Failed", "Orphaned"}

\* Mutant: reserve() compares with what is committed only.
AffordableIgnoresReserved == committed + CallCost <= Cap

Affordable == reserved + committed + CallCost <= Cap

Record(c, state) == calls' = [calls EXCEPT ![resIdOf[c]] = state]

Advance(c, state) == progress' = [progress EXCEPT ![c] = state]

---------------------------------------------------------------------------
Init ==
  /\ committed = 0
  /\ calls = [r \in ResId |-> Absent]
  /\ progress = [c \in Call |-> "Waiting"]
  /\ cache = {}
  /\ cancelled = FALSE

\* CancellationToken::cancel, from the operator.
Cancel ==
  /\ ~cancelled
  /\ cancelled' = TRUE
  /\ UNCHANGED <<committed, calls, progress, cache>>

MayStart(c) ==
  /\ progress[c] = "Waiting"
  /\ ~(cancelled /\ c \in ChecksCancel)
  /\ Cardinality(InFlight) < MaxParallel

\* The early return at the head of generate_one, issue_one and respond_one.
SkipCancelled(c) ==
  /\ progress[c] = "Waiting"
  /\ cancelled
  /\ c \in ChecksCancel
  /\ Advance(c, "Skipped")
  /\ UNCHANGED <<committed, calls, cache, cancelled>>

\* An inline cache hit returns before anything is reserved.
CacheHit(c) ==
  /\ MayStart(c)
  /\ cacheKeyOf[c] \in cache
  /\ Advance(c, "Cached")
  /\ UNCHANGED <<committed, calls, cache, cancelled>>

\* reserve() refuses: BUDGET_EXHAUSTED (or silence) and the item is skipped.
Refuse(c) ==
  /\ MayStart(c)
  /\ cacheKeyOf[c] \notin cache
  /\ ~Affordable
  /\ Advance(c, "Skipped")
  /\ UNCHANGED <<committed, calls, cache, cancelled>>

\* reserve() inserts the entry, replacing whatever that id held before.
Reserve(c) ==
  /\ MayStart(c)
  /\ cacheKeyOf[c] \notin cache
  /\ Affordable
  /\ Record(c, "Reserved")
  /\ Advance(c, "Reserved")
  /\ UNCHANGED <<committed, cache, cancelled>>

\* No provider registered: the guard is dropped, which releases.
DropGuard(c) ==
  /\ progress[c] = "Reserved"
  /\ c \notin Registered
  /\ Record(c, "Failed")
  /\ Advance(c, "Failed")
  /\ UNCHANGED <<committed, cache, cancelled>>

\* CALL_STARTED, then mark_sent; provider.call is awaited.
MarkSent(c) ==
  /\ progress[c] = "Reserved"
  /\ c \in Registered
  /\ Record(c, "Sent")
  /\ Advance(c, "Sent")
  /\ UNCHANGED <<committed, cache, cancelled>>

\* The response carried a request id: mark_acknowledged.
MarkAcknowledged(c) ==
  /\ progress[c] = "Sent"
  /\ Record(c, "Acknowledged")
  /\ Advance(c, "Acknowledged")
  /\ UNCHANGED <<committed, cache, cancelled>>

\* guard.commit(settled_cost(..)), then the response goes into the cache.
Commit(c, actual) ==
  /\ progress[c] \in {"Sent", "Acknowledged"}
  /\ committed' = committed + actual
  /\ Record(c, "Completed")
  /\ Advance(c, "Completed")
  /\ cache' = cache \union {cacheKeyOf[c]}
  /\ UNCHANGED cancelled

\* Mutant: a refused call is tried again on its reservation, without a bound.
ReleaseRetriesForever(c) ==
  /\ progress[c] = "Sent"
  /\ Record(c, "Reserved")
  /\ Advance(c, "Reserved")
  /\ UNCHANGED <<committed, cache, cancelled>>

\* settle_failed_call, ProviderError::Http: the provider refused, so release.
Release(c) ==
  /\ progress[c] = "Sent"
  /\ Record(c, "Failed")
  /\ Advance(c, "Failed")
  /\ UNCHANGED <<committed, cache, cancelled>>

\* settle_failed_call, ProviderError::Other: billed or not, nobody knows.
MarkOrphaned(c) ==
  /\ progress[c] = "Sent"
  /\ Record(c, "Orphaned")
  /\ Advance(c, "Orphaned")
  /\ UNCHANGED <<committed, cache, cancelled>>

\* Everything a call's own future does.
Step(c) ==
  \/ SkipCancelled(c) \/ CacheHit(c) \/ Refuse(c) \/ Reserve(c)
  \/ DropGuard(c) \/ MarkSent(c) \/ MarkAcknowledged(c)
  \/ \E actual \in ActualCost : Commit(c, actual)
  \/ Release(c) \/ MarkOrphaned(c)

AllFinished == \A c \in Call : progress[c] \in Finished

\* The stages have returned; the ledger rests.
Done == AllFinished /\ UNCHANGED vars

Next == Cancel \/ (\E c \in Call : Step(c)) \/ Done

Spec == Init /\ [][Next]_vars

\* The executor polls every future, and http.rs bounds every provider call by
\* a timeout, so a call that can move eventually does.
FairSpec == Spec /\ \A c \in Call : WF_vars(Step(c))

---------------------------------------------------------------------------
TypeOK ==
  /\ committed \in Nat
  /\ calls \in [ResId -> CallState \union {Absent}]
  /\ progress \in [Call -> {"Waiting"} \union Guarded \union Finished]
  /\ cache \subseteq CacheKey
  /\ cancelled \in BOOLEAN

(***************************************************************************)
(* The ledger and the calls agree.  An id counts as reserved exactly when  *)
(* it belongs to a call whose money is unresolved: in flight under a       *)
(* guard, or orphaned.  No reservation leaks, none is released twice.      *)
(***************************************************************************)
LedgerMatchesCalls ==
  \A r \in ResId :
    r \in OpenReservations <=>
      \E c \in Call : resIdOf[c] = r /\ progress[c] \in Guarded \union {"Orphaned"}

\* The worst a single estimate can miss its call by.
Underestimate == IF MaxActual > CallCost THEN MaxActual - CallCost ELSE 0

(***************************************************************************)
(* How far the cap can be missed.  commit() never consults the cap, so     *)
(* calls that cost more than their estimate push the ledger past it; but   *)
(* only the calls already in flight can, so the excess is at most          *)
(* MaxParallel times the worst underestimate.                              *)
(***************************************************************************)
OverdraftBound == committed + reserved <= Cap + MaxParallel * Underestimate

(***************************************************************************)
(* budget.rs:214 "an orphaned reservation stays held until an operator or  *)
(* usage-export reconciliation resolves it": while the run lasts, a call   *)
(* whose response never arrived keeps its estimate in reserved().          *)
(***************************************************************************)
OrphanStaysHeld ==
  \A c \in Call : progress[c] = "Orphaned" => calls[resIdOf[c]] = "Orphaned"

(***************************************************************************)
(* ARCHITECTURE 8.4: an orphaned or finished reservation never silently    *)
(* becomes something else: no ledger method leaves these states.           *)
(***************************************************************************)
SettledIsFinal ==
  [][\A r \in ResId :
        calls[r] \in {"Completed", "Failed", "Orphaned"} => calls'[r] = calls[r]]_vars

(***************************************************************************)
(* Every reservation is settled one way or another: committed, released or *)
(* orphaned, so no future leaves the run with a live guard.                *)
(***************************************************************************)
EveryGuardSettles ==
  \A c \in Call : progress[c] \in Guarded ~> progress[c] \in Finished

\* The money of a call is held from reserve() until it is settled, and stranded
\* once the call is orphaned.
Stranded == {c \in Call : progress[c] = "Orphaned"}

Account == INSTANCE SpendAccount WITH
  held <- InFlight \union Stranded, stranded <- Stranded,
  setAside <- reserved, spent <- committed

(***************************************************************************)
(* The ledger implements the account it stands for: reading a call's money *)
(* as held from reserve() until it is settled, as stranded once orphaned,  *)
(* and reserved() as the money set aside for exactly those calls.          *)
(* Refusals, skips, cache hits, sends and acknowledgements move no money.  *)
(***************************************************************************)
RefinesAccount == Account!Spec
===========================================================================
