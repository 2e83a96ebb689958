----------------------------- MODULE CallTables -----------------------------
(***************************************************************************)
(* The tables of one run's run.db that calls and money are kept in, as     *)
(* values: the events, provider_calls, the one row of budget, and          *)
(* cache_entries. An operator is what one statement sequence of the store  *)
(* makes of them (sqlite_store.rs), and a transaction is a composition of  *)
(* operators that is assigned in one step. rebuild_operational_projections *)
(* (project.rs) and Spend (spend.rs) are functions of the events.          *)
(*                                                                         *)
(* A call id is <<call, attempt>>; its first part is also the name of its  *)
(* reservation, which a retry shares. The events of different call ids are *)
(* kept apart: every reader below takes an event by its call id alone.     *)
(***************************************************************************)
EXTENDS Naturals, Integers, Sequences, SequencesExt, FiniteSetsExt

State == {"RESERVED", "SENT", "ACKNOWLEDGED", "COMPLETED", "FAILED", "ORPHANED"}

NonTerminalState == {"RESERVED", "SENT", "ACKNOWLEDGED", "ORPHANED"}

EmptyTables ==
  [log |-> <<>>, rows |-> <<>>, reserved |-> 0, committed |-> 0, cache |-> {}]

ReservationOf(id) == id[1]

RowsOf(db, r) == {id \in DOMAIN db.rows : ReservationOf(id) = r}

\* "ORDER BY created_at DESC LIMIT 1": the row of the last attempt.
LatestRow(db, r) ==
  CHOOSE id \in RowsOf(db, r) : \A other \in RowsOf(db, r) : other[2] <= id[2]

InsertRow(rows, id, row) ==
  [i \in DOMAIN rows \union {id} |-> IF i = id THEN row ELSE rows[i]]

EventsOf(db, id) == IF id \in DOMAIN db.log THEN db.log[id] ELSE <<>>

AppendEvent(db, type, id, amount) ==
  [db EXCEPT !.log =
     InsertRow(@, id, Append(EventsOf(db, id), [type |-> type, id |-> id, amount |-> amount]))]

ReserveCall(db, id, amount) ==
  [db EXCEPT !.rows = InsertRow(@, id, [state |-> "RESERVED", amount |-> amount]),
             !.reserved = @ + amount]

SetCallState(db, id, s) ==
  [db EXCEPT !.rows = [i \in DOMAIN @ |-> IF i = id THEN [@[i] EXCEPT !.state = s] ELSE @[i]]]

\* One amount leaves budget.reserved, and every row of the reservation is completed.
CommitBudget(db, r, actual) ==
  [db EXCEPT !.committed = @ + actual,
             !.reserved = @ - db.rows[LatestRow(db, r)].amount,
             !.rows = [i \in DOMAIN @ |->
                         IF i \in RowsOf(db, r) THEN [@[i] EXCEPT !.state = "COMPLETED"] ELSE @[i]]]

ReleaseReservation(db, r, id) ==
  SetCallState([db EXCEPT !.reserved = @ - db.rows[LatestRow(db, r)].amount], id, "FAILED")

PutCache(db, key) == [db EXCEPT !.cache = @ \union {key}]

CacheEntries(db) == db.cache

Amounts(db, ids) == SumFunctionOnSet([id \in DOMAIN db.rows |-> db.rows[id].amount], ids)

\* doctor: budget.reserved against the rows that still hold money.
HeldRows(db) == {id \in DOMAIN db.rows : db.rows[id].state \in NonTerminalState}

LedgerHolds(db) == db.reserved = Amounts(db, HeldRows(db))

---------------------------------------------------------------------------
(* What resume makes of a row it finds *)

ReleaseAndFail(state) == state = "RESERVED"

HoldOrphaned(state) == state \in {"SENT", "ACKNOWLEDGED"}

---------------------------------------------------------------------------
(* The two readers of the events *)

AddCompleted(total, e) == IF e.type = "CALL_COMPLETED" THEN total + e.amount ELSE total

SpendOf(events) == FoldLeft(AddCompleted, 0, events)

Spend(db) == SumFunction([id \in DOMAIN db.log |-> SpendOf(db.log[id])])

\* The tables while they are rebuilt, and whether an INSERT met its call id there.
Rebuilding == [db |-> EmptyTables, ok |-> TRUE]

\* The row of a call as its start and its completion leave it.
StartRow(db, e) == SetCallState(ReserveCall(db, e.id, e.amount), e.id, "SENT")

CompleteRow(db, e) ==
  SetCallState([db EXCEPT !.committed = @ + e.amount, !.reserved = @ - db.rows[e.id].amount],
               e.id, "COMPLETED")

\* Mutant: a completed call leaves what is committed as it is.
ReplayWithoutCost(acc, e) ==
  IF e.type = "CALL_STARTED" THEN [acc EXCEPT !.db = StartRow(@, e)] ELSE acc

\* BUDGET_RESERVED only carries the estimate that CALL_STARTED repeats, and no
\* other event than these moves a row.
Replay(acc, e) ==
  LET known == e.id \in DOMAIN acc.db.rows IN
  IF ~acc.ok THEN acc
  ELSE CASE e.type = "CALL_STARTED" /\ known -> [acc EXCEPT !.ok = FALSE]
         [] e.type = "CALL_STARTED" /\ ~known -> [acc EXCEPT !.db = StartRow(@, e)]
         [] e.type = "CALL_REQUEST_ID" -> [acc EXCEPT !.db = SetCallState(@, e.id, "ACKNOWLEDGED")]
         [] e.type = "CALL_COMPLETED" /\ known -> [acc EXCEPT !.db = CompleteRow(@, e)]
         [] OTHER -> acc

ReplayOf(events, acc) == FoldLeft(Replay, acc, events)

Rebuild(db) == FoldFunction(ReplayOf, Rebuilding, db.log)
=============================================================================
