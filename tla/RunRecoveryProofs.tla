------------------------- MODULE RunRecoveryProofs --------------------------
(***************************************************************************)
(* Theorems about RunRecovery, for any calls, costs, caps and number of    *)
(* attempts. They rest on four inductive invariants, each with a part of   *)
(* this module.                                                            *)
(*                                                                         *)
(*   IInv      relates the two caches: while a process works its own cache *)
(*             holds whatever is stored and no call that is in flight or   *)
(*             failed, and behind a terminal event the stored one holds    *)
(*             the same. A decision of this attempt was made from it.      *)
(*   RowsInv   keeps the row of an attempt at what its process has done    *)
(*             about the call; with it DriftInv counts what is reserved.   *)
(*   MoneyInv, RowMoneyInv  say what a process may still spend, and what   *)
(*             the rows tell of the money of those that are gone.          *)
(*   LogInv    says what the events of a call look like: that one is       *)
(*             started once, and completed only after that.                *)
(***************************************************************************)
EXTENDS RunRecovery, FiniteSetTheorems, SequenceTheorems, TLAPS

Tables == {"log", "rows", "reserved", "committed", "cache"}

CallPhase == InFlight \union {"idle", "done", "skipped", "refused"}

Unanswered == InFlight \union {"skipped"}

Shapes ==
  /\ DOMAIN db = Tables /\ call \in [Call -> CallPhase]
  /\ attempt \in Nat /\ record.attempt \in Nat

CachesAgree ==
  /\ phase = "pipeline" => \A c \in Call : call[c] \in Unanswered => c \notin cache
  /\ phase \in {"pipeline", "persisting", "finished"} =>
       db.cache \subseteq cache /\ \A c \in Call : call[c] = "done" => c \in cache
  /\ phase = "finished" => cache \subseteq db.cache /\ terminal
  /\ catalog = "finished" => terminal

\* What the decision of this attempt was made from is the set s.
MadeFrom(s) ==
  record.attempt = attempt /\ ~record.limited => Needed(record.depth) \cap s = record.answers

RecordAgrees ==
  /\ record.attempt <= attempt
  /\ phase \in {"pipeline", "releasing"} => record.attempt # attempt
  /\ phase \in {"persisting", "finished"} => MadeFrom(cache)
  /\ terminal => phase \in {"finished", "down"} /\ MadeFrom(db.cache)

IInv == Shapes /\ CachesAgree /\ RecordAgrees

---------------------------------------------------------------------------
(* What the statements of the store leave alone *)

LEMMA AppendKeeps ==
  ASSUME NEW d, DOMAIN d = Tables, NEW type, NEW id, NEW n
  PROVE  /\ DOMAIN AppendEvent(d, type, id, n) = Tables /\ AppendEvent(d, type, id, n).cache = d.cache
         /\ AppendEvent(d, type, id, n).committed = d.committed
BY DEF AppendEvent, Tables

LEMMA ReserveKeeps ==
  ASSUME NEW d, DOMAIN d = Tables, NEW id, NEW n
  PROVE  /\ DOMAIN ReserveCall(d, id, n) = Tables /\ ReserveCall(d, id, n).cache = d.cache
         /\ ReserveCall(d, id, n).committed = d.committed
BY DEF ReserveCall, Tables

LEMMA StateKeeps ==
  ASSUME NEW d, DOMAIN d = Tables, NEW id, NEW s
  PROVE  /\ DOMAIN SetCallState(d, id, s) = Tables /\ SetCallState(d, id, s).cache = d.cache
         /\ SetCallState(d, id, s).committed = d.committed
         /\ DOMAIN SetCallState(d, id, s).rows = DOMAIN d.rows
BY DEF SetCallState, Tables

LEMMA CommitKeeps ==
  ASSUME NEW d, DOMAIN d = Tables, NEW r, NEW n
  PROVE  /\ DOMAIN CommitBudget(d, r, n) = Tables /\ CommitBudget(d, r, n).cache = d.cache
         /\ CommitBudget(d, r, n).committed = d.committed + n
BY DEF CommitBudget, Tables

LEMMA PutAdds ==
  ASSUME NEW d, DOMAIN d = Tables, NEW key
  PROVE  /\ DOMAIN PutCache(d, key) = Tables /\ PutCache(d, key).cache = d.cache \union {key}
         /\ PutCache(d, key).committed = d.committed
BY DEF PutCache, Tables

LEMMA ReleaseKeeps ==
  ASSUME NEW d, DOMAIN d = Tables, NEW r, NEW id
  PROVE  /\ DOMAIN ReleaseReservation(d, r, id) = Tables /\ ReleaseReservation(d, r, id).cache = d.cache
         /\ ReleaseReservation(d, r, id).committed = d.committed
<1> DEFINE e == [d EXCEPT !.reserved = @ - d.rows[LatestRow(d, r)].amount]
<1>1. DOMAIN e = Tables /\ e.cache = d.cache /\ e.committed = d.committed
  BY DEF Tables
<1> HIDE DEF e
<1>2. /\ DOMAIN SetCallState(e, id, "FAILED") = Tables /\ SetCallState(e, id, "FAILED").cache = e.cache
      /\ SetCallState(e, id, "FAILED").committed = e.committed
  BY <1>1, StateKeeps
<1> QED
  BY <1>1, <1>2 DEF ReleaseReservation, e

---------------------------------------------------------------------------
LEMMA InvInit == Init => IInv
BY
   DEF Init, IInv, Shapes, CachesAgree, RecordAgrees, NoRecord, CallPhase, Unanswered, InFlight,
       EmptyTables, Tables

\* A step on a call that stores no answer leaves both caches as they are.
LEMMA QuietCall ==
  ASSUME IInv, NEW c \in Call,
         Refuse(c) \/ LeaveOut(c) \/ Reserve(c) \/ Send(c) \/ Acknowledge(c) \/ FailCall(c) \/ OrphanCall(c)
  PROVE  /\ DOMAIN db' = Tables /\ db'.cache = db.cache /\ cache' = cache /\ db'.committed = db.committed
         /\ phase = "pipeline" /\ UNCHANGED <<phase, log, catalog, attempt>>
         /\ call' = [call EXCEPT ![c] = call'[c]]
         /\ call'[c] \in Unanswered \union {"refused"}
         /\ call'[c] \in Unanswered => c \notin cache
<1>1. DOMAIN db = Tables /\ call \in [Call -> CallPhase]
  BY DEF IInv, Shapes
<1> DEFINE logged(type, n) == AppendEvent(db, type, CallId(c), n)
<1>2. \A type, n : /\ DOMAIN logged(type, n) = Tables /\ logged(type, n).cache = db.cache
                   /\ logged(type, n).committed = db.committed
  BY <1>1, AppendKeeps
<1>3. CASE Refuse(c) \/ LeaveOut(c)
  BY <1>1, <1>3 DEF Refuse, LeaveOut, Running, Move, Others, Unanswered, InFlight
<1>4. CASE Reserve(c)
  <2>1. db' = logged("BUDGET_RESERVED", Estimate)
        \/ db' = ReserveCall(logged("BUDGET_RESERVED", Estimate), CallId(c), Estimate)
    BY <1>4 DEF Reserve
  <2>2. DOMAIN db' = Tables /\ db'.cache = db.cache /\ db'.committed = db.committed
    <3> HIDE DEF logged
    <3> QED BY <1>2, <2>1, ReserveKeeps
  <2> QED
    BY <1>1, <1>4, <2>2 DEF Reserve, Cached, Running, Move, Others, Unanswered, InFlight
<1>5. CASE Send(c)
  <2>1. db' = logged("CALL_STARTED", Estimate)
        \/ db' = SetCallState(logged("CALL_STARTED", Estimate), CallId(c), "SENT")
    BY <1>5 DEF Send
  <2>2. DOMAIN db' = Tables /\ db'.cache = db.cache /\ db'.committed = db.committed
    <3> HIDE DEF logged
    <3> QED BY <1>2, <2>1, StateKeeps
  <2>3. c \notin cache
    BY <1>5 DEF IInv, CachesAgree, Send, Running, Unanswered, InFlight
  <2> QED
    BY <1>1, <1>5, <2>2, <2>3 DEF Send, Running, Move, Others, Unanswered, InFlight
<1>6. CASE Acknowledge(c)
  <2>1. db' = logged("CALL_REQUEST_ID", 0)
        \/ db' = SetCallState(logged("CALL_REQUEST_ID", 0), CallId(c), "ACKNOWLEDGED")
    BY <1>6 DEF Acknowledge
  <2>2. DOMAIN db' = Tables /\ db'.cache = db.cache /\ db'.committed = db.committed
    <3> HIDE DEF logged
    <3> QED BY <1>2, <2>1, StateKeeps
  <2>3. c \notin cache
    BY <1>6 DEF IInv, CachesAgree, Acknowledge, Running, Unanswered, InFlight
  <2> QED
    BY <1>1, <1>6, <2>2, <2>3 DEF Acknowledge, Running, Move, Others, Unanswered, InFlight
<1>7. CASE FailCall(c)
  <2>1. db' = logged("BUDGET_RELEASED", Estimate)
        \/ db' = ReleaseReservation(logged("BUDGET_RELEASED", Estimate), c, CallId(c))
    BY <1>7 DEF FailCall
  <2>2. DOMAIN db' = Tables /\ db'.cache = db.cache /\ db'.committed = db.committed
    <3> HIDE DEF logged
    <3> QED BY <1>2, <2>1, ReleaseKeeps
  <2>3. c \notin cache
    BY <1>7 DEF IInv, CachesAgree, FailCall, Running, Unanswered, InFlight
  <2> QED
    BY <1>1, <1>7, <2>2, <2>3 DEF FailCall, Running, Move, Others, Unanswered, InFlight
<1>8. CASE OrphanCall(c)
  <2>1. db' = logged("CALL_ORPHANED", Estimate)
        \/ db' = SetCallState(logged("CALL_ORPHANED", Estimate), CallId(c), "ORPHANED")
    BY <1>8 DEF OrphanCall
  <2>2. DOMAIN db' = Tables /\ db'.cache = db.cache /\ db'.committed = db.committed
    <3> HIDE DEF logged
    <3> QED BY <1>2, <2>1, StateKeeps
  <2>3. c \notin cache
    BY <1>8 DEF IInv, CachesAgree, OrphanCall, Running, Unanswered, InFlight
  <2> QED
    BY <1>1, <1>8, <2>2, <2>3 DEF OrphanCall, Running, Move, Others, Unanswered, InFlight
<1> QED
  BY <1>3, <1>4, <1>5, <1>6, <1>7, <1>8

LEMMA CompleteStores ==
  ASSUME IInv, NEW c \in Call, NEW actual \in Costs, Complete(c, actual)
  PROVE  /\ DOMAIN db' = Tables /\ db'.cache \subseteq db.cache \union {c}
         /\ db'.committed \in {db.committed, db.committed + actual}
<1> DEFINE logged == AppendEvent(db, "CALL_COMPLETED", CallId(c), actual)
           put == PutCache(logged, c)
<1>1. DOMAIN logged = Tables /\ logged.cache = db.cache /\ logged.committed = db.committed
  BY AppendKeeps DEF IInv, Shapes
<1>2. DOMAIN put = Tables /\ put.cache = logged.cache \union {c} /\ put.committed = logged.committed
  <2> HIDE DEF logged
  <2> QED BY <1>1, PutAdds
<1>3. db' = logged \/ db' = CommitBudget(put, c, actual)
  BY DEF Complete
<1>4. /\ DOMAIN CommitBudget(put, c, actual) = Tables /\ CommitBudget(put, c, actual).cache = put.cache
      /\ CommitBudget(put, c, actual).committed = put.committed + actual
  <2> HIDE DEF put
  <2> QED BY <1>2, CommitKeeps
<1> HIDE DEF logged, put
<1> QED
  BY <1>1, <1>2, <1>3, <1>4

LEMMA InvStep ==
  ASSUME IInv, [Next]_vars
  PROVE  IInv'
<1>1. DOMAIN db = Tables /\ call \in [Call -> CallPhase]
  BY DEF IInv, Shapes
<1>2. ASSUME NEW c \in Call, CacheHit(c) PROVE IInv'
  BY <1>2
     DEF IInv, Shapes, CachesAgree, RecordAgrees, MadeFrom, log, CacheHit, Cached, Running, Move, Others,
         CallPhase, Unanswered, InFlight
<1>3. ASSUME NEW c \in Call,
             Refuse(c) \/ LeaveOut(c) \/ Reserve(c) \/ Send(c) \/ Acknowledge(c) \/ FailCall(c) \/ OrphanCall(c)
      PROVE  IInv'
  <2>1. /\ call' = [call EXCEPT ![c] = call'[c]]
        /\ call'[c] \in Unanswered \union {"refused"}
        /\ call'[c] \in Unanswered => c \notin cache
    BY <1>3, QuietCall
  <2>2. /\ DOMAIN db' = Tables /\ db'.cache = db.cache /\ cache' = cache
        /\ phase = "pipeline" /\ UNCHANGED <<phase, log, catalog, attempt>>
    BY <1>3, QuietCall
  <2> QED
    BY <1>1, <2>1, <2>2
       DEF IInv, Shapes, CachesAgree, RecordAgrees, MadeFrom, log, CallPhase, Unanswered, InFlight
<1>4. ASSUME NEW c \in Call, NEW actual \in Costs, Complete(c, actual) PROVE IInv'
  <2>1. DOMAIN db' = Tables /\ db'.cache \subseteq db.cache \union {c}
    BY <1>4, CompleteStores
  <2> QED
    BY <1>1, <1>4, <2>1
       DEF IInv, Shapes, CachesAgree, RecordAgrees, MadeFrom, log, Complete, CachePut, Running, Move, Others,
           CallPhase, Unanswered, InFlight
<1>5. CASE PipelineReturns
  <2>1. Needed(depth) \subseteq Call
    BY DEF Needed
  <2>2. ASSUME \A c \in Needed(depth) : call[c] # "idle", ~Limited
        PROVE  Needed(depth) \cap cache = Answered
    BY <1>1, <1>5, <2>1, <2>2
       DEF IInv, CachesAgree, PipelineReturns, Answered, Limited, CallPhase, Unanswered, InFlight
  <2>3. /\ Shapes' /\ CachesAgree'
        /\ phase = "pipeline" /\ phase' = "persisting" /\ UNCHANGED <<attempt, cache, terminal>> /\ ~terminal
    BY <1>5 DEF IInv, Shapes, CachesAgree, RecordAgrees, PipelineReturns, mem
  <2>4. CASE UNCHANGED record
    BY <2>3, <2>4 DEF IInv, Shapes, RecordAgrees, MadeFrom
  <2>5. CASE /\ \A c \in Needed(depth) : call[c] # "idle"
             /\ record' = [attempt |-> attempt, depth |-> depth, answers |-> Answered, limited |-> Limited]
    BY <2>2, <2>3, <2>5 DEF IInv, Shapes, RecordAgrees, MadeFrom, Needed
  <2> QED
    BY <1>5, <2>3, <2>4, <2>5 DEF IInv, PipelineReturns
<1>6. ASSUME NEW c \in Call, Persist(c) PROVE IInv'
  <2>1. DOMAIN db' = Tables /\ db'.cache = db.cache \union {c}
    BY <1>1, <1>6, PutAdds DEF Persist
  <2> QED
    BY <1>6, <2>1 DEF IInv, Shapes, CachesAgree, RecordAgrees, MadeFrom, log, Persist, Unpersisted, mem
<1>7. CASE PersistFails
  BY <1>7 DEF IInv, Shapes, CachesAgree, RecordAgrees, MadeFrom, log, PersistFails, Exit, CallPhase
<1>8. CASE Finish
  BY <1>8 DEF IInv, Shapes, CachesAgree, RecordAgrees, MadeFrom, log, Finish, Unpersisted, CacheEntries, Exit, mem, CallPhase
<1>9. CASE UpdateCompletion
  BY <1>9 DEF IInv, Shapes, CachesAgree, RecordAgrees, MadeFrom, log, UpdateCompletion, Completed, Exit, CallPhase
<1>10. ASSUME NEW id \in DOMAIN db.rows, ReleaseRow(id) PROVE IInv'
  <2>1. DOMAIN db' = Tables /\ db'.cache = db.cache
    BY <1>1, <1>10, ReleaseKeeps DEF ReleaseRow
  <2> QED
    BY <1>10, <2>1 DEF IInv, Shapes, CachesAgree, RecordAgrees, MadeFrom, log, ReleaseRow, mem
<1>11. CASE Continue
  BY <1>11
     DEF IInv, Shapes, CachesAgree, RecordAgrees, MadeFrom, log, Continue, Rehydrate, CacheEntries, Released,
         CallPhase, Unanswered, InFlight
<1>12. CASE InsertRunning
  BY <1>12 DEF IInv, Shapes, CachesAgree, RecordAgrees, MadeFrom, log, InsertRunning, Inserted, mem
<1>13. CASE Crash
  BY <1>13 DEF IInv, Shapes, CachesAgree, RecordAgrees, MadeFrom, log, Crash, Exit, CallPhase
<1>14. CASE Resume
  BY <1>14 DEF IInv, Shapes, CachesAgree, RecordAgrees, MadeFrom, log, Resume, mem
<1>15. CASE RefuseResume
  BY <1>15 DEF IInv, Shapes, CachesAgree, RecordAgrees, MadeFrom, log, RefuseResume, Exit, CallPhase
<1>16. CASE Reindex
  BY <1>16 DEF IInv, Shapes, CachesAgree, RecordAgrees, MadeFrom, log, Reindex, Inserted, mem
<1>17. CASE UNCHANGED vars
  BY <1>17 DEF IInv, Shapes, CachesAgree, RecordAgrees, MadeFrom, log, vars, mem
<1> QED
  BY <1>2, <1>3, <1>4, <1>5, <1>6, <1>7, <1>8, <1>9, <1>10, <1>11, <1>12, <1>13, <1>14, <1>17, <1>15, <1>16
     DEF Next, Work, CallStep

LEMMA Invariance == Spec => []IInv
BY InvInit, InvStep, PTL DEF Spec

---------------------------------------------------------------------------
\* What a call does to the types of the money and of the caches.
LEMMA CallTypes ==
  ASSUME RecoveryAssumption, IInv, RecoveryTypeOK, NEW c \in Call, CallStep(c)
  PROVE  RecoveryTypeOK'
<1>1. call' \in [Call -> CallPhase] /\ UNCHANGED <<run, log, catalog, writes, phase, attempt, depth>>
  BY
     DEF CallStep, CacheHit, Refuse, LeaveOut, Reserve, Send, Acknowledge, Complete, FailCall, OrphanCall,
         Move, Others, RecoveryTypeOK, CallPhase, InFlight
<1>2. cap' = cap
  BY DEF CallStep, CacheHit, Refuse, LeaveOut, Reserve, Send, Acknowledge, Complete, FailCall, OrphanCall
<1>3. ASSUME Refuse(c) \/ LeaveOut(c) \/ Reserve(c) \/ Send(c) \/ Acknowledge(c) \/ FailCall(c) \/ OrphanCall(c)
      PROVE  db'.cache = db.cache /\ cache' = cache /\ db'.committed = db.committed /\ spent' = spent
  BY <1>3, QuietCall DEF Refuse, LeaveOut, Reserve, Send, Acknowledge, FailCall, OrphanCall
<1>4. ASSUME NEW actual \in Costs, Complete(c, actual)
      PROVE  /\ db'.cache \subseteq Call /\ cache' \subseteq Call
             /\ db'.committed \in Nat /\ spent' \in Nat
             /\ held' \in Int /\ liability' \in Int
  <2>1. db'.cache \subseteq db.cache \union {c} /\ db'.committed \in {db.committed, db.committed + actual}
    BY <1>4, CompleteStores
  <2>2. actual \in Nat /\ Estimate \in Nat
    BY DEF RecoveryAssumption
  <2>3. cache' = cache \union {c} /\ spent' = spent + actual
        /\ held' = held - Estimate /\ liability' = liability + actual - Estimate
    BY <1>4 DEF Complete, CachePut
  <2> QED
    BY <2>1, <2>2, <2>3 DEF RecoveryTypeOK
<1>5. ASSUME CacheHit(c)
      PROVE  db' = db /\ cache' = cache /\ spent' = spent /\ held' = held /\ liability' = liability
  BY <1>5 DEF CacheHit
<1>6. ASSUME Refuse(c) \/ LeaveOut(c) \/ Reserve(c) \/ Send(c) \/ Acknowledge(c) \/ FailCall(c) \/ OrphanCall(c)
      PROVE  held' \in Int /\ liability' \in Int
  <2>1. held' \in {held, held + Estimate, held - Estimate}
        /\ liability' \in {liability, liability + Estimate, liability - Estimate}
    BY <1>6 DEF Refuse, LeaveOut, Reserve, Send, Acknowledge, FailCall, OrphanCall
  <2> QED
    BY <2>1 DEF RecoveryTypeOK, RecoveryAssumption
<1>7. /\ db'.cache \subseteq Call /\ cache' \subseteq Call
      /\ db'.committed \in Nat /\ spent' \in Nat /\ held' \in Int /\ liability' \in Int
  BY <1>3, <1>4, <1>5, <1>6 DEF CallStep, RecoveryTypeOK
<1> QED
  BY <1>1, <1>2, <1>7 DEF RecoveryTypeOK, CallPhase, log

\* A process that ends leaves the types of nothing in memory.
LEMMA ExitTypes ==
  ASSUME Exit
  PROVE  /\ phase' = "down" /\ call' \in [Call -> CallPhase] /\ cache' = {}
         /\ cap' = 0 /\ spent' = 0 /\ held' = 0 /\ depth' = "standard"
BY DEF Exit, CallPhase

(***************************************************************************)
(* Types over all attempts: money is counted in whole amounts, only calls  *)
(* of the pipeline are ever cached, and a decision is that of an attempt   *)
(* that was made.                                                          *)
(***************************************************************************)
THEOREM RecoveryTypes == ASSUME RecoveryAssumption PROVE Spec => []RecoveryTypeOK
<1>1. Init => RecoveryTypeOK
  <2> SUFFICES ASSUME Init PROVE RecoveryTypeOK
    OBVIOUS
  <2>1. run \in Runs /\ depth \in Depth
    BY DEF Init, RecoveryAssumption
  <2>2. db.cache = {} /\ db.committed = 0 /\ record.attempt = 0
    BY DEF Init, EmptyTables, NoRecord
  <2>3. attempt \in 1..MaxAttempts /\ cap \in Nat /\ record.attempt \in 0..attempt
    <3>1. attempt = 1 /\ MaxAttempts \in Nat \ {0}
      BY DEF Init, RecoveryAssumption
    <3>2. attempt \in 1..MaxAttempts /\ record.attempt \in 0..attempt
      BY <2>2, <3>1
    <3>3. cap \in Nat
      BY DEF Init, RecoveryAssumption
    <3> QED
      BY <3>2, <3>3
  <2>4. call \in [Call -> InFlight \union {"idle", "done", "skipped", "refused"}]
    BY DEF Init
  <2>5. cache = {} /\ spent \in Nat /\ held \in Int /\ liability \in Int /\ db.committed \in Nat
    BY <2>2 DEF Init
  <2>6. terminal \in BOOLEAN /\ catalog = "none" /\ writes \in Writers /\ phase = "pipeline"
    BY DEF Init
  <2> QED
    BY <2>1, <2>2, <2>3, <2>4, <2>5, <2>6 DEF RecoveryTypeOK
<1>2. ASSUME IInv, RecoveryTypeOK, [Next]_vars PROVE RecoveryTypeOK'
  <2>1. ASSUME NEW c \in Call, CallStep(c) PROVE RecoveryTypeOK'
    BY <1>2, <2>1, CallTypes
  <2>2. ASSUME NEW c \in Call, Persist(c) PROVE RecoveryTypeOK'
    <3>1. db'.cache = db.cache \union {c} /\ db'.committed = db.committed
      BY <1>2, <2>2, PutAdds DEF Persist, IInv, Shapes
    <3> QED
      BY <1>2, <2>2, <3>1 DEF RecoveryTypeOK, Persist, log, mem
  <2>3. CASE PipelineReturns
    BY <1>2, <2>3 DEF RecoveryTypeOK, PipelineReturns, mem
  <2>4. CASE PersistFails \/ Crash \/ RefuseResume
    <3>1. Exit /\ UNCHANGED <<db, run, log, catalog, writes, attempt, liability>>
      BY <2>4 DEF PersistFails, Crash, RefuseResume
    <3> QED
      BY <1>2, <3>1, ExitTypes DEF RecoveryTypeOK, log, CallPhase, Depth
  <2>5. CASE Finish
    <3>1. CASE Exit
      BY <1>2, <2>5, <3>1, ExitTypes DEF RecoveryTypeOK, Finish, CallPhase, Depth
    <3>2. CASE terminal' = TRUE /\ phase' = "finished" /\ UNCHANGED mem
      BY <1>2, <2>5, <3>2 DEF RecoveryTypeOK, Finish, mem
    <3> QED
      BY <1>2, <2>5, <3>1, <3>2 DEF Finish, RecoveryTypeOK
  <2>6. CASE UpdateCompletion
    BY <1>2, <2>6, ExitTypes DEF RecoveryTypeOK, UpdateCompletion, Completed, log, CallPhase, Depth
  <2>7. ASSUME NEW id \in DOMAIN db.rows, ReleaseRow(id) PROVE RecoveryTypeOK'
    <3>1. db'.cache = db.cache /\ db'.committed = db.committed
      BY <1>2, <2>7, ReleaseKeeps DEF ReleaseRow, IInv, Shapes
    <3> QED
      BY <1>2, <2>7, <3>1 DEF RecoveryTypeOK, ReleaseRow, log, mem
  <2>8. CASE Continue
    <3>1. cap' \in Nat
      <4>1. PICK budget \in Caps : cap' = IF db.committed < budget THEN budget - db.committed ELSE 0
        BY <2>8 DEF Continue
      <4>2. budget \in Nat /\ db.committed \in Nat
        BY <1>2 DEF RecoveryTypeOK, RecoveryAssumption
      <4> QED
        BY <4>1, <4>2
    <3>2. ReadDepth \in Depth
      BY <1>2 DEF ReadDepth, Depth, RecoveryTypeOK, RecoveryAssumption
    <3> QED
      BY <1>2, <2>8, <3>1, <3>2 DEF RecoveryTypeOK, Continue, Rehydrate, CacheEntries, log
  <2>9. CASE InsertRunning \/ Reindex
    BY <1>2, <2>9 DEF RecoveryTypeOK, InsertRunning, Reindex, Inserted, log, mem
  <2>10. CASE Resume
    BY <1>2, <2>10 DEF RecoveryTypeOK, Resume, RecoveryAssumption, log, mem
  <2>11. CASE UNCHANGED vars
    BY <1>2, <2>11 DEF RecoveryTypeOK, vars, log, mem
  <2> QED
    BY <1>2, <2>1, <2>2, <2>3, <2>4, <2>5, <2>6, <2>7, <2>8, <2>9, <2>10, <2>11 DEF Next, Work
<1> QED
  BY <1>1, <1>2, Invariance, PTL DEF Spec

---------------------------------------------------------------------------
(* A completed run, by whatever crashes it came about, is replayed from    *)
(* the answers its decision was made from.                                 *)
THEOREM ExactReplay == Spec => []ReplayReproduces
<1>1. IInv => ReplayReproduces
  BY DEF IInv, RecordAgrees, MadeFrom, log, ReplayReproduces, Replayed, CacheEntries
<1> QED
  BY <1>1, Invariance, PTL

(* The catalogue never says more than the log. *)
THEOREM CatalogIsHonest == Spec => []CatalogFollowsLog
<1>1. IInv => CatalogFollowsLog
  BY DEF IInv, CachesAgree, CatalogFollowsLog
<1> QED
  BY <1>1, Invariance, PTL

(* A stored answer is not asked for again in any attempt. *)
THEOREM StoredIsFree == Spec => StoredIsNotAskedAgain
<1> DEFINE Asked == \A c \in Call : call[c] = "reserved" /\ call'[c] = "sent" => c \notin db.cache
<1>1. ASSUME IInv, [Next]_vars PROVE [Asked]_vars
  <2>1. ASSUME NEW c \in Call, call[c] = "reserved", call'[c] = "sent" PROVE phase = "pipeline"
    <3>1. call' # call
      BY <2>1
    <3>2. call' # [d \in Call |-> "idle"]
      BY <2>1
    <3> QED
      BY <1>1, <3>1, <3>2
         DEF Next, Work, CallStep, CacheHit, Refuse, Reserve, Send, Acknowledge, Complete, FailCall,
             OrphanCall, Running, PipelineReturns, Persist, PersistFails, Finish, UpdateCompletion,
             ReleaseRow, Continue, Rehydrate, RefuseResume, Reindex, LeaveOut, InsertRunning, Crash,
             Resume, Exit, vars, mem
  <2> QED
    BY <1>1, <2>1 DEF IInv, CachesAgree, Unanswered, InFlight
<1>2. Spec => [][Asked]_vars
  BY <1>1, Invariance, PTL DEF Spec
<1> QED
  BY <1>2 DEF StoredIsNotAskedAgain

---------------------------------------------------------------------------
(* The rows of provider_calls *)

Row == [state : State, amount : {Estimate}]

WithState(rows, ids, s) ==
  [i \in DOMAIN rows |-> IF i \in ids THEN [rows[i] EXCEPT !.state = s] ELSE rows[i]]

Event(type, id, n) == [type |-> type, id |-> id, amount |-> n]

LEMMA AppendOnlyLogs ==
  ASSUME NEW d, DOMAIN d = Tables, NEW type, NEW id, NEW n
  PROVE  /\ AppendEvent(d, type, id, n).rows = d.rows
         /\ AppendEvent(d, type, id, n).reserved = d.reserved
         /\ AppendEvent(d, type, id, n).log = InsertRow(d.log, id, Append(EventsOf(d, id), Event(type, id, n)))
BY DEF AppendEvent, Tables, Event

LEMMA PutOnlyCaches ==
  ASSUME NEW d, DOMAIN d = Tables, NEW key
  PROVE  /\ PutCache(d, key).rows = d.rows /\ PutCache(d, key).reserved = d.reserved
         /\ PutCache(d, key).log = d.log
BY DEF PutCache, Tables

LEMMA ReserveInserts ==
  ASSUME NEW d, DOMAIN d = Tables, NEW id, NEW n
  PROVE  /\ ReserveCall(d, id, n).rows = InsertRow(d.rows, id, [state |-> "RESERVED", amount |-> n])
         /\ ReserveCall(d, id, n).reserved = d.reserved + n
         /\ ReserveCall(d, id, n).log = d.log
BY DEF ReserveCall, Tables

LEMMA StateMoves ==
  ASSUME NEW d, DOMAIN d = Tables, NEW id, NEW s
  PROVE  /\ SetCallState(d, id, s).rows = WithState(d.rows, {id}, s)
         /\ SetCallState(d, id, s).reserved = d.reserved /\ SetCallState(d, id, s).log = d.log
<1>1. SetCallState(d, id, s).rows
        = [i \in DOMAIN d.rows |-> IF i = id THEN [d.rows[i] EXCEPT !.state = s] ELSE d.rows[i]]
  BY DEF SetCallState, Tables
<1>2. SetCallState(d, id, s).reserved = d.reserved /\ SetCallState(d, id, s).log = d.log
  BY DEF SetCallState, Tables
<1>3. \A i : i \in {id} <=> i = id
  OBVIOUS
<1> QED BY <1>1, <1>2, <1>3 DEF WithState

LEMMA CommitCompletes ==
  ASSUME NEW d, DOMAIN d = Tables, NEW r, NEW n
  PROVE  /\ CommitBudget(d, r, n).rows = WithState(d.rows, RowsOf(d, r), "COMPLETED")
         /\ CommitBudget(d, r, n).reserved = d.reserved - d.rows[LatestRow(d, r)].amount
         /\ CommitBudget(d, r, n).log = d.log
BY DEF CommitBudget, Tables, WithState

LEMMA ReleaseFails ==
  ASSUME NEW d, DOMAIN d = Tables, NEW r, NEW id
  PROVE  /\ ReleaseReservation(d, r, id).rows = WithState(d.rows, {id}, "FAILED")
         /\ ReleaseReservation(d, r, id).reserved = d.reserved - d.rows[LatestRow(d, r)].amount
         /\ ReleaseReservation(d, r, id).log = d.log
<1>1. PICK e : e = [d EXCEPT !.reserved = @ - d.rows[LatestRow(d, r)].amount]
  OBVIOUS
<1>2. /\ DOMAIN e = Tables /\ e.rows = d.rows /\ e.log = d.log
      /\ e.reserved = d.reserved - d.rows[LatestRow(d, r)].amount
  BY <1>1 DEF Tables
<1>3. DOMAIN e = Tables
  BY <1>2
<1>4. /\ SetCallState(e, id, "FAILED").rows = WithState(e.rows, {id}, "FAILED")
      /\ SetCallState(e, id, "FAILED").reserved = e.reserved /\ SetCallState(e, id, "FAILED").log = e.log
  BY <1>3, StateMoves, Zenon
<1>5. ReleaseReservation(d, r, id) = SetCallState(e, id, "FAILED")
  BY <1>1 DEF ReleaseReservation
<1> QED
  BY <1>2, <1>4, <1>5

LEMMA SameRowsSameLatest ==
  ASSUME NEW d, NEW e, d.rows = e.rows, NEW r
  PROVE  RowsOf(d, r) = RowsOf(e, r) /\ LatestRow(d, r) = LatestRow(e, r)
<1>1. RowsOf(d, r) = RowsOf(e, r)
  BY DEF RowsOf
<1> QED BY <1>1 DEF LatestRow

\* What WithState makes of rows, row by row.
LEMMA StatesMove ==
  ASSUME NEW rows, \A i \in DOMAIN rows : rows[i] \in Row, NEW ids, NEW s \in State
  PROVE  /\ DOMAIN WithState(rows, ids, s) = DOMAIN rows
         /\ \A i \in DOMAIN rows : /\ WithState(rows, ids, s)[i] \in Row
                                   /\ i \in ids => WithState(rows, ids, s)[i].state = s
                                   /\ i \notin ids => WithState(rows, ids, s)[i] = rows[i]
BY DEF WithState, Row

LEMMA RowInserted ==
  ASSUME NEW rows, NEW id, NEW row
  PROVE  /\ DOMAIN InsertRow(rows, id, row) = DOMAIN rows \union {id}
         /\ InsertRow(rows, id, row)[id] = row
         /\ \A i \in DOMAIN rows : i # id => InsertRow(rows, id, row)[i] = rows[i]
BY DEF InsertRow

\* What a step makes of the log, and of the rows where it writes them.
Logs(c, type, n) ==
  db'.log = InsertRow(db.log, CallId(c), Append(EventsOf(db, CallId(c)), Event(type, CallId(c), n)))

MovesRows(ids, s) ==
  db'.rows = IF writes = "rows" THEN WithState(db.rows, ids, s) ELSE db.rows

Frees(freed) ==
  db'.reserved = IF writes = "rows" THEN db.reserved - freed ELSE db.reserved

LatestAmount(c) == db.rows[LatestRow(db, c)].amount

LEMMA ReserveEffect ==
  ASSUME IInv, NEW c \in Call, Reserve(c)
  PROVE  /\ Logs(c, "BUDGET_RESERVED", Estimate)
         /\ db'.rows = IF writes = "rows"
                       THEN InsertRow(db.rows, CallId(c), [state |-> "RESERVED", amount |-> Estimate])
                       ELSE db.rows
         /\ db'.reserved = IF writes = "rows" THEN db.reserved + Estimate ELSE db.reserved
<1>1. DOMAIN db = Tables
  BY DEF IInv, Shapes
<1>2. PICK id : id = CallId(c)
  OBVIOUS
<1>3. PICK logged : logged = AppendEvent(db, "BUDGET_RESERVED", id, Estimate)
  OBVIOUS
<1>4. /\ DOMAIN logged = Tables /\ logged.rows = db.rows /\ logged.reserved = db.reserved
      /\ logged.log = InsertRow(db.log, id, Append(EventsOf(db, id), Event("BUDGET_RESERVED", id, Estimate)))
  BY <1>1, <1>3, AppendKeeps, AppendOnlyLogs
<1>5. db' = IF writes = "rows" THEN ReserveCall(logged, id, Estimate) ELSE logged
  BY <1>3, <1>2 DEF Reserve
<1>6. DOMAIN logged = Tables
  BY <1>4
<1>7. /\ ReserveCall(logged, id, Estimate).rows = InsertRow(logged.rows, id, [state |-> "RESERVED", amount |-> Estimate])
      /\ ReserveCall(logged, id, Estimate).reserved = logged.reserved + Estimate
      /\ ReserveCall(logged, id, Estimate).log = logged.log
  BY <1>6, ReserveInserts, Zenon
<1>8. Logs(c, "BUDGET_RESERVED", Estimate)
  BY <1>4, <1>5, <1>2, <1>7 DEF Logs
<1>9. CASE writes = "rows"
  <2>1. db' = ReserveCall(logged, id, Estimate)
    BY <1>5, <1>9
  <2> QED
    BY <1>4, <1>2, <1>7, <1>8, <1>9, <2>1
<1>10. CASE writes # "rows"
  BY <1>4, <1>5, <1>8, <1>10
<1> QED
  BY <1>9, <1>10

\* Any step that logs an event and moves the row of its call to state s.
LEMMA MoveEffect ==
  ASSUME IInv, NEW c \in Call, NEW type, NEW n, NEW s,
         db' = LET logged == AppendEvent(db, type, CallId(c), n)
               IN IF writes = "rows" THEN SetCallState(logged, CallId(c), s) ELSE logged
  PROVE  Logs(c, type, n) /\ MovesRows({CallId(c)}, s) /\ db'.reserved = db.reserved
<1>1. DOMAIN db = Tables
  BY DEF IInv, Shapes
<1>2. PICK id : id = CallId(c)
  OBVIOUS
<1>3. PICK logged : logged = AppendEvent(db, type, id, n)
  OBVIOUS
<1>4. /\ DOMAIN logged = Tables /\ logged.rows = db.rows /\ logged.reserved = db.reserved
      /\ logged.log = InsertRow(db.log, id, Append(EventsOf(db, id), Event(type, id, n)))
  BY <1>1, <1>3, AppendKeeps, AppendOnlyLogs
<1>5. db' = IF writes = "rows" THEN SetCallState(logged, id, s) ELSE logged
  BY <1>3, <1>2
<1>6. DOMAIN logged = Tables
  BY <1>4
<1>7. /\ SetCallState(logged, id, s).rows = WithState(logged.rows, {id}, s)
      /\ SetCallState(logged, id, s).reserved = logged.reserved /\ SetCallState(logged, id, s).log = logged.log
  BY <1>6, StateMoves, Zenon
<1> QED
  BY <1>4, <1>5, <1>2, <1>7 DEF Logs, MovesRows

LEMMA SendEffect ==
  ASSUME IInv, NEW c \in Call, Send(c)
  PROVE  Logs(c, "CALL_STARTED", Estimate) /\ MovesRows({CallId(c)}, "SENT") /\ db'.reserved = db.reserved
BY MoveEffect DEF Send

LEMMA AcknowledgeEffect ==
  ASSUME IInv, NEW c \in Call, Acknowledge(c)
  PROVE  Logs(c, "CALL_REQUEST_ID", 0) /\ MovesRows({CallId(c)}, "ACKNOWLEDGED") /\ db'.reserved = db.reserved
BY MoveEffect DEF Acknowledge

LEMMA OrphanEffect ==
  ASSUME IInv, NEW c \in Call, OrphanCall(c)
  PROVE  Logs(c, "CALL_ORPHANED", Estimate) /\ MovesRows({CallId(c)}, "ORPHANED") /\ db'.reserved = db.reserved
BY MoveEffect DEF OrphanCall

LEMMA FailEffect ==
  ASSUME IInv, NEW c \in Call, FailCall(c)
  PROVE  Logs(c, "BUDGET_RELEASED", Estimate) /\ MovesRows({CallId(c)}, "FAILED") /\ Frees(LatestAmount(c))
<1>1. DOMAIN db = Tables
  BY DEF IInv, Shapes
<1>2. PICK id : id = CallId(c)
  OBVIOUS
<1>3. PICK logged : logged = AppendEvent(db, "BUDGET_RELEASED", id, Estimate)
  OBVIOUS
<1>4. /\ DOMAIN logged = Tables /\ logged.rows = db.rows /\ logged.reserved = db.reserved
      /\ logged.log = InsertRow(db.log, id, Append(EventsOf(db, id), Event("BUDGET_RELEASED", id, Estimate)))
  BY <1>1, <1>3, AppendKeeps, AppendOnlyLogs
<1>5. db' = IF writes = "rows" THEN ReleaseReservation(logged, c, id) ELSE logged
  BY <1>3, <1>2 DEF FailCall
<1>6. DOMAIN logged = Tables
  BY <1>4
<1>7. /\ ReleaseReservation(logged, c, id).rows = WithState(logged.rows, {id}, "FAILED")
      /\ ReleaseReservation(logged, c, id).reserved = logged.reserved - logged.rows[LatestRow(logged, c)].amount
      /\ ReleaseReservation(logged, c, id).log = logged.log
  BY <1>6, ReleaseFails, Zenon
<1>8. LatestRow(logged, c) = LatestRow(db, c)
  BY <1>4, SameRowsSameLatest
<1> QED
  BY <1>4, <1>5, <1>2, <1>7, <1>8 DEF Logs, MovesRows, Frees, LatestAmount

LEMMA CompleteEffect ==
  ASSUME IInv, NEW c \in Call, NEW actual \in Costs, Complete(c, actual)
  PROVE  /\ Logs(c, "CALL_COMPLETED", actual) /\ MovesRows(RowsOf(db, c), "COMPLETED") /\ Frees(LatestAmount(c))
         /\ db'.committed = IF writes = "rows" THEN db.committed + actual ELSE db.committed
<1>1. DOMAIN db = Tables
  BY DEF IInv, Shapes
<1>2. PICK id : id = CallId(c)
  OBVIOUS
<1>3. PICK logged : logged = AppendEvent(db, "CALL_COMPLETED", id, actual)
  OBVIOUS
<1>4. /\ DOMAIN logged = Tables /\ logged.rows = db.rows /\ logged.reserved = db.reserved
      /\ logged.log = InsertRow(db.log, id, Append(EventsOf(db, id), Event("CALL_COMPLETED", id, actual)))
      /\ logged.committed = db.committed
  BY <1>1, <1>3, AppendKeeps, AppendOnlyLogs
<1>5. PICK put : put = PutCache(logged, c)
  OBVIOUS
<1>6. /\ DOMAIN put = Tables /\ put.rows = db.rows /\ put.reserved = db.reserved
      /\ put.log = logged.log /\ put.committed = db.committed
  BY <1>4, <1>5, PutAdds, PutOnlyCaches
<1>7. db' = IF writes = "rows" THEN CommitBudget(put, c, actual) ELSE logged
  BY <1>3, <1>2, <1>5 DEF Complete
<1>8. DOMAIN put = Tables
  BY <1>6
<1>9. /\ CommitBudget(put, c, actual).rows = WithState(put.rows, RowsOf(put, c), "COMPLETED")
      /\ CommitBudget(put, c, actual).reserved = put.reserved - put.rows[LatestRow(put, c)].amount
      /\ CommitBudget(put, c, actual).log = put.log
  BY <1>8, CommitCompletes, Zenon
<1>10. CommitBudget(put, c, actual).committed = put.committed + actual
  BY <1>8, CommitKeeps
<1>11. LatestRow(put, c) = LatestRow(db, c) /\ RowsOf(put, c) = RowsOf(db, c)
  BY <1>6, SameRowsSameLatest
<1> QED
  BY <1>4, <1>7, <1>2, <1>9, <1>11, <1>6, <1>10 DEF Logs, MovesRows, Frees, LatestAmount

LEMMA ReleaseEffect ==
  ASSUME IInv, NEW id \in DOMAIN db.rows, ReleaseRow(id)
  PROVE  /\ db'.rows = WithState(db.rows, {id}, "FAILED") /\ db'.log = db.log
         /\ db'.reserved = db.reserved - LatestAmount(ReservationOf(id))
         /\ db'.committed = db.committed
<1>1. DOMAIN db = Tables
  BY DEF IInv, Shapes
<1>2. PICK d : d = db
  OBVIOUS
<1>3. PICK r : r = ReservationOf(id)
  OBVIOUS
<1>4. DOMAIN d = Tables
  BY <1>1, <1>2
<1>5. /\ ReleaseReservation(d, r, id).rows = WithState(d.rows, {id}, "FAILED")
      /\ ReleaseReservation(d, r, id).reserved = d.reserved - d.rows[LatestRow(d, r)].amount
      /\ ReleaseReservation(d, r, id).log = d.log
  BY <1>4, ReleaseFails, Zenon
<1>6. ReleaseReservation(d, r, id).committed = d.committed
  BY <1>1, <1>2, ReleaseKeeps
<1>7. db' = ReleaseReservation(d, r, id)
  BY <1>2, <1>3 DEF ReleaseRow
<1> QED
  BY <1>2, <1>3, <1>5, <1>6, <1>7 DEF LatestAmount

LEMMA PersistEffect ==
  ASSUME IInv, NEW c \in Call, Persist(c)
  PROVE  db'.rows = db.rows /\ db'.reserved = db.reserved /\ db'.log = db.log /\ db'.committed = db.committed
BY PutAdds, PutOnlyCaches DEF IInv, Shapes, Persist

---------------------------------------------------------------------------
(* The rows follow the calls of the process that runs. *)

OwnRow(c) == <<c, attempt>>

RowState == [reserved |-> "RESERVED", sent |-> "SENT", acknowledged |-> "ACKNOWLEDGED"]

\* The row of this attempt is that of what the process does about the call.
OwnRowsFollow ==
  phase = "pipeline" /\ writes = "rows" => \A c \in Call :
    /\ call[c] = "idle" => OwnRow(c) \notin DOMAIN db.rows
    /\ call[c] \in InFlight => OwnRow(c) \in DOMAIN db.rows /\ db.rows[OwnRow(c)].state = RowState[call[c]]

RowsInv ==
  /\ DOMAIN db.rows \subseteq Call \X (1..attempt)
  /\ \A id \in DOMAIN db.rows : db.rows[id] \in Row
  /\ writes # "rows" => DOMAIN db.rows = {}
  /\ phase = "releasing" => \A id \in DOMAIN db.rows : id[2] < attempt
  /\ OwnRowsFollow

LEMMA RowsStill ==
  ASSUME RowsInv, db'.rows = db.rows, writes' = writes, attempt' = attempt,
         phase' = "pipeline" => phase = "pipeline" /\ call' = call,
         phase' = "releasing" => phase = "releasing"
  PROVE  RowsInv'
BY DEF RowsInv, OwnRowsFollow, OwnRow

LEMMA RowsMove ==
  ASSUME RowsInv, call \in [Call -> CallPhase], attempt \in Nat, phase = "pipeline",
         writes' = writes, attempt' = attempt, phase' = phase,
         NEW c \in Call, NEW t, t # "idle", call' = [call EXCEPT ![c] = t],
         NEW ids, \A d \in Call : d # c => OwnRow(d) \notin ids,
         NEW s \in State, MovesRows(ids, s),
         t \in InFlight => /\ OwnRow(c) \in ids /\ s = RowState[t]
                           /\ writes = "rows" => OwnRow(c) \in DOMAIN db.rows
  PROVE  RowsInv'
<1>1. CASE writes # "rows"
  BY <1>1 DEF RowsInv, OwnRowsFollow, MovesRows
<1>2. CASE writes = "rows"
  <2>1. PICK rows : rows = db.rows
    OBVIOUS
  <2>2. \A i \in DOMAIN rows : rows[i] \in Row
    BY <2>1 DEF RowsInv
  <2>3. db'.rows = WithState(rows, ids, s)
    BY <1>2, <2>1 DEF MovesRows
  <2>4. PICK moved : moved = WithState(rows, ids, s)
    OBVIOUS
  <2>5. /\ DOMAIN moved = DOMAIN rows
        /\ \A i \in DOMAIN rows : /\ moved[i] \in Row
                                  /\ i \in ids => moved[i].state = s
                                  /\ i \notin ids => moved[i] = rows[i]
    BY <2>2, <2>4, StatesMove
  <2>6. DOMAIN moved \subseteq Call \X (1..attempt) /\ \A i \in DOMAIN moved : moved[i] \in Row
    BY <2>1, <2>5 DEF RowsInv
  <2>7. ASSUME NEW d \in Call
        PROVE  /\ call'[d] = "idle" => OwnRow(d) \notin DOMAIN moved
               /\ call'[d] \in InFlight => OwnRow(d) \in DOMAIN moved /\ moved[OwnRow(d)].state = RowState[call'[d]]
    <3>1. CASE d = c
      <4>1. call'[d] = t
        BY <3>1
      <4> QED BY <1>2, <2>1, <2>5, <3>1, <4>1
    <3>2. CASE d # c
      <4>1. call'[d] = call[d]
        BY <3>2
      <4>2. OwnRow(d) \notin ids
        BY <3>2
      <4>3. /\ call[d] = "idle" => OwnRow(d) \notin DOMAIN rows
            /\ call[d] \in InFlight => OwnRow(d) \in DOMAIN rows /\ rows[OwnRow(d)].state = RowState[call[d]]
        BY <1>2, <2>1 DEF RowsInv, OwnRowsFollow
      <4> QED BY <2>5, <4>1, <4>2, <4>3
    <3> QED BY <3>1, <3>2
  <2>8. db'.rows = moved
    BY <2>3, <2>4
  <2>9. OwnRowsFollow'
    BY <2>7, <2>8 DEF OwnRowsFollow, OwnRow
  <2> QED
    BY <1>2, <2>6, <2>8, <2>9 DEF RowsInv
<1> QED BY <1>1, <1>2

LEMMA RowsReserve ==
  ASSUME RecoveryAssumption, IInv, RecoveryTypeOK, RowsInv, NEW c \in Call, Reserve(c)
  PROVE  RowsInv'
<1>1. /\ attempt \in Nat /\ attempt > 0 /\ call \in [Call -> CallPhase]
      /\ call' = [call EXCEPT ![c] = "reserved"] /\ phase = "pipeline" /\ phase' = phase
      /\ writes' = writes /\ attempt' = attempt /\ call[c] = "idle"
  BY DEF Reserve, Running, Move, Others, RecoveryTypeOK, IInv, Shapes
<1>2. CASE writes # "rows"
  <2>1. db'.rows = db.rows
    BY <1>2, ReserveEffect
  <2> QED BY <1>1, <1>2, <2>1 DEF RowsInv, OwnRowsFollow
<1>3. CASE writes = "rows"
  <2>1. PICK row : row = [state |-> "RESERVED", amount |-> Estimate]
    OBVIOUS
  <2>2. db'.rows = InsertRow(db.rows, CallId(c), row)
    BY <1>3, <2>1, ReserveEffect
  <2>3. CallId(c) = OwnRow(c)
    BY <1>3 DEF CallId, OwnRow
  <2>4. /\ DOMAIN db'.rows = DOMAIN db.rows \union {OwnRow(c)}
        /\ db'.rows[OwnRow(c)] = row
        /\ \A i \in DOMAIN db.rows : i # OwnRow(c) => db'.rows[i] = db.rows[i]
    <3>1. PICK rows : rows = db.rows
      OBVIOUS
    <3>2. PICK own : own = OwnRow(c)
      OBVIOUS
    <3>3. PICK inserted : inserted = InsertRow(rows, own, row)
      OBVIOUS
    <3>4. /\ DOMAIN inserted = DOMAIN rows \union {own} /\ inserted[own] = row
          /\ \A i \in DOMAIN rows : i # own => inserted[i] = rows[i]
      BY <3>3 DEF InsertRow
    <3>5. db'.rows = inserted
      BY <2>2, <2>3, <3>1, <3>2, <3>3
    <3> QED BY <3>1, <3>2, <3>4, <3>5
  <2>5. OwnRow(c) \in Call \X (1..attempt) /\ row \in Row /\ row.state = "RESERVED"
    BY <1>1, <2>1 DEF OwnRow, Row, State
  <2>6. DOMAIN db'.rows \subseteq Call \X (1..attempt) /\ \A i \in DOMAIN db'.rows : db'.rows[i] \in Row
    BY <2>4, <2>5 DEF RowsInv
  <2>7. ASSUME NEW d \in Call
        PROVE  /\ call'[d] = "idle" => OwnRow(d) \notin DOMAIN db'.rows
               /\ call'[d] \in InFlight => OwnRow(d) \in DOMAIN db'.rows /\ db'.rows[OwnRow(d)].state = RowState[call'[d]]
    <3>1. CASE d = c
      <4>1. call'[d] = "reserved" /\ RowState[call'[d]] = "RESERVED"
        BY <1>1, <3>1 DEF RowState
      <4> QED BY <2>4, <2>5, <3>1, <4>1
    <3>2. CASE d # c
      <4>1. call'[d] = call[d]
        BY <1>1, <3>2
      <4>2. OwnRow(d) # OwnRow(c)
        BY <3>2 DEF OwnRow
      <4>3. /\ call[d] = "idle" => OwnRow(d) \notin DOMAIN db.rows
            /\ call[d] \in InFlight => OwnRow(d) \in DOMAIN db.rows /\ db.rows[OwnRow(d)].state = RowState[call[d]]
        BY <1>1, <1>3 DEF RowsInv, OwnRowsFollow
      <4> QED BY <2>4, <4>1, <4>2, <4>3
    <3> QED BY <3>1, <3>2
  <2>8. OwnRowsFollow'
    BY <1>1, <2>7 DEF OwnRowsFollow, OwnRow
  <2> QED
    BY <1>1, <1>3, <2>6, <2>8 DEF RowsInv
<1> QED BY <1>2, <1>3

\* Where a call stands when the process goes on with it.
LEMMA RowsCall ==
  ASSUME RecoveryAssumption, IInv, RecoveryTypeOK, RowsInv, NEW c \in Call, CallStep(c)
  PROVE  RowsInv'
<1>1. attempt \in Nat /\ call \in [Call -> CallPhase]
  BY DEF RecoveryTypeOK, IInv, Shapes
<1>2. phase = "pipeline" /\ phase' = phase /\ writes' = writes /\ attempt' = attempt
  BY DEF CallStep, CacheHit, Refuse, LeaveOut, Reserve, Send, Acknowledge, Complete, FailCall, OrphanCall,
         Running, Others
<1>3. \A d \in Call : d # c => OwnRow(d) \notin {CallId(c)}
  BY DEF OwnRow, CallId
<1>4. \A d \in Call : d # c => OwnRow(d) \notin RowsOf(db, c)
  BY DEF OwnRow, RowsOf, ReservationOf
<1>5. writes = "rows" => /\ CallId(c) = OwnRow(c)
                         /\ call[c] \in InFlight => OwnRow(c) \in DOMAIN db.rows
  BY <1>2 DEF CallId, OwnRow, RowsInv, OwnRowsFollow
<1>6. CASE CacheHit(c) \/ Refuse(c) \/ LeaveOut(c)
  <2>1. PICK t \in {"done", "refused"} : call' = [call EXCEPT ![c] = t]
    BY <1>6 DEF CacheHit, Refuse, LeaveOut, Move
  <2>2. db'.rows = db.rows
    BY <1>6 DEF CacheHit, Refuse, LeaveOut
  <2>3. \A d \in Call : call'[d] = call[d] \/ call'[d] \in {"done", "refused"}
    BY <1>1, <2>1
  <2>4. OwnRowsFollow'
    BY <1>2, <2>2, <2>3 DEF RowsInv, OwnRowsFollow, OwnRow, InFlight
  <2> QED BY <1>2, <2>2, <2>4 DEF RowsInv
<1>7. CASE Reserve(c)
  BY <1>7, RowsReserve
<1>8. CASE Send(c)
  <2>1. call' = [call EXCEPT ![c] = "sent"] /\ call[c] = "reserved"
    BY <1>8 DEF Send, Move, Running
  <2>2. MovesRows({CallId(c)}, "SENT") /\ "SENT" \in State /\ RowState["sent"] = "SENT"
    BY <1>8, SendEffect DEF State, RowState
  <2>3. CASE writes = "rows"
    BY <1>1, <1>2, <1>3, <1>5, <2>1, <2>2, <2>3, RowsMove DEF InFlight
  <2>4. CASE writes # "rows"
    BY <1>2, <2>2, <2>4 DEF RowsInv, OwnRowsFollow, MovesRows
  <2> QED BY <2>3, <2>4
<1>9. CASE Acknowledge(c)
  <2>1. call' = [call EXCEPT ![c] = "acknowledged"] /\ call[c] = "sent"
    BY <1>9 DEF Acknowledge, Move, Running
  <2>2. MovesRows({CallId(c)}, "ACKNOWLEDGED") /\ "ACKNOWLEDGED" \in State
        /\ RowState["acknowledged"] = "ACKNOWLEDGED"
    BY <1>9, AcknowledgeEffect DEF State, RowState
  <2>3. CASE writes = "rows"
    BY <1>1, <1>2, <1>3, <1>5, <2>1, <2>2, <2>3, RowsMove DEF InFlight
  <2>4. CASE writes # "rows"
    BY <1>2, <2>2, <2>4 DEF RowsInv, OwnRowsFollow, MovesRows
  <2> QED BY <2>3, <2>4
<1>10. CASE FailCall(c)
  <2>1. call' = [call EXCEPT ![c] = "skipped"]
    BY <1>10 DEF FailCall, Move
  <2>2. MovesRows({CallId(c)}, "FAILED") /\ "FAILED" \in State
    BY <1>10, FailEffect DEF State
  <2>3. "skipped" \notin InFlight /\ "skipped" # "idle"
    BY DEF InFlight
  <2> QED
    BY <1>1, <1>2, <1>3, <2>1, <2>2, <2>3, RowsMove
<1>11. CASE OrphanCall(c)
  <2>1. call' = [call EXCEPT ![c] = "skipped"]
    BY <1>11 DEF OrphanCall, Move
  <2>2. MovesRows({CallId(c)}, "ORPHANED") /\ "ORPHANED" \in State
    BY <1>11, OrphanEffect DEF State
  <2>3. "skipped" \notin InFlight /\ "skipped" # "idle"
    BY DEF InFlight
  <2> QED
    BY <1>1, <1>2, <1>3, <2>1, <2>2, <2>3, RowsMove
<1>12. ASSUME NEW actual \in Costs, Complete(c, actual) PROVE RowsInv'
  <2>1. call' = [call EXCEPT ![c] = "done"]
    BY <1>12 DEF Complete, Move
  <2>2. MovesRows(RowsOf(db, c), "COMPLETED") /\ "COMPLETED" \in State
    BY <1>12, CompleteEffect DEF State
  <2>3. "done" \notin InFlight /\ "done" # "idle"
    BY DEF InFlight
  <2> QED
    BY <1>1, <1>2, <1>4, <2>1, <2>2, <2>3, RowsMove
<1> QED
  BY <1>6, <1>7, <1>8, <1>9, <1>10, <1>11, <1>12 DEF CallStep

LEMMA RowsStep ==
  ASSUME RecoveryAssumption, IInv, RecoveryTypeOK, RowsInv, [Next]_vars
  PROVE  RowsInv'
<1>1. attempt \in Nat
  BY DEF RecoveryTypeOK
<1>2. ASSUME NEW c \in Call, CallStep(c) PROVE RowsInv'
  BY <1>2, RowsCall
<1>3. ASSUME NEW c \in Call, Persist(c) PROVE RowsInv'
  <2>1. db'.rows = db.rows
    BY <1>3, PersistEffect
  <2> QED BY <1>3, <2>1, RowsStill DEF Persist
<1>4. CASE PipelineReturns \/ Finish
  BY <1>4, RowsStill DEF PipelineReturns, Finish, Exit
<1>5. CASE PersistFails \/ UpdateCompletion \/ Crash \/ RefuseResume
  BY <1>5, RowsStill DEF PersistFails, UpdateCompletion, Crash, RefuseResume, Exit
<1>6. CASE InsertRunning \/ Reindex \/ UNCHANGED vars
  BY <1>6, RowsStill DEF InsertRunning, Reindex, vars, mem
<1>7. CASE Resume
  <2>1. /\ db' = db /\ writes' = writes /\ attempt' = attempt + 1 /\ phase' = "releasing"
    BY <1>7 DEF Resume
  <2>2. \A id \in DOMAIN db.rows : id \in Call \X (1..(attempt + 1)) /\ id[2] < attempt + 1
    BY <1>1 DEF RowsInv
  <2> QED BY <2>1, <2>2 DEF RowsInv, OwnRowsFollow
<1>8. ASSUME NEW id \in DOMAIN db.rows, ReleaseRow(id) PROVE RowsInv'
  <2>1. PICK rows : rows = db.rows
    OBVIOUS
  <2>2. /\ db'.rows = WithState(rows, {id}, "FAILED") /\ \A i \in DOMAIN rows : rows[i] \in Row
        /\ "FAILED" \in State
    BY <1>8, <2>1, ReleaseEffect DEF RowsInv, State
  <2>3. /\ DOMAIN WithState(rows, {id}, "FAILED") = DOMAIN rows
        /\ \A i \in DOMAIN rows : WithState(rows, {id}, "FAILED")[i] \in Row
    BY <2>2, StatesMove
  <2>4. phase = "releasing" /\ phase' = phase /\ attempt' = attempt /\ writes' = writes
    BY <1>8 DEF ReleaseRow
  <2> QED BY <2>1, <2>2, <2>3, <2>4 DEF RowsInv, OwnRowsFollow
<1>9. CASE Continue
  <2>1. db' = db /\ writes' = writes /\ attempt' = attempt /\ phase = "releasing" /\ phase' = "pipeline"
        /\ call' = [c \in Call |-> "idle"]
    BY <1>9 DEF Continue, Rehydrate, Released
  <2>2. \A c \in Call : OwnRow(c) \notin DOMAIN db.rows
    BY <1>1, <2>1 DEF RowsInv, OwnRow
  <2>3. OwnRowsFollow'
    BY <2>1, <2>2 DEF OwnRowsFollow, OwnRow, InFlight
  <2> QED BY <2>1, <2>3 DEF RowsInv
<1> QED
  BY <1>2, <1>3, <1>4, <1>5, <1>6, <1>7, <1>8, <1>9 DEF Next, Work

LEMMA RowsInit == RecoveryAssumption /\ Init => RowsInv
BY DEF Init, RowsInv, OwnRowsFollow, EmptyTables, OwnRow, InFlight

---------------------------------------------------------------------------
(* Sums over rows *)

Plus(x, y) == y + x

Adding == INSTANCE FoldLemmas WITH Op <- Plus

LEMMA AmountsCount ==
  ASSUME Estimate \in Int, NEW d, NEW ids, IsFiniteSet(ids), \A id \in ids : id \in DOMAIN d.rows /\ d.rows[id] \in Row
  PROVE  Amounts(d, ids) = Estimate * Cardinality(ids)
<1>1. PICK f : f = [id \in DOMAIN d.rows |-> d.rows[id].amount]
  OBVIOUS
<1>2. \A id \in ids : f[id] = Estimate
  BY <1>1 DEF Row
<1>3. Adding!Adds
  BY DEF Adding!Adds, Plus
<1>4. SumFunctionOnSet(f, ids) = Adding!Total(f, ids)
  BY DEF SumFunctionOnSet, FoldFunctionOnSet, MapThenFoldSet, Adding!Total, Adding!SetFold,
         Adding!Step, Adding!FoldFunctionOnSet, Adding!MapThenFoldSet, Plus
<1>5. Adding!IsFiniteSet(ids)
  BY DEF IsFiniteSet, Adding!IsFiniteSet
<1>6. Adding!Total(f, ids) = Estimate * Adding!Cardinality(ids)
  BY <1>2, <1>3, <1>5, Adding!TotalConstant
<1>7. Adding!Cardinality(ids) = Cardinality(ids)
  BY DEF Cardinality, Adding!Cardinality, IsFiniteSet, Adding!IsFiniteSet
<1> QED
  BY <1>1, <1>4, <1>6, <1>7 DEF Amounts

LEMMA RowsFinite ==
  ASSUME RecoveryAssumption, RecoveryTypeOK, RowsInv
  PROVE  IsFiniteSet(DOMAIN db.rows) /\ \A ids \in SUBSET (DOMAIN db.rows) : IsFiniteSet(ids) /\ Cardinality(ids) \in Nat
<1>1. IsFiniteSet(1..attempt) /\ IsFiniteSet(Call)
  BY FS_Interval DEF RecoveryTypeOK, RecoveryAssumption
<1>2. IsFiniteSet(Call \X (1..attempt))
  BY <1>1, FS_Product
<1>3. DOMAIN db.rows \in SUBSET (Call \X (1..attempt))
  BY DEF RowsInv
<1>4. IsFiniteSet(DOMAIN db.rows)
  BY <1>2, <1>3, FS_Subset
<1> QED BY <1>4, FS_Subset, FS_CardinalityType

---------------------------------------------------------------------------
(* What doctor checks of the rows *)

Reused == \E c \in Call : \E id, other \in RowsOf(db, c) : id # other

Holding(rows) == {id \in DOMAIN rows : rows[id].state \in NonTerminalState}

DriftInv ==
  /\ writes = "rows" => Reused \/ db.reserved = Estimate * Cardinality(HeldRows(db))
  /\ writes # "rows" => db.reserved = 0

LEMMA OnlyRow ==
  ASSUME RowsInv, ~Reused, NEW id \in DOMAIN db.rows
  PROVE  RowsOf(db, id[1]) = {id} /\ LatestAmount(id[1]) = Estimate
<1>1. id[1] \in Call /\ id[2] \in Int
  BY DEF RowsInv
<1>2. RowsOf(db, id[1]) = {id}
  BY <1>1 DEF Reused, RowsOf, ReservationOf
<1>3. LatestRow(db, id[1]) = id
  BY <1>1, <1>2 DEF LatestRow
<1>4. db.rows[id].amount = Estimate
  BY DEF RowsInv, Row
<1> QED BY <1>2, <1>3, <1>4 DEF LatestAmount

LEMMA HeldMove ==
  ASSUME NEW rows, \A i \in DOMAIN rows : rows[i] \in Row, NEW ids, NEW s \in State
  PROVE  Holding(WithState(rows, ids, s))
           = IF s \in NonTerminalState THEN Holding(rows) \union (ids \cap DOMAIN rows) ELSE Holding(rows) \ ids
<1>1. PICK moved : moved = WithState(rows, ids, s)
  OBVIOUS
<1>2. /\ DOMAIN moved = DOMAIN rows
      /\ \A i \in DOMAIN rows : /\ i \in ids => moved[i].state = s
                                /\ i \notin ids => moved[i] = rows[i]
  BY <1>1, StatesMove
<1>3. Holding(moved) = IF s \in NonTerminalState THEN Holding(rows) \union (ids \cap DOMAIN rows) ELSE Holding(rows) \ ids
  BY <1>2 DEF Holding
<1> QED BY <1>1, <1>3

\* What is held of the rows when some of them move.
LEMMA HeldFollows ==
  ASSUME RowsInv, writes = "rows", NEW ids, NEW s \in State, MovesRows(ids, s)
  PROVE  /\ DOMAIN db'.rows = DOMAIN db.rows
         /\ HeldRows(db)' = IF s \in NonTerminalState THEN HeldRows(db) \union (ids \cap DOMAIN db.rows)
                            ELSE HeldRows(db) \ ids
<1>1. PICK rows : rows = db.rows
  OBVIOUS
<1>2. \A i \in DOMAIN rows : rows[i] \in Row
  BY <1>1 DEF RowsInv
<1>3. db'.rows = WithState(rows, ids, s)
  BY <1>1 DEF MovesRows
<1>4. DOMAIN WithState(rows, ids, s) = DOMAIN rows
  BY <1>2, StatesMove
<1>5. Holding(WithState(rows, ids, s))
        = IF s \in NonTerminalState THEN Holding(rows) \union (ids \cap DOMAIN rows) ELSE Holding(rows) \ ids
  BY <1>2, HeldMove
<1>6. HeldRows(db) = Holding(rows) /\ HeldRows(db)' = Holding(WithState(rows, ids, s))
  BY <1>1, <1>3 DEF HeldRows, Holding
<1> QED BY <1>1, <1>3, <1>4, <1>5, <1>6

LEMMA StillReused ==
  ASSUME Reused, DOMAIN db.rows \subseteq DOMAIN db'.rows
  PROVE  Reused'
BY DEF Reused, RowsOf

\* Rows that move among those that hold money leave the sum as it is.
LEMMA DriftMove ==
  ASSUME RowsInv, DriftInv, writes' = writes, NEW id, writes = "rows" => id \in HeldRows(db),
         NEW s \in NonTerminalState, MovesRows({id}, s), db'.reserved = db.reserved
  PROVE  DriftInv'
<1>1. CASE writes = "rows"
  <2>1. s \in State
    BY DEF NonTerminalState, State
  <2>2. /\ DOMAIN db'.rows = DOMAIN db.rows
        /\ HeldRows(db)' = HeldRows(db) \union ({id} \cap DOMAIN db.rows)
    BY <1>1, <2>1, HeldFollows
  <2>3. HeldRows(db)' = HeldRows(db)
    BY <1>1, <2>2
  <2> QED BY <1>1, <2>2, <2>3, StillReused DEF DriftInv
<1>2. CASE writes # "rows"
  BY <1>2 DEF DriftInv
<1> QED BY <1>1, <1>2

\* One row that held money holds none any more, and its amount is taken off.
LEMMA DriftFree ==
  ASSUME RecoveryAssumption, RecoveryTypeOK, RowsInv, DriftInv, writes' = writes, writes = "rows",
         NEW c \in Call, NEW id \in HeldRows(db), id[1] = c,
         NEW ids, id \in ids, ids \subseteq RowsOf(db, c),
         NEW s \in State \ NonTerminalState, MovesRows(ids, s), Frees(LatestAmount(c))
  PROVE  DriftInv'
<1>1. /\ DOMAIN db'.rows = DOMAIN db.rows
      /\ HeldRows(db)' = HeldRows(db) \ ids
  BY HeldFollows
<1>2. CASE Reused
  BY <1>1, <1>2, StillReused DEF DriftInv
<1>3. CASE ~Reused
  <2>1. id \in DOMAIN db.rows /\ HeldRows(db) \in SUBSET (DOMAIN db.rows)
    BY DEF HeldRows
  <2>2. RowsOf(db, c) = {id} /\ LatestAmount(c) = Estimate
    BY <1>3, <2>1, OnlyRow
  <2>3. HeldRows(db)' = HeldRows(db) \ {id}
    BY <1>1, <2>2
  <2>4. IsFiniteSet(HeldRows(db)) /\ Cardinality(HeldRows(db)) \in Nat
    BY <2>1, RowsFinite
  <2>5. PICK held0 : held0 = HeldRows(db)
    OBVIOUS
  <2>6. Cardinality(held0 \ {id}) = Cardinality(held0) - 1
    BY <2>4, <2>5, FS_RemoveElement
  <2>7. db.reserved = Estimate * Cardinality(held0) /\ db'.reserved = db.reserved - Estimate
    BY <1>3, <2>2, <2>5 DEF DriftInv, Frees
  <2>8. Estimate * (Cardinality(held0) - 1) = Estimate * Cardinality(held0) - Estimate
    BY <2>4, <2>5 DEF RecoveryAssumption
  <2>9. db'.reserved = Estimate * Cardinality(HeldRows(db)')
    BY <2>3, <2>5, <2>6, <2>7, <2>8
  <2> QED BY <2>9 DEF DriftInv
<1> QED BY <1>2, <1>3

LEMMA DriftReserve ==
  ASSUME RecoveryAssumption, IInv, RecoveryTypeOK, RowsInv, DriftInv, NEW c \in Call, Reserve(c)
  PROVE  DriftInv'
<1>1. writes' = writes /\ phase = "pipeline" /\ call[c] = "idle"
  BY DEF Reserve, Others, Running
<1>2. CASE writes # "rows"
  BY <1>1, <1>2, ReserveEffect DEF DriftInv
<1>3. CASE writes = "rows"
  <2>1. PICK row : row = [state |-> "RESERVED", amount |-> Estimate]
    OBVIOUS
  <2>2. db'.rows = InsertRow(db.rows, CallId(c), row) /\ db'.reserved = db.reserved + Estimate
    BY <1>3, <2>1, ReserveEffect
  <2>3. PICK own : own = OwnRow(c)
    OBVIOUS
  <2>4. CallId(c) = own /\ own \notin DOMAIN db.rows
    BY <1>1, <1>3, <2>3 DEF CallId, OwnRow, RowsInv, OwnRowsFollow
  <2>5. DOMAIN db'.rows = DOMAIN db.rows \union {own} /\ HeldRows(db)' = HeldRows(db) \union {own}
    BY <2>1, <2>2, <2>4 DEF InsertRow, HeldRows, NonTerminalState
  <2>6. CASE Reused
    BY <2>5, <2>6, StillReused, <1>1, <1>3 DEF DriftInv
  <2>7. CASE ~Reused
    <3>1. HeldRows(db) \in SUBSET (DOMAIN db.rows)
      BY DEF HeldRows
    <3>2. IsFiniteSet(HeldRows(db)) /\ Cardinality(HeldRows(db)) \in Nat
      BY <3>1, RowsFinite
    <3>3. PICK held0 : held0 = HeldRows(db)
      OBVIOUS
    <3>4. Cardinality(held0 \union {own}) = Cardinality(held0) + 1
      BY <2>4, <3>1, <3>2, <3>3, FS_AddElement
    <3>5. db.reserved = Estimate * Cardinality(held0)
      BY <1>3, <2>7, <3>3 DEF DriftInv
    <3>6. Estimate * (Cardinality(held0) + 1) = Estimate * Cardinality(held0) + Estimate
      BY <3>2, <3>3 DEF RecoveryAssumption
    <3>7. db'.reserved = Estimate * Cardinality(HeldRows(db)')
      BY <2>2, <2>5, <3>3, <3>4, <3>5, <3>6
    <3> QED BY <3>7, <1>1, <1>3 DEF DriftInv
  <2> QED BY <2>6, <2>7
<1> QED BY <1>2, <1>3

\* The row of a call that is in flight holds money.
LEMMA OwnRowHolds ==
  ASSUME RowsInv, phase = "pipeline", writes = "rows", NEW c \in Call, call[c] \in InFlight
  PROVE  CallId(c) = OwnRow(c) /\ OwnRow(c) \in HeldRows(db) /\ OwnRow(c) \in RowsOf(db, c)
<1>1. OwnRow(c) \in DOMAIN db.rows /\ db.rows[OwnRow(c)].state = RowState[call[c]]
  BY DEF RowsInv, OwnRowsFollow
<1>2. RowState[call[c]] \in NonTerminalState
  BY DEF RowState, InFlight, NonTerminalState
<1>3. OwnRow(c)[1] = c /\ CallId(c) = OwnRow(c)
  BY DEF OwnRow, CallId
<1> QED BY <1>1, <1>2, <1>3 DEF HeldRows, RowsOf, ReservationOf

LEMMA DriftCall ==
  ASSUME RecoveryAssumption, IInv, RecoveryTypeOK, RowsInv, DriftInv, NEW c \in Call, CallStep(c)
  PROVE  DriftInv'
<1>1. phase = "pipeline" /\ writes' = writes
  BY DEF CallStep, CacheHit, Refuse, LeaveOut, Reserve, Send, Acknowledge, Complete, FailCall, OrphanCall,
         Running, Others
<1>2. CASE CacheHit(c) \/ Refuse(c) \/ LeaveOut(c)
  <2>1. db' = db
    BY <1>2 DEF CacheHit, Refuse, LeaveOut
  <2> QED BY <1>1, <2>1 DEF DriftInv, Reused, RowsOf, HeldRows
<1>3. CASE Reserve(c)
  BY <1>3, DriftReserve
<1>4. ASSUME NEW s \in {"SENT", "ACKNOWLEDGED", "ORPHANED"}, call[c] \in InFlight,
             MovesRows({CallId(c)}, s), db'.reserved = db.reserved
      PROVE  DriftInv'
  <2>1. s \in NonTerminalState
    BY DEF NonTerminalState
  <2>2. writes = "rows" => CallId(c) \in HeldRows(db)
    BY <1>1, <1>4, OwnRowHolds
  <2> QED BY <1>1, <1>4, <2>1, <2>2, DriftMove
<1>5. CASE Send(c)
  BY <1>4, <1>5, SendEffect DEF Send, Running, InFlight
<1>6. CASE Acknowledge(c)
  BY <1>4, <1>6, AcknowledgeEffect DEF Acknowledge, Running, InFlight
<1>7. CASE OrphanCall(c)
  BY <1>4, <1>7, OrphanEffect DEF OrphanCall, Running, InFlight
<1>8. ASSUME writes # "rows", db'.reserved = db.reserved PROVE DriftInv'
  BY <1>1, <1>8 DEF DriftInv
<1>9. CASE FailCall(c)
  <2>1. MovesRows({CallId(c)}, "FAILED") /\ Frees(LatestAmount(c)) /\ call[c] \in InFlight
    BY <1>9, FailEffect DEF FailCall, Running, InFlight
  <2>2. CASE writes = "rows"
    <3>1. CallId(c) \in HeldRows(db) /\ CallId(c) \in RowsOf(db, c) /\ CallId(c)[1] = c
      BY <1>1, <2>1, <2>2, OwnRowHolds DEF CallId
    <3>2. "FAILED" \in State \ NonTerminalState
      BY DEF State, NonTerminalState
    <3>3. PICK id \in HeldRows(db) : id = CallId(c)
      BY <3>1
    <3>4. {id} \subseteq RowsOf(db, c) /\ id \in {id} /\ id[1] = c /\ MovesRows({id}, "FAILED")
      BY <2>1, <3>1, <3>3
    <3> QED BY <1>1, <2>1, <2>2, <3>2, <3>4, DriftFree
  <2>3. CASE writes # "rows"
    BY <1>8, <2>1, <2>3 DEF Frees
  <2> QED BY <2>2, <2>3
<1>10. ASSUME NEW actual \in Costs, Complete(c, actual) PROVE DriftInv'
  <2>1. MovesRows(RowsOf(db, c), "COMPLETED") /\ Frees(LatestAmount(c)) /\ call[c] \in InFlight
    BY <1>10, CompleteEffect DEF Complete, Running, InFlight
  <2>2. CASE writes = "rows"
    <3>1. CallId(c) \in HeldRows(db) /\ CallId(c) \in RowsOf(db, c) /\ CallId(c)[1] = c
      BY <1>1, <2>1, <2>2, OwnRowHolds DEF CallId
    <3>2. "COMPLETED" \in State \ NonTerminalState
      BY DEF State, NonTerminalState
    <3>3. PICK id \in HeldRows(db) : id = CallId(c)
      BY <3>1
    <3>4. id \in RowsOf(db, c) /\ id[1] = c
      BY <3>1, <3>3
    <3> QED BY <1>1, <2>1, <2>2, <3>2, <3>4, DriftFree
  <2>3. CASE writes # "rows"
    BY <1>8, <2>1, <2>3 DEF Frees
  <2> QED BY <2>2, <2>3
<1> QED
  BY <1>2, <1>3, <1>5, <1>6, <1>7, <1>9, <1>10 DEF CallStep

LEMMA DriftStep ==
  ASSUME RecoveryAssumption, IInv, RecoveryTypeOK, RowsInv, DriftInv, [Next]_vars
  PROVE  DriftInv'
<1>1. ASSUME NEW c \in Call, CallStep(c) PROVE DriftInv'
  BY <1>1, DriftCall
<1>2. ASSUME writes' = writes, db'.rows = db.rows, db'.reserved = db.reserved PROVE DriftInv'
  BY <1>2 DEF DriftInv, Reused, RowsOf, HeldRows
<1>3. ASSUME NEW c \in Call, Persist(c) PROVE DriftInv'
  BY <1>2, <1>3, PersistEffect DEF Persist
<1>4. CASE PipelineReturns \/ PersistFails \/ Finish \/ UpdateCompletion \/ Continue \/ RefuseResume
  BY <1>2, <1>4 DEF PipelineReturns, PersistFails, Finish, UpdateCompletion, Continue, Rehydrate, RefuseResume
<1>5. CASE InsertRunning \/ Crash \/ Resume \/ Reindex \/ UNCHANGED vars
  BY <1>2, <1>5 DEF InsertRunning, Crash, Resume, Reindex, vars
<1>6. ASSUME NEW id \in DOMAIN db.rows, ReleaseRow(id) PROVE DriftInv'
  <2>1. id[1] \in Call /\ writes = "rows"
    BY <1>6 DEF RowsInv
  <2>2. PICK c \in Call : c = id[1]
    BY <2>1
  <2>3. id \in HeldRows(db) /\ id \in {id} /\ {id} \subseteq RowsOf(db, c)
    BY <1>6, <2>2 DEF ReleaseRow, ReleaseAndFail, HeldRows, NonTerminalState, RowsOf, ReservationOf
  <2>4. "FAILED" \in State \ NonTerminalState
    BY DEF State, NonTerminalState
  <2>5. MovesRows({id}, "FAILED") /\ Frees(LatestAmount(c)) /\ writes' = writes
    BY <1>6, <2>1, <2>2, ReleaseEffect DEF MovesRows, Frees, ReservationOf, ReleaseRow
  <2> QED BY <2>1, <2>2, <2>3, <2>4, <2>5, DriftFree
<1> QED
  BY <1>1, <1>3, <1>4, <1>5, <1>6 DEF Next, Work

LEMMA DriftHolds ==
  ASSUME RecoveryAssumption, RecoveryTypeOK, RowsInv, DriftInv
  PROVE  LedgerDriftIsReuse
<1>1. HeldRows(db) \in SUBSET (DOMAIN db.rows)
  BY DEF HeldRows
<1>2. IsFiniteSet(HeldRows(db)) /\ \A id \in HeldRows(db) : id \in DOMAIN db.rows /\ db.rows[id] \in Row
  BY <1>1, RowsFinite DEF RowsInv
<1>3. PICK d : d = db
  OBVIOUS
<1>4. PICK ids : ids = HeldRows(db)
  OBVIOUS
<1>5. Estimate \in Int
  BY DEF RecoveryAssumption
<1>6. Amounts(d, ids) = Estimate * Cardinality(ids)
  BY <1>2, <1>3, <1>4, <1>5, AmountsCount
<1>7. CASE writes = "rows"
  BY <1>3, <1>4, <1>6, <1>7 DEF DriftInv, LedgerDriftIsReuse, LedgerHolds, Reused
<1>8. CASE writes # "rows"
  <2>1. ids = {} /\ Cardinality(ids) = 0
    BY <1>1, <1>4, <1>8, FS_EmptySet DEF RowsInv
  <2>2. Amounts(d, ids) = 0
    BY <1>5, <1>6, <2>1
  <2> QED BY <1>3, <1>4, <1>8, <2>2 DEF DriftInv, LedgerDriftIsReuse, LedgerHolds
<1> QED BY <1>7, <1>8

LEMMA DriftInit == RecoveryAssumption /\ Init => DriftInv
<1> SUFFICES ASSUME RecoveryAssumption, Init PROVE DriftInv
  OBVIOUS
<1>1. DOMAIN db.rows = {} /\ db.reserved = 0
  BY DEF Init, EmptyTables
<1>2. HeldRows(db) = {}
  BY <1>1 DEF HeldRows
<1> QED BY <1>1, <1>2, FS_EmptySet DEF DriftInv, RecoveryAssumption

LEMMA TablesInvariance ==
  ASSUME RecoveryAssumption PROVE Spec => [](IInv /\ RecoveryTypeOK /\ RowsInv /\ DriftInv)
<1>1. Init => RowsInv /\ DriftInv
  BY RowsInit, DriftInit
<1>2. IInv /\ RecoveryTypeOK /\ RowsInv /\ DriftInv /\ [Next]_vars => (RowsInv /\ DriftInv)'
  BY RowsStep, DriftStep
<1> QED BY <1>1, <1>2, Invariance, RecoveryTypes, PTL DEF Spec

(***************************************************************************)
(* The budget row agrees with the rows of the calls unless an attempt took *)
(* up a reservation of an earlier one.                                     *)
(***************************************************************************)
THEOREM DriftHasOneCause == ASSUME RecoveryAssumption PROVE Spec => []LedgerDriftIsReuse
<1>1. IInv /\ RecoveryTypeOK /\ RowsInv /\ DriftInv => LedgerDriftIsReuse
  BY DriftHolds
<1> QED BY <1>1, TablesInvariance, PTL

---------------------------------------------------------------------------
(* The money of a process, and what the provider may have billed *)

Most == Max(Caps)

Over == Max(Costs \union {Estimate}) - Estimate

Room == Most + Cardinality(Call) * Over

Calls(s) == {c \in Call : call[c] = s}

Done == Cardinality(Calls("done"))
Reserved == Cardinality(Calls("reserved"))

\* The attempts whose money is in no process any more.
Before == IF phase = "down" THEN attempt ELSE attempt - 1

MoneyInv ==
  /\ spent + held <= cap + Over * Done
  /\ cap <= Most
  /\ phase \in {"down", "releasing"} => spent = 0 /\ held = 0
  /\ liability <= Before * Room + spent + held - Estimate * Reserved

LEMMA Bounds ==
  ASSUME RecoveryAssumption
  PROVE  /\ Most \in Nat /\ \A budget \in Caps : budget <= Most
         /\ Over \in Nat /\ \A actual \in Costs : actual <= Estimate + Over
         /\ Cardinality(Call) \in Nat /\ Cardinality(Call) * Over \in Nat /\ Room \in Nat
         /\ Max(Caps) + Overrun = Room
<1>1. Caps \in SUBSET Int /\ Adding!IsFiniteSet(Caps) /\ Caps # {}
  BY DEF RecoveryAssumption, IsFiniteSet, Adding!IsFiniteSet
<1>2. Max(Caps) = Adding!Max(Caps)
  BY DEF Max, Adding!Max
<1>3. Max(Caps) \in Caps /\ \A x \in Caps : x <= Max(Caps)
  BY <1>1, <1>2, Adding!MaxIsGreatest
<1>4. PICK spans : spans = Costs \union {Estimate}
  OBVIOUS
<1>5. IsFiniteSet(spans) /\ spans \in SUBSET Int /\ spans # {}
  BY <1>4, FS_AddElement DEF RecoveryAssumption
<1>6. Adding!IsFiniteSet(spans)
  BY <1>5 DEF IsFiniteSet, Adding!IsFiniteSet
<1>7. Max(spans) = Adding!Max(spans)
  BY DEF Max, Adding!Max
<1>8. Max(spans) \in spans /\ \A x \in spans : x <= Max(spans)
  BY <1>5, <1>6, <1>7, Adding!MaxIsGreatest
<1>9. Most \in Nat /\ \A budget \in Caps : budget <= Most
  BY <1>3 DEF Most, RecoveryAssumption
<1>10. Estimate \in Nat /\ Max(spans) \in Nat /\ Max(spans) >= Estimate /\ \A x \in Costs : x <= Max(spans)
  BY <1>4, <1>8 DEF RecoveryAssumption
<1>11. Over = Max(spans) - Estimate
  BY <1>4 DEF Over
<1>12. Over \in Nat /\ \A actual \in Costs : actual <= Estimate + Over
  <2>1. Over \in Nat /\ Max(spans) = Estimate + Over
    BY <1>10, <1>11
  <2> QED BY <1>10, <2>1
<1>13. Cardinality(Call) \in Nat
  BY FS_CardinalityType DEF RecoveryAssumption
<1>14. Cardinality(Call) * Over \in Nat
  BY <1>12, <1>13
<1>15. Overrun = Cardinality(Call) * Over
  BY <1>4, <1>11 DEF Overrun
<1>16. Room \in Nat /\ Max(Caps) + Overrun = Room
  BY <1>9, <1>14, <1>15 DEF Room, Most
<1> QED BY <1>9, <1>12, <1>13, <1>14, <1>16

LEMMA Times ==
  ASSUME NEW k \in Nat, NEW m \in Nat, NEW n \in Nat, m <= n
  PROVE  k * m <= k * n /\ k * m \in Nat /\ k * (m + 1) = k * m + k
OBVIOUS

LEMMA CallsCount ==
  ASSUME RecoveryAssumption, NEW s
  PROVE  /\ IsFiniteSet(Calls(s)) /\ Cardinality(Calls(s)) \in Nat
         /\ Cardinality(Calls(s)) <= Cardinality(Call)
<1>1. Calls(s) \in SUBSET Call /\ IsFiniteSet(Call)
  BY DEF Calls, RecoveryAssumption
<1> QED BY <1>1, FS_Subset, FS_CardinalityType

\* What a call that moves from one state to another is counted as.
LEMMA CallsMove ==
  ASSUME RecoveryAssumption, call \in [Call -> CallPhase], NEW c \in Call, NEW t, t # call[c],
         call' = [call EXCEPT ![c] = t], NEW s
  PROVE  Cardinality(Calls(s)') = IF s = t THEN Cardinality(Calls(s)) + 1
                                  ELSE IF s = call[c] THEN Cardinality(Calls(s)) - 1 ELSE Cardinality(Calls(s))
<1>1. PICK before : before = Calls(s)
  OBVIOUS
<1>2. IsFiniteSet(before)
  BY <1>1, CallsCount
<1>3. CASE s = t
  <2>1. Calls(s)' = before \union {c} /\ c \notin before
    BY <1>1, <1>3 DEF Calls
  <2>2. Cardinality(before \union {c}) = Cardinality(before) + 1
    BY <1>2, <2>1, FS_AddElement
  <2> QED BY <1>1, <1>3, <2>1, <2>2
<1>4. CASE s # t /\ s = call[c]
  <2>1. Calls(s)' = before \ {c} /\ c \in before
    BY <1>1, <1>4 DEF Calls
  <2>2. Cardinality(before \ {c}) = Cardinality(before) - 1
    BY <1>2, <2>1, FS_RemoveElement
  <2> QED BY <1>1, <1>4, <2>1, <2>2
<1>5. CASE s # t /\ s # call[c]
  <2>1. Calls(s)' = before
    BY <1>1, <1>5 DEF Calls
  <2> QED BY <1>1, <1>5, <2>1
<1> QED BY <1>3, <1>4, <1>5

\* What a process has committed and holds is within its cap and the overruns.
LEMMA WithinRoom ==
  ASSUME RecoveryAssumption, RecoveryTypeOK, MoneyInv
  PROVE  /\ Over * Done \in Nat /\ Over * Done <= Cardinality(Call) * Over
         /\ spent + held <= Room /\ Estimate * Reserved \in Nat
<1>1. Over \in Nat /\ Most \in Nat /\ Cardinality(Call) \in Nat
  BY Bounds
<1>2. Done \in Nat /\ Done <= Cardinality(Call) /\ Reserved \in Nat
  BY CallsCount DEF Done, Reserved
<1>3. Over * Done \in Nat /\ Over * Done <= Over * Cardinality(Call)
  BY <1>1, <1>2, Times
<1>4. Over * Cardinality(Call) = Cardinality(Call) * Over
  BY <1>1
<1>5. Estimate * Reserved \in Nat
  BY <1>2 DEF RecoveryAssumption
<1>6. PICK o : o = Over * Done
  OBVIOUS
<1>7. PICK all : all = Cardinality(Call) * Over
  OBVIOUS
<1>8. o \in Nat /\ o <= all /\ all \in Nat
  BY <1>3, <1>4, <1>6, <1>7, Bounds
<1>9. spent + held <= cap + o /\ cap <= Most /\ Room = Most + all
  BY <1>6, <1>7 DEF MoneyInv, Room
<1>10. spent + held <= Room
  BY <1>1, <1>8, <1>9 DEF RecoveryTypeOK
<1> QED BY <1>3, <1>4, <1>5, <1>10

LEMMA MoneyCall ==
  ASSUME RecoveryAssumption, IInv, RecoveryTypeOK, MoneyInv, NEW c \in Call, CallStep(c)
  PROVE  MoneyInv'
<1>1. phase = "pipeline" /\ phase' = phase /\ attempt' = attempt /\ cap' = cap
  BY DEF CallStep, CacheHit, Refuse, LeaveOut, Reserve, Send, Acknowledge, Complete, FailCall, OrphanCall,
         Running, Others
<1>2. Over \in Nat /\ Estimate \in Nat /\ cap \in Nat /\ spent \in Int /\ held \in Int /\ liability \in Int
  BY Bounds DEF RecoveryAssumption, RecoveryTypeOK
<1>3. Done \in Nat /\ Reserved \in Nat /\ call \in [Call -> CallPhase]
  BY CallsCount DEF Done, Reserved, IInv, Shapes
<1>4. /\ Over * Done \in Nat /\ Over * (Done + 1) = Over * Done + Over
      /\ Estimate * Reserved \in Nat /\ Estimate * (Reserved + 1) = Estimate * Reserved + Estimate
      /\ Estimate * (Reserved - 1) = Estimate * Reserved - Estimate
  BY <1>2, <1>3
<1>5. PICK base : base = (attempt - 1) * Room
  OBVIOUS
<1>6. base \in Int
  BY <1>5, Bounds DEF RecoveryTypeOK
<1>7. /\ spent + held <= cap + Over * Done /\ liability <= base + spent + held - Estimate * Reserved
      /\ cap <= Most
  BY <1>1, <1>5 DEF MoneyInv, Before
<1>8. ASSUME /\ (spent + held)' <= cap + Over * Done'
             /\ liability' <= base + spent' + held' - Estimate * Reserved'
      PROVE  MoneyInv'
  <2>1. (Before * Room)' = base
    BY <1>1, <1>5 DEF Before, Room, Most, Over
  <2>2. (Over * Done)' = Over * Done' /\ Most' = Most
    BY DEF Over, Most
  <2> QED BY <1>1, <1>7, <1>8, <2>1, <2>2 DEF MoneyInv
<1>9. ASSUME NEW t, t # call[c], call' = [call EXCEPT ![c] = t]
      PROVE  /\ Done' = IF t = "done" THEN Done + 1 ELSE IF call[c] = "done" THEN Done - 1 ELSE Done
             /\ Reserved' = IF t = "reserved" THEN Reserved + 1
                            ELSE IF call[c] = "reserved" THEN Reserved - 1 ELSE Reserved
  BY <1>3, <1>9, CallsMove DEF Done, Reserved
<1>10. CASE CacheHit(c)
  <2>1. Done' = Done + 1 /\ Reserved' = Reserved
    BY <1>9, <1>10 DEF CacheHit, Move, Running
  <2> QED BY <1>2, <1>3, <1>4, <1>6, <1>7, <1>8, <1>10, <2>1 DEF CacheHit
<1>11. CASE Refuse(c) \/ LeaveOut(c)
  <2>1. Done' = Done /\ Reserved' = Reserved
    BY <1>9, <1>11 DEF Refuse, LeaveOut, Move, Running
  <2> QED BY <1>2, <1>3, <1>4, <1>6, <1>7, <1>8, <1>11, <2>1 DEF Refuse, LeaveOut
<1>12. CASE Reserve(c)
  <2>1. Done' = Done /\ Reserved' = Reserved + 1
    BY <1>9, <1>12 DEF Reserve, Move, Running
  <2>2. spent' = spent /\ held' = held + Estimate /\ liability' = liability /\ spent + held + Estimate <= cap
    BY <1>12 DEF Reserve, Affordable
  <2> QED BY <1>2, <1>3, <1>4, <1>6, <1>7, <1>8, <2>1, <2>2
<1>13. CASE Send(c)
  <2>1. Done' = Done /\ Reserved' = Reserved - 1
    <3>1. PICK t : t = "sent"
      OBVIOUS
    <3>2. call' = [call EXCEPT ![c] = t] /\ call[c] = "reserved" /\ t # call[c]
      BY <1>13, <3>1 DEF Send, Move, Running
    <3>3. /\ Done' = IF t = "done" THEN Done + 1 ELSE IF call[c] = "done" THEN Done - 1 ELSE Done
          /\ Reserved' = IF t = "reserved" THEN Reserved + 1
                         ELSE IF call[c] = "reserved" THEN Reserved - 1 ELSE Reserved
      BY <1>9, <3>2, Zenon
    <3> QED BY <3>1, <3>2, <3>3
  <2>2. spent' = spent /\ held' = held /\ liability' = liability + Estimate
    BY <1>13 DEF Send
  <2> QED BY <1>2, <1>3, <1>4, <1>6, <1>7, <1>8, <2>1, <2>2
<1>14. CASE Acknowledge(c) \/ OrphanCall(c)
  <2>1. Done' = Done /\ Reserved' = Reserved
    BY <1>9, <1>14 DEF Acknowledge, OrphanCall, Move, Running
  <2>2. spent' = spent /\ held' = held /\ liability' = liability
    BY <1>14 DEF Acknowledge, OrphanCall
  <2> QED BY <1>2, <1>3, <1>4, <1>6, <1>7, <1>8, <2>1, <2>2
<1>15. CASE FailCall(c)
  <2>1. Done' = Done /\ Reserved' = Reserved
    <3>1. PICK t : t = "skipped"
      OBVIOUS
    <3>2. call' = [call EXCEPT ![c] = t] /\ call[c] = "sent" /\ t # call[c]
      BY <1>15, <3>1 DEF FailCall, Move, Running
    <3>3. /\ Done' = IF t = "done" THEN Done + 1 ELSE IF call[c] = "done" THEN Done - 1 ELSE Done
          /\ Reserved' = IF t = "reserved" THEN Reserved + 1
                         ELSE IF call[c] = "reserved" THEN Reserved - 1 ELSE Reserved
      BY <1>9, <3>2, Zenon
    <3> QED BY <3>1, <3>2, <3>3
  <2>2. spent' = spent /\ held' = held - Estimate /\ liability' = liability - Estimate
    BY <1>15 DEF FailCall
  <2> QED BY <1>2, <1>3, <1>4, <1>6, <1>7, <1>8, <2>1, <2>2
<1>16. ASSUME NEW actual \in Costs, Complete(c, actual) PROVE MoneyInv'
  <2>1. Done' = Done + 1 /\ Reserved' = Reserved
    BY <1>9, <1>16 DEF Complete, Move, Running
  <2>2. spent' = spent + actual /\ held' = held - Estimate /\ liability' = liability + actual - Estimate
    BY <1>16 DEF Complete
  <2>3. actual \in Nat /\ actual <= Estimate + Over
    BY Bounds DEF RecoveryAssumption
  <2>4. (spent + actual) + (held - Estimate) <= cap + (Over * Done + Over)
    BY <1>2, <1>4, <1>7, <2>3
  <2>5. liability + actual - Estimate <= base + (spent + actual) + (held - Estimate) - Estimate * Reserved
    BY <1>2, <1>4, <1>6, <1>7, <2>3
  <2> QED BY <1>4, <1>8, <2>1, <2>2, <2>4, <2>5
<1> QED
  BY <1>10, <1>11, <1>12, <1>13, <1>14, <1>15, <1>16 DEF CallStep

LEMMA NoCalls ==
  ASSUME call' = [c \in Call |-> "idle"]
  PROVE  Done' = 0 /\ Reserved' = 0
<1>1. Calls("done")' = {} /\ Calls("reserved")' = {}
  BY DEF Calls
<1> QED BY <1>1, FS_EmptySet DEF Done, Reserved

\* A process that ends leaves behind what it has committed and holds.
LEMMA MoneyExit ==
  ASSUME RecoveryAssumption, RecoveryTypeOK, MoneyInv, phase # "down",
         Exit, attempt' = attempt, liability' = liability
  PROVE  MoneyInv'
<1>1. Done' = 0 /\ Reserved' = 0
  BY NoCalls DEF Exit
<1>2. cap' = 0 /\ spent' = 0 /\ held' = 0 /\ phase' = "down"
  BY DEF Exit
<1>3. Over \in Nat /\ Most \in Nat /\ Room \in Nat /\ Estimate \in Nat /\ attempt \in Nat
  BY Bounds DEF RecoveryAssumption, RecoveryTypeOK
<1>4. spent + held <= Room /\ Estimate * Reserved \in Nat
  BY WithinRoom
<1>5. PICK base : base = (attempt - 1) * Room
  OBVIOUS
<1>6. base \in Int /\ attempt * Room = base + Room
  BY <1>3, <1>5
<1>7. liability <= base + spent + held - Estimate * Reserved
  BY <1>5 DEF MoneyInv, Before
<1>8. liability <= attempt * Room
  BY <1>3, <1>4, <1>6, <1>7 DEF RecoveryTypeOK
<1>9. (Before * Room)' = attempt * Room /\ (Over * Done)' = Over * Done' /\ Most' = Most
  BY <1>2 DEF Before, Room, Most, Over
<1>10. Over * Done' = 0 /\ Estimate * Reserved' = 0 /\ attempt * Room \in Int
  BY <1>1, <1>3
<1> QED BY <1>2, <1>3, <1>8, <1>9, <1>10 DEF MoneyInv

LEMMA MoneyStill ==
  ASSUME MoneyInv, UNCHANGED <<mem, liability>>, Before' = Before,
         phase' \in {"down", "releasing"} => phase \in {"down", "releasing"}
  PROVE  MoneyInv'
<1>1. /\ Done' = Done /\ Reserved' = Reserved /\ cap' = cap /\ spent' = spent /\ held' = held
      /\ liability' = liability
  BY DEF mem, Done, Reserved, Calls
<1>2. Over' = Over /\ Most' = Most /\ Room' = Room
  BY DEF Over, Most, Room
<1> QED BY <1>1, <1>2 DEF MoneyInv

LEMMA MoneyStep ==
  ASSUME RecoveryAssumption, IInv, RecoveryTypeOK, MoneyInv, [Next]_vars
  PROVE  MoneyInv'
<1>1. ASSUME NEW c \in Call, CallStep(c) PROVE MoneyInv'
  BY <1>1, MoneyCall
<1>2. ASSUME UNCHANGED <<mem, liability, attempt>>, phase # "down", phase' # "down",
             phase' = "releasing" => phase = "releasing"
      PROVE  MoneyInv'
  <2>1. Before' = Before
    BY <1>2 DEF Before
  <2> QED BY <1>2, <2>1, MoneyStill
<1>3. ASSUME NEW c \in Call, Persist(c) PROVE MoneyInv'
  BY <1>2, <1>3 DEF Persist
<1>4. CASE PipelineReturns \/ InsertRunning
  BY <1>2, <1>4 DEF PipelineReturns, InsertRunning
<1>5. CASE PersistFails \/ UpdateCompletion \/ RefuseResume \/ Crash
  BY <1>5, MoneyExit DEF PersistFails, UpdateCompletion, RefuseResume, Released, Crash
<1>6. CASE Finish
  <2>1. CASE Exit
    BY <1>6, <2>1, MoneyExit DEF Finish
  <2>2. CASE phase' = "finished" /\ UNCHANGED mem
    BY <1>2, <1>6, <2>2 DEF Finish
  <2> QED BY <1>6, <2>1, <2>2 DEF Finish
<1>7. ASSUME NEW id \in DOMAIN db.rows, ReleaseRow(id) PROVE MoneyInv'
  BY <1>2, <1>7 DEF ReleaseRow
<1>8. CASE Resume
  <2>1. Before' = Before
    BY <1>8 DEF Resume, Before, RecoveryTypeOK
  <2> QED BY <1>8, <2>1, MoneyStill DEF Resume
<1>9. CASE Continue
  <2>1. /\ spent' = 0 /\ held' = 0 /\ liability' = liability /\ attempt' = attempt
        /\ phase = "releasing" /\ phase' = "pipeline" /\ call' = [c \in Call |-> "idle"]
    BY <1>9 DEF Continue, Rehydrate, Released
  <2>2. PICK budget \in Caps : cap' = IF db.committed < budget THEN budget - db.committed ELSE 0
    BY <1>9 DEF Continue
  <2>3. cap' \in Nat /\ cap' <= Most
    BY <2>2, Bounds DEF RecoveryAssumption, RecoveryTypeOK
  <2>4. Done' = 0 /\ Reserved' = 0
    BY <2>1, NoCalls
  <2>5. Estimate * Reserved \in Nat /\ Over \in Nat /\ Estimate \in Nat
    BY WithinRoom, Bounds DEF RecoveryAssumption
  <2>6. PICK base : base = (attempt - 1) * Room
    OBVIOUS
  <2>7. base \in Int
    BY <2>6, Bounds DEF RecoveryTypeOK
  <2>8. liability <= base + 0 + 0 - Estimate * Reserved
    BY <2>1, <2>6 DEF MoneyInv, Before
  <2>9. liability <= base
    BY <2>5, <2>7, <2>8 DEF RecoveryTypeOK
  <2>10. (Before * Room)' = base /\ (Over * Done)' = Over * Done' /\ Most' = Most
    BY <2>1, <2>6 DEF Before, Room, Most, Over
  <2>11. Over * Done' = 0 /\ Estimate * Reserved' = 0
    BY <2>4, <2>5
  <2> QED BY <2>1, <2>3, <2>7, <2>9, <2>10, <2>11 DEF MoneyInv
<1>10. CASE Reindex \/ UNCHANGED vars
  <2>1. UNCHANGED <<mem, liability>> /\ Before' = Before /\ phase' = phase
    BY <1>10 DEF Reindex, vars, Before
  <2> QED BY <2>1, MoneyStill
<1> QED
  BY <1>1, <1>3, <1>4, <1>5, <1>6, <1>7, <1>8, <1>9, <1>10 DEF Next, Work

LEMMA MoneyInit == RecoveryAssumption /\ Init => MoneyInv
<1> SUFFICES ASSUME RecoveryAssumption, Init PROVE MoneyInv
  OBVIOUS
<1>1. Calls("done") = {} /\ Calls("reserved") = {}
  BY DEF Init, Calls
<1>2. Done = 0 /\ Reserved = 0
  BY <1>1, FS_EmptySet DEF Done, Reserved
<1>3. Over \in Nat /\ Room \in Nat /\ Estimate \in Nat /\ \A budget \in Caps : budget <= Most
  BY Bounds DEF RecoveryAssumption
<1>4. cap \in Caps /\ cap \in Nat /\ spent = 0 /\ held = 0 /\ liability = 0 /\ phase = "pipeline" /\ attempt = 1
  BY DEF Init, RecoveryAssumption
<1>5. Before * Room = 0 /\ Over * Done = 0 /\ Estimate * Reserved = 0
  BY <1>2, <1>3, <1>4 DEF Before
<1> QED BY <1>3, <1>4, <1>5 DEF MoneyInv

\* Without rows, every attempt has a whole cap to itself.
LEMMA EventsBound ==
  ASSUME RecoveryAssumption, RecoveryTypeOK, MoneyInv
  PROVE  liability <= attempt * Room
<1>1. Room \in Nat /\ attempt \in Nat /\ liability \in Int /\ spent \in Int /\ held \in Int
  BY Bounds DEF RecoveryTypeOK
<1>2. spent + held <= Room /\ Estimate * Reserved \in Nat
  BY WithinRoom
<1>3. PICK base : base = (attempt - 1) * Room
  OBVIOUS
<1>4. base \in Int /\ attempt * Room = base + Room
  BY <1>1, <1>3
<1>5. CASE phase = "down"
  <2>1. spent = 0 /\ held = 0 /\ liability <= attempt * Room + spent + held - Estimate * Reserved
    BY <1>5 DEF MoneyInv, Before
  <2> QED BY <1>1, <1>2, <1>4, <2>1
<1>6. CASE phase # "down"
  <2>1. liability <= base + spent + held - Estimate * Reserved
    BY <1>3, <1>6 DEF MoneyInv, Before
  <2> QED BY <1>1, <1>2, <1>4, <2>1
<1> QED BY <1>5, <1>6

---------------------------------------------------------------------------
(* What the rows say of the money *)

Live == phase \in {"pipeline", "persisting", "finished"}

Doubtful == {"SENT", "ACKNOWLEDGED", "ORPHANED"}

\* A later attempt of the call has a row of its own.
Superseded(id) == \E later \in RowsOf(db, ReservationOf(id)) : id[2] < later[2]

HeldNow == {id \in HeldRows(db) : id[2] = attempt}

\* Rows whose call may have been billed without its cost being committed.
InDoubt == {id \in DOMAIN db.rows : db.rows[id].state \in Doubtful \/ Superseded(id)}

RowMoneyInv == writes = "rows" =>
  /\ Live => /\ held = Estimate * Cardinality(HeldNow)
             /\ cap + db.committed - spent <= Most \/ (cap = 0 /\ spent = 0 /\ held = 0)
  /\ db.committed <= Room
  /\ liability <= db.committed + Estimate * Cardinality(InDoubt)

LEMMA CountsOfRows ==
  ASSUME RecoveryAssumption, RecoveryTypeOK, RowsInv
  PROVE  /\ IsFiniteSet(HeldNow) /\ Cardinality(HeldNow) \in Nat
         /\ IsFiniteSet(InDoubt) /\ Cardinality(InDoubt) \in Nat
<1>1. HeldNow \in SUBSET (DOMAIN db.rows) /\ InDoubt \in SUBSET (DOMAIN db.rows)
  BY DEF HeldNow, InDoubt, HeldRows
<1> QED BY <1>1, RowsFinite

\* What becomes of them when the row of a call in flight moves, and with it
\* those of its earlier attempts.
LEMMA DoubtMoves ==
  ASSUME RecoveryAssumption, RecoveryTypeOK, RowsInv, writes = "rows", attempt' = attempt,
         NEW c \in Call, NEW own, own = OwnRow(c), own \in DOMAIN db.rows,
         NEW ids, own \in ids, ids \subseteq RowsOf(db, c), NEW s \in State, MovesRows(ids, s)
  PROVE  /\ ~Superseded(own)
         /\ HeldNow' = IF s \in NonTerminalState THEN HeldNow \union {own} ELSE HeldNow \ {own}
         /\ InDoubt' = IF s \in Doubtful THEN InDoubt \union {own} ELSE InDoubt \ {own}
<1>1. attempt \in Nat
  BY DEF RecoveryTypeOK
<1>2. PICK rows : rows = db.rows
  OBVIOUS
<1>3. \A i \in DOMAIN rows : rows[i] \in Row
  BY <1>2 DEF RowsInv
<1>4. PICK moved : moved = WithState(rows, ids, s)
  OBVIOUS
<1>5. /\ DOMAIN moved = DOMAIN rows
      /\ \A i \in DOMAIN rows : /\ i \in ids => moved[i].state = s
                                /\ i \notin ids => moved[i] = rows[i]
  BY <1>3, <1>4, StatesMove
<1>6. db'.rows = moved
  BY <1>2, <1>4 DEF MovesRows
<1>7. \A i \in DOMAIN rows : i[1] \in Call /\ i[2] \in Nat /\ i[2] <= attempt /\ i = <<i[1], i[2]>>
  BY <1>1, <1>2 DEF RowsInv
<1>8. own[1] = c /\ own[2] = attempt
  BY DEF OwnRow
<1>9. ~Superseded(own)
  BY <1>1, <1>2, <1>7, <1>8 DEF Superseded, RowsOf
<1>10. \A r : RowsOf(db, r)' = RowsOf(db, r)
  BY <1>2, <1>5, <1>6 DEF RowsOf
<1>11. \A id : Superseded(id)' <=> Superseded(id)
  BY <1>10 DEF Superseded
<1>12. ASSUME NEW id \in ids, id # own PROVE id[2] # attempt /\ Superseded(id)
  <2>1. id \in DOMAIN rows /\ id[1] = c
    BY <1>2 DEF RowsOf, ReservationOf
  <2>2. id = <<c, id[2]>> /\ own = <<c, attempt>>
    BY <1>7, <2>1 DEF OwnRow
  <2>3. id[2] < attempt
    BY <1>1, <1>7, <2>1, <2>2, <1>12
  <2> QED BY <1>1, <1>8, <2>1, <2>3 DEF Superseded, RowsOf, ReservationOf
<1>13. ASSUME NEW id \in DOMAIN rows, id # own
       PROVE  /\ id \in HeldNow' <=> id \in HeldNow
              /\ id \in InDoubt' <=> id \in InDoubt
  <2>1. CASE id \in ids
    BY <1>2, <1>5, <1>6, <1>11, <1>12, <1>13, <2>1 DEF HeldNow, InDoubt, HeldRows
  <2>2. CASE id \notin ids
    BY <1>2, <1>5, <1>6, <1>11, <1>13, <2>2 DEF HeldNow, InDoubt, HeldRows
  <2> QED BY <2>1, <2>2
<1>14. /\ own \in HeldNow' <=> s \in NonTerminalState
       /\ own \in InDoubt' <=> s \in Doubtful
  BY <1>2, <1>5, <1>6, <1>8, <1>9, <1>11 DEF HeldNow, InDoubt, HeldRows
<1>15. HeldNow' \subseteq DOMAIN rows /\ InDoubt' \subseteq DOMAIN rows
       /\ HeldNow \subseteq DOMAIN rows /\ InDoubt \subseteq DOMAIN rows /\ own \in DOMAIN rows
  BY <1>2, <1>5, <1>6 DEF HeldNow, InDoubt, HeldRows
<1>16. HeldNow' = IF s \in NonTerminalState THEN HeldNow \union {own} ELSE HeldNow \ {own}
  BY <1>13, <1>14, <1>15
<1>17. InDoubt' = IF s \in Doubtful THEN InDoubt \union {own} ELSE InDoubt \ {own}
  BY <1>13, <1>14, <1>15
<1> QED BY <1>9, <1>16, <1>17

LEMMA RowMoneyReserve ==
  ASSUME RecoveryAssumption, IInv, RecoveryTypeOK, RowsInv, MoneyInv, RowMoneyInv, writes = "rows",
         NEW c \in Call, Reserve(c)
  PROVE  RowMoneyInv'
<1>1. /\ writes' = writes /\ phase = "pipeline" /\ phase' = phase /\ call[c] = "idle" /\ attempt' = attempt
      /\ cap' = cap /\ spent' = spent /\ held' = held + Estimate /\ liability' = liability
      /\ spent + held + Estimate <= cap
  BY DEF Reserve, Others, Running, Affordable
<1>2. PICK row : row = [state |-> "RESERVED", amount |-> Estimate]
  OBVIOUS
<1>3. db'.rows = InsertRow(db.rows, CallId(c), row)
  BY <1>2, ReserveEffect
<1>4. PICK own : own = OwnRow(c)
  OBVIOUS
<1>5. CallId(c) = own /\ own \notin DOMAIN db.rows /\ own[2] = attempt
  BY <1>1, <1>4 DEF CallId, OwnRow, RowsInv, OwnRowsFollow
<1>6. /\ DOMAIN db'.rows = DOMAIN db.rows \union {own} /\ db'.rows[own].state = "RESERVED"
      /\ \A i \in DOMAIN db.rows : db'.rows[i] = db.rows[i]
  BY <1>2, <1>3, <1>5 DEF InsertRow
<1>7. HeldNow' = HeldNow \union {own} /\ own \notin HeldNow
  BY <1>1, <1>5, <1>6 DEF HeldNow, HeldRows, NonTerminalState
<1>8. \A r : RowsOf(db, r) \subseteq RowsOf(db, r)'
  BY <1>6 DEF RowsOf
<1>9. \A id : Superseded(id) => Superseded(id)'
  BY <1>8 DEF Superseded
<1>10. InDoubt \subseteq InDoubt'
  BY <1>6, <1>9 DEF InDoubt
<1>11. /\ IsFiniteSet(HeldNow) /\ Cardinality(HeldNow) \in Nat
       /\ IsFiniteSet(InDoubt) /\ Cardinality(InDoubt) \in Nat
  BY CountsOfRows
<1>12. IsFiniteSet(InDoubt') /\ Cardinality(InDoubt') \in Nat /\ Cardinality(InDoubt) <= Cardinality(InDoubt')
  <2>1. IsFiniteSet(DOMAIN db.rows)
    BY RowsFinite
  <2>2. PICK dom : dom = DOMAIN db.rows
    OBVIOUS
  <2>3. IsFiniteSet(dom \union {own})
    BY <2>1, <2>2, FS_AddElement
  <2>4. InDoubt' \in SUBSET (dom \union {own})
    BY <1>6, <2>2 DEF InDoubt
  <2>5. IsFiniteSet(InDoubt')
    BY <2>3, <2>4, FS_Subset
  <2>6. PICK before : before = InDoubt
    OBVIOUS
  <2>7. PICK after : after = InDoubt'
    OBVIOUS
  <2>8. Cardinality(before) <= Cardinality(after) /\ Cardinality(after) \in Nat
    BY <1>10, <2>5, <2>6, <2>7, FS_Subset, FS_CardinalityType
  <2> QED BY <2>5, <2>6, <2>7, <2>8
<1>13. PICK now : now = HeldNow
  OBVIOUS
<1>14. Cardinality(HeldNow') = Cardinality(HeldNow) + 1
  BY <1>7, <1>11, <1>13, FS_AddElement
<1>15. /\ Estimate \in Nat /\ Estimate > 0 /\ cap \in Nat /\ spent \in Nat /\ db.committed \in Nat
  BY DEF RecoveryAssumption, RecoveryTypeOK
<1>16. /\ Estimate * (Cardinality(HeldNow) + 1) = Estimate * Cardinality(HeldNow) + Estimate
       /\ Estimate * Cardinality(InDoubt) <= Estimate * Cardinality(InDoubt')
       /\ Estimate * Cardinality(InDoubt) \in Nat /\ Estimate * Cardinality(InDoubt') \in Nat
  BY <1>11, <1>12, <1>15, Times
<1>17. db'.committed = db.committed /\ Room' = Room /\ Most' = Most /\ Live
  BY <1>1, QuietCall DEF Room, Most, Over, Live
<1>18. /\ held = Estimate * Cardinality(HeldNow)
       /\ cap + db.committed - spent <= Most
       /\ db.committed <= Room
       /\ liability <= db.committed + Estimate * Cardinality(InDoubt)
  BY <1>1, <1>15, <1>17 DEF RowMoneyInv
<1>19. liability' <= db'.committed + Estimate * Cardinality(InDoubt')
  BY <1>1, <1>15, <1>16, <1>17, <1>18 DEF RecoveryTypeOK
<1>20. held' = Estimate * Cardinality(HeldNow')
  BY <1>1, <1>14, <1>16, <1>18
<1>21. cap' + db'.committed - spent' <= Most' /\ db'.committed <= Room'
  BY <1>1, <1>17, <1>18
<1> QED BY <1>19, <1>20, <1>21 DEF RowMoneyInv

\* The amounts a call that leaves its reservation behind takes off.
LEMMA RowMoneyLess ==
  ASSUME RecoveryAssumption, RecoveryTypeOK, RowsInv, MoneyInv, RowMoneyInv, writes = "rows", Live,
         writes' = writes, attempt' = attempt, cap' = cap, NEW own \in HeldNow, own \in InDoubt,
         HeldNow' = HeldNow \ {own}, InDoubt' = InDoubt \ {own},
         NEW cost \in Nat, cost <= Estimate + Over,
         spent' = spent + cost, held' = held - Estimate, liability' = liability + cost - Estimate,
         db'.committed = db.committed + cost, cost = 0 \/ Done < Cardinality(Call)
  PROVE  RowMoneyInv'
<1>1. /\ IsFiniteSet(HeldNow) /\ Cardinality(HeldNow) \in Nat
      /\ IsFiniteSet(InDoubt) /\ Cardinality(InDoubt) \in Nat
  BY CountsOfRows
<1>2. PICK now : now = HeldNow
  OBVIOUS
<1>3. PICK doubt : doubt = InDoubt
  OBVIOUS
<1>4. PICK h \in Nat : h = Cardinality(HeldNow)
  BY <1>1
<1>5. PICK d \in Nat : d = Cardinality(InDoubt)
  BY <1>1
<1>6. Cardinality(HeldNow') = h - 1 /\ Cardinality(InDoubt') = d - 1 /\ h # 0
  BY <1>1, <1>2, <1>3, <1>4, <1>5, FS_RemoveElement, FS_EmptySet
<1>7. /\ Estimate \in Nat /\ Estimate > 0 /\ cap \in Nat /\ spent \in Nat /\ db.committed \in Nat
      /\ liability \in Int /\ Over \in Nat /\ Most \in Nat /\ Cardinality(Call) \in Nat
  BY Bounds DEF RecoveryAssumption, RecoveryTypeOK
<1>8. /\ Estimate * (h - 1) = Estimate * h - Estimate /\ Estimate * (d - 1) = Estimate * d - Estimate
      /\ Estimate * h >= Estimate /\ Estimate * d \in Nat /\ Estimate * h \in Nat
  BY <1>6, <1>7
<1>9. /\ held = Estimate * h
      /\ cap + db.committed - spent <= Most
      /\ db.committed <= Room
      /\ liability <= db.committed + Estimate * d
  BY <1>4, <1>5, <1>7, <1>8 DEF RowMoneyInv
<1>10. Room' = Room /\ Most' = Most
  BY DEF Room, Most, Over
<1>11. db'.committed <= Room
  <2>1. CASE cost = 0
    BY <1>7, <1>9, <2>1
  <2>2. CASE Done < Cardinality(Call)
    <3>1. Done \in Nat
      BY CallsCount DEF Done
    <3>2. Over * (Done + 1) = Over * Done + Over /\ Over * (Done + 1) <= Over * Cardinality(Call)
      <4>1. Done + 1 \in Nat /\ Done + 1 <= Cardinality(Call)
        BY <1>7, <2>2, <3>1
      <4> QED BY <1>7, <3>1, <4>1, Times
    <3>3. PICK o \in Int : o = Over * Done
      BY <1>7, <3>1
    <3>4. PICK all \in Int : all = Over * Cardinality(Call)
      BY <1>7
    <3>5. Cardinality(Call) * Over = all
      BY <1>7, <3>4
    <3>6. o + Over <= all /\ Room = Most + all /\ spent + held <= cap + o
      BY <3>2, <3>3, <3>4, <3>5 DEF Room, MoneyInv
    <3>7. held >= Estimate
      BY <1>8, <1>9
    <3>8. db.committed + cost <= Most + all
      <4>1. PICK e \in Int : e = held
        BY DEF RecoveryTypeOK
      <4>2. e >= Estimate /\ spent + e <= cap + o
        BY <3>6, <3>7, <4>1
      <4> QED BY <1>7, <1>9, <3>6, <4>2
    <3> QED BY <3>6, <3>8
  <2> QED BY <2>1, <2>2
<1>12. cap + (db.committed + cost) - (spent + cost) <= Most
  BY <1>7, <1>9
<1>13. liability' <= db'.committed + Estimate * (d - 1)
  BY <1>7, <1>8, <1>9
<1>14. held' = Estimate * (h - 1)
  BY <1>8, <1>9
<1> QED BY <1>6, <1>10, <1>11, <1>12, <1>13, <1>14 DEF RowMoneyInv

LEMMA RowMoneyStill ==
  ASSUME RowMoneyInv, writes' = writes, db'.rows = db.rows, db'.committed = db.committed,
         liability' = liability,
         Live' => Live /\ attempt' = attempt /\ cap' = cap /\ spent' = spent /\ held' = held
  PROVE  RowMoneyInv'
<1>1. \A r : RowsOf(db, r)' = RowsOf(db, r)
  BY DEF RowsOf
<1>2. HeldRows(db)' = HeldRows(db) /\ InDoubt' = InDoubt
  BY <1>1 DEF HeldRows, InDoubt, Superseded
<1>3. Live' => HeldNow' = HeldNow
  BY <1>2 DEF HeldNow
<1>4. Room' = Room /\ Most' = Most
  BY DEF Room, Most, Over
<1> QED BY <1>2, <1>3, <1>4 DEF RowMoneyInv

LEMMA RowMoneyCall ==
  ASSUME RecoveryAssumption, IInv, RecoveryTypeOK, RowsInv, MoneyInv, RowMoneyInv, writes = "rows",
         NEW c \in Call, CallStep(c)
  PROVE  RowMoneyInv'
<1>1. /\ phase = "pipeline" /\ phase' = phase /\ attempt' = attempt /\ cap' = cap /\ writes' = writes
      /\ Live /\ Live'
  BY DEF CallStep, CacheHit, Refuse, LeaveOut, Reserve, Send, Acknowledge, Complete, FailCall, OrphanCall,
         Running, Others, Live
<1>2. CASE CacheHit(c) \/ Refuse(c) \/ LeaveOut(c)
  <2>1. db' = db /\ UNCHANGED <<spent, held, liability>>
    BY <1>2 DEF CacheHit, Refuse, LeaveOut
  <2> QED BY <1>1, <2>1, RowMoneyStill
<1>3. CASE Reserve(c)
  BY <1>3, RowMoneyReserve
<1>4. PICK own : own = OwnRow(c)
  OBVIOUS
<1>5. CallId(c) = own /\ own[2] = attempt
  BY <1>4 DEF CallId, OwnRow
<1>6. /\ Estimate \in Nat /\ Estimate > 0 /\ liability \in Int /\ db.committed \in Nat /\ spent \in Nat
      /\ held \in Int
  BY DEF RecoveryAssumption, RecoveryTypeOK
<1>7. ASSUME call[c] \in InFlight
      PROVE  /\ own \in HeldNow /\ own \in DOMAIN db.rows /\ own \in RowsOf(db, c)
             /\ db.rows[own].state = RowState[call[c]]
             /\ {own} \subseteq RowsOf(db, c) /\ own \in {own}
  BY <1>1, <1>4, <1>5, <1>7, OwnRowHolds DEF HeldNow, HeldRows, RowsInv, OwnRowsFollow
<1>8. CASE Send(c)
  <2>1. call[c] = "reserved" /\ call[c] \in InFlight
    BY <1>8 DEF Send, Running, InFlight
  <2>2. MovesRows({own}, "SENT") /\ "SENT" \in State /\ "SENT" \in NonTerminalState /\ "SENT" \in Doubtful
    BY <1>5, <1>8, SendEffect DEF State, NonTerminalState, Doubtful
  <2>3. ~Superseded(own) /\ HeldNow' = HeldNow \union {own} /\ InDoubt' = InDoubt \union {own}
    BY <1>1, <1>4, <1>7, <2>1, <2>2, DoubtMoves
  <2>4. HeldNow' = HeldNow
    BY <1>7, <2>1, <2>3
  <2>5. own \notin InDoubt
    BY <1>7, <2>1, <2>3 DEF InDoubt, Doubtful, RowState
  <2>6. IsFiniteSet(InDoubt) /\ Cardinality(InDoubt) \in Nat
    BY CountsOfRows
  <2>7. PICK doubt : doubt = InDoubt
    OBVIOUS
  <2>8. Cardinality(InDoubt') = Cardinality(InDoubt) + 1
    BY <2>3, <2>5, <2>6, <2>7, FS_AddElement
  <2>9. Estimate * (Cardinality(InDoubt) + 1) = Estimate * Cardinality(InDoubt) + Estimate
        /\ Estimate * Cardinality(InDoubt) \in Nat
    BY <1>6, <2>6
  <2>10. spent' = spent /\ held' = held /\ liability' = liability + Estimate
    BY <1>8 DEF Send
  <2>11. db'.committed = db.committed /\ Room' = Room /\ Most' = Most
    BY <1>8, QuietCall DEF Room, Most, Over
  <2>12. /\ held = Estimate * Cardinality(HeldNow)
         /\ cap + db.committed - spent <= Most \/ (cap = 0 /\ spent = 0 /\ held = 0)
         /\ db.committed <= Room
         /\ liability <= db.committed + Estimate * Cardinality(InDoubt)
    BY <1>1 DEF RowMoneyInv
  <2>13. liability' <= db'.committed + Estimate * Cardinality(InDoubt')
    BY <1>6, <2>8, <2>9, <2>10, <2>11, <2>12
  <2>14. held' = Estimate * Cardinality(HeldNow') /\ db'.committed <= Room'
    BY <2>4, <2>10, <2>11, <2>12
  <2>15. cap' + db'.committed - spent' <= Most' \/ (cap' = 0 /\ spent' = 0 /\ held' = 0)
    BY <1>1, <2>10, <2>11, <2>12
  <2> QED BY <2>13, <2>14, <2>15 DEF RowMoneyInv
<1>9. ASSUME NEW s \in {"ACKNOWLEDGED", "ORPHANED"}, call[c] = "sent", MovesRows({own}, s),
             db'.committed = db.committed, UNCHANGED <<spent, held, liability>>
      PROVE  RowMoneyInv'
  <2>1. call[c] \in InFlight /\ s \in State /\ s \in NonTerminalState /\ s \in Doubtful
    BY <1>9 DEF InFlight, State, NonTerminalState, Doubtful
  <2>2. HeldNow' = HeldNow \union {own} /\ InDoubt' = InDoubt \union {own}
    BY <1>1, <1>4, <1>7, <1>9, <2>1, DoubtMoves
  <2>3. own \in HeldNow /\ own \in InDoubt
    BY <1>7, <1>9, <2>1 DEF InDoubt, Doubtful, RowState
  <2>4. HeldNow' = HeldNow /\ InDoubt' = InDoubt
    BY <2>2, <2>3
  <2>5. Room' = Room /\ Most' = Most
    BY DEF Room, Most, Over
  <2> QED BY <1>1, <1>9, <2>4, <2>5 DEF RowMoneyInv
<1>10. CASE Acknowledge(c)
  <2>1. MovesRows({own}, "ACKNOWLEDGED") /\ call[c] = "sent" /\ UNCHANGED <<spent, held, liability>>
    BY <1>5, <1>10, AcknowledgeEffect DEF Acknowledge, Running
  <2>2. db'.committed = db.committed
    BY <1>10, QuietCall
  <2> QED BY <1>9, <2>1, <2>2
<1>11. CASE OrphanCall(c)
  <2>1. MovesRows({own}, "ORPHANED") /\ call[c] = "sent" /\ UNCHANGED <<spent, held, liability>>
    BY <1>5, <1>11, OrphanEffect DEF OrphanCall, Running
  <2>2. db'.committed = db.committed
    BY <1>11, QuietCall
  <2> QED BY <1>9, <2>1, <2>2
<1>12. ASSUME call[c] \in {"sent", "acknowledged"}
       PROVE  own \in InDoubt /\ call[c] \in InFlight
  BY <1>7, <1>12 DEF InDoubt, Doubtful, RowState, InFlight
<1>13. CASE FailCall(c)
  <2>1. MovesRows({own}, "FAILED") /\ call[c] = "sent"
    BY <1>5, <1>13, FailEffect DEF FailCall, Running
  <2>2. "FAILED" \in State /\ "FAILED" \notin NonTerminalState /\ "FAILED" \notin Doubtful
    BY DEF State, NonTerminalState, Doubtful
  <2>3. HeldNow' = HeldNow \ {own} /\ InDoubt' = InDoubt \ {own}
    BY <1>1, <1>4, <1>7, <1>12, <2>1, <2>2, DoubtMoves
  <2>4. /\ spent' = spent + 0 /\ held' = held - Estimate /\ liability' = liability + 0 - Estimate
        /\ db'.committed = db.committed + 0
    BY <1>6, <1>13, QuietCall DEF FailCall
  <2>5. own \in HeldNow /\ own \in InDoubt
    BY <1>7, <1>12, <2>1
  <2>6. 0 \in Nat /\ 0 <= Estimate + Over
    BY <1>6, Bounds
  <2> QED BY <1>1, <2>3, <2>4, <2>5, <2>6, RowMoneyLess
<1>14. ASSUME NEW actual \in Costs, Complete(c, actual) PROVE RowMoneyInv'
  <2>1. MovesRows(RowsOf(db, c), "COMPLETED") /\ call[c] \in {"sent", "acknowledged"}
    BY <1>14, CompleteEffect DEF Complete, Running
  <2>2. "COMPLETED" \in State /\ "COMPLETED" \notin NonTerminalState /\ "COMPLETED" \notin Doubtful
    BY DEF State, NonTerminalState, Doubtful
  <2>3. PICK ids : ids = RowsOf(db, c)
    OBVIOUS
  <2>4. own \in ids /\ ids \subseteq RowsOf(db, c) /\ MovesRows(ids, "COMPLETED")
    BY <1>7, <1>12, <2>1, <2>3
  <2>5. HeldNow' = HeldNow \ {own} /\ InDoubt' = InDoubt \ {own}
    BY <1>1, <1>4, <1>7, <1>12, <2>1, <2>2, <2>4, DoubtMoves
  <2>6. /\ spent' = spent + actual /\ held' = held - Estimate /\ liability' = liability + actual - Estimate
        /\ db'.committed = db.committed + actual
    BY <1>14, CompleteEffect DEF Complete
  <2>7. own \in HeldNow /\ own \in InDoubt
    BY <1>7, <1>12, <2>1
  <2>8. actual \in Nat /\ actual <= Estimate + Over
    BY Bounds DEF RecoveryAssumption
  <2>9. Done < Cardinality(Call)
    <3>1. Calls("done") \in SUBSET Call /\ Calls("done") # Call
      BY <2>1 DEF Calls
    <3>2. PICK calls : calls = Calls("done")
      OBVIOUS
    <3>3. IsFiniteSet(Call) /\ Cardinality(Call) \in Nat /\ Cardinality(calls) \in Nat
      BY <3>2, CallsCount, Bounds DEF RecoveryAssumption
    <3>4. Cardinality(calls) <= Cardinality(Call) /\ Cardinality(calls) # Cardinality(Call)
      BY <3>1, <3>2, <3>3, FS_Subset
    <3> QED BY <3>2, <3>3, <3>4 DEF Done
  <2> QED BY <1>1, <2>5, <2>6, <2>7, <2>8, <2>9, RowMoneyLess
<1> QED
  BY <1>2, <1>3, <1>8, <1>10, <1>11, <1>13, <1>14 DEF CallStep

LEMMA RowMoneyStep ==
  ASSUME RecoveryAssumption, IInv, RecoveryTypeOK, RowsInv, MoneyInv, RowMoneyInv, [Next]_vars
  PROVE  RowMoneyInv'
<1>1. ASSUME NEW c \in Call, CallStep(c) PROVE RowMoneyInv'
  <2>1. CASE writes = "rows"
    BY <1>1, <2>1, RowMoneyCall
  <2>2. CASE writes # "rows"
    <3>1. writes' = writes
      BY <1>1 DEF CallStep, CacheHit, Refuse, LeaveOut, Reserve, Send, Acknowledge, Complete, FailCall,
                  OrphanCall, Others
    <3> QED BY <2>2, <3>1 DEF RowMoneyInv
  <2> QED BY <2>1, <2>2
<1>2. ASSUME UNCHANGED <<db, writes, liability>>, Live' => Live /\ UNCHANGED <<attempt, cap, spent, held>>
      PROVE  RowMoneyInv'
  BY <1>2, RowMoneyStill
<1>3. ASSUME NEW c \in Call, Persist(c) PROVE RowMoneyInv'
  <2>1. db'.rows = db.rows /\ db'.committed = db.committed
    BY <1>3, PersistEffect
  <2> QED BY <1>3, <2>1, RowMoneyStill DEF Persist, mem, Live
<1>4. CASE PipelineReturns
  BY <1>2, <1>4 DEF PipelineReturns, mem, Live
<1>5. CASE PersistFails \/ UpdateCompletion \/ RefuseResume \/ Crash
  BY <1>2, <1>5 DEF PersistFails, UpdateCompletion, RefuseResume, Crash, Exit, Live
<1>6. CASE Finish
  BY <1>2, <1>6 DEF Finish, Exit, mem, Live
<1>7. CASE InsertRunning \/ Reindex \/ UNCHANGED vars
  BY <1>2, <1>7 DEF InsertRunning, Reindex, mem, vars, Live
<1>8. CASE Resume
  BY <1>2, <1>8 DEF Resume, Live
<1>9. ASSUME NEW id \in DOMAIN db.rows, ReleaseRow(id) PROVE RowMoneyInv'
  <2>1. writes = "rows" /\ phase = "releasing" /\ phase' = phase /\ writes' = writes /\ liability' = liability
        /\ db.rows[id].state = "RESERVED"
    BY <1>9 DEF RowsInv, ReleaseRow, ReleaseAndFail
  <2>2. PICK rows : rows = db.rows
    OBVIOUS
  <2>3. PICK moved : moved = WithState(rows, {id}, "FAILED")
    OBVIOUS
  <2>4. db'.rows = moved /\ db'.committed = db.committed
    BY <1>9, <2>2, <2>3, ReleaseEffect
  <2>5. \A i \in DOMAIN rows : rows[i] \in Row
    BY <2>2 DEF RowsInv
  <2>6. "FAILED" \in State
    BY DEF State
  <2>7. /\ DOMAIN moved = DOMAIN rows
        /\ \A i \in DOMAIN rows : /\ i \in {id} => moved[i].state = "FAILED"
                                  /\ i \notin {id} => moved[i] = rows[i]
    BY <2>3, <2>5, <2>6, StatesMove
  <2>8. \A r : RowsOf(db, r)' = RowsOf(db, r)
    BY <2>2, <2>4, <2>7 DEF RowsOf
  <2>9. \A i : Superseded(i)' <=> Superseded(i)
    BY <2>8 DEF Superseded
  <2>10. InDoubt' = InDoubt
    BY <2>1, <2>2, <2>4, <2>7, <2>9 DEF InDoubt, Doubtful
  <2>11. Room' = Room /\ ~Live'
    BY <2>1 DEF Room, Most, Over, Live
  <2> QED BY <2>1, <2>4, <2>10, <2>11 DEF RowMoneyInv
<1>10. CASE Continue
  <2>1. /\ UNCHANGED <<db, writes, attempt, liability>> /\ phase = "releasing" /\ phase' = "pipeline"
        /\ spent' = 0 /\ held' = 0
    BY <1>10 DEF Continue, Rehydrate, Released
  <2>2. PICK budget \in Caps : cap' = IF db.committed < budget THEN budget - db.committed ELSE 0
    BY <1>10 DEF Continue
  <2>3. budget \in Nat /\ budget <= Most /\ Most \in Nat /\ db.committed \in Nat /\ Estimate \in Nat
    BY Bounds DEF RecoveryAssumption, RecoveryTypeOK
  <2>4. cap' + db.committed - 0 <= Most \/ (cap' = 0 /\ spent' = 0 /\ held' = 0)
    BY <2>1, <2>2, <2>3
  <2>5. HeldNow' = {}
    BY <2>1 DEF RowsInv, HeldNow, HeldRows, RecoveryTypeOK
  <2>6. held' = Estimate * Cardinality(HeldNow')
    BY <2>1, <2>3, <2>5, FS_EmptySet
  <2>7. InDoubt' = InDoubt /\ Room' = Room /\ Most' = Most
    BY <2>1 DEF InDoubt, Superseded, RowsOf, Room, Most, Over
  <2> QED BY <2>1, <2>4, <2>6, <2>7 DEF RowMoneyInv
<1> QED
  BY <1>1, <1>3, <1>4, <1>5, <1>6, <1>7, <1>8, <1>9, <1>10 DEF Next, Work

LEMMA RowMoneyInit == RecoveryAssumption /\ Init => RowMoneyInv
<1> SUFFICES ASSUME RecoveryAssumption, Init PROVE RowMoneyInv
  OBVIOUS
<1>1. DOMAIN db.rows = {} /\ db.committed = 0
  BY DEF Init, EmptyTables
<1>2. HeldNow = {} /\ InDoubt = {}
  BY <1>1 DEF HeldNow, HeldRows, InDoubt
<1>3. cap \in Nat /\ cap <= Most /\ Room \in Nat /\ Estimate \in Nat /\ spent = 0 /\ held = 0 /\ liability = 0
  BY Bounds DEF Init, RecoveryAssumption
<1>4. Estimate * Cardinality(HeldNow) = 0 /\ Estimate * Cardinality(InDoubt) = 0
  BY <1>2, <1>3, FS_EmptySet
<1>5. cap + db.committed - spent <= Most
  BY <1>1, <1>3
<1> QED BY <1>1, <1>3, <1>4, <1>5 DEF RowMoneyInv

\* Beside what a running process holds, the doubtful rows are abandoned ones.
LEMMA DoubtIsHeldOrAbandoned ==
  ASSUME RecoveryAssumption, RecoveryTypeOK, RowsInv
  PROVE  /\ Abandoned \in SUBSET (DOMAIN db.rows)
         /\ IF phase \in {"down", "releasing"} THEN InDoubt \subseteq Abandoned
            ELSE InDoubt \subseteq Abandoned \union HeldNow
<1>1. Abandoned \in SUBSET (DOMAIN db.rows)
  BY DEF Abandoned
<1>2. Doubtful \subseteq NonTerminalState
  BY DEF Doubtful, NonTerminalState
<1>3. \A id \in DOMAIN db.rows : id[2] \in Nat /\ id[2] <= attempt
  BY DEF RowsInv, RecoveryTypeOK
<1>4. \A id \in DOMAIN db.rows : Superseded(id) => id[2] < attempt
  BY <1>3 DEF Superseded, RowsOf, RecoveryTypeOK
<1>5. \A id \in InDoubt : id \in DOMAIN db.rows /\ (id \in HeldRows(db) \/ Superseded(id))
  BY <1>2 DEF InDoubt, HeldRows
<1>6. CASE phase \in {"down", "releasing"}
  BY <1>1, <1>5, <1>6 DEF Abandoned, Superseded
<1>7. CASE phase \notin {"down", "releasing"}
  <2>1. ASSUME NEW id \in InDoubt PROVE id \in Abandoned \union HeldNow
    <3>1. CASE id[2] < attempt
      BY <1>5, <3>1 DEF Abandoned, Superseded
    <3>2. CASE ~(id[2] < attempt)
      <4>1. id[2] = attempt /\ id \in HeldRows(db)
        BY <1>3, <1>4, <1>5, <3>2 DEF RecoveryTypeOK
      <4> QED BY <4>1 DEF HeldNow
    <3> QED BY <3>1, <3>2
  <2> QED BY <1>1, <1>7, <2>1
<1> QED BY <1>6, <1>7

LEMMA RowsBound ==
  ASSUME RecoveryAssumption, RecoveryTypeOK, RowsInv, MoneyInv, RowMoneyInv, writes = "rows"
  PROVE  liability <= Room + Amounts(db, Abandoned)
<1>1. Abandoned \in SUBSET (DOMAIN db.rows)
  BY DoubtIsHeldOrAbandoned
<1>2. IsFiniteSet(Abandoned) /\ \A id \in Abandoned : id \in DOMAIN db.rows /\ db.rows[id] \in Row
  BY <1>1, RowsFinite DEF RowsInv
<1>3. PICK tables : tables = db
  OBVIOUS
<1>4. PICK left : left = Abandoned
  OBVIOUS
<1>5. Estimate \in Nat /\ Estimate \in Int
  BY DEF RecoveryAssumption
<1>6. Amounts(tables, left) = Estimate * Cardinality(left)
  BY <1>2, <1>3, <1>4, <1>5, AmountsCount
<1>7. IsFiniteSet(left) /\ Cardinality(left) \in Nat
  BY <1>2, <1>4, FS_CardinalityType
<1>8. PICK now : now = HeldNow
  OBVIOUS
<1>9. PICK doubt : doubt = InDoubt
  OBVIOUS
<1>10. /\ IsFiniteSet(now) /\ Cardinality(now) \in Nat
       /\ IsFiniteSet(doubt) /\ Cardinality(doubt) \in Nat
  BY <1>8, <1>9, CountsOfRows
<1>11. db.committed <= Room /\ liability <= db.committed + Estimate * Cardinality(doubt)
  BY <1>9 DEF RowMoneyInv
<1>12. Room \in Nat /\ liability \in Int /\ db.committed \in Nat /\ cap \in Nat /\ spent \in Nat /\ Most \in Nat
  BY Bounds DEF RecoveryTypeOK
<1>13. CASE phase \in {"down", "releasing"}
  <2>1. doubt \in SUBSET left
    BY <1>4, <1>9, <1>13, DoubtIsHeldOrAbandoned
  <2>2. Cardinality(doubt) <= Cardinality(left)
    BY <1>7, <2>1, FS_Subset
  <2>3. Estimate * Cardinality(doubt) <= Estimate * Cardinality(left) /\ Estimate * Cardinality(left) \in Nat
        /\ Estimate * Cardinality(doubt) \in Nat
    BY <1>5, <1>7, <1>10, <2>2, Times
  <2>4. liability <= Room + Estimate * Cardinality(left)
    BY <1>11, <1>12, <2>3
  <2> QED BY <1>3, <1>4, <1>6, <2>4
<1>14. CASE phase \notin {"down", "releasing"}
  <2>1. doubt \in SUBSET (left \union now)
    BY <1>4, <1>8, <1>9, <1>14, DoubtIsHeldOrAbandoned
  <2>2. /\ IsFiniteSet(left \union now)
        /\ Cardinality(left \union now) = Cardinality(left) + Cardinality(now) - Cardinality(left \cap now)
    BY <1>7, <1>10, FS_Union
  <2>3. Cardinality(left \cap now) \in Nat /\ Cardinality(doubt) <= Cardinality(left \union now)
    BY <1>7, <2>1, <2>2, FS_Intersection, FS_CardinalityType, FS_Subset
  <2>4. Cardinality(doubt) <= Cardinality(left) + Cardinality(now)
    BY <1>7, <1>10, <2>2, <2>3
  <2>5. /\ Estimate * Cardinality(doubt) <= Estimate * (Cardinality(left) + Cardinality(now))
        /\ Estimate * (Cardinality(left) + Cardinality(now))
             = Estimate * Cardinality(left) + Estimate * Cardinality(now)
        /\ Estimate * Cardinality(left) \in Nat /\ Estimate * Cardinality(doubt) \in Nat
        /\ Estimate * Cardinality(now) \in Nat
    <3>1. PICK l \in Nat : l = Cardinality(left)
      BY <1>7
    <3>2. PICK n \in Nat : n = Cardinality(now)
      BY <1>10
    <3>3. PICK d \in Nat : d = Cardinality(doubt)
      BY <1>10
    <3>4. d <= l + n
      BY <2>4, <3>1, <3>2, <3>3
    <3>5. Estimate * d <= Estimate * (l + n)
      BY <1>5, <3>4, Times
    <3>6. Estimate * (l + n) = Estimate * l + Estimate * n
      BY <1>5
    <3> QED BY <1>5, <3>1, <3>2, <3>3, <3>5, <3>6
  <2>6. Live
    BY <1>14 DEF Live, RecoveryTypeOK
  <2>7. held = Estimate * Cardinality(now)
        /\ (cap + db.committed - spent <= Most \/ (cap = 0 /\ spent = 0 /\ held = 0))
    BY <1>8, <2>6 DEF RowMoneyInv
  <2>8. db.committed + held <= Room
    <3>1. CASE cap = 0 /\ spent = 0 /\ held = 0
      BY <1>11, <1>12, <3>1
    <3>2. CASE cap + db.committed - spent <= Most
      <4>1. PICK o \in Int : o = Over * Done
        BY WithinRoom
      <4>2. PICK all \in Int : all = Cardinality(Call) * Over
        BY Bounds
      <4>3. spent + held <= cap + o /\ o <= all /\ Room = Most + all
        BY <4>1, <4>2, WithinRoom DEF MoneyInv, Room
      <4>4. held \in Int
        BY DEF RecoveryTypeOK
      <4> QED BY <1>12, <3>2, <4>3, <4>4
    <3> QED BY <2>7, <3>1, <3>2
  <2>9. liability <= Room + Estimate * Cardinality(left)
    BY <1>11, <1>12, <2>5, <2>7, <2>8
  <2> QED BY <1>3, <1>4, <1>6, <2>9
<1> QED BY <1>13, <1>14

LEMMA MoneyInvariance ==
  ASSUME RecoveryAssumption PROVE Spec => [](RecoveryTypeOK /\ RowsInv /\ MoneyInv /\ RowMoneyInv)
<1>1. Init => MoneyInv /\ RowMoneyInv
  BY MoneyInit, RowMoneyInit
<1>2. IInv /\ RecoveryTypeOK /\ RowsInv /\ MoneyInv /\ RowMoneyInv /\ [Next]_vars => (MoneyInv /\ RowMoneyInv)'
  BY MoneyStep, RowMoneyStep
<1> QED BY <1>1, <1>2, TablesInvariance, PTL DEF Spec

(***************************************************************************)
(* What the provider may have billed over all attempts: one cap, the       *)
(* overruns and the abandoned rows where rows are written, and a cap for   *)
(* every attempt where they are not.                                       *)
(***************************************************************************)
THEOREM LiabilityIsBounded == ASSUME RecoveryAssumption PROVE Spec => []LiabilityBound
<1>1. RecoveryTypeOK /\ RowsInv /\ MoneyInv /\ RowMoneyInv => LiabilityBound
  <2> SUFFICES ASSUME RecoveryTypeOK, RowsInv, MoneyInv, RowMoneyInv PROVE LiabilityBound
    OBVIOUS
  <2>1. Max(Caps) + Overrun = Room
    BY Bounds
  <2>2. CASE writes = "rows"
    <3>1. liability <= Room + Amounts(db, Abandoned)
      BY <2>2, RowsBound
    <3> QED BY <2>1, <2>2, <3>1 DEF LiabilityBound
  <2>3. CASE writes # "rows"
    <3>1. liability <= attempt * Room
      BY EventsBound
    <3> QED BY <2>1, <2>3, <3>1 DEF LiabilityBound
  <2> QED BY <2>2, <2>3
<1> QED BY <1>1, MoneyInvariance, PTL

---------------------------------------------------------------------------
(* The events of a call, and what Spend finds in them *)

EventType == {"BUDGET_RESERVED", "CALL_STARTED", "CALL_REQUEST_ID", "CALL_COMPLETED", "BUDGET_RELEASED",
              "CALL_ORPHANED"}

Entry(id) == [type : EventType, id : {id}, amount : Nat]

HasStart(events) == \E i \in 1..Len(events) : events[i].type = "CALL_STARTED"

\* Only what was started is completed.
WellFormed(id, events) ==
  /\ events \in Seq(Entry(id))
  /\ \A i \in 1..Len(events) :
       events[i].type = "CALL_COMPLETED" => \E j \in 1..(i - 1) : events[j].type = "CALL_STARTED"

StartsOnce(events) ==
  \A i, j \in 1..Len(events) :
    events[i].type = "CALL_STARTED" /\ events[j].type = "CALL_STARTED" => i = j

LEMMA NoEvents ==
  ASSUME NEW id
  PROVE  WellFormed(id, <<>>) /\ StartsOnce(<<>>) /\ ~HasStart(<<>>)
BY DEF WellFormed, StartsOnce, HasStart

LEMMA AppendParts ==
  ASSUME NEW id, NEW events \in Seq(Entry(id)), NEW e \in Entry(id), NEW longer, longer = Append(events, e)
  PROVE  /\ longer \in Seq(Entry(id)) /\ Len(longer) = Len(events) + 1 /\ Len(events) \in Nat
         /\ \A i \in 1..Len(events) : longer[i] = events[i]
         /\ longer[Len(events) + 1] = e
OBVIOUS

LEMMA EventAppended ==
  ASSUME NEW id, NEW events, WellFormed(id, events), NEW e \in Entry(id), NEW longer, longer = Append(events, e),
         e.type = "CALL_COMPLETED" => HasStart(events)
  PROVE  /\ WellFormed(id, longer)
         /\ HasStart(longer) <=> HasStart(events) \/ e.type = "CALL_STARTED"
         /\ StartsOnce(events) /\ (e.type = "CALL_STARTED" => ~HasStart(events)) => StartsOnce(longer)
<1>1. events \in Seq(Entry(id))
  BY DEF WellFormed
<1>2. /\ longer \in Seq(Entry(id)) /\ Len(longer) = Len(events) + 1 /\ Len(events) \in Nat
      /\ \A i \in 1..Len(events) : longer[i] = events[i]
      /\ longer[Len(events) + 1] = e
  BY <1>1, AppendParts
<1>3. PICK n \in Nat : n = Len(events)
  BY <1>2
<1>4. \A i \in 1..Len(longer) : (i \in 1..n /\ longer[i] = events[i]) \/ (i = n + 1 /\ longer[i] = e)
  BY <1>2, <1>3
<1>5. ASSUME NEW i \in 1..Len(longer), longer[i].type = "CALL_COMPLETED"
      PROVE  \E j \in 1..(i - 1) : longer[j].type = "CALL_STARTED"
  <2>1. CASE i \in 1..n /\ longer[i] = events[i]
    <3>1. PICK j \in 1..(i - 1) : events[j].type = "CALL_STARTED"
      BY <1>3, <1>5, <2>1 DEF WellFormed
    <3>2. longer[j] = events[j]
      BY <1>2, <1>3, <2>1
    <3> QED BY <3>1, <3>2
  <2>2. CASE i = n + 1 /\ longer[i] = e
    <3>1. PICK j \in 1..n : events[j].type = "CALL_STARTED"
      BY <1>3, <1>5, <2>2 DEF HasStart
    <3>2. longer[j] = events[j] /\ j \in 1..(i - 1)
      BY <1>2, <1>3, <2>2
    <3> QED BY <3>1, <3>2
  <2> QED BY <1>4, <2>1, <2>2
<1>6. HasStart(longer) <=> HasStart(events) \/ e.type = "CALL_STARTED"
  BY <1>2, <1>3, <1>4 DEF HasStart
<1>7. StartsOnce(events) /\ (e.type = "CALL_STARTED" => ~HasStart(events)) => StartsOnce(longer)
  BY <1>2, <1>3, <1>4 DEF HasStart, StartsOnce
<1> QED BY <1>2, <1>5, <1>6, <1>7 DEF WellFormed

---------------------------------------------------------------------------
Counting == INSTANCE FoldLemmas WITH Op <- AddCompleted

LEMMA SpendIsFold ==
  ASSUME NEW events PROVE SpendOf(events) = Counting!SequenceFold(0, events)
BY DEF SpendOf, FoldLeft, MapThenFoldSet, Max, Counting!SequenceFold, Counting!FoldLeft,
       Counting!MapThenFoldSet, Counting!Max

LEMMA SpendOfNone == SpendOf(<<>>) = 0
<1>1. PICK none : none = <<>>
  OBVIOUS
<1>2. PICK n \in Nat : n = 0
  OBVIOUS
<1>3. DOMAIN none = 1..n
  BY <1>1, <1>2
<1>4. PICK g : Counting!InTurn(g, 0, none, n) /\ Counting!SequenceFold(0, none) = g[n]
  BY <1>3, Counting!SequenceFoldUnfolds
<1> QED BY <1>1, <1>2, <1>4, SpendIsFold DEF Counting!InTurn

LEMMA SpendOfMore ==
  ASSUME NEW id, NEW events \in Seq(Entry(id)), NEW e \in Entry(id), NEW longer, longer = Append(events, e)
  PROVE  SpendOf(longer) = AddCompleted(SpendOf(events), e)
<1>1. /\ longer \in Seq(Entry(id)) /\ Len(longer) = Len(events) + 1 /\ Len(events) \in Nat
      /\ \A i \in 1..Len(events) : longer[i] = events[i]
      /\ longer[Len(events) + 1] = e
  BY AppendParts
<1>2. PICK n \in Nat : n = Len(events)
  BY <1>1
<1>3. DOMAIN events = 1..n /\ DOMAIN longer = 1..(n + 1) /\ \A i \in 1..n : longer[i] = events[i]
  BY <1>1, <1>2
<1>4. Counting!SequenceFold(0, longer) = AddCompleted(Counting!SequenceFold(0, events), longer[n + 1])
  BY <1>3, Counting!SequenceFoldAppend
<1> QED BY <1>1, <1>2, <1>4, SpendIsFold

LEMMA SpendOfNat ==
  ASSUME NEW id, NEW events \in Seq(Entry(id))
  PROVE  SpendOf(events) \in Nat
<1> DEFINE G == Nat
<1>1. PICK n \in Nat : DOMAIN events = 1..n
  OBVIOUS
<1>2. \A i \in 1..n : events[i].amount \in Nat
  <2>1. \A i \in 1..n : events[i] \in Entry(id)
    BY <1>1
  <2> QED BY <2>1 DEF Entry
<1>3. \A acc \in G, i \in 1..n : AddCompleted(acc, events[i]) \in G
  BY <1>2 DEF AddCompleted
<1>4. 0 \in G
  OBVIOUS
<1> HIDE DEF G
<1>5. Counting!SequenceFold(0, events) \in G
  BY <1>1, <1>3, <1>4, Counting!SequenceFoldKeeps
<1> QED BY <1>5, SpendIsFold DEF G

---------------------------------------------------------------------------
SpendIn(entries) == SumFunction([id \in DOMAIN entries |-> SpendOf(entries[id])])

LEMMA SumIsTotal ==
  ASSUME NEW f, NEW S, IsFiniteSet(S)
  PROVE  /\ Adding!Adds /\ Adding!IsFiniteSet(S) /\ SumFunctionOnSet(f, S) = Adding!Total(f, S)
<1>1. Adding!Adds
  BY DEF Adding!Adds, Plus
<1>2. Adding!IsFiniteSet(S)
  BY DEF IsFiniteSet, Adding!IsFiniteSet
<1>3. SumFunctionOnSet(f, S) = Adding!Total(f, S)
  BY DEF SumFunctionOnSet, FoldFunctionOnSet, MapThenFoldSet, Adding!Total, Adding!SetFold,
         Adding!Step, Adding!FoldFunctionOnSet, Adding!MapThenFoldSet, Plus
<1> QED BY <1>1, <1>2, <1>3

LEMMA SpendInTotal ==
  ASSUME NEW entries, IsFiniteSet(DOMAIN entries), NEW f, f = [id \in DOMAIN entries |-> SpendOf(entries[id])]
  PROVE  SpendIn(entries) = Adding!Total(f, DOMAIN entries)
<1>1. DOMAIN f = DOMAIN entries
  OBVIOUS
<1>2. SumFunctionOnSet(f, DOMAIN entries) = Adding!Total(f, DOMAIN entries)
  BY SumIsTotal
<1> QED BY <1>1, <1>2 DEF SpendIn, SumFunction

\* The sum follows the one call whose events grow.
LEMMA SpendGrows ==
  ASSUME NEW entries, IsFiniteSet(DOMAIN entries), \A i \in DOMAIN entries : SpendOf(entries[i]) \in Int,
         NEW id, NEW events, NEW more \in Int,
         SpendOf(events) = more + IF id \in DOMAIN entries THEN SpendOf(entries[id]) ELSE 0
  PROVE  SpendIn(InsertRow(entries, id, events)) = SpendIn(entries) + more
<1>1. PICK D : D = DOMAIN entries
  OBVIOUS
<1>2. PICK f : f = [i \in D |-> SpendOf(entries[i])]
  OBVIOUS
<1>3. PICK grown : grown = InsertRow(entries, id, events)
  OBVIOUS
<1>4. /\ DOMAIN grown = D \union {id} /\ grown[id] = events
      /\ \A i \in D : i # id => grown[i] = entries[i]
  BY <1>1, <1>3 DEF InsertRow
<1>5. PICK g : g = [i \in DOMAIN grown |-> SpendOf(grown[i])]
  OBVIOUS
<1>6. IsFiniteSet(D) /\ IsFiniteSet(D \union {id}) /\ IsFiniteSet(D \ {id})
  BY <1>1, FS_AddElement, FS_RemoveElement
<1>7. SpendIn(entries) = Adding!Total(f, D)
  BY <1>1, <1>2, <1>6, SpendInTotal
<1>8. SpendIn(grown) = Adding!Total(g, D \union {id})
  BY <1>4, <1>5, <1>6, SpendInTotal
<1>9. \A i \in D \ {id} : f[i] \in Int /\ g[i] = f[i]
  BY <1>1, <1>2, <1>4, <1>5
<1>10. g[id] = SpendOf(events)
  BY <1>4, <1>5
<1>11. PICK rest : rest = D \ {id}
  OBVIOUS
<1>12. IsFiniteSet(rest) /\ id \notin rest /\ rest \union {id} = D \union {id}
  BY <1>6, <1>11
<1>13. Adding!Adds /\ Adding!IsFiniteSet(rest)
  BY <1>12, SumIsTotal
<1>14. g[id] \in Int
  <2>1. CASE id \in D
    BY <1>1, <1>10, <2>1
  <2>2. CASE id \notin D
    BY <1>1, <1>10, <2>2
  <2> QED BY <2>1, <2>2
<1>15. \A i \in rest : f[i] \in Int /\ g[i] = f[i]
  BY <1>9, <1>11
<1>16. Adding!Total(g, rest) = Adding!Total(f, rest) /\ Adding!Total(f, rest) \in Int
  BY <1>13, <1>15, Adding!TotalSame, Adding!TotalInt
<1>17. \A i \in rest \union {id} : g[i] \in Int
  BY <1>14, <1>15
<1>18. Adding!Total(g, rest \union {id}) = g[id] + Adding!Total(g, rest)
  BY <1>12, <1>13, <1>17, Adding!TotalAdd
<1>19. CASE id \in D
  <2>1. \A i \in D : f[i] \in Int
    BY <1>1, <1>2
  <2>2. Adding!IsFiniteSet(D)
    BY <1>6, SumIsTotal
  <2>3. Adding!Total(f, D) = f[id] + Adding!Total(f, D \ {id})
    BY <1>13, <1>19, <2>1, <2>2, Adding!TotalRemove
  <2>4. f[id] \in Int /\ g[id] = more + f[id]
    BY <1>1, <1>2, <1>10, <1>19
  <2>5. Adding!Total(g, D \union {id}) = (more + f[id]) + Adding!Total(f, rest)
    BY <1>12, <1>16, <1>18, <2>4
  <2>6. PICK r \in Int : r = Adding!Total(f, rest)
    BY <1>16
  <2>7. Adding!Total(f, D) = f[id] + r /\ Adding!Total(g, D \union {id}) = (more + f[id]) + r
    BY <1>11, <2>3, <2>5, <2>6
  <2> QED BY <1>3, <1>7, <1>8, <2>4, <2>6, <2>7
<1>20. CASE id \notin D
  <2>1. rest = D /\ g[id] = more
    BY <1>1, <1>10, <1>11, <1>20
  <2>2. PICK r \in Int : r = Adding!Total(f, D)
    BY <1>16, <2>1
  <2>3. Adding!Total(g, D \union {id}) = more + r
    BY <1>12, <1>16, <1>18, <2>1, <2>2
  <2> QED BY <1>3, <1>7, <1>8, <2>2, <2>3
<1> QED BY <1>19, <1>20

---------------------------------------------------------------------------
(* The log follows the calls of the process that runs. *)

Started(id) == HasStart(EventsOf(db, id))

LogInv ==
  /\ DOMAIN db.log \subseteq Call \X (0..attempt)
  /\ \A id \in DOMAIN db.log : WellFormed(id, db.log[id])
  /\ phase = "pipeline" => \A c \in Call : call[c] \in {"sent", "acknowledged"} => Started(CallId(c))
  /\ writes = "rows" =>
       /\ \A id \in DOMAIN db.log : StartsOnce(db.log[id])
       /\ phase = "releasing" => \A id \in DOMAIN db.log : id[2] < attempt
       /\ phase = "pipeline" => \A c \in Call : call[c] \in {"idle", "reserved"} => ~Started(OwnRow(c))
       /\ db.committed = Spend(db)

LEMMA SpendIsIn == Spend(db) = SpendIn(db.log) /\ Spend(db)' = SpendIn(db'.log)
BY DEF Spend, SpendIn

LEMMA LogFinite ==
  ASSUME RecoveryAssumption, RecoveryTypeOK, LogInv
  PROVE  IsFiniteSet(DOMAIN db.log) /\ \A id \in DOMAIN db.log : SpendOf(db.log[id]) \in Nat
<1>1. IsFiniteSet(0..attempt) /\ IsFiniteSet(Call)
  BY FS_Interval DEF RecoveryTypeOK, RecoveryAssumption
<1>2. IsFiniteSet(Call \X (0..attempt))
  BY <1>1, FS_Product
<1>3. DOMAIN db.log \in SUBSET (Call \X (0..attempt))
  BY DEF LogInv
<1>4. IsFiniteSet(DOMAIN db.log)
  BY <1>2, <1>3, FS_Subset
<1>5. ASSUME NEW id \in DOMAIN db.log PROVE SpendOf(db.log[id]) \in Nat
  <2>1. PICK events : events = db.log[id]
    OBVIOUS
  <2>2. events \in Seq(Entry(id))
    BY <2>1 DEF LogInv, WellFormed
  <2> QED BY <2>1, <2>2, SpendOfNat
<1> QED BY <1>4, <1>5

\* What one more event of a call makes of the log.
LEMMA LogGrows ==
  ASSUME RecoveryAssumption, RecoveryTypeOK, LogInv, NEW c \in Call, NEW id, id = CallId(c),
         NEW type \in EventType, NEW n \in Nat, Logs(c, type, n),
         type = "CALL_COMPLETED" => Started(id)
  PROVE  /\ DOMAIN db'.log = DOMAIN db.log \union {id}
         /\ \A i \in DOMAIN db'.log : WellFormed(i, db'.log[i])
         /\ \A i : i # id => EventsOf(db, i)' = EventsOf(db, i)
         /\ Started(id)' <=> Started(id) \/ type = "CALL_STARTED"
         /\ (\A i \in DOMAIN db.log : StartsOnce(db.log[i])) /\ (type = "CALL_STARTED" => ~Started(id))
              => \A i \in DOMAIN db'.log : StartsOnce(db'.log[i])
         /\ Spend(db)' = Spend(db) + IF type = "CALL_COMPLETED" THEN n ELSE 0
<1>1. PICK entries : entries = db.log
  OBVIOUS
<1>2. PICK old : old = EventsOf(db, id)
  OBVIOUS
<1>3. PICK e : e = Event(type, id, n)
  OBVIOUS
<1>4. PICK longer : longer = Append(old, e)
  OBVIOUS
<1>5. db'.log = InsertRow(entries, id, longer)
  BY <1>1, <1>2, <1>3, <1>4 DEF Logs
<1>6. /\ DOMAIN db'.log = DOMAIN entries \union {id} /\ db'.log[id] = longer
      /\ \A i \in DOMAIN entries : i # id => db'.log[i] = entries[i]
  BY <1>5 DEF InsertRow
<1>7. id \in DOMAIN entries => old = entries[id]
  BY <1>1, <1>2 DEF EventsOf
<1>8. id \notin DOMAIN entries => old = <<>>
  BY <1>1, <1>2 DEF EventsOf
<1>9. WellFormed(id, old)
  <2>1. CASE id \in DOMAIN entries
    BY <1>1, <1>7, <2>1 DEF LogInv
  <2>2. CASE id \notin DOMAIN entries
    BY <1>8, <2>2, NoEvents
  <2> QED BY <2>1, <2>2
<1>10. e \in Entry(id) /\ e.type = type /\ e.amount = n
  BY <1>3 DEF Event, Entry
<1>11. HasStart(old) <=> Started(id)
  BY <1>2 DEF Started
<1>12. e.type = "CALL_COMPLETED" => HasStart(old)
  BY <1>10, <1>11
<1>13. /\ WellFormed(id, longer)
       /\ HasStart(longer) <=> HasStart(old) \/ e.type = "CALL_STARTED"
       /\ StartsOnce(old) /\ (e.type = "CALL_STARTED" => ~HasStart(old)) => StartsOnce(longer)
  BY <1>4, <1>9, <1>10, <1>12, EventAppended
<1>14. EventsOf(db, id)' = longer /\ \A i : i # id => EventsOf(db, i)' = EventsOf(db, i)
  BY <1>1, <1>6 DEF EventsOf
<1>15. \A i \in DOMAIN db'.log : WellFormed(i, db'.log[i])
  BY <1>1, <1>6, <1>13 DEF LogInv
<1>16. Started(id)' <=> Started(id) \/ type = "CALL_STARTED"
  BY <1>10, <1>11, <1>13, <1>14 DEF Started
<1>17. ASSUME \A i \in DOMAIN db.log : StartsOnce(db.log[i]), type = "CALL_STARTED" => ~Started(id)
       PROVE  \A i \in DOMAIN db'.log : StartsOnce(db'.log[i])
  <2>1. StartsOnce(old)
    <3>1. CASE id \in DOMAIN entries
      BY <1>1, <1>7, <1>17, <3>1
    <3>2. CASE id \notin DOMAIN entries
      BY <1>8, <3>2, NoEvents
    <3> QED BY <3>1, <3>2
  <2>2. StartsOnce(longer)
    BY <1>10, <1>11, <1>13, <1>17, <2>1
  <2> QED BY <1>1, <1>6, <1>17, <2>2
<1>18. Spend(db)' = Spend(db) + IF type = "CALL_COMPLETED" THEN n ELSE 0
  <2>1. PICK more \in Nat : more = IF type = "CALL_COMPLETED" THEN n ELSE 0
    OBVIOUS
  <2>2. old \in Seq(Entry(id))
    BY <1>9 DEF WellFormed
  <2>3. SpendOf(longer) = AddCompleted(SpendOf(old), e) /\ SpendOf(old) \in Nat
    BY <1>4, <1>10, <2>2, SpendOfMore, SpendOfNat
  <2>4. SpendOf(longer) = more + SpendOf(old)
    BY <1>10, <2>1, <2>3 DEF AddCompleted
  <2>5. SpendOf(old) = IF id \in DOMAIN entries THEN SpendOf(entries[id]) ELSE 0
    BY <1>7, <1>8, SpendOfNone
  <2>6. IsFiniteSet(DOMAIN entries) /\ \A i \in DOMAIN entries : SpendOf(entries[i]) \in Int
    BY <1>1, LogFinite
  <2>7. SpendOf(longer) = more + IF id \in DOMAIN entries THEN SpendOf(entries[id]) ELSE 0
    BY <2>4, <2>5
  <2>8. SpendIn(InsertRow(entries, id, longer)) = SpendIn(entries) + more
    <3>1. IsFiniteSet(DOMAIN entries)
      BY <2>6
    <3>2. \A i \in DOMAIN entries : SpendOf(entries[i]) \in Int
      BY <2>6
    <3>3. more \in Int
      OBVIOUS
    <3> QED BY <2>7, <3>1, <3>2, <3>3, SpendGrows, Zenon
  <2> QED BY <1>1, <1>5, <2>1, <2>8, SpendIsIn
<1> QED BY <1>1, <1>6, <1>14, <1>15, <1>16, <1>17, <1>18

LEMMA LogStill ==
  ASSUME LogInv, db'.log = db.log, db'.committed = db.committed, writes' = writes, attempt' = attempt,
         phase' = "pipeline" => phase = "pipeline" /\ call' = call,
         phase' = "releasing" => phase = "releasing"
  PROVE  LogInv'
<1>1. Spend(db)' = Spend(db)
  BY SpendIsIn
<1>2. \A id : EventsOf(db, id)' = EventsOf(db, id)
  BY DEF EventsOf
<1>3. \A id : Started(id)' <=> Started(id)
  BY <1>2 DEF Started
<1>4. \A c : CallId(c)' = CallId(c) /\ OwnRow(c)' = OwnRow(c)
  BY DEF CallId, OwnRow
<1> QED BY <1>1, <1>3, <1>4 DEF LogInv

\* A step of a call that logs an event of that call.
LEMMA LogCall ==
  ASSUME RecoveryAssumption, RecoveryTypeOK, LogInv, phase = "pipeline", call \in [Call -> CallPhase],
         UNCHANGED <<writes, attempt, phase>>,
         NEW c \in Call, NEW t, call' = [call EXCEPT ![c] = t],
         NEW type \in EventType, NEW n \in Nat, Logs(c, type, n),
         type = "CALL_COMPLETED" => Started(CallId(c)) /\ t = "done",
         type = "CALL_STARTED" => call[c] = "reserved" /\ t = "sent",
         t \in {"sent", "acknowledged"} => type = "CALL_STARTED" \/ call[c] = "sent",
         t \in {"idle", "reserved"} => type # "CALL_STARTED" /\ call[c] = "idle",
         writes = "rows" => db'.committed = db.committed + IF type = "CALL_COMPLETED" THEN n ELSE 0
  PROVE  LogInv'
<1>1. PICK id : id = CallId(c)
  OBVIOUS
<1>2. /\ DOMAIN db'.log = DOMAIN db.log \union {id}
      /\ \A i \in DOMAIN db'.log : WellFormed(i, db'.log[i])
      /\ \A i : i # id => EventsOf(db, i)' = EventsOf(db, i)
      /\ Started(id)' <=> Started(id) \/ type = "CALL_STARTED"
      /\ (\A i \in DOMAIN db.log : StartsOnce(db.log[i])) /\ (type = "CALL_STARTED" => ~Started(id))
           => \A i \in DOMAIN db'.log : StartsOnce(db'.log[i])
      /\ Spend(db)' = Spend(db) + IF type = "CALL_COMPLETED" THEN n ELSE 0
  BY <1>1, LogGrows
<1>3. id \in Call \X (0..attempt)
  BY <1>1 DEF CallId, RecoveryTypeOK
<1>4. \A d \in Call : CallId(d)' = CallId(d) /\ OwnRow(d)' = OwnRow(d)
  BY DEF CallId, OwnRow
<1>5. \A d \in Call : d # c => CallId(d) # id /\ OwnRow(d) # id
  BY <1>1 DEF CallId, OwnRow
<1>6. \A i : i # id => (Started(i)' <=> Started(i))
  BY <1>2 DEF Started
<1>7. \A d \in Call : d # c => call'[d] = call[d]
  OBVIOUS
<1>8. call'[c] = t
  OBVIOUS
<1>9. \A d \in Call : call'[d] \in {"sent", "acknowledged"} => Started(CallId(d))'
  <2> SUFFICES ASSUME NEW d \in Call, call'[d] \in {"sent", "acknowledged"} PROVE Started(CallId(d))'
    OBVIOUS
  <2>1. CASE d = c
    <3>1. Started(id)'
      BY <1>1, <1>2, <1>8, <2>1 DEF LogInv
    <3>2. CallId(d)' = id
      BY <1>1, <1>4, <2>1
    <3> QED BY <3>1, <3>2
  <2>2. CASE d # c
    <3>1. Started(CallId(d))
      BY <1>7, <2>2 DEF LogInv
    <3>2. PICK i : i = CallId(d)
      OBVIOUS
    <3>3. Started(i)' /\ CallId(d)' = i
      BY <1>4, <1>5, <1>6, <2>2, <3>1, <3>2
    <3> QED BY <3>3
  <2> QED BY <2>1, <2>2
<1>10. ASSUME writes = "rows"
       PROVE  /\ \A i \in DOMAIN db'.log : StartsOnce(db'.log[i])
              /\ \A d \in Call : call'[d] \in {"idle", "reserved"} => ~Started(OwnRow(d))'
              /\ db'.committed = Spend(db)'
  <2>1. id = OwnRow(c)
    BY <1>1, <1>10 DEF CallId, OwnRow
  <2>2. type = "CALL_STARTED" => ~Started(id)
    BY <1>10, <2>1 DEF LogInv
  <2>3. \A i \in DOMAIN db'.log : StartsOnce(db'.log[i])
    BY <1>2, <1>10, <2>2 DEF LogInv
  <2>4. ASSUME NEW d \in Call, call'[d] \in {"idle", "reserved"} PROVE ~Started(OwnRow(d))'
    <3>1. CASE d = c
      <4>1. ~Started(id) /\ type # "CALL_STARTED"
        BY <1>8, <1>10, <2>1, <2>4, <3>1 DEF LogInv
      <4>2. ~Started(id)' /\ OwnRow(d)' = id
        BY <1>2, <1>4, <2>1, <3>1, <4>1
      <4> QED BY <4>2
    <3>2. CASE d # c
      <4>1. ~Started(OwnRow(d))
        BY <1>7, <1>10, <2>4, <3>2 DEF LogInv
      <4>2. PICK i : i = OwnRow(d)
        OBVIOUS
      <4>3. ~Started(i)' /\ OwnRow(d)' = i
        BY <1>4, <1>5, <1>6, <3>2, <4>1, <4>2
      <4> QED BY <4>3
    <3> QED BY <3>1, <3>2
  <2>5. db'.committed = Spend(db)'
    BY <1>2, <1>10 DEF LogInv
  <2> QED BY <2>3, <2>4, <2>5
<1>11. phase' = "pipeline"
  OBVIOUS
<1>12. DOMAIN db'.log \subseteq Call \X (0..attempt')
  BY <1>2, <1>3 DEF LogInv
<1> QED
  BY <1>2, <1>9, <1>10, <1>11, <1>12 DEF LogInv

LEMMA LogOfCall ==
  ASSUME RecoveryAssumption, IInv, RecoveryTypeOK, LogInv, NEW c \in Call, CallStep(c)
  PROVE  LogInv'
<1>1. /\ phase = "pipeline" /\ UNCHANGED <<writes, attempt, phase>> /\ call \in [Call -> CallPhase]
      /\ Estimate \in Nat /\ 0 \in Nat
  BY DEF CallStep, CacheHit, Refuse, LeaveOut, Reserve, Send, Acknowledge, Complete, FailCall, OrphanCall,
         Running, Others, IInv, Shapes, RecoveryAssumption
<1>2. CASE CacheHit(c) \/ Refuse(c) \/ LeaveOut(c)
  <2>1. db' = db
    BY <1>2 DEF CacheHit, Refuse, LeaveOut
  <2>2. PICK t \in {"done", "refused"} : call' = [call EXCEPT ![c] = t]
    BY <1>2 DEF CacheHit, Refuse, LeaveOut, Move
  <2>3. \A d \in Call : call'[d] = call[d] \/ call'[d] \in {"done", "refused"}
    BY <1>1, <2>2
  <2>4. Spend(db)' = Spend(db) /\ \A id : EventsOf(db, id)' = EventsOf(db, id)
    BY <2>1, SpendIsIn DEF EventsOf
  <2>5. \A id : Started(id)' <=> Started(id)
    BY <2>4 DEF Started
  <2>6. \A d : CallId(d)' = CallId(d) /\ OwnRow(d)' = OwnRow(d)
    BY <1>1 DEF CallId, OwnRow
  <2> QED BY <1>1, <2>1, <2>3, <2>4, <2>5, <2>6 DEF LogInv
<1>3. ASSUME NEW type \in EventType \ {"CALL_COMPLETED"}, NEW n \in Nat, Logs(c, type, n),
             db'.committed = db.committed, NEW t, call' = [call EXCEPT ![c] = t],
             type = "CALL_STARTED" => call[c] = "reserved" /\ t = "sent",
             t \in {"sent", "acknowledged"} => type = "CALL_STARTED" \/ call[c] = "sent",
             t \in {"idle", "reserved"} => type # "CALL_STARTED" /\ call[c] = "idle"
      PROVE  LogInv'
  <2>1. type \in EventType /\ type # "CALL_COMPLETED"
    OBVIOUS
  <2>2. db'.committed = db.committed + IF type = "CALL_COMPLETED" THEN n ELSE 0
    BY <1>3, <2>1 DEF RecoveryTypeOK
  <2> QED BY <1>1, <1>3, <2>1, <2>2, LogCall
<1>4. CASE Reserve(c)
  <2>1. Logs(c, "BUDGET_RESERVED", Estimate) /\ "BUDGET_RESERVED" \in EventType \ {"CALL_COMPLETED"}
    BY <1>4, ReserveEffect DEF EventType
  <2>2. db'.committed = db.committed
    BY <1>4, QuietCall
  <2>3. call' = [call EXCEPT ![c] = "reserved"] /\ call[c] = "idle"
    BY <1>4 DEF Reserve, Move, Running
  <2> QED BY <1>1, <2>1, <2>2, <2>3, <1>3
<1>5. CASE Send(c)
  <2>1. Logs(c, "CALL_STARTED", Estimate) /\ "CALL_STARTED" \in EventType \ {"CALL_COMPLETED"}
    BY <1>5, SendEffect DEF EventType
  <2>2. db'.committed = db.committed
    BY <1>5, QuietCall
  <2>3. call' = [call EXCEPT ![c] = "sent"] /\ call[c] = "reserved"
    BY <1>5 DEF Send, Move, Running
  <2> QED BY <1>1, <2>1, <2>2, <2>3, <1>3
<1>6. CASE Acknowledge(c)
  <2>1. Logs(c, "CALL_REQUEST_ID", 0) /\ "CALL_REQUEST_ID" \in EventType \ {"CALL_COMPLETED"}
    BY <1>6, AcknowledgeEffect DEF EventType
  <2>2. db'.committed = db.committed
    BY <1>6, QuietCall
  <2>3. call' = [call EXCEPT ![c] = "acknowledged"] /\ call[c] = "sent"
    BY <1>6 DEF Acknowledge, Move, Running
  <2> QED BY <1>1, <2>1, <2>2, <2>3, <1>3
<1>7. CASE FailCall(c)
  <2>1. Logs(c, "BUDGET_RELEASED", Estimate) /\ "BUDGET_RELEASED" \in EventType \ {"CALL_COMPLETED"}
    BY <1>7, FailEffect DEF EventType
  <2>2. db'.committed = db.committed
    BY <1>7, QuietCall
  <2>3. call' = [call EXCEPT ![c] = "skipped"]
    BY <1>7 DEF FailCall, Move
  <2> QED BY <1>1, <2>1, <2>2, <2>3, <1>3
<1>8. CASE OrphanCall(c)
  <2>1. Logs(c, "CALL_ORPHANED", Estimate) /\ "CALL_ORPHANED" \in EventType \ {"CALL_COMPLETED"}
    BY <1>8, OrphanEffect DEF EventType
  <2>2. db'.committed = db.committed
    BY <1>8, QuietCall
  <2>3. call' = [call EXCEPT ![c] = "skipped"]
    BY <1>8 DEF OrphanCall, Move
  <2> QED BY <1>1, <2>1, <2>2, <2>3, <1>3
<1>9. ASSUME NEW actual \in Costs, Complete(c, actual) PROVE LogInv'
  <2>1. Logs(c, "CALL_COMPLETED", actual) /\ "CALL_COMPLETED" \in EventType /\ actual \in Nat
    BY <1>9, CompleteEffect DEF EventType, RecoveryAssumption
  <2>2. writes = "rows" => db'.committed = db.committed + actual
    BY <1>9, CompleteEffect
  <2>3. call' = [call EXCEPT ![c] = "done"] /\ call[c] \in {"sent", "acknowledged"}
    BY <1>9 DEF Complete, Move, Running
  <2>4. Started(CallId(c))
    BY <1>1, <2>3 DEF LogInv
  <2> QED BY <1>1, <2>1, <2>2, <2>3, <2>4, LogCall
<1> QED
  BY <1>2, <1>4, <1>5, <1>6, <1>7, <1>8, <1>9 DEF CallStep

LEMMA LogStep ==
  ASSUME RecoveryAssumption, IInv, RecoveryTypeOK, LogInv, [Next]_vars
  PROVE  LogInv'
<1>1. attempt \in Nat
  BY DEF RecoveryTypeOK
<1>2. ASSUME NEW c \in Call, CallStep(c) PROVE LogInv'
  BY <1>2, LogOfCall
<1>3. ASSUME NEW c \in Call, Persist(c) PROVE LogInv'
  <2>1. db'.log = db.log /\ db'.committed = db.committed
    BY <1>3, PersistEffect
  <2> QED BY <1>3, <2>1, LogStill DEF Persist
<1>4. CASE PipelineReturns \/ Finish
  BY <1>4, LogStill DEF PipelineReturns, Finish, Exit
<1>5. CASE PersistFails \/ UpdateCompletion \/ Crash \/ RefuseResume
  BY <1>5, LogStill DEF PersistFails, UpdateCompletion, Crash, RefuseResume, Exit
<1>6. CASE InsertRunning \/ Reindex \/ UNCHANGED vars
  BY <1>6, LogStill DEF InsertRunning, Reindex, vars, mem
<1>7. CASE Resume
  <2>1. /\ db' = db /\ writes' = writes /\ attempt' = attempt + 1 /\ phase' = "releasing"
    BY <1>7 DEF Resume
  <2>2. DOMAIN db.log \subseteq Call \X (0..(attempt + 1))
    BY <1>1 DEF LogInv
  <2>3. \A id \in DOMAIN db.log : id[2] < attempt + 1
    BY <1>1 DEF LogInv
  <2>4. Spend(db)' = Spend(db)
    BY <2>1, SpendIsIn
  <2> QED BY <2>1, <2>2, <2>3, <2>4 DEF LogInv
<1>8. ASSUME NEW id \in DOMAIN db.rows, ReleaseRow(id) PROVE LogInv'
  <2>1. db'.log = db.log /\ db'.committed = db.committed
    BY <1>8, ReleaseEffect
  <2> QED BY <1>8, <2>1, LogStill DEF ReleaseRow
<1>9. CASE Continue
  <2>1. db' = db /\ writes' = writes /\ attempt' = attempt /\ phase = "releasing" /\ phase' = "pipeline"
        /\ call' = [c \in Call |-> "idle"]
    BY <1>9 DEF Continue, Rehydrate, Released
  <2>2. ASSUME writes = "rows", NEW c \in Call PROVE ~Started(OwnRow(c))'
    <3>1. \A id \in DOMAIN db.log : id[2] < attempt
      BY <2>1, <2>2 DEF LogInv
    <3>2. OwnRow(c)' = OwnRow(c) /\ OwnRow(c)[2] = attempt
      BY <2>1 DEF OwnRow
    <3>3. OwnRow(c) \notin DOMAIN db.log
      BY <1>1, <3>1, <3>2
    <3>4. EventsOf(db, OwnRow(c))' = <<>>
      BY <2>1, <3>2, <3>3 DEF EventsOf
    <3> QED BY <3>2, <3>4, NoEvents DEF Started
  <2>3. Spend(db)' = Spend(db)
    BY <2>1, SpendIsIn
  <2> QED BY <2>1, <2>2, <2>3 DEF LogInv
<1> QED
  BY <1>2, <1>3, <1>4, <1>5, <1>6, <1>7, <1>8, <1>9 DEF Next, Work

LEMMA SpendOfNothing ==
  ASSUME NEW entries, DOMAIN entries = {}
  PROVE  SpendIn(entries) = 0
<1>1. PICK f : f = [id \in DOMAIN entries |-> SpendOf(entries[id])]
  OBVIOUS
<1>2. IsFiniteSet(DOMAIN entries)
  BY FS_EmptySet
<1>3. SpendIn(entries) = Adding!Total(f, DOMAIN entries)
  BY <1>1, <1>2, SpendInTotal
<1> QED BY <1>3, Adding!TotalEmpty

LEMMA LogInit == RecoveryAssumption /\ Init => LogInv
<1> SUFFICES ASSUME RecoveryAssumption, Init PROVE LogInv
  OBVIOUS
<1>1. PICK entries : entries = db.log
  OBVIOUS
<1>2. DOMAIN entries = {}
  BY <1>1 DEF Init, EmptyTables
<1>3. Spend(db) = 0 /\ db.committed = 0
  BY <1>1, <1>2, SpendIsIn, SpendOfNothing DEF Init, EmptyTables
<1>4. \A id : EventsOf(db, id) = <<>>
  BY <1>1, <1>2 DEF EventsOf
<1>5. \A id : ~Started(id)
  BY <1>4, NoEvents DEF Started
<1>6. phase = "pipeline" /\ \A c \in Call : call[c] = "idle"
  BY DEF Init
<1> QED BY <1>1, <1>2, <1>3, <1>5, <1>6 DEF LogInv

LEMMA LogInvariance == ASSUME RecoveryAssumption PROVE Spec => []LogInv
<1>1. Init => LogInv
  BY LogInit
<1>2. IInv /\ RecoveryTypeOK /\ LogInv /\ [Next]_vars => LogInv'
  BY LogStep
<1> QED BY <1>1, <1>2, Invariance, RecoveryTypes, PTL DEF Spec

---------------------------------------------------------------------------
(* Replay of the events: a fold over those of one call, within one over    *)
(* the calls.                                                              *)

IsRebuilding(acc) ==
  /\ DOMAIN acc = {"db", "ok"} /\ acc.ok \in BOOLEAN
  /\ DOMAIN acc.db = Tables /\ acc.db.committed \in Int

WithTables(acc, d) == [acc EXCEPT !.db = d]

LEMMA TablesReplaced ==
  ASSUME NEW acc, IsRebuilding(acc), NEW d, DOMAIN d = Tables, d.committed \in Int
  PROVE  IsRebuilding(WithTables(acc, d)) /\ WithTables(acc, d).db = d /\ WithTables(acc, d).ok = acc.ok
BY DEF IsRebuilding, WithTables

LEMMA ReplayCases ==
  ASSUME NEW acc, NEW e
  PROVE  /\ ~acc.ok => Replay(acc, e) = acc
         /\ acc.ok => Replay(acc, e) =
              IF e.type = "CALL_STARTED"
              THEN IF e.id \in DOMAIN acc.db.rows THEN [acc EXCEPT !.ok = FALSE]
                   ELSE WithTables(acc, StartRow(acc.db, e))
              ELSE IF e.type = "CALL_REQUEST_ID" THEN WithTables(acc, SetCallState(acc.db, e.id, "ACKNOWLEDGED"))
              ELSE IF e.type = "CALL_COMPLETED" /\ e.id \in DOMAIN acc.db.rows
                   THEN WithTables(acc, CompleteRow(acc.db, e))
              ELSE acc
<1>1. ~acc.ok => Replay(acc, e) = acc
  BY DEF Replay
<1>2. ASSUME acc.ok, e.type = "CALL_STARTED", e.id \in DOMAIN acc.db.rows
      PROVE  Replay(acc, e) = [acc EXCEPT !.ok = FALSE]
  BY <1>2 DEF Replay
<1>3. ASSUME acc.ok, e.type = "CALL_STARTED", e.id \notin DOMAIN acc.db.rows
      PROVE  Replay(acc, e) = WithTables(acc, StartRow(acc.db, e))
  BY <1>3 DEF Replay, WithTables
<1>4. ASSUME acc.ok, e.type = "CALL_REQUEST_ID"
      PROVE  Replay(acc, e) = WithTables(acc, SetCallState(acc.db, e.id, "ACKNOWLEDGED"))
  BY <1>4 DEF Replay, WithTables
<1>5. ASSUME acc.ok, e.type = "CALL_COMPLETED", e.id \in DOMAIN acc.db.rows
      PROVE  Replay(acc, e) = WithTables(acc, CompleteRow(acc.db, e))
  BY <1>5 DEF Replay, WithTables
<1>6. ASSUME acc.ok, e.type \notin {"CALL_STARTED", "CALL_REQUEST_ID"},
             ~(e.type = "CALL_COMPLETED" /\ e.id \in DOMAIN acc.db.rows)
      PROVE  Replay(acc, e) = acc
  BY <1>6 DEF Replay
<1> QED BY <1>1, <1>2, <1>3, <1>4, <1>5, <1>6

LEMMA StartTables ==
  ASSUME NEW acc, IsRebuilding(acc), NEW e
  PROVE  /\ DOMAIN StartRow(acc.db, e) = Tables
         /\ StartRow(acc.db, e).committed = acc.db.committed
         /\ DOMAIN StartRow(acc.db, e).rows = DOMAIN acc.db.rows \union {e.id}
<1>1. PICK d : d = acc.db
  OBVIOUS
<1>2. DOMAIN d = Tables
  BY <1>1 DEF IsRebuilding
<1>3. PICK id : id = e.id
  OBVIOUS
<1>4. PICK n : n = e.amount
  OBVIOUS
<1>5. PICK inserted : inserted = ReserveCall(d, id, n)
  OBVIOUS
<1>6. DOMAIN inserted = Tables /\ inserted.committed = d.committed
  BY <1>2, <1>5, ReserveKeeps
<1>7. DOMAIN inserted.rows = DOMAIN d.rows \union {id}
  <2>1. PICK rows : rows = d.rows
    OBVIOUS
  <2>2. PICK row : row = [state |-> "RESERVED", amount |-> n]
    OBVIOUS
  <2>3. inserted.rows = InsertRow(rows, id, row)
    BY <1>2, <1>5, <2>1, <2>2, ReserveInserts
  <2>4. DOMAIN InsertRow(rows, id, row) = DOMAIN rows \union {id}
    BY RowInserted
  <2> QED BY <2>1, <2>3, <2>4
<1>8. DOMAIN inserted = Tables
  BY <1>6
<1>9. /\ DOMAIN SetCallState(inserted, id, "SENT") = Tables
      /\ SetCallState(inserted, id, "SENT").committed = inserted.committed
      /\ DOMAIN SetCallState(inserted, id, "SENT").rows = DOMAIN inserted.rows
  BY <1>8, StateKeeps, Zenon
<1>10. StartRow(acc.db, e) = SetCallState(inserted, id, "SENT")
  BY <1>1, <1>3, <1>4, <1>5 DEF StartRow
<1> QED BY <1>1, <1>3, <1>6, <1>7, <1>9, <1>10

LEMMA CompletionTables ==
  ASSUME NEW acc, IsRebuilding(acc), NEW e
  PROVE  /\ DOMAIN CompleteRow(acc.db, e) = Tables
         /\ CompleteRow(acc.db, e).committed = acc.db.committed + e.amount
         /\ DOMAIN CompleteRow(acc.db, e).rows = DOMAIN acc.db.rows
<1>1. PICK d : d = [acc.db EXCEPT !.committed = @ + e.amount, !.reserved = @ - acc.db.rows[e.id].amount]
  OBVIOUS
<1>2. DOMAIN acc.db = Tables
  BY DEF IsRebuilding
<1>3. DOMAIN d = Tables
  BY <1>1, <1>2
<1>4. d.committed = acc.db.committed + e.amount /\ d.rows = acc.db.rows
  BY <1>1, <1>2 DEF Tables
<1>5. PICK id : id = e.id
  OBVIOUS
<1>6. /\ DOMAIN SetCallState(d, id, "COMPLETED") = Tables
      /\ SetCallState(d, id, "COMPLETED").committed = d.committed
      /\ DOMAIN SetCallState(d, id, "COMPLETED").rows = DOMAIN d.rows
  BY <1>3, StateKeeps, Zenon
<1>7. CompleteRow(acc.db, e) = SetCallState(d, id, "COMPLETED")
  BY <1>1, <1>5 DEF CompleteRow
<1> QED BY <1>4, <1>6, <1>7

\* What one event makes of the tables.
LEMMA ReplayStep ==
  ASSUME NEW acc, IsRebuilding(acc), NEW id, NEW e \in Entry(id), NEW r, r = Replay(acc, e)
  PROVE  /\ IsRebuilding(r)
         /\ r.ok => acc.ok
         /\ r.ok => /\ r.db.committed =
                         acc.db.committed + (IF e.type = "CALL_COMPLETED" /\ id \in DOMAIN acc.db.rows
                                             THEN e.amount ELSE 0)
                    /\ DOMAIN r.db.rows =
                         DOMAIN acc.db.rows \union (IF e.type = "CALL_STARTED" THEN {id} ELSE {})
         /\ acc.ok /\ (e.type = "CALL_STARTED" => id \notin DOMAIN acc.db.rows) => r.ok
<1>1. /\ e.id = id /\ e.amount \in Nat /\ DOMAIN acc.db = Tables /\ acc.db.committed \in Int
      /\ DOMAIN acc = {"db", "ok"} /\ acc.ok \in BOOLEAN
  BY DEF Entry, IsRebuilding
<1>2. CASE ~acc.ok
  BY <1>1, <1>2, ReplayCases
<1>3. CASE acc.ok /\ e.type = "CALL_STARTED" /\ id \in DOMAIN acc.db.rows
  <2>1. r = [acc EXCEPT !.ok = FALSE]
    BY <1>1, <1>3, ReplayCases
  <2>2. IsRebuilding(r) /\ ~r.ok
    BY <1>1, <2>1 DEF IsRebuilding
  <2> QED BY <1>3, <2>2
<1>4. CASE acc.ok /\ e.type = "CALL_STARTED" /\ id \notin DOMAIN acc.db.rows
  <2>1. PICK d : d = StartRow(acc.db, e)
    OBVIOUS
  <2>2. r = WithTables(acc, d)
    BY <1>1, <1>4, <2>1, ReplayCases
  <2>3. DOMAIN d = Tables /\ d.committed = acc.db.committed /\ DOMAIN d.rows = DOMAIN acc.db.rows \union {id}
    BY <1>1, <2>1, StartTables
  <2>4. IsRebuilding(r) /\ r.db = d /\ r.ok = acc.ok
    BY <1>1, <2>2, <2>3, TablesReplaced
  <2> QED BY <1>1, <1>4, <2>3, <2>4
<1>5. CASE acc.ok /\ e.type = "CALL_REQUEST_ID"
  <2>1. PICK d : d = SetCallState(acc.db, id, "ACKNOWLEDGED")
    OBVIOUS
  <2>2. r = WithTables(acc, d)
    BY <1>1, <1>5, <2>1, ReplayCases
  <2>3. DOMAIN d = Tables /\ d.committed = acc.db.committed /\ DOMAIN d.rows = DOMAIN acc.db.rows
    BY <1>1, <2>1, StateKeeps
  <2>4. IsRebuilding(r) /\ r.db = d /\ r.ok = acc.ok
    BY <1>1, <2>2, <2>3, TablesReplaced
  <2> QED BY <1>1, <1>5, <2>3, <2>4
<1>6. CASE acc.ok /\ e.type = "CALL_COMPLETED" /\ id \in DOMAIN acc.db.rows
  <2>1. PICK d : d = CompleteRow(acc.db, e)
    OBVIOUS
  <2>2. r = WithTables(acc, d)
    BY <1>1, <1>6, <2>1, ReplayCases
  <2>3. /\ DOMAIN d = Tables /\ d.committed = acc.db.committed + e.amount
        /\ DOMAIN d.rows = DOMAIN acc.db.rows
    BY <2>1, CompletionTables
  <2>4. IsRebuilding(r) /\ r.db = d /\ r.ok = acc.ok
    BY <1>1, <2>2, <2>3, TablesReplaced
  <2> QED BY <1>1, <1>6, <2>3, <2>4
<1>7. CASE acc.ok /\ e.type \notin {"CALL_STARTED", "CALL_REQUEST_ID"}
           /\ ~(e.type = "CALL_COMPLETED" /\ id \in DOMAIN acc.db.rows)
  BY <1>1, <1>7, ReplayCases
<1> QED BY <1>2, <1>3, <1>4, <1>5, <1>6, <1>7

---------------------------------------------------------------------------
Replaying == INSTANCE FoldLemmas WITH Op <- Replay

StartedBy(events, i) == \E j \in 1..i : events[j].type = "CALL_STARTED"

\* Where the replay of a call stands: from acc to now, with what was spent so far.
Follows(acc, now, id, so_far, started, once) ==
  /\ IsRebuilding(now) /\ so_far \in Nat
  /\ now.ok => acc.ok
  /\ now.ok => /\ now.db.committed = acc.db.committed + so_far
               /\ DOMAIN now.db.rows = DOMAIN acc.db.rows \union (IF started THEN {id} ELSE {})
  /\ acc.ok /\ once => now.ok

LEMMA FollowsOn ==
  ASSUME NEW acc, IsRebuilding(acc), NEW id, id \notin DOMAIN acc.db.rows,
         NEW e \in Entry(id), NEW now, NEW so_far, NEW started \in BOOLEAN, NEW once \in BOOLEAN,
         Follows(acc, now, id, so_far, started, once),
         e.type = "CALL_COMPLETED" => started, once => (e.type = "CALL_STARTED" => ~started),
         NEW next, next = Replay(now, e), NEW further, further = AddCompleted(so_far, e),
         NEW begun, begun = (started \/ e.type = "CALL_STARTED")
  PROVE  Follows(acc, next, id, further, begun, once)
<1>1. IsRebuilding(now) /\ so_far \in Nat /\ acc.db.committed \in Int /\ e.amount \in Nat
  BY DEF Follows, IsRebuilding, Entry
<1>2. /\ IsRebuilding(next)
      /\ next.ok => now.ok
      /\ next.ok => /\ next.db.committed =
                         now.db.committed + (IF e.type = "CALL_COMPLETED" /\ id \in DOMAIN now.db.rows
                                             THEN e.amount ELSE 0)
                    /\ DOMAIN next.db.rows =
                         DOMAIN now.db.rows \union (IF e.type = "CALL_STARTED" THEN {id} ELSE {})
      /\ now.ok /\ (e.type = "CALL_STARTED" => id \notin DOMAIN now.db.rows) => next.ok
  BY <1>1, ReplayStep
<1>3. now.ok => (id \in DOMAIN now.db.rows <=> started)
  BY DEF Follows
<1>4. further = so_far + (IF e.type = "CALL_COMPLETED" THEN e.amount ELSE 0) /\ further \in Nat
  BY <1>1 DEF AddCompleted
<1>5. next.ok => /\ next.db.committed = acc.db.committed + further
                 /\ DOMAIN next.db.rows = DOMAIN acc.db.rows \union (IF begun THEN {id} ELSE {})
  <2> SUFFICES ASSUME next.ok
               PROVE  /\ next.db.committed = acc.db.committed + further
                      /\ DOMAIN next.db.rows = DOMAIN acc.db.rows \union (IF begun THEN {id} ELSE {})
    OBVIOUS
  <2>1. /\ now.ok /\ now.db.committed = acc.db.committed + so_far
        /\ DOMAIN now.db.rows = DOMAIN acc.db.rows \union (IF started THEN {id} ELSE {})
    BY <1>2 DEF Follows
  <2>2. next.db.committed = now.db.committed + (IF e.type = "CALL_COMPLETED" THEN e.amount ELSE 0)
    BY <1>2, <1>3, <2>1
  <2>3. next.db.committed = acc.db.committed + further
    BY <1>1, <1>4, <2>1, <2>2
  <2>4. DOMAIN next.db.rows = DOMAIN now.db.rows \union (IF e.type = "CALL_STARTED" THEN {id} ELSE {})
    BY <1>2
  <2> QED BY <2>1, <2>3, <2>4
<1>6. acc.ok /\ once => next.ok
  BY <1>2, <1>3 DEF Follows
<1> QED BY <1>2, <1>4, <1>5, <1>6 DEF Follows

LEMMA ReplayIsFold ==
  ASSUME NEW events, NEW acc PROVE ReplayOf(events, acc) = Replaying!SequenceFold(acc, events)
BY DEF ReplayOf, FoldLeft, MapThenFoldSet, Max, Replaying!SequenceFold, Replaying!FoldLeft,
       Replaying!MapThenFoldSet, Replaying!Max

LEMMA ReplayRun ==
  ASSUME NEW acc, IsRebuilding(acc), NEW id, id \notin DOMAIN acc.db.rows, NEW events, WellFormed(id, events),
         NEW r, r = ReplayOf(events, acc)
  PROVE  \E started \in BOOLEAN, once \in BOOLEAN :
           once = StartsOnce(events) /\ Follows(acc, r, id, SpendOf(events), started, once)
<1>1. events \in Seq(Entry(id))
  BY DEF WellFormed
<1>2. PICK n \in Nat : n = Len(events) /\ DOMAIN events = 1..n
  BY <1>1
<1>3. DOMAIN events = 1..n
  BY <1>2
<1>4. PICK g : Replaying!InTurn(g, acc, events, n) /\ Replaying!SequenceFold(acc, events) = g[n]
  BY <1>3, Replaying!SequenceFoldUnfolds
<1>5. PICK h : Counting!InTurn(h, 0, events, n) /\ Counting!SequenceFold(0, events) = h[n]
  BY <1>3, Counting!SequenceFoldUnfolds
<1>6. r = g[n] /\ SpendOf(events) = h[n]
  BY <1>4, <1>5, ReplayIsFold, SpendIsFold
<1>7. PICK once \in BOOLEAN : once = StartsOnce(events)
  BY DEF StartsOnce
<1> DEFINE Kept == {i \in Nat : i <= n => Follows(acc, g[i], id, h[i], StartedBy(events, i), once)}
<1>8. 0 \in Kept
  <2>1. g[0] = acc /\ h[0] = 0 /\ ~StartedBy(events, 0)
    BY <1>4, <1>5 DEF Replaying!InTurn, Counting!InTurn, StartedBy
  <2> QED BY <2>1 DEF Follows, IsRebuilding
<1>9. ASSUME NEW i \in Nat, i \in Kept PROVE i + 1 \in Kept
  <2> SUFFICES ASSUME i + 1 <= n
               PROVE  Follows(acc, g[i + 1], id, h[i + 1], StartedBy(events, i + 1), once)
    OBVIOUS
  <2>1. i + 1 \in 1..n /\ (i + 1) - 1 = i /\ Follows(acc, g[i], id, h[i], StartedBy(events, i), once)
    BY <1>9
  <2>2. g[i + 1] = Replay(g[i], events[i + 1]) /\ h[i + 1] = AddCompleted(h[i], events[i + 1])
    BY <1>4, <1>5, <2>1 DEF Replaying!InTurn, Counting!InTurn
  <2>3. PICK e \in Entry(id) : e = events[i + 1]
    BY <1>1, <1>3, <2>1
  <2>4. PICK started \in BOOLEAN : started = StartedBy(events, i)
    BY DEF StartedBy
  <2>5. e.type = "CALL_COMPLETED" => started
    BY <1>2, <2>1, <2>3, <2>4 DEF WellFormed, StartedBy
  <2>6. once => (e.type = "CALL_STARTED" => ~started)
    <3>1. once => StartsOnce(events)
      BY <1>7
    <3> QED BY <1>2, <2>1, <2>3, <2>4, <3>1 DEF StartsOnce, StartedBy
  <2>7. PICK begun : begun = (started \/ e.type = "CALL_STARTED")
    OBVIOUS
  <2>8. StartedBy(events, i + 1) <=> started \/ e.type = "CALL_STARTED"
    BY <2>1, <2>3, <2>4 DEF StartedBy
  <2>9. StartedBy(events, i + 1) = begun
    BY <2>7, <2>8 DEF StartedBy
  <2>10. PICK now : now = g[i]
    OBVIOUS
  <2>11. PICK so_far : so_far = h[i]
    OBVIOUS
  <2>12. PICK next : next = Replay(now, e)
    OBVIOUS
  <2>13. PICK further : further = AddCompleted(so_far, e)
    OBVIOUS
  <2>14. Follows(acc, now, id, so_far, started, once)
    BY <2>1, <2>4, <2>10, <2>11
  <2>15. Follows(acc, next, id, further, begun, once)
    BY <2>5, <2>6, <2>7, <2>12, <2>13, <2>14, FollowsOn
  <2> QED BY <2>2, <2>3, <2>9, <2>10, <2>11, <2>12, <2>13, <2>15
<1> HIDE DEF Kept
<1>10. Nat \subseteq Kept
  BY <1>8, <1>9, Counting!NatByInduction
<1>11. Follows(acc, g[n], id, h[n], StartedBy(events, n), once)
  BY <1>10 DEF Kept
<1>12. PICK started \in BOOLEAN : started = StartedBy(events, n)
  BY DEF StartedBy
<1> QED BY <1>6, <1>7, <1>11, <1>12

---------------------------------------------------------------------------
ReplayAll(acc, events) == ReplayOf(events, acc)

Collecting == INSTANCE FoldLemmas WITH Op <- ReplayAll

LEMMA RebuildIsFold ==
  ASSUME NEW d PROVE Rebuild(d) = Collecting!SetFold(Rebuilding, d.log, DOMAIN d.log)
BY DEF Rebuild, FoldFunction, FoldFunctionOnSet, MapThenFoldSet, ReplayAll, Collecting!SetFold,
       Collecting!Step, Collecting!FoldFunctionOnSet, Collecting!MapThenFoldSet

\* A rebuild that has stopped stays as it is.
LEMMA ReplayStopped ==
  ASSUME NEW acc, IsRebuilding(acc), ~acc.ok, NEW id, NEW events, WellFormed(id, events)
  PROVE  ReplayOf(events, acc) = acc
<1> DEFINE G == {acc}
<1>1. PICK n \in Nat : DOMAIN events = 1..n
  BY DEF WellFormed
<1>2. \A now \in G, i \in 1..n : Replay(now, events[i]) \in G
  BY ReplayCases
<1>3. acc \in G
  OBVIOUS
<1> HIDE DEF G
<1>4. Replaying!SequenceFold(acc, events) \in G
  BY <1>1, <1>2, <1>3, Replaying!SequenceFoldKeeps
<1> QED BY <1>4, ReplayIsFold DEF G

\* The tables after the events of the calls of a set.
Rebuilt(entries, spends, acc, ids) ==
  /\ IsRebuilding(acc)
  /\ acc.ok => acc.db.committed = Adding!Total(spends, ids) /\ DOMAIN acc.db.rows \subseteq ids
  /\ (\A id \in ids : StartsOnce(entries[id])) => acc.ok

LEMMA RebuiltFrom ==
  ASSUME NEW entries, IsFiniteSet(DOMAIN entries), \A id \in DOMAIN entries : WellFormed(id, entries[id]),
         NEW spends, spends = [id \in DOMAIN entries |-> SpendOf(entries[id])],
         NEW rest, NEW ids \in SUBSET (DOMAIN entries), NEW id \in ids, rest = ids \ {id},
         NEW acc, Rebuilt(entries, spends, acc, rest), NEW r, r = ReplayOf(entries[id], acc)
  PROVE  Rebuilt(entries, spends, r, ids)
<1>1. PICK events : events = entries[id]
  OBVIOUS
<1>2. WellFormed(id, events)
  BY <1>1
<1>3. IsRebuilding(acc)
  BY DEF Rebuilt
<1>4. CASE ~acc.ok
  <2>1. ~\A i \in rest : StartsOnce(entries[i])
    BY <1>4 DEF Rebuilt
  <2>2. ~\A i \in ids : StartsOnce(entries[i])
    BY <2>1
  <2>3. IsRebuilding(r) /\ ~r.ok
    BY <1>1, <1>2, <1>3, <1>4, ReplayStopped
  <2> QED BY <2>2, <2>3 DEF Rebuilt
<1>5. CASE acc.ok
  <2>1. acc.db.committed = Adding!Total(spends, rest) /\ DOMAIN acc.db.rows \subseteq rest
    BY <1>5 DEF Rebuilt
  <2>2. id \notin DOMAIN acc.db.rows
    BY <2>1
  <2>3. PICK started \in BOOLEAN, once \in BOOLEAN :
          once = StartsOnce(events) /\ Follows(acc, r, id, SpendOf(events), started, once)
    BY <1>1, <1>2, <1>3, <2>2, ReplayRun
  <2>4. IsRebuilding(r) /\ (acc.ok /\ once => r.ok)
    BY <2>3 DEF Follows
  <2>5. r.ok => /\ r.db.committed = acc.db.committed + SpendOf(events)
                /\ DOMAIN r.db.rows \subseteq DOMAIN acc.db.rows \union {id}
    BY <2>3 DEF Follows
  <2>6. \A i \in DOMAIN entries : spends[i] \in Int
    <3>1. ASSUME NEW i \in DOMAIN entries PROVE SpendOf(entries[i]) \in Nat
      <4>1. PICK those : those = entries[i]
        OBVIOUS
      <4>2. those \in Seq(Entry(i))
        BY <4>1 DEF WellFormed
      <4> QED BY <4>1, <4>2, SpendOfNat
    <3> QED BY <3>1
  <2>7. IsFiniteSet(ids) /\ Adding!IsFiniteSet(ids) /\ Adding!Adds
    BY FS_Subset, SumIsTotal
  <2>8. \A i \in ids : spends[i] \in Int
    BY <2>6
  <2>9. /\ Adding!Total(spends, ids) = spends[id] + Adding!Total(spends, ids \ {id})
        /\ Adding!Total(spends, ids \ {id}) \in Int
    BY <2>7, <2>8, Adding!TotalRemove
  <2>10. spends[id] = SpendOf(events) /\ spends[id] \in Int
    BY <1>1, <2>6
  <2>11. PICK total \in Int : total = Adding!Total(spends, rest)
    BY <2>9
  <2>12. r.ok => r.db.committed = Adding!Total(spends, ids)
    BY <2>1, <2>5, <2>9, <2>10, <2>11
  <2>13. r.ok => DOMAIN r.db.rows \subseteq ids
    BY <2>1, <2>5
  <2>14. (\A i \in ids : StartsOnce(entries[i])) => r.ok
    BY <1>1, <1>5, <2>3, <2>4
  <2> QED BY <2>4, <2>12, <2>13, <2>14 DEF Rebuilt
<1> QED BY <1>3, <1>4, <1>5 DEF IsRebuilding

LEMMA RebuiltAll ==
  ASSUME NEW d, NEW entries, entries = d.log, IsFiniteSet(DOMAIN entries),
         \A id \in DOMAIN entries : WellFormed(id, entries[id]),
         NEW spends, spends = [id \in DOMAIN entries |-> SpendOf(entries[id])]
  PROVE  Rebuilt(entries, spends, Rebuild(d), DOMAIN entries)
<1>1. Collecting!IsFiniteSet(DOMAIN entries)
  BY DEF IsFiniteSet, Collecting!IsFiniteSet
<1>2. PICK iter : Collecting!Accumulates(iter, Rebuilding, entries, DOMAIN entries)
                  /\ Collecting!SetFold(Rebuilding, entries, DOMAIN entries) = iter[DOMAIN entries]
  BY <1>1, Collecting!SetFoldUnfolds
<1> DEFINE G == {ids \in SUBSET DOMAIN entries : Rebuilt(entries, spends, iter[ids], ids)}
<1>3. ASSUME NEW ids \in SUBSET DOMAIN entries, \A id \in ids : ids \ {id} \in G PROVE ids \in G
  <2>1. CASE ids = {}
    <3>1. iter[ids] = Rebuilding
      BY <1>2, <2>1 DEF Collecting!Accumulates
    <3>2. Adding!Total(spends, ids) = 0
      BY <2>1, Adding!TotalEmpty
    <3>3. PICK first : first = Rebuilding
      OBVIOUS
    <3>4. IsRebuilding(first) /\ first.ok /\ first.db.committed = 0 /\ DOMAIN first.db.rows = {}
      BY <3>3 DEF IsRebuilding, Rebuilding, EmptyTables, Tables
    <3> QED BY <3>1, <3>2, <3>3, <3>4 DEF Rebuilt
  <2>2. CASE ids # {}
    <3>1. PICK id \in ids : iter[ids] = ReplayAll(iter[ids \ {id}], entries[id])
      BY <1>2, <2>2 DEF Collecting!Accumulates
    <3>2. PICK rest : rest = ids \ {id}
      OBVIOUS
    <3>3. PICK acc : acc = iter[rest]
      OBVIOUS
    <3>4. PICK r : r = ReplayOf(entries[id], acc)
      OBVIOUS
    <3>5. Rebuilt(entries, spends, acc, rest)
      BY <1>3, <3>2, <3>3
    <3>6. Rebuilt(entries, spends, r, ids)
      BY <3>2, <3>4, <3>5, RebuiltFrom
    <3>7. r = iter[ids]
      BY <3>1, <3>2, <3>3, <3>4 DEF ReplayAll
    <3> QED BY <3>6, <3>7
  <2> QED BY <2>1, <2>2
<1> HIDE DEF G
<1>4. SUBSET DOMAIN entries \subseteq G
  <2>1. PICK all : all = DOMAIN entries
    OBVIOUS
  <2>2. \A ids \in SUBSET all : (\A id \in ids : ids \ {id} \in G) => ids \in G
    BY <1>3, <2>1
  <2>3. Collecting!IsFiniteSet(all)
    BY <1>1, <2>1
  <2>4. SUBSET all \subseteq G
    BY <2>2, <2>3, Collecting!FiniteByInduction
  <2> QED BY <2>1, <2>4
<1>5. Rebuilt(entries, spends, iter[DOMAIN entries], DOMAIN entries)
  BY <1>4 DEF G
<1> QED BY <1>2, <1>5, RebuildIsFold

(***************************************************************************)
(* The log alone is enough to find the money again: rebuilding the         *)
(* projections from it finds what Spend finds, and with rows written it    *)
(* never stops at a call id it has met and finds what the budget row says. *)
(***************************************************************************)
THEOREM RebuildIsFaithful == ASSUME RecoveryAssumption PROVE Spec => []RebuildFindsSpend
<1>1. RecoveryTypeOK /\ LogInv => RebuildFindsSpend
  <2> SUFFICES ASSUME RecoveryTypeOK, LogInv PROVE RebuildFindsSpend
    OBVIOUS
  <2>1. PICK entries : entries = db.log
    OBVIOUS
  <2>2. PICK spends : spends = [id \in DOMAIN entries |-> SpendOf(entries[id])]
    OBVIOUS
  <2>3. IsFiniteSet(DOMAIN entries) /\ \A id \in DOMAIN entries : WellFormed(id, entries[id])
    BY <2>1, LogFinite DEF LogInv
  <2>4. PICK rebuilt : rebuilt = Rebuild(db)
    OBVIOUS
  <2>5. Rebuilt(entries, spends, rebuilt, DOMAIN entries)
    BY <2>1, <2>2, <2>3, <2>4, RebuiltAll
  <2>6. Spend(db) = Adding!Total(spends, DOMAIN entries)
    BY <2>1, <2>2, <2>3, SpendIsIn, SpendInTotal
  <2>7. rebuilt.ok => rebuilt.db.committed = Spend(db)
    BY <2>5, <2>6 DEF Rebuilt
  <2>8. writes = "rows" => rebuilt.ok /\ Spend(db) = db.committed
    BY <2>1, <2>5 DEF Rebuilt, LogInv
  <2> QED BY <2>4, <2>7, <2>8 DEF RebuildFindsSpend
<1> QED BY <1>1, LogInvariance, RecoveryTypes, PTL
=============================================================================
