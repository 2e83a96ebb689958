---------------------------- MODULE RunRecovery -----------------------------
(***************************************************************************)
(* arbiter run, resume and replay of one run, as far as its money, its     *)
(* answers and its depth go (main.rs, resume_replay.rs): what a process    *)
(* holds in memory (the ledger, the response cache), what it stores, when, *)
(* what the next process finds after a crash, and what a replay would make *)
(* of it.                                                                  *)
(*                                                                         *)
(* The engine's stages only append events ("events"). The store also       *)
(* offers the rows of provider_calls and budget, which no stage writes;    *)
(* how they are to be written around a call is laid down in INTERFACES 5.  *)
(* An engine that does so ("rows") is the second writer modelled, so that  *)
(* what resume makes of rows can be seen.                                  *)
(***************************************************************************)
EXTENDS CallTables

CONSTANTS
  Call,         \* the provider calls the pipeline makes, each with its own prompt
  DeepOnly,     \* those of the rounds only a deep run has
  Writers,      \* how the process records calls: {"events"}, {"rows"} or both
  Runs,         \* the runs there may be: a depth, and the panel RUN_STARTED names
  Caps,         \* what --budget may say, to arbiter run and to every resume anew
  Estimate,     \* what every call reserves
  Costs,        \* what a call can turn out to cost
  MaxAttempts   \* bound: processes that run or resume the run

Depth == {"standard", "deep"}

ASSUME RecoveryAssumption ==
  /\ Runs \subseteq [depth : Depth, panel : {"mock", "real"}]
  /\ Writers \subseteq {"events", "rows"}
  /\ IsFiniteSet(Call) /\ DeepOnly \subseteq Call
  /\ Caps \subseteq Nat /\ Caps # {} /\ IsFiniteSet(Caps) /\ Estimate \in Nat \ {0}
  /\ Costs \subseteq Nat /\ IsFiniteSet(Costs)
  /\ MaxAttempts \in Nat \ {0}

VARIABLES
  db,         \* the tables
  run,        \* which of Runs this is
  terminal,   \* RUN_COMPLETED or RUN_FAILED is in the log
  record,     \* the last decision a pipeline returned
  catalog,    \* the run's row in history.db
  writes,     \* which of Writers this engine is
  phase,      \* where the process is
  attempt,    \* how many processes have opened the run
  call,       \* what the process has done about each call
  cache,      \* ResponseCache
  cap, spent, held,  \* BudgetLedger
  depth,      \* the bounds it runs within
  liability   \* what the provider may have billed, over all attempts

mem == <<call, cache, cap, spent, held, depth>>
log == <<terminal, record>>
vars == <<db, run, log, catalog, writes, phase, attempt, mem, liability>>

InFlight == {"reserved", "sent", "acknowledged"}

Needed(d) == IF d = "deep" THEN Call ELSE Call \ DeepOnly

NoRecord == [attempt |-> 0, depth |-> "standard", answers |-> {}, limited |-> FALSE]

\* The engine's call ids name a stage and a model, so they repeat.
CallId(c) == <<c, IF writes = "rows" THEN attempt ELSE 0>>

Init ==
  /\ db = EmptyTables
  /\ run \in Runs
  /\ terminal = FALSE
  /\ record = NoRecord
  /\ catalog = "none"
  /\ writes \in Writers
  /\ phase = "pipeline"
  /\ attempt = 1
  /\ call = [c \in Call |-> "idle"]
  /\ cache = {}
  /\ cap \in Caps
  /\ spent = 0
  /\ held = 0
  /\ depth = run.depth
  /\ liability = 0

---------------------------------------------------------------------------
(* The calls of the pipeline *)

Affordable == spent + held + Estimate <= cap

Move(c, s) == call' = [call EXCEPT ![c] = s]

Running(c, s) == phase = "pipeline" /\ c \in Needed(depth) /\ call[c] = s

Others == UNCHANGED <<run, log, catalog, writes, phase, attempt, depth>>

\* ResponseCache: get, put, and what its snapshot has that the tables have not.
Cached(c) == c \in cache
CachePut(c) == cache' = cache \union {c}
Unpersisted == cache \ CacheEntries(db)

CacheHit(c) ==
  /\ Running(c, "idle")
  /\ Cached(c)
  /\ Move(c, "done")
  /\ UNCHANGED <<db, cache, cap, spent, held, liability>>
  /\ Others

Refuse(c) ==
  /\ Running(c, "idle")
  /\ ~Cached(c)
  /\ ~Affordable
  /\ Move(c, "refused")
  /\ UNCHANGED <<db, cache, cap, spent, held, liability>>
  /\ Others

\* challenge.plan leaves an exchange out when what is left does not pay for it
\* and for a judge, whether or not its answer is in the cache.
LeaveOut(c) ==
  /\ Running(c, "idle")
  /\ spent + held + 2 * Estimate > cap
  /\ Move(c, "refused")
  /\ UNCHANGED <<db, cache, cap, spent, held, liability>>
  /\ Others

\* Mutant: the cache is not looked at before money is reserved.
ReserveUncached(c) ==
  /\ Running(c, "idle")
  /\ Affordable
  /\ Move(c, "reserved")
  /\ held' = held + Estimate
  /\ db' = LET logged == AppendEvent(db, "BUDGET_RESERVED", CallId(c), Estimate)
           IN IF writes = "rows" THEN ReserveCall(logged, CallId(c), Estimate) ELSE logged
  /\ UNCHANGED <<cache, cap, spent, liability>>
  /\ Others

Reserve(c) ==
  /\ Running(c, "idle")
  /\ ~Cached(c)
  /\ Affordable
  /\ Move(c, "reserved")
  /\ held' = held + Estimate
  /\ db' = LET logged == AppendEvent(db, "BUDGET_RESERVED", CallId(c), Estimate)
           IN IF writes = "rows" THEN ReserveCall(logged, CallId(c), Estimate) ELSE logged
  /\ UNCHANGED <<cache, cap, spent, liability>>
  /\ Others

\* CALL_STARTED is stored before the request leaves.
Send(c) ==
  /\ Running(c, "reserved")
  /\ Move(c, "sent")
  /\ liability' = liability + Estimate
  /\ db' = LET logged == AppendEvent(db, "CALL_STARTED", CallId(c), Estimate)
           IN IF writes = "rows" THEN SetCallState(logged, CallId(c), "SENT") ELSE logged
  /\ UNCHANGED <<cache, cap, spent, held>>
  /\ Others

Acknowledge(c) ==
  /\ Running(c, "sent")
  /\ Move(c, "acknowledged")
  /\ db' = LET logged == AppendEvent(db, "CALL_REQUEST_ID", CallId(c), 0)
           IN IF writes = "rows" THEN SetCallState(logged, CallId(c), "ACKNOWLEDGED") ELSE logged
  /\ UNCHANGED <<cache, cap, spent, held, liability>>
  /\ Others

\* The answer is cached, the actual cost committed and the completion recorded.
Complete(c, actual) ==
  /\ Running(c, "sent") \/ Running(c, "acknowledged")
  /\ Move(c, "done")
  /\ CachePut(c)
  /\ spent' = spent + actual
  /\ held' = held - Estimate
  /\ liability' = liability + actual - Estimate
  /\ db' = LET logged == AppendEvent(db, "CALL_COMPLETED", CallId(c), actual)
           IN IF writes = "rows" THEN CommitBudget(PutCache(logged, c), c, actual) ELSE logged
  /\ UNCHANGED cap
  /\ Others

\* The provider certainly did not bill: the reservation is released.
FailCall(c) ==
  /\ Running(c, "sent")
  /\ Move(c, "skipped")
  /\ held' = held - Estimate
  /\ liability' = liability - Estimate
  /\ db' = LET logged == AppendEvent(db, "BUDGET_RELEASED", CallId(c), Estimate)
           IN IF writes = "rows" THEN ReleaseReservation(logged, c, CallId(c)) ELSE logged
  /\ UNCHANGED <<cache, cap, spent>>
  /\ Others

\* It may have billed: the reservation stays held.
OrphanCall(c) ==
  /\ Running(c, "sent")
  /\ Move(c, "skipped")
  /\ db' = LET logged == AppendEvent(db, "CALL_ORPHANED", CallId(c), Estimate)
           IN IF writes = "rows" THEN SetCallState(logged, CallId(c), "ORPHANED") ELSE logged
  /\ UNCHANGED <<cache, cap, spent, held, liability>>
  /\ Others

---------------------------------------------------------------------------
(* The end of a process *)

\* Whatever ends a process takes its memory with it.
Exit ==
  /\ phase' = "down"
  /\ call' = [c \in Call |-> "idle"]
  /\ cache' = {}
  /\ cap' = 0 /\ spent' = 0 /\ held' = 0 /\ depth' = "standard"

Answered == {c \in Needed(depth) : call[c] = "done"}

Limited == \E c \in Needed(depth) : call[c] = "refused"

\* The pipeline returns: with a decision, which its last stage has recorded, or
\* with an error of a stage.
PipelineReturns ==
  /\ phase = "pipeline"
  /\ \A c \in Call : call[c] \notin InFlight
  /\ phase' = "persisting"
  /\ \/ /\ \A c \in Needed(depth) : call[c] # "idle"
        /\ record' = [attempt |-> attempt, depth |-> depth, answers |-> Answered, limited |-> Limited]
     \/ UNCHANGED record
  /\ UNCHANGED <<db, run, terminal, catalog, writes, attempt, mem, liability>>

\* One entry of cache.snapshot(), in a transaction of its own.
Persist(c) ==
  /\ phase = "persisting"
  /\ c \in Unpersisted
  /\ db' = PutCache(db, c)
  /\ UNCHANGED <<run, log, catalog, writes, phase, attempt, mem, liability>>

\* A put that fails ends the command before its terminal event.
PersistFails ==
  /\ phase = "persisting"
  /\ Unpersisted # {}
  /\ Exit
  /\ UNCHANGED <<db, run, log, catalog, writes, attempt, liability>>

Finish ==
  /\ phase = "persisting"
  /\ Unpersisted = {}
  /\ \/ terminal' = TRUE /\ phase' = "finished" /\ UNCHANGED mem
     \/ Exit /\ UNCHANGED terminal
  /\ UNCHANGED <<db, run, record, catalog, writes, attempt, liability>>

\* The row of a run in history.db: an INSERT of a key that is there fails, an
\* UPDATE of one that is not changes nothing.
Inserted(row, status) == IF row = "none" THEN status ELSE row
Completed(row) == IF row = "none" THEN row ELSE "finished"

\* history.db is opened once RUN_STARTED is stored, and only as well as it goes.
InsertRunning ==
  /\ phase = "pipeline" /\ attempt = 1
  /\ \A c \in Call : call[c] = "idle"
  /\ catalog' = Inserted(catalog, "running")
  /\ UNCHANGED <<db, run, log, writes, phase, attempt, mem, liability>>

\* Only arbiter run holds a connection to history.db; it may have none, and the
\* update may fail unseen.
UpdateCompletion ==
  /\ phase = "finished"
  /\ \/ attempt = 1 /\ catalog' = Completed(catalog)
     \/ UNCHANGED catalog
  /\ Exit
  /\ UNCHANGED <<db, run, log, writes, attempt, liability>>

Crash ==
  /\ phase # "down"
  /\ Exit
  /\ UNCHANGED <<db, run, log, catalog, writes, attempt, liability>>

---------------------------------------------------------------------------
(* arbiter resume *)

Resume ==
  /\ phase = "down"
  /\ ~terminal
  /\ attempt < MaxAttempts
  /\ phase' = "releasing"
  /\ attempt' = attempt + 1
  /\ UNCHANGED <<db, run, log, catalog, writes, mem, liability>>

\* A transaction for each row that was reserved and never sent.
ReleaseRow(id) ==
  /\ phase = "releasing"
  /\ id \in DOMAIN db.rows
  /\ ReleaseAndFail(db.rows[id].state)
  /\ db' = ReleaseReservation(db, ReservationOf(id), id)
  /\ UNCHANGED <<run, log, catalog, writes, phase, attempt, mem, liability>>

\* The only panel resume and replay can build again is the mock; the policy and
\* the prompt pack are taken to be those of the build that ran it.
Restorable == run.panel = "mock"

\* The depth is in no event. history.db has it from the completion of the run.
ReadDepth == IF catalog = "finished" THEN run.depth ELSE "standard"

Released == phase = "releasing" /\ \A id \in DOMAIN db.rows : ~ReleaseAndFail(db.rows[id].state)

\* refuse_to_substitute_a_panel, after the run was reopened and rows released.
RefuseResume ==
  /\ Released
  /\ ~Restorable
  /\ Exit
  /\ UNCHANGED <<db, run, log, catalog, writes, attempt, liability>>

\* Mutant: the cache of a resumed run starts empty.
RehydrateNothing(d) ==
  /\ Released
  /\ Restorable
  /\ phase' = "pipeline"
  /\ call' = [c \in Call |-> "idle"]
  /\ cache' = {}
  /\ spent' = 0
  /\ held' = 0
  /\ depth' = d
  /\ UNCHANGED <<db, run, log, catalog, writes, attempt, liability>>

\* A ledger of its own and the stored answers, within the bounds of a depth.
Rehydrate(d) ==
  /\ Released
  /\ Restorable
  /\ phase' = "pipeline"
  /\ call' = [c \in Call |-> "idle"]
  /\ cache' = CacheEntries(db)
  /\ spent' = 0
  /\ held' = 0
  /\ depth' = d
  /\ UNCHANGED <<db, run, log, catalog, writes, attempt, liability>>

\* Mutant: a resumed run gets the whole cap.
ContinueFullCap ==
  /\ cap' \in Caps
  /\ Rehydrate(ReadDepth)

\* What is left of the budget it is given.
Continue ==
  /\ \E budget \in Caps : cap' = IF db.committed < budget THEN budget - db.committed ELSE 0
  /\ Rehydrate(ReadDepth)

---------------------------------------------------------------------------
(* arbiter reindex and arbiter replay *)

\* A run.db without a row in history.db gets one, whatever the run is doing;
\* insert_running then finds its key taken, and is not heard.
Reindex ==
  /\ catalog' = Inserted(catalog, "abandoned")
  /\ UNCHANGED <<db, run, log, writes, phase, attempt, mem, liability>>

\* The answers a replay begun now would find. It has no cap and no provider: a
\* call whose answer is not stored fails.
Replayed == Needed(ReadDepth) \cap CacheEntries(db)

---------------------------------------------------------------------------
CallStep(c) ==
  \/ CacheHit(c) \/ Refuse(c) \/ LeaveOut(c) \/ Reserve(c) \/ Send(c) \/ Acknowledge(c)
  \/ \E actual \in Costs : Complete(c, actual)
  \/ FailCall(c) \/ OrphanCall(c)

\* What the process does by itself.
Work ==
  \/ \E c \in Call : CallStep(c) \/ Persist(c)
  \/ PipelineReturns \/ PersistFails \/ Finish \/ UpdateCompletion
  \/ \E id \in DOMAIN db.rows : ReleaseRow(id)
  \/ Continue \/ RefuseResume

Next == Work \/ InsertRunning \/ Crash \/ Resume \/ Reindex

Spec == Init /\ [][Next]_vars

---------------------------------------------------------------------------
RecoveryTypeOK ==
  /\ run \in Runs /\ terminal \in BOOLEAN
  /\ catalog \in {"none", "running", "abandoned", "finished"}
  /\ writes \in Writers
  /\ phase \in {"pipeline", "persisting", "finished", "down", "releasing"}
  /\ attempt \in 1..MaxAttempts
  /\ call \in [Call -> InFlight \union {"idle", "done", "skipped", "refused"}]
  /\ cache \subseteq Call /\ db.cache \subseteq Call
  /\ cap \in Nat /\ db.committed \in Nat
  /\ depth \in Depth /\ record.attempt \in 0..attempt
  /\ spent \in Nat /\ held \in Int /\ liability \in Int

(***************************************************************************)
(* Exact replay: once a run has completed, the answers in cache_entries    *)
(* are those its decision was made from, no fewer and no more, whatever    *)
(* was lost or left behind by crashed attempts; replay_command says of a   *)
(* difference that it should never happen. It holds where no money was     *)
(* lacking (a replay has no cap, and leaves nothing out) and where the     *)
(* depth of the run could be read (history.db is written as well as it     *)
(* goes).                                                                  *)
(***************************************************************************)
ReplayReproduces ==
  terminal /\ record.attempt = attempt /\ ~record.limited /\ ReadDepth = record.depth
    => Replayed = record.answers

(***************************************************************************)
(* The catalogue says that a run is over only after its log says so, so    *)
(* that a depth in history.db is never that of a run resume could take up. *)
(***************************************************************************)
CatalogFollowsLog == catalog = "finished" => terminal

(***************************************************************************)
(* The check doctor makes of budget.reserved fails, with rows written as   *)
(* INTERFACES 5 lays down, only where two attempts share a reservation:    *)
(* commit_budget takes one amount off and completes the rows of both.      *)
(***************************************************************************)
LedgerDriftIsReuse ==
  LedgerHolds(db) \/ \E c \in Call : \E id, other \in RowsOf(db, c) : id # other

(***************************************************************************)
(* Rebuilding the projections from the log finds the money that Spend      *)
(* finds in it, and what the budget row said when there was one; it stops  *)
(* at a repeated call id, which only the engine's own ids are. It is asked *)
(* of a run without a process; every state can be left by a crash.         *)
(***************************************************************************)
RebuildFindsSpend ==
  phase = "down" => LET rebuilt == Rebuild(db) IN
    /\ rebuilt.ok => rebuilt.db.committed = Spend(db)
    /\ writes = "rows" => rebuilt.ok /\ rebuilt.db.committed = db.committed

\* What the calls may cost beyond their estimates.
Overrun == Cardinality(Call) * (Max(Costs \union {Estimate}) - Estimate)

\* Rows of earlier attempts whose call may have been billed and is not in a cap
\* any more: those still held, and those a later attempt of the call ended.
Abandoned ==
  {id \in DOMAIN db.rows :
     /\ id[2] < attempt \/ phase \in {"down", "releasing"}
     /\ id \in HeldRows(db) \/ \E later \in RowsOf(db, ReservationOf(id)) : id[2] < later[2]}

(***************************************************************************)
(* What the provider may have billed. With rows, resume takes off the cap  *)
(* what was committed, and only money held for calls in doubt comes on     *)
(* top of it; without them every attempt has the whole cap to itself.      *)
(***************************************************************************)
LiabilityBound ==
  IF writes = "rows"
  THEN liability <= Max(Caps) + Overrun + Amounts(db, Abandoned)
  ELSE liability <= attempt * (Max(Caps) + Overrun)

(***************************************************************************)
(* An answer that is in cache_entries is never asked for again, in any     *)
(* attempt and whatever has crashed since.                                 *)
(***************************************************************************)
StoredIsNotAskedAgain ==
  [][\A c \in Call : call[c] = "reserved" /\ call'[c] = "sent" => c \notin db.cache]_vars
=============================================================================
