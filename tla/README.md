# Arbiter in TLA+

Arbiter runs a debate between language models over a question: a panel takes
positions, claims are extracted and attack or support each other, the attacked
claims are challenged and rebutted over a few rounds, judges score, and a
decision is synthesized and recorded.  It is a Rust workspace of nine crates.
The modules here model the parts of it where the order of steps, failures,
concurrency or a model's unruly answer decide whether money is counted, a run has
one writer, its record can be trusted and replayed, and its decision follows
from its claims.  TLC checks each on a small instance; TLAPS proves the safety
properties of all of them for every instance.

Paths below leave out `crates/arbiter-`: `kernel/budget.rs` is
`src/crates/arbiter-kernel/src/budget.rs`.

## 1. The system

| part | state | operations | what is hard | module |
|---|---|---|---|---|
| budget ledger (`kernel/budget.rs`, `stages/mod.rs`) | committed cost, state of each reservation id | reserve, mark sent/acknowledged, commit, release, orphan, guard drop | up to four calls between one call's reserve and its commit; ids formatted by six stages | `BudgetLedger` |
| response cache, cancellation (`kernel/cache.rs`, `stage.rs`) | cached answers; one flag | get, put, snapshot; cancel | when each is looked at | `BudgetLedger`, `DebateRounds`, `RunRecovery`, `Server` |
| run lease (`store/lease.rs`) | the `run` row: epoch, pid, boot id, hostname | create, reopen (read, then compare and swap), release | crashes, reboots, reused pids, two processes between a read and a write | `RunLease` |
| event log (`store/events.rs`, `sqlite_store.rs`, `cli/run_handle.rs`) | `events` table; each writer's tip | seal, append, verify_chain | a tip read once; a failed transaction; a resume overtaken by another | `RunLog` |
| durable calls, budget and cache rows (`store/sqlite_store.rs`, `spend.rs`, `project.rs`, `kernel/calls.rs`) | `provider_calls`, `budget`, `cache_entries` | reserve_call, commit_budget, release_reservation, classification on resume, spend, rebuild | a reservation two attempts share; rows and events that tell the same story | `CallTables` |
| commands (`cli/main.rs`, `orchestrator.rs`, `resume_replay.rs`, `accept.rs`), catalogue (`store/history.rs`) | how far each has come; the row in history.db | run, resume, accept, replay, index | check and then act, error returns, crashes in between | `RunLog`, `RunRecovery` |
| positions (`stages/positions_generate.rs`) | none of its own | one call per model | the order of cancellation, cache, reservation and call | `BudgetLedger` |
| claim extraction (`stages/claims_extract.rs`) | per position: candidates, premises, what is still to be sorted; one repair budget | extract, sort, repair, cut, ground | answers with cycles, bad citations and self references; positions side by side | `ClaimsExtract` |
| claim stages (`claims_normalize.rs`, `options_cluster.rs`, `relations_analyze.rs`, `similarity.rs`) | claims, options, matrix, relations | group, stitch, merge, cluster, attach, pick pairs, classify | answers that overlap between batches, leave things out or cannot be used | `Similarity`, `ClaimStages` |
| round loop (`challenge_plan.rs`, `challenge_run.rs`, `rebuttal_run.rs`, `controller_decide.rs`) | claims and their lifecycle, round, exchanges | plan, challenge, rebut, decide | termination, precedence of stop reasons, versions of claims, money left for the judge | `DebateRounds`, `ArgumentGraph` |
| decision core (`core/decision/*`), explanations (`cli/explain.rs`) | none | evidence, fixpoint, standing, attachment, shares, flips, outcome, confidence, chains | ties, thresholds, flips computed by editing the graph | `ArgumentGraph`, `DecisionCore` |
| judge and synthesis (`judge_evaluate.rs`, `decision_synthesize.rs`) | none of their own | shuffle, score, synthesize | shuffled names, some judges failing | `Judgement` |
| blobs (`store/blob.rs`, `cli/maintenance.rs`) | blob files, rows that name them | put, doctor --gc | gc against a run that reopens, power failure | `BlobStore` |
| server (`cli/serve/*`) | runs in the background, cancellation tokens, event streams | start, cancel, stream, accept | the background task beside acceptances and the CLI; pages that reconnect | `Server` |
| keys, models, panels (`providers/keys.rs`, `probe.rs`, `catalogue.rs`, `cli/verify.rs`, `panel.rs`) | keychain, remembered verdicts, what a page has loaded | set, remove, test, list, pick, resolve | verdicts that outlive what they are about | `ProviderKeys` |
| comparison (`cli/serve/compare.rs`) | one bounded channel, a task per provider | resolve, spawn, stream | a handler that sends before anyone reads; a page that leaves | `Comparison` |

How they interact.  A command obtains a *writer* of the run through the lease and
keeps it until it returns.  It gives the pipeline a sink that appends every event
to the log through the writer, an in-memory ledger and cache, and one cancellation
token.  The stages follow one another: positions, claims, normalisation, options,
relations, rounds of challenge and rebuttal, judges, synthesis.  Each calls
providers concurrently, each call under a reservation of the ledger.  What a
command wrote is what the next command (resume, accept, replay, verify, doctor)
finds.  The server does what the commands do, in background tasks, and streams
the log to pages.

## 2. Modules

| module | stands for |
|---|---|
| `SpendAccount` | abstract: an account with fixed holds, each spent, freed or stranded once |
| `BudgetLedger` | the ledger and what a provider stage does with it |
| `WriteFence` | abstract: at most one writer, a fencing number that grows |
| `RunLease` | the run row under processes, crashes, reboots and reused pids |
| `RunLog` | run, resume and accept over the lease, and the chained events they write |
| `CallTables` | the statements on the tables of one run, as operators on a record |
| `RunRecovery` | run, resume, index and replay over those tables |
| `StageItems` | abstract: items worked off at most so many at a time, then output |
| `ClaimsExtract` | the stage `claims.extract` |
| `Similarity` | union-find, candidate pairs and batches, as operators |
| `ClaimStages` | normalisation, clustering, attachment and relations, in order |
| `ArgumentGraph` | the arithmetic from what became of each claim to its standing and class |
| `DebateRounds` | the rounds of challenge and rebuttal, the controller, the judges |
| `DecisionCore` | attachment, shares, flips, outcome, confidence, chains, as operators |
| `Judgement` | the last resolution, the judges' marks, synthesis |
| `BlobStore` | the writer of blobs beside the collector |
| `Server` | one run as `arbiter serve` handles it |
| `ProviderKeys` | keys, their verification, models and panels |
| `Comparison` | a comparison beside the uses of keys (extends `ProviderKeys`) |
| `FoldLemmas` | induction, folds and sums, stated so that a proof can use them |
| `BudgetLedgerProofs`, `RunRecoveryProofs`, `ServerProofs` | theorems of the module they are named after |
| `DebateProofs` | theorems of `DebateRounds`, and of `Judgement` with `DecisionCore` |
| `StoreProofs` | theorems of `RunLease`, `RunLog` and `BlobStore` |
| `ClaimsProofs` | theorems of `ClaimsExtract` and `ClaimStages` |
| `KeysProofs` | theorems of `ProviderKeys` and `Comparison` |
| `MC*`, `*.cfg` | the instances TLC checks |

Which composes which: `RunLog` extends `RunLease`; `RunRecovery` extends
`CallTables`; `DebateRounds` and `DecisionCore` extend `ArgumentGraph`, and
`Judgement` extends `DecisionCore`; `ClaimStages` extends `Similarity`;
`Comparison` extends `ProviderKeys`.  `BudgetLedger` implements `SpendAccount`,
`RunLease` and `RunLog` implement `WriteFence`, `ClaimsExtract` implements
`StageItems`.

### BudgetLedger

`calls` and `committed` are the ledger's two fields; `progress` is how far the
future of each call has run through the code between the cancellation check and
the settling of its guard (`generate_one`, and the same sequence in the other
stages).  Every method of the ledger is one critical section of its mutex and one
action here.  Provider answers are choices: an answer with any cost of
`ActualCost` (`Commit`), a refusal (`Release`), an ambiguous failure
(`MarkOrphaned`), an unregistered provider (`DropGuard`).  All reservations have
the same estimate, as the orchestrator's `CALL_COST` gives them, so the sum of
estimates is a count.

* `OverdraftBound`: what holds in place of a hard cap.  An answer may cost more
  than its estimate and `commit` does not look, but only calls in flight can.
* `RefinesAccount`: no money is counted twice, lost, or given back after it was
  stranded.
* `EveryGuardSettles` (liveness).

### RunLease

One action per SQL statement, so `reopen` is a read and a compare-and-swap with
other processes between them.  A process may die at any point without dropping
its writers; a reboot kills all processes of a machine and changes the boot id;
a later process may have the pid of an earlier one.  `PidIsAlive` asks the
process table of the asker's own machine.  It is run as part of `RunLog`.

### RunLog

The commands take the steps of the lease, and their own.  An event is named by
the handle that minted its id and its number there; the name stands for its
content hash, which the handle's tag makes unique.  `tip` is the handle's
`ChainState`, read once after the lease was granted.  Every transaction may fail
(`WritesMayFail`); `Sink::emit` notes the error and goes on, a terminal event or
an artifact returns it.  The stages in between emit events of no particular kind,
at most `MaxEvents` of them.

* `BreaksOnlyAfterLostWrite`: why the chain is intact after crashes, resumes and
  acceptances, and the one way in which it is not.
* `EpochOrdered`: a write does not look at the epoch, yet no writer's event lands
  behind one of a later owner.
* `RefinesFence`: one writer, whatever the commands do with the lease.
* `CrashedRunReopens` (liveness): a run abandoned at any step can be resumed.

### CallTables and RunRecovery

`CallTables` is the database of one run as a record (`rows`, `budget` columns,
`events`, `cache`), and each method of `SqliteTx` a function from record to
record; `Spend`, `Rebuild` and the classification of unfinished calls read it.
`RunRecovery` is the life of a run: an attempt's pipeline with its in-memory
ledger (`spent`, `held`) and response cache, the persisting of the cache after
the pipeline returned, the terminal event, the catalogue row, a crash between
any two of those, `resume` with its classification, reopened cap and
rehydrated cache, and `index`.  A transaction is one action.

The stages of the engine never write rows of `provider_calls`; they only emit
events.  What a resume does with rows is code all the same, so the run is
modelled for two writers: the engine (`"events"`), and one that writes the rows
the way `docs/INTERFACES.md` section 5 prescribes (`"rows"`).

* `ReplayReproduces`: what a replay will find is what the decision was made from.
* `StoredIsNotAskedAgain`: a resume does not pay again for a stored answer.
* `LiabilityBound`: what a provider may have billed over all attempts.
* `RebuildFindsSpend`: two readers of one log agree on the money.

### ClaimsExtract

Each position is extracted by one call into a list of candidates; `pc` is how far
its future has come, `candidates`, `premise_edges`, `remaining`, `grounded` are
its local variables, `repair_spent` the counter the positions share.  A candidate
is its kind, whether its quote occurs, and what premises it cites, valid or not.
One round of Kahn's sort is one action, so positions interleave.  Texts, the
matching of quotes and what a call does to the ledger are elsewhere or data.

* `GroundsExactly`: one pass over the layers, with repair and cutting, finds the
  least ground that any order would.
* `RepairsWithinCap`, across positions that ask at the same time.
* `RefinesItems`: each position once, no more than the permits, then output.
* `StageCompletes` (liveness), through cancellation and any cycle of premises.

### Similarity and ClaimStages

The four stages in order: batches of claims are grouped, groups over two batches
stitched, union-find merges them, positions are clustered into options, claims
attached to options, pairs chosen by similarity and opposition, and classified in
batches.  An answer is any of a few shapes -- usable, half usable, citing what is
not there, unsure -- or missing.  Similarity is a table of scores.

* `MergesConnected`: the merged claims are the components of what the model
  grouped, whatever the batches.
* `OnePositionOneOption`, `CellsAreAccountedFor`: no position is lost, and the
  matrix is what the positions and the classifier's last word say.
* `OpponentsAreCompared`: opposite claims always reach the classifier.

### ArgumentGraph and DebateRounds

`DebateRounds` is `run_pipeline` from its first `challenge.plan` to the decision.
`phase` is the stage it awaits; `claims` is what the stages of a round hand on,
`resolved` what the last resolution was made from.  A planned pair is in `pairs`,
and `item` is how far the current stage has come with each: up to `MaxParallel`
futures look at the token, then the cache, then reserve, and their calls end in
any order, answered at any of several costs, refused, or in doubt (`held`).
A prompt is named by the pair it is rendered from, since the code renders it from
the claims' original texts and the cache key has no round in it; so what a later
round asks again, the cache answers.  The money is `BudgetLedger`'s `remaining`:
its own module shows how concurrent calls keep it.

`ArgumentGraph` has the evidence of a claim, the fixpoint and the class, in whole
thousandths where the code has `f64`; it gives the rounds the standings the code
would, up to rounding.  The rounds take six sweeps instead of up to 64: over all
lifecycles and up to two revisions of the instance's claims the sixth moves no
standing by more than 5 thousandths, and fourteen more by no more than 4.

Choices where the model leaves data out: the leverage of each dispute, and with it
the part of the ranking that contested mass and evidence gap leave open, whether
the controller finds the debate converged (both depend on options), what a model
answers.  Left out: an unlimited budget (every command sets one), the lifecycles
`Verified` and `Rejected`, which nothing assigns, and the bail-out behind
`HARD_ROUND_CEILING`, which the controller's own limit makes unreachable.

* `JudgeCanPay`: what sizing challenges by money is for.
* `ContinueNeedsChange`, `CancelStops`: a round is only spent after something
  that changed, in a run that goes on.
* `DebateEnds` (liveness).

### DecisionCore and Judgement

`DecisionCore` is `decision/*` in thousandths: propagation of cells along
relations, shares of the options, what each claim would flip, the ratios, the
outcome's rules in order and the confidence; and `explain`'s chains.  `Judgement`
is the end of `run_pipeline`: the resolution handed on, the shuffle of names, each
judge heard (or not), the record.  A scorecard's nine marks are one number.

Each property compares what the code computes with a definition that goes
another way:

* `MarksMoveTheirClaims`: un-shuffling, averaging, matching and spreading, against
  what the judges read and where relations lead.
* `TriggersAreReal`: a flip found by editing evidence and dropping relations,
  against holding the claim at its extreme while the rest is solved.
* `ConvergedIsSettled`: what the controller stops for, against the outcome's rules
  and the record's triggers, which share with it the shares and the test for live dissent.
* `PropagatesNearest`: rounds of propagation, against shortest chains of relations.
* `ChainsExplainStanding`: `explain`'s sums, against the standings of the fixpoint.

### BlobStore

`entries` is what the directory shows, `synced` what a power failure leaves,
`temps` the files being written, `rows` the `response_hash` column of
`cache_entries`.  The writer goes through temporary file, rename, sync, row; the
collector through its first look at the lease, the reading of rows, its second
look and one file at a time.  A file's name is its hash in hex, a row's value that
hex behind `blake3:` (`ResponseHash`), and the collector compares the one with the
other as they are: no row spares any file (section 5).  `write_blob` has no caller
yet; the writer is the one `blob.rs` prescribes.

* `SessionKeepsBlobs`: with no help from the rows, only the two looks at the lease
  keep a sweep off a session's blobs, and they do, unless the session was opened
  behind the second.
* `RowsOutliveCrashes`: no crash leaves a row without its blob; a sweep does, or a
  power failure after a session that found a file which nobody had synced.

### Server

One run: `pc["task"]` is the background task from the request to the release of
the lease, `pc["cli"]` a `resume` of the command line, `accept` the acceptances,
`view` the pages: what a stream has sent, what is on the wire, what the page has.
`up` is the server's process.  A page's `EventSource` reconnects with the last id
it has; the stream polls the log.  A request passes `Admitted` or changes
nothing.  `Statuses` is what `get_run` may answer: a decision that cannot be read
counts as none, and a log that cannot be read as a run that goes on.

* `StreamFollowsLog`: every page has a prefix of the log, however often it is cut
  off and whoever writes.
* `ChainsToStored`, `EventsStayTogether`: three kinds of writer and one log; what
  each writes is chained and stands together.
* `WatchedRunEnds` (liveness): a page that watches sees the end, of a run no write
  of which was lost.

### ProviderKeys and Comparison

A process finds a key in one of two variables of its environment or in the
keychain; the environment is fixed, the keychain is the machine's.  A test asks
the provider's list of models and then, if that says nothing of the key, pays for
a completion; each of those is a step of its own, with keys set and removed, the
keychain locked and unlocked, accounts drained and revoked, and other tests between
them.  A completion may be billed and its answer lost or not be readable.  Histories:
`heard`, when which process was last told what of which key, the tests that were
over before one began, and the keychain entries `withdrawn` since the screen was
loaded.  A panel is put together from what the screen loaded, `mock` included, and
resolved entry by entry, later; an adapter may fail to get its HTTP client.  In
`Comparison`, the handler resolves providers, opens the channel, sends what it
skips and spawns a task for each other provider before the page reads.

* `VerdictsAreEarned`, `BilledOnce`: a remembered verdict is about this very key
  and recent; a process that was billed for a test is not billed for a later one
  within the time to live, unless what it had paid for was lost or not readable.
* `UsableIsSeated`: what the screen calls usable can be run, but for the three
  reasons the property names.  `SuggestionsSpread`: what it suggests is free and of
  as many families as can be.
* `EveryCardSettles`, `CompareEnds`: each provider asked is answered for once, and
  the stream ends.

## 3. Runs

| run | instance | expected |
|---|---|---|
| `ledger` | 5 calls, 2 at once, room for 3 estimates of 2, answers of 1, 2 and 4, one unregistered provider, one shared prompt, two calls of a stage that never asks for cancellation | holds |
| `ledger_shared_id` | 3 repair calls with the one id their stage formats | violated |
| `eventlog` | a run, a resume and an acceptance in 3 processes, two with one pid, 1 reboot, failing writes | holds |
| `eventlog_resume_race` | a run and two resumes, no failures | violated |
| `debate` | 3 claims of 3 models, 4 relations, 3 rounds, 2 calls at once, money for 12 calls, answers of once and twice the estimate, 1 judge | holds |
| `extract` | 3 positions, 2 at once; the first has any of 256 lists of three candidates, the others few; one repair in the budget | holds |
| `recovery` | 2 calls and 1 more when deep, 2 attempts, three kinds of run, both writers, room for 2 estimates, answers of half and one and a half times the estimate | holds |
| `blobs` | 2 payloads, 3 sessions of the run, 2 sweeps, power failures at any step, rows that cannot be read | holds |
| `claims` | 1, 4 or 5 claims of 3 positions, batches of 3 claims and of 2 pairs, three tables of likeness, four to five answers of each kind or none | holds |
| `decision` | 5 claims, 6 relations, 3 options (1 retired), depth 2, 2 judges with 4 answers, 3 endings of the debate, 5 matrices, 64 sweeps | holds |
| `server` | 1 run of one round, 1 page, 2 acceptances, 1 resume, 1 lost connection, failing reads and writes | holds |
| `keys` | 2 providers and mock, 2 keys, 2 processes, 2 requests or 1 comparison, 1 change of keys, keychain or accounts, 2 ticks | holds |

Why the bounds are enough.

* Ledger: the cap is reached with two calls in flight, an overdraft needs two
  answers above their estimate, and the fifth call meets a full, a partly freed
  and a cancelled ledger.
* Log: two readers of one epoch, a third with the dead owner's pid and a second
  writer of a process are the parties of every race over the lease; three handles
  are one before, one that reads the tip, one after; one event between start and
  end is enough to be lost or chained to.  A second reboot would only change the
  boot id again.
* Debate: three rounds are what the deepest setting plays; two attackers of one
  claim make the planner choose and choose differently once a standing has moved,
  a claim that supports another is what lifts a withdrawn one, and the money runs
  from plenty in the first round to too little for an exchange in the last.
* Extraction: three candidates make a cycle of two with a third hanging off it and
  a cycle of three; two positions want the one repair while a third waits for a
  permit.
* Recovery: a call can be in each state of the crashed attempt while another is in
  any; one resume reuses what the attempt left; the third call is what tells the
  depths apart.  The calls of both depths are symmetric in everything else.
* Blobs: one payload that is found again and one that is new, sessions before,
  between and after the collector's two looks; the second sweep meets what the
  first one left to a session.
* Claims: four and five claims are the smallest that fill more than one batch and
  bring stitching and overlapping groups.
* Decision: a claim attacked twice meets the cap on attacks, a chain is longer than
  the depth, an option is retired, and the endings and marks put claims in every
  class.
* Server: every pair of the task, a resume and an acceptance can follow each other
  on the lease; one lost connection can fall on any event.
* Keys: a key replaced under a test, an account drained between two tests, a
  verdict just inside and just outside its time, the second of two tests after an
  answer that could not be read, and a key withdrawn between the screen and the
  panel; mock alone, beside another provider and without it.

`CHECK_DEADLOCK FALSE` stands where everything may be over or dead.

Fairness.  `FairSpec` of the ledger: each call's future moves on, since the
executor polls every future and the HTTP client bounds every call by a timeout.
`FairLogSpec`: a command of a living process goes on; nothing forces a process to
start, die, or a machine to reboot.  `FairSpec` of the debate: the pipeline as a
whole goes on as long as it can, since the executor awaits each stage and every
provider call ends by its timeout; nothing is assumed of cancellation, of the
deadline or of what models answer.  Extraction: each position's future and the
joining of them are polled; the same timeout ends each call.  Server: the task and
the streams are polled, and a page that is open reads and reconnects; nothing is
assumed of the command line, acceptances or restarts.  Comparison: the handler
and each task are polled, and a page that is open reads.  All of it is weak
fairness.  `RunRecovery`, `BlobStore`, `ClaimStages`, `Judgement` and the key
actions are checked without fairness, as only safety is asked of them.

## 4. Proofs

All theorems are for every value of the constants that satisfies the named
assumptions.

* `BudgetLedgerProofs`.  `TypeCorrect` needs nothing more.  The others assume
  `DistinctReservations`, which the run `ledger_shared_id` shows is necessary.
  The inductive invariant joins the type, the agreement of `calls` with
  `progress`, and the overdraft bound in the form *committed plus reserved is at
  most the cap plus the worst excess of the calls in flight*; the bound alone is
  not inductive since a commit needs to know that its own estimate was counted.
  Cardinalities of the open ids change by one per reserve and settle, which a
  lemma states.
* `StoreProofs`, in three parts.  The lease: `EpochsAreUnique` holds on any number
  of machines: an epoch granted is at most the row's, and the swap compares.
  `MutualExclusion`, `NeverDisplaced` and `Refinement` assume `SingleHost`: the
  invariant says that the row of a live open writer carries its process's pid and
  boot id and its epoch, so that `OwnerIsGone` is false for everyone while it lives
  and a reader who judged an earlier row holds an older epoch.  The log:
  `ImplementsLease` lets the commands inherit the lease's invariants.  `ChainHolds`
  adds that a live open handle that lost no write holds the log's last hash, and
  `LogFollowsEpochs` that the log's last event is by the holder of the row's epoch
  or an earlier one; both assume `SingleHost`.  The blobs, for any payloads,
  sessions, sweeps and power failures: the invariant says what each side knows.  A
  writer between rename and row has a file in the directory and then a synced one,
  or one that is excused; while the collector deletes, no session is open,
  or one that was opened behind its second look (`SessionsAreSafe`).  A row
  whose file is gone is swept, or was found in a directory nobody had synced
  (`RowsSurvive`), and a write finds its temporary file (`WritesFinish`), since a
  sweep touches none.  `SweepsSpareNothing` is the other side: every file a sweep
  has passed is gone, since no name equals a value of the rows.
* `FoldLemmas`.  What the other modules need to reason about loops over data.  The
  library's induction theorems take what is to be proved as an operator, which no
  installed prover can instantiate; here it is the *set* of what it holds of
  (`NatByInduction`, `FiniteByInduction`).  The operator that is folded is a
  CONSTANT, and a module with a proof about a fold takes an instance of this one
  with its own.  `SetFoldUnfolds` and `SequenceFoldUnfolds` say that a fold has a
  sequence of partial results, `SequenceFoldKeeps` and `SequenceFoldReaches` that
  what every step keeps holds at the end, `AnyOrder` that a sum does not depend on
  the order; the lemmas on `Total` say what adding, removing and changing one entry
  does to it, and that it is linear.  `LoopExists` is for a function that calls
  itself, as the fixpoint does: if some bounded measure shrinks with every call,
  there is a function that satisfies the equation, and its unfolding may be used.
* `DebateProofs`, the rounds.  For any graph of claims, any number of models, rounds and
  judges, and any amount of money; what the fixpoint computes is left open, so
  that the theorems hold for every arithmetic of standings.  `LoopTypes` joins the
  types with two facts about a round: no claim has two pairs, and the cache holds
  only what the stage can parse.  `WithdrawnClaimsRest` adds that no ranked claim
  is withdrawn while a round is planned, which is what `Classify` gives, and that
  `EndChallenge` and the exchanges leave it so.  `JudgeIsPaid` rests on `Covered`:
  while planning, every pair has its exchange set aside on top of the judge's
  share; in the first calling stage every pair its rebuttal and every pair still
  open its challenge; in the second every pair still open its rebuttal.  It needs
  an exchange to be at least two calls, as `EXCHANGE_COST` is.  `RoundsNeedChange`
  needs only that a resolution is a function of the claims it is made from: the
  same claims give the same standings, no standing moved, and the controller stops,
  since the least movement that counts is positive (`DEFAULT_MIN_STANDING_DELTA`).
* `DebateProofs`, the judgement.  For any finite graph of claims, any options and
  propagation depth, any panel, number of judges, answers and ways the rounds may
  end.  The inductive invariant `JudgementInv` has three parts, and each is needed
  for the next: the resolution handed on is that of the claims as the rounds left
  them (`HandedOn`), only models that some judge was shown have marks
  (`MarksOfTheRead`), and the record is what a decision makes of the marks there
  are, of which no more come (`Recorded`).  With it every property is about what
  the operators of `DecisionCore` compute, and the work is there:
  * `MarksStayInPlace`: into the claims that no marked one leads to, no relation
    leads from outside.  The fixpoint on such a set is its own, sweep for sweep; and
    a sweep that has moved nothing is followed by others that move nothing, so that
    it does not matter that one of two loops goes on longer because of claims
    outside the set.
  * `TriggersStayReal`: a claim whose evidence is set to its extreme and whose
    incoming relations are dropped has itself as its target, so the loop of the
    flip and the loop that holds the claim go through the same standings.
  * `ConvergedStaysSettled`: without marks the record resolves what the controller
    saw.  A winner is the one option with more than, or as much as and before, any
    other, so the margin `Converged` asks for is a lead over every rival, larger
    than the one that splits a decision; and without live dissent the rules come to
    a mere majority only because of a rival's share.
  * `ChainsAddUp`: the standing a loop stops on is the middle of itself and its
    target, but for one rounding.  Each kind of relation contributes its gain times
    a capped sum; a step of the chain is the part of that due to one relation,
    rounded down, so that a kind is off by at most two for each relation.
  * `PropagationIsNearest`: by induction on the rounds.  What the n-th round adds
    lies at the start of a chain of n relations and of no shorter one, the first of
    which bears as the cell does; and a chain of n relations is gone through in n
    rounds.
* `ClaimsProofs`, in two parts.  Extraction, for any positions, candidate lists and
  repairs: the invariant says that the premises of what has been sorted lie in what
  has been sorted, that `grounded` is closed under derivation within it and
  contained in every set that is closed, and that while the sort is stuck some edge
  runs inside what remains.  From it: `GroundIsLeast`, `NeverSelfSupported` (no
  circle of derived claims holds itself up), `PremisesKept`, `NeverGivesUp` (there
  is always an edge to cut), `RepairsBounded` and `Refinement` of `StageItems`.
  The stages after it, for any claims, positions, scores, batch sizes and answers:
  `FindsComponents` is the union-find without a model around it.  The links are
  trees with one root each (`Rooted`, by a rank that grows towards the root), and
  what is closed under the pairs that were united is a union of trees
  (`Represents`), so that two items have one root exactly if the pairs connect
  them.  `MergesAsLinked` keeps that for `parent` and `linked` (`NormInv`) and
  follows `merge_claims` through the listing of the components (`MergedInv`).
  `PositionsHaveOneOption` rests on the options a fold over the answer has built
  being disjoint and listing positions only, and on the left-over ones being
  exactly the rest.  `CellsFollowTheAnswers` says of one cell at a time that the
  matrix and the classifier's word for it agree (`Accounted`), seeds first and then
  through both folds side by side, over any number of chunks.  `OpponentsAreAsked`
  says that each opposed pair is either asked or in a batch to come
  (`RelationsInv`), and that cutting a list into chunks loses nothing.
  `StagesAssumption` gives the answers their types and the extracted claims
  distinct ids.  Ids are made of a position's and an index, so this leaves out
  panels that name an entry twice.
* `RunRecoveryProofs`.  For any finite set of calls, caps and costs, any number of
  attempts and crashes.  One relation between the two caches carries the first
  results (`IInv`): within an attempt the in-memory cache holds what was stored
  when it began and every answer since, and what is stored is never more than that
  and grows only while it is persisted.  `ExactReplay` and `StoredIsFree` follow
  from it; `CatalogIsHonest` says that history.db calls a run finished only when
  its log does; `RecoveryTypes` is the type invariant.  The money needs what the
  tables tell of the process that wrote them.  `RowsInv` keeps the row of an
  attempt at what its process has done about the call, and with it the cardinality
  of the rows still held is `budget.reserved` until two attempts share a
  reservation (`DriftHasOneCause`).  `MoneyInv` gives every attempt the room of one
  cap and the overruns of its answers, and `RowMoneyInv` says where the rows are
  written that all attempts together have only one such room beside the rows that
  were abandoned (`LiabilityIsBounded`).  `LogInv` says that a call is started
  once and completed only after that; then the nested folds of `rebuild` and the
  sum that `spend` takes are changed by each event in the same way, in whatever
  order they take the calls (`RebuildIsFaithful`).
* `ServerProofs`.  For any pages, acceptances, rounds and lost connections.
  Whoever is past its reopen holds the lease, so there is one of them; whoever has
  read the tip chains to the log's last event or has failed before
  (`LogIsChained`).  Whoever holds the lease has written the log's last event or
  none, and nobody has written before holding it, so that nobody comes back behind
  another's event (`WritersStayTogether`).  For the pages, what one has received and what is
  on the wire are together the first events of the log, an open stream goes on just
  behind them, and only the last event on the wire can be a terminal one
  (`PagesFollowLog`).  The assumption on the clients' names only keeps them apart
  from the task's, the command line's and the free lease's.
* `KeysProofs`.  For any providers, keys, environments, processes, vendors' answers
  and any catalogue.  A remembered verdict was heard of this very key and is as new
  as the last good word of it (`HeardInv`), from which comes `VerdictsHold`.  A
  process that was billed and could read the answer has it in its cache from the
  end of that test on, where only a newer one replaces it, so that a test which
  begins later finds it there or begins after its time (`SparedInv`, with `Kept` and
  `Waited`): `CompletionsAreSpared`.  A provider the screen shows has a key, or its
  entry is among the `withdrawn` ones, and a panel that is being resolved names only
  such providers, for one that mixes mock in is refused before (`ScreenInv`,
  `Begins`): `ShownCanBeSeated`.  `SuggestionsHold` is about one function:
  `free_open_weight_panel` sorts, filters and takes twice, and the proof follows a
  fold that skips families it has seen and one that fills up.  It assumes, as
  `family_of` gives it, that two models of one id are of one family.  `CardsSettle`
  says of each provider that what its card shows and what the channel still holds
  for it are together the first events of what its task, or the handler, has to say
  (`TrailInv`).

Some theorems speak of invariants no run lists, because the proof says all that a
run could: the type invariants, `JudgementInv`, `NoLeak`, `Settled`, `EpochsAreUnique`,
`MutualExclusion`, `NeverDisplaced`, `ImplementsLease`, `WithdrawnClaimsRest`,
`NeverSelfSupported`, `PremisesKept`, `NeverGivesUp`, `CatalogIsHonest`,
`DriftHasOneCause`, `WritesFinish`, `SweepsSpareNothing`, and `FindsComponents`,
which is about operators alone.

Only model-checked: the liveness properties (`EveryGuardSettles`, `DebateEnds` and
the others marked so in section 2), which rest on fairness and on `ENABLED`.  Every
invariant and every action property that a run checks is the subject of a theorem.

## 5. What the checks found

Two runs show the code at odds with its documents; see `findings` in PROJECT.json
for the quotes.

* Repair calls share one reservation id, so an orphaned one is forgotten
  (`ledger_shared_id`).
* A resume overtaken by another runs a finished run again (`eventlog_resume_race`).

Met while modelling, and part of what the modules say:

* Money.  The cap is a cap on estimates; `OverdraftBound` is what holds.  A
  resume gives the full cap again, since the engine never writes the budget row a
  resume reads; `LiabilityBound` says what that comes to.
* The log.  One failed transaction breaks the chain for all later events of its
  handle.  Two machines over one store directory judge each other's pids; the
  proofs assume one machine.  An error after `init` leaves a run "running" for
  ever, and the server's background task ignores whether its last event was
  stored.
* Rounds.  A cancelled run begins no further exchange, but its judges are still
  called.  A claim modified, defended and modified again has two revisions of one
  number and position id.  A round answered from the cache alone repeats a
  revision and is followed by another round.  The fixpoint's comment says a dead
  claim exerts no influence, but a supporter gives a withdrawn claim a standing
  which then weighs on its neighbours.
* Extraction.  Among the edges to cut are all those the sort could not place,
  those that only hang off a cycle too.
* Resume and replay.  A resumed deep run goes on as a standard one, since the
  depth reaches history.db at completion; so does the replay of a deep run whose
  catalogue row was not written.  A replay has no cap, so that a run that ran out
  of money may come out differently.  The resume of a run with a real panel
  reopens it and releases rows before it refuses.  `put_artifact` does nothing for
  an artifact already there and the last by rowid is shown: after three attempts
  that decided A, B and A, B is shown.  doctor reads the budget's totals and the
  rows one after the other, so that a live run can look as if it had drifted.
* Decision.  A flip that exactly reverses winner and runner-up has leverage 0.
  `explain` shows the standings before the judges beside the record made after
  them.  The cost of resolution is the same for all claims and orders nothing.
* Blobs.  `doctor --gc` would delete every blob of every run that is not live:
  `collect_garbage` (`blob.rs:134`) looks a file's name, plain hex
  (`blob.rs:65`), up among response hashes that begin with `blake3:`
  (`maintenance.rs:152-157`, as `claims_extract.rs:384` and the other stages store
  them).  The `artifacts` rows, of which `blob.rs:97-99` says that they protect a
  blob as well, are not read at all.  Nothing is lost today, since `write_blob` has
  no caller outside tests, and the tests of the sweep give it names without the
  prefix.
* Server.  A decision that cannot be read counts as none, and a log that cannot be
  read as a run that goes on (`handlers.rs:245-253`), so a finished run can be
  reported as running; so is, for ever, one whose last event was not stored
  (`mod.rs:368`).  A cancel between the 202 and the registration of the token is a 404; one
  between the stored end and the dropping of the token is a 200.  A page of a
  failed run reconnects and polls for ever.
* Keys.  A test clicked twice pays twice if the two overlap, if they run in two
  processes, one after the other too, or if the first answer was lost or could not
  be read: a 200 that cannot be read is billed, reported as unreachable and not
  remembered (`verify.rs:327-329`).  A clock set back keeps a verdict fresh.
  `GET /api/providers` calls mock usable and the screen lets it be ticked beside a
  real provider (`ui.html:816-852`), but such a panel is refused as naming an
  unknown provider (`panel.rs:56-61`).  A keychain that cannot be read looks like one
  without the key.  The comment at `compare.rs:122-123` says that no producer blocks
  on a slow reader; the tasks do once the channel is full, the handler does not
  (`CompareEnds`).  An entry named twice in a panel has one position id
  and one reservation id.

## 6. Where the models leave the code

* Sums in thousandths stand for `f64`; properties about standings allow for the
  rounding.  Whole estimates stand for prices per token.
* `DebateRounds` takes the leverage of a dispute, and `converged`, as choices;
  `DecisionCore` computes both from the options, and `Judgement` compares them with
  the record.  A flip from one lead to another of the same size has no leverage in
  the code (margins are not signed), and neither here.
* `RunRecovery` takes the debate as calls that are needed or not; which are needed
  depends on the depth alone, and what they answer is what the cache keeps.
  `record` is the decision the last pipeline returned, which with two attempts is
  the one shown.
* `Server` takes the pipeline as rounds, a decision, a failure or a panic, and the
  lease as who holds it; `RunLog` has what that rests on.
* `ProviderKeys` counts time in parts of the verdicts' time to live, and takes the
  vendor's answer from the state of the account.
* `decide_retry`, `validate_transition`, `get_for_replay`, `write_blob` and
  `rebuild_operational_projections` have no callers outside tests; the last two are
  modelled as they are, the others left out.

Not modelled: the rendering of prompts and the schemas of answers, wire formats of
the providers, price tables and cost estimates, the static page and the listings
of the server, schema migrations (one transaction at start), parsing and printing
of the command line, configuration files, the fixture recorder, the build and the
plugin stubs.  They are text, I/O or without behaviour.

## 7. What could come next

* That the calls of `DebateRounds` and `ClaimsExtract` implement `BudgetLedger`'s
  accounting, step by step, rather than by using its `remaining`.
* That `Server`'s lease is `RunLease`'s, by a refinement in place of the single
  variable that says who holds it.
* Three attempts in `RunRecovery`, with the decision shown as a variable of its
  own.
