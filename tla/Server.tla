------------------------------ MODULE Server ------------------------------
(***************************************************************************)
(* One run as `arbiter serve` handles it: the request that starts it, the  *)
(* background task that runs its pipeline, the table of cancellation       *)
(* tokens, the event streams of pages that watch it, acceptances over      *)
(* HTTP, the status it is reported with, and a resume by the CLI after the *)
(* server died or its task ended early.                                    *)
(*                                                                         *)
(* Every request passes admission first.  The pipeline is the rounds it    *)
(* emits an event for, a decision or a failure; an event is its type, who  *)
(* wrote it and the sequence number it chains to.                          *)
(***************************************************************************)
EXTENDS Integers, SequencesExt

CONSTANTS
  Viewer,      \* pages that watch the run's event stream
  Client,      \* callers of POST accept
  Request,     \* what the headers of a request say
  MaxRounds,   \* bound: rounds of the debate
  MaxOverrides,\* bound: overrides of an acceptance
  MaxDrops,    \* bound: connections that are lost
  MaxOnWire,   \* bound: events sent and not yet received
  StoreFails   \* whether a read or a write of the store can fail

ASSUME ServerAssumption ==
  /\ MaxRounds \in Nat \ {0} /\ MaxOverrides \in Nat /\ MaxDrops \in Nat
  /\ MaxOnWire \in Nat \ {0}
  /\ StoreFails \in BOOLEAN
  /\ Client \cap {"task", "cli", "free"} = {}
  /\ Request \subseteq [host : {"loopback", "other", "none"}, origin : {"self", "other", "none"},
                        site : {"same-origin", "same-site", "cross-site", "none"}, token : BOOLEAN]

VARIABLES
  log,        \* the run's events in sequence order
  decided,    \* whether a synthesized_decision.v1 is stored
  lease,      \* who holds the run
  tip,        \* per handle: the sequence number its next event chains to
  pc,         \* how far the task and the CLI's resume have come
  unsound,    \* the handles whose read of the tip, or one of whose writes, failed
  up,         \* whether the server's process runs
  cancels,    \* whether the run's token is in AppState::cancels
  token,      \* whether that token is cancelled
  accept,     \* how far each acceptance has come
  view,       \* each page: what its stream has sent and what it has received
  drops       \* the connections lost so far

run == <<log, decided, lease, tip, pc, unsound>>
serverVars == <<log, decided, lease, tip, pc, unsound,
                up, cancels, token, accept, view, drops>>

---------------------------------------------------------------------------
Executor == {"task", "cli"}
Free == "free"      \* a lease released, or left by a process that is dead
Unstored == -1      \* the tip after a write that failed

\* admission: loopback host, own origin or none, not cross-site, the token.
Admitted(q) ==
  /\ q.host = "loopback"
  /\ q.origin \in {"self", "none"}
  /\ q.site # "cross-site"
  /\ q.token

\* A request that gets past admission, to a server that runs.
Served == up /\ \E q \in Request : Admitted(q)

RunExists == log # <<>>

Terminal(e) == e.type \in {"RUN_COMPLETED", "RUN_FAILED"}

Finished == \E i \in 1..Len(log) : Terminal(log[i])

LinkBroken(i) == log[i].prev # i - 1

\* What get_run can answer about the run: a decision first, else what the last
\* event says.  A decision that cannot be read counts as none, a log that cannot
\* be read as a run that goes on, and a final graph that cannot be read is an error.
Statuses ==
  LET lastWord == IF RunExists /\ Last(log).type = "RUN_FAILED" THEN "failed" ELSE "running"
  IN (IF decided THEN {"complete"} ELSE {lastWord})
       \union (IF StoreFails THEN {lastWord, "running", "error"} ELSE {})

\* append_chained through the handle of h, stored or not.
Store(h, type) ==
  /\ log' = Append(log, [type |-> type, by |-> h, prev |-> tip[h]])
  /\ tip' = [tip EXCEPT ![h] = Len(log) + 1]
  /\ UNCHANGED unsound

Lose(h) ==
  /\ StoreFails
  /\ tip' = [tip EXCEPT ![h] = Unstored]
  /\ unsound' = unsound \union {h}
  /\ UNCHANGED log

\* The handle goes, its lease with it.
Drop(h) ==
  /\ lease' = Free
  /\ tip' = [tip EXCEPT ![h] = 0]

\* A write failed, and the handle goes with the error.
LoseAndDrop(h) ==
  /\ StoreFails
  /\ unsound' = unsound \union {h}
  /\ Drop(h)
  /\ UNCHANGED log

Goto(e, s) == pc' = [pc EXCEPT ![e] = s]

Running(e) == IF e = "task" THEN up ELSE TRUE

NotOpened == [watching |-> FALSE, open |-> FALSE, sent |-> 0, wire |-> <<>>, got |-> <<>>]

ServerInit ==
  /\ log = <<>> /\ decided = FALSE
  /\ lease = Free
  /\ tip = [h \in Executor \union Client |-> 0]
  /\ pc = [e \in Executor |-> "idle"]
  /\ unsound = {}
  /\ up = TRUE
  /\ cancels = FALSE /\ token = FALSE
  /\ accept = [c \in Client |-> "idle"]
  /\ view = [v \in Viewer |-> NotOpened]
  /\ drops = 0

---------------------------------------------------------------------------
(* POST /api/runs *)

\* init: the run is created and RUN_STARTED stored, or nothing is.
CreateRun ==
  /\ Served
  /\ pc["task"] = "idle"
  /\ Goto("task", "created")
  /\ lease' = "task"
  /\ log' = <<[type |-> "RUN_STARTED", by |-> "task", prev |-> 0]>>
  /\ UNCHANGED <<decided, tip, unsound, up, cancels, token, accept, view, drops>>

\* continuing_from, the best-effort row of the catalogue, and tokio::spawn.
SpawnRun ==
  /\ up
  /\ pc["task"] = "created"
  /\ Goto("task", "spawned")
  /\ tip' = [tip EXCEPT !["task"] = Len(log)]
  /\ UNCHANGED <<log, decided, lease, unsound, up, cancels, token, accept, view, drops>>

\* The events cannot be read back: a 500, and the writer goes with the error.
SpawnFails ==
  /\ StoreFails
  /\ up
  /\ pc["task"] = "created"
  /\ Goto("task", "over")
  /\ lease' = Free
  /\ UNCHANGED <<log, decided, tip, unsound, up, cancels, token, accept, view, drops>>

---------------------------------------------------------------------------
(* run_to_completion, and resume_command where it does the same *)

\* CancelGuard::new: the token is registered by the task, not by the request.
Register ==
  /\ up
  /\ pc["task"] = "spawned"
  /\ Goto("task", "rounds")
  /\ cancels' = TRUE /\ token' = FALSE
  /\ UNCHANGED <<log, decided, lease, tip, unsound, up, accept, view, drops>>

WrittenBy(h, type) == Cardinality({i \in 1..Len(log) : log[i].type = type /\ log[i].by = h})

\* A round, ended by the controller: a run that is cancelled, or at its limit,
\* stops; a resume's token is one that nobody else holds.
Round(e) ==
  /\ Running(e)
  /\ pc[e] = "rounds"
  /\ \/ WrittenBy(e, "CONTROLLER_DECIDED") + 1 < MaxRounds /\ ~(e = "task" /\ token) /\ UNCHANGED pc
     \/ Goto(e, "judging")
  /\ Store(e, "CONTROLLER_DECIDED") \/ Lose(e)
  /\ UNCHANGED <<decided, lease, up, cancels, token, accept, view, drops>>

\* decision.synthesize, past its take_error, and put_artifact.
Decide(e) ==
  /\ Running(e)
  /\ pc[e] = "judging"
  /\ e \notin unsound
  /\ decided' = TRUE
  /\ Goto(e, "decided")
  /\ UNCHANGED <<log, lease, tip, unsound, up, cancels, token, accept, view, drops>>

\* A StageError, take_error, or a put_artifact that failed.
Fail(e) ==
  /\ Running(e)
  /\ pc[e] \in {"rounds", "judging"}
  /\ Goto(e, "failed")
  /\ UNCHANGED <<log, decided, lease, tip, unsound, up, cancels, token, accept, view, drops>>

\* The server ignores whether its terminal event was stored; a resume leaves in
\* any case, without one when its cache cannot be stored.
Finish(e) ==
  /\ Running(e)
  /\ pc[e] \in {"decided", "failed"}
  /\ \/ Store(e, IF pc[e] = "decided" THEN "RUN_COMPLETED" ELSE "RUN_FAILED")
     \/ Lose(e)
     \/ e = "cli" /\ StoreFails /\ UNCHANGED <<log, tip, unsound>>
  /\ Goto(e, IF e = "cli" THEN "leaving" ELSE "unlisting")
  /\ UNCHANGED <<decided, lease, up, cancels, token, accept, view, drops>>

\* A panic unwinds the task: no event, but its guard and its handle are dropped.
Panic ==
  /\ up
  /\ pc["task"] \in {"rounds", "judging"}
  /\ Goto("task", "unwinding")
  /\ UNCHANGED <<log, decided, lease, tip, unsound, up, cancels, token, accept, view, drops>>

\* CancelGuard::drop comes before the handle's.
Unregister ==
  /\ up
  /\ pc["task"] \in {"unlisting", "unwinding"}
  /\ cancels' = FALSE /\ token' = FALSE
  /\ Goto("task", "leaving")
  /\ UNCHANGED <<log, decided, lease, tip, unsound, up, accept, view, drops>>

Release(e) ==
  /\ Running(e)
  /\ pc[e] = "leaving"
  /\ Drop(e)
  /\ Goto(e, "over")
  /\ UNCHANGED <<log, decided, unsound, up, cancels, token, accept, view, drops>>

---------------------------------------------------------------------------
(* arbiter resume, in a process of its own *)

\* No terminal event, verify_chain and RUN_STARTED.
ResumeCheck ==
  /\ pc["cli"] = "idle"
  /\ RunExists /\ ~Finished
  /\ \A i \in 1..Len(log) : ~LinkBroken(i)
  /\ Goto("cli", "checked")
  /\ UNCHANGED <<log, decided, lease, tip, unsound, up, cancels, token, accept, view, drops>>

\* reopen: a run somebody living holds is refused.
ResumeReopen ==
  /\ pc["cli"] = "checked"
  /\ \/ lease = Free /\ lease' = "cli" /\ Goto("cli", "opened")
     \/ lease # Free /\ Goto("cli", "over") /\ UNCHANGED lease
  /\ UNCHANGED <<log, decided, tip, unsound, up, cancels, token, accept, view, drops>>

ResumeRead ==
  /\ pc["cli"] = "opened"
  /\ tip' = [tip EXCEPT !["cli"] = Len(log)]
  /\ Goto("cli", "rounds")
  /\ UNCHANGED <<log, decided, lease, unsound, up, cancels, token, accept, view, drops>>

---------------------------------------------------------------------------
(* POST /api/runs/:id/cancel *)

\* A 200; a run that is not listed is a 404 and nothing happens.
CancelRun ==
  /\ Served
  /\ cancels
  /\ token' = TRUE
  /\ UNCHANGED <<run, up, cancels, accept, view, drops>>

---------------------------------------------------------------------------
(* POST /api/runs/:id/accept *)

AcceptGoto(c, s) == accept' = [accept EXCEPT ![c] = s]

\* 404, 409, 400 for an override that has no reason, or on to the reopen.
Ask(c) ==
  /\ Served
  /\ accept[c] = "idle"
  /\ RunExists
  /\ \E reasoned \in BOOLEAN :
       AcceptGoto(c, IF decided /\ reasoned THEN "reopening" ELSE "answered")
  /\ UNCHANGED <<run, up, cancels, token, view, drops>>

\* Mutant: a lease of the server's own process is no obstacle.
ReopenOwn(c) ==
  /\ up
  /\ accept[c] = "reopening"
  /\ \/ lease # "cli" /\ lease' = c /\ AcceptGoto(c, "reading")
     \/ lease = "cli" /\ AcceptGoto(c, "answered") /\ UNCHANGED lease
  /\ UNCHANGED <<log, decided, tip, pc, unsound, up, cancels, token, view, drops>>

\* Mutant: the last event is read before the run is reopened.
ReopenAfterReading(c) ==
  /\ up
  /\ \/ accept[c] = "reopening" /\ tip' = [tip EXCEPT ![c] = Len(log)] /\ AcceptGoto(c, "reading")
        /\ UNCHANGED lease
     \/ /\ accept[c] = "reading"
        /\ \/ lease = Free /\ lease' = c /\ AcceptGoto(c, "accepting")
           \/ lease # Free /\ AcceptGoto(c, "answered") /\ UNCHANGED lease
        /\ UNCHANGED tip
  /\ UNCHANGED <<log, decided, pc, unsound, up, cancels, token, view, drops>>

\* The lease tells two acceptances of one server apart by nothing but this.
ReopenToAccept(c) ==
  /\ up
  /\ accept[c] = "reopening"
  /\ \/ lease = Free /\ lease' = c /\ AcceptGoto(c, "reading")
     \/ lease # Free /\ AcceptGoto(c, "answered") /\ UNCHANGED lease
  /\ UNCHANGED <<log, decided, tip, pc, unsound, up, cancels, token, view, drops>>

\* events().ok(): a log that cannot be read is chained to as if it were empty.
ReadTip(c) ==
  /\ up
  /\ accept[c] = "reading"
  /\ \/ tip' = [tip EXCEPT ![c] = Len(log)] /\ UNCHANGED unsound
     \/ StoreFails /\ unsound' = unsound \union {c} /\ UNCHANGED tip
  /\ AcceptGoto(c, "accepting")
  /\ UNCHANGED <<log, decided, lease, pc, up, cancels, token, view, drops>>

\* DECISION_ACCEPTED, then the overrides; an error answers 500 and drops the handle.
Accept(c) ==
  /\ up
  /\ accept[c] = "accepting"
  /\ \/ Store(c, "DECISION_ACCEPTED") /\ AcceptGoto(c, "overriding") /\ UNCHANGED lease
     \/ LoseAndDrop(c) /\ AcceptGoto(c, "answered")
  /\ UNCHANGED <<decided, pc, up, cancels, token, view, drops>>

Override(c) ==
  /\ up
  /\ accept[c] = "overriding"
  /\ WrittenBy(c, "DECISION_OVERRIDDEN") < MaxOverrides
  /\ \/ Store(c, "DECISION_OVERRIDDEN") /\ UNCHANGED <<accept, lease>>
     \/ LoseAndDrop(c) /\ AcceptGoto(c, "answered")
  /\ UNCHANGED <<decided, pc, up, cancels, token, view, drops>>

\* put_artifact of decision_acceptance.v1, whatever comes of it, ends the call.
PutAcceptance(c) ==
  /\ up
  /\ accept[c] = "overriding"
  /\ AcceptGoto(c, "answered")
  /\ Drop(c)
  /\ UNCHANGED <<log, decided, pc, unsound, up, cancels, token, view, drops>>

---------------------------------------------------------------------------
(* GET /api/runs/:id/events and the page that reads it *)

LastEventId(v) == IF view[v].got = <<>> THEN 0 ELSE Last(view[v].got)

SawTerminal(v) == \E i \in ToSet(view[v].got) : Terminal(log[i])

\* The page asks for the status first and watches a run it is told is running.
Open(v) ==
  /\ Served
  /\ RunExists
  /\ ~view[v].watching /\ view[v].got = <<>>
  /\ "running" \in Statuses
  /\ view' = [view EXCEPT ![v] = [@ EXCEPT !.watching = TRUE, !.open = TRUE, !.sent = 0]]
  /\ UNCHANGED <<run, up, cancels, token, accept, drops>>

\* Mutant: Last-Event-ID is not looked at.
ReconnectFromStart(v) ==
  /\ Served
  /\ view[v].watching /\ ~view[v].open
  /\ view' = [view EXCEPT ![v] = [@ EXCEPT !.open = TRUE, !.sent = 0]]
  /\ UNCHANGED <<run, up, cancels, token, accept, drops>>

\* Mutant: a new connection gets what is stored from now on.
ReconnectAtTail(v) ==
  /\ Served
  /\ view[v].watching /\ ~view[v].open
  /\ view' = [view EXCEPT ![v] = [@ EXCEPT !.open = TRUE, !.sent = Len(log)]]
  /\ UNCHANGED <<run, up, cancels, token, accept, drops>>

\* EventSource connects again by itself, with the last id it has received.
Reconnect(v) ==
  /\ Served
  /\ view[v].watching /\ ~view[v].open
  /\ view' = [view EXCEPT ![v] = [@ EXCEPT !.open = TRUE, !.sent = LastEventId(v)]]
  /\ UNCHANGED <<run, up, cancels, token, accept, drops>>

Unsent(v) == {i \in 1..Len(log) : i > view[v].sent}

\* Whether the stream has sent a terminal event and so is at its end.
StreamDone(v) == view[v].wire # <<>> /\ Terminal(log[Last(view[v].wire)])

\* One poll: the first event above the last one sent.
Send(v) ==
  /\ up
  /\ view[v].open /\ ~StreamDone(v)
  /\ Len(view[v].wire) < MaxOnWire
  /\ \E i \in Unsent(v) :
       /\ \A j \in Unsent(v) : i <= j
       /\ view' = [view EXCEPT ![v] = [@ EXCEPT !.sent = i, !.wire = Append(view[v].wire, i)]]
  /\ UNCHANGED <<run, up, cancels, token, accept, drops>>

\* RUN_COMPLETED takes the page to the result and closes its stream; after
\* any other terminal event the stream ends and the page connects again.
Receive(v) ==
  /\ view[v].open /\ view[v].wire # <<>>
  /\ LET i == Head(view[v].wire) IN
       view' = [view EXCEPT ![v] = [@ EXCEPT !.got = Append(view[v].got, i), !.wire = Tail(view[v].wire),
                                              !.watching = log[i].type # "RUN_COMPLETED",
                                              !.open = ~Terminal(log[i])]]
  /\ UNCHANGED <<run, up, cancels, token, accept, drops>>

\* The connection is lost with what is on it, or a poll could not read the log.
Disconnect(v) ==
  /\ view[v].open
  /\ drops < MaxDrops
  /\ drops' = drops + 1
  /\ view' = [view EXCEPT ![v] = [@ EXCEPT !.open = FALSE, !.wire = <<>>]]
  /\ UNCHANGED <<run, up, cancels, token, accept>>

---------------------------------------------------------------------------
(* Processes *)

\* The server dies: its tasks, tokens, requests and connections with it.
Crash ==
  /\ up
  /\ up' = FALSE
  /\ cancels' = FALSE /\ token' = FALSE
  /\ lease' = IF lease = "cli" THEN "cli" ELSE Free
  /\ pc' = [pc EXCEPT !["task"] = IF @ = "idle" THEN "idle" ELSE "over"]
  /\ accept' = [c \in Client |-> IF accept[c] = "idle" THEN "idle" ELSE "answered"]
  /\ view' = [v \in Viewer |-> [view[v] EXCEPT !.open = FALSE, !.wire = <<>>]]
  /\ tip' = [h \in DOMAIN tip |-> IF h = "cli" THEN tip[h] ELSE 0]
  /\ UNCHANGED <<log, decided, unsound, drops>>

\* Another process has another token, and a page must be loaded from it anew.
Restart ==
  /\ ~up
  /\ up' = TRUE
  /\ view' = [v \in Viewer |-> NotOpened]
  /\ UNCHANGED <<run, cancels, token, accept, drops>>

KillResume ==
  /\ pc["cli"] \notin {"idle", "over"}
  /\ Goto("cli", "over")
  /\ lease' = IF lease = "cli" THEN Free ELSE lease
  /\ tip' = [tip EXCEPT !["cli"] = 0]
  /\ UNCHANGED <<log, decided, unsound, up, cancels, token, accept, view, drops>>

Execute(e) == Round(e) \/ Decide(e) \/ Fail(e) \/ Finish(e) \/ Release(e)

Task == SpawnRun \/ SpawnFails \/ Register \/ Execute("task") \/ Unregister

Resume == ResumeCheck \/ ResumeReopen \/ ResumeRead \/ Execute("cli") \/ KillResume

Acceptance(c) ==
  Ask(c) \/ ReopenToAccept(c) \/ ReadTip(c) \/ Accept(c) \/ Override(c) \/ PutAcceptance(c)

Page(v) == Open(v) \/ Reconnect(v) \/ Send(v) \/ Receive(v) \/ Disconnect(v)

ServerNext ==
  \/ CreateRun \/ Task \/ Panic \/ CancelRun
  \/ Resume
  \/ \E c \in Client : Acceptance(c)
  \/ \E v \in Viewer : Page(v)
  \/ Crash \/ Restart

\* The runtime polls every task and stream; a page reconnects while it is open.
ServerFairness ==
  /\ WF_serverVars(Task)
  /\ \A v \in Viewer :
       WF_serverVars(Send(v)) /\ WF_serverVars(Receive(v)) /\ WF_serverVars(Reconnect(v))

ServerSpec == ServerInit /\ [][ServerNext]_serverVars /\ ServerFairness

---------------------------------------------------------------------------
(***************************************************************************)
(* A page sees the log: every event once and in order, whatever connections*)
(* are lost with events on them, whichever process writes the run, and     *)
(* however its streams end and begin again (run_events: "a reconnect's     *)
(* Last-Event-ID resumes from sequence + 1 with no buffering needed").     *)
(***************************************************************************)
StreamFollowsLog ==
  \A v \in Viewer : view[v].got = [i \in 1..Len(view[v].got) |-> i]

(***************************************************************************)
(* What a handle writes stands together in the log.  The task, a resume    *)
(* and the acceptances of the server interleave freely, an acceptance is   *)
(* let in as soon as a decision is stored, which is before the attempt     *)
(* that made it has written its last event, and nothing but the lease      *)
(* tells handles of one process apart: yet nobody's event falls between    *)
(* two of somebody else's, through failures, crashes and restarts.         *)
(***************************************************************************)
EventsStayTogether ==
  \A i, j, k \in 1..Len(log) :
    i < j /\ j < k /\ log[i].by = log[k].by => log[j].by = log[i].by

(***************************************************************************)
(* An event chains to the one before it, whoever wrote that: the task, a   *)
(* resume, or an acceptance of the same server that ran beside this one.   *)
(* Only a handle that could not read the tip, or could not store an event, *)
(* breaks the chain (accept_run takes a failed read for an empty log).     *)
(***************************************************************************)
ChainsToStored ==
  \A i \in 1..Len(log) : LinkBroken(i) => log[i].by \in unsound

(***************************************************************************)
(* A page that watches a run which is being executed sees its end, through *)
(* every lost connection, unless the server dies, the task panics or its   *)
(* last event is not stored.                                               *)
(***************************************************************************)
WatchedRunEnds ==
  \A v \in Viewer :
    (view[v].watching /\ pc["task"] = "spawned")
      ~> (SawTerminal(v) \/ ~up \/ pc["task"] = "unwinding" \/ "task" \in unsound)
===========================================================================
