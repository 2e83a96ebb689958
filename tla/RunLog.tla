------------------------------ MODULE RunLog ------------------------------
(***************************************************************************)
(* The commands that write one run's hash-chained event log, over the      *)
(* lease of RunLease: `arbiter run` (init, the pipeline, the terminal      *)
(* event), `arbiter resume` (the finished and chain checks, reopen, the    *)
(* pipeline again) and `arbiter accept` (the decided check, reopen, the    *)
(* acceptance).  Every command reads the log's tip into its own ChainState *)
(* after it is granted the run and never reads it again; a command that    *)
(* ends drops its writer, one whose process dies does not.                 *)
(*                                                                         *)
(* An event is named by the handle that minted its id (instance_tag) and   *)
(* its number there, and the name stands for its content hash.  Artifacts  *)
(* other than the synthesized decision, and the payloads, are left out.    *)
(***************************************************************************)
EXTENDS RunLease, Sequences

CONSTANTS
  kindOf,         \* the command that wants each writer: run, resume or accept
  WritesMayFail,  \* whether a transact() can fail (disk full, I/O, busy)
  MaxEvents       \* bound: events the stages of one pass emit, or overrides

ASSUME LogAssumption ==
  /\ kindOf \in [Writer -> {"run", "resume", "accept"}]
  /\ WritesMayFail \in BOOLEAN
  /\ MaxEvents \in Nat

VARIABLES
  log,      \* the events table in sequence order
  step,     \* how far each command has come
  tip,      \* its ChainState: the hash it will chain to
  minted,   \* its next_event_id, less one
  lost,     \* whether a transact of its handle has failed
  decisions \* the commands whose synthesized_decision.v1 is stored, in order

logVars == <<log, step, tip, minted, lost, decisions>>
allVars == <<row, boots, life, pc, seen, granted, log, step, tip, minted, lost, decisions>>

---------------------------------------------------------------------------
NoHash == <<>>

HashOf(w, n) == <<w, n>>

WriterOf(e) == e.hash[1]

\* ChainState::from_last_event(reader.events().last()).
LastHash == IF log = <<>> THEN NoHash ELSE log[Len(log)].hash

Terminal(e) == e.type \in {"RUN_COMPLETED", "RUN_FAILED"}

Finished == \E i \in 1..Len(log) : Terminal(log[i])

\* What verify_chain expects to find in an event's previous_event_hash.
ExpectedPrevious(i) == IF i = 1 THEN NoHash ELSE log[i - 1].hash

LinkBroken(i) == log[i].prev # ExpectedPrevious(i)

ChainIntact == \A i \in 1..Len(log) : ~LinkBroken(i)

Goto(w, s) == step' = [step EXCEPT ![w] = s]

\* The tip moves before the transaction is tried, whatever becomes of it.
Seal(w, n) ==
  /\ tip' = [tip EXCEPT ![w] = HashOf(w, n)]
  /\ minted' = [minted EXCEPT ![w] = n]

\* append_chained, its transaction committed.
AppendChained(w, n, type) ==
  /\ Seal(w, n)
  /\ log' = Append(log, [hash |-> HashOf(w, n), prev |-> tip[w], type |-> type])
  /\ UNCHANGED lost

\* append_chained, its transaction failed.
LoseEvent(w, n) ==
  /\ WritesMayFail
  /\ Seal(w, n)
  /\ lost' = [lost EXCEPT ![w] = TRUE]
  /\ UNCHANGED log

LogInit ==
  /\ Init
  /\ log = <<>>
  /\ step = [w \in Writer |-> "begin"]
  /\ tip = [w \in Writer |-> NoHash]
  /\ minted = [w \in Writer |-> 0]
  /\ lost = [w \in Writer |-> FALSE]
  /\ decisions = <<>>

---------------------------------------------------------------------------
(* arbiter run: init *)

CreateRun(w) ==
  /\ kindOf[w] = "run"
  /\ step[w] = "begin"
  /\ \/ Create(w) /\ Goto(w, "created")
     \/ CreateRefused(w) /\ Goto(w, "stopped")
  /\ UNCHANGED <<log, tip, minted, lost, decisions>>

\* RUN_STARTED against a ChainState of init's own; on failure the writer goes.
RunStarted(w) ==
  /\ step[w] = "created"
  /\ LiveOpen(w)
  /\ \/ AppendChained(w, 0, "RUN_STARTED") /\ Goto(w, "opened")
     \/ LoseEvent(w, 0) /\ Goto(w, "leaving")
  /\ UNCHANGED <<leaseVars, decisions>>

---------------------------------------------------------------------------
(* arbiter resume and arbiter accept: what they check before they reopen *)

CheckFinished(w) ==
  /\ kindOf[w] = "resume"
  /\ step[w] = "begin"
  /\ Alive(procOf[w])
  /\ Goto(w, IF Finished THEN "stopped" ELSE "unfinished")
  /\ UNCHANGED <<leaseVars, log, tip, minted, lost, decisions>>

\* verify_chain and read_run_started.
CheckChain(w) ==
  /\ step[w] = "unfinished"
  /\ Alive(procOf[w])
  /\ Goto(w, IF ChainIntact /\ log # <<>> THEN "checked" ELSE "stopped")
  /\ UNCHANGED <<leaseVars, log, tip, minted, lost, decisions>>

\* An error without a decision, and for an override that has no reason.
CheckDecided(w) ==
  /\ kindOf[w] = "accept"
  /\ step[w] = "begin"
  /\ Alive(procOf[w])
  /\ \E reasoned \in BOOLEAN :
       Goto(w, IF decisions = <<>> \/ ~reasoned THEN "stopped" ELSE "checked")
  /\ UNCHANGED <<leaseVars, log, tip, minted, lost, decisions>>

Reopen(w) ==
  /\ step[w] = "checked"
  /\ \/ ReadRow(w) /\ UNCHANGED step
     \/ TakeOver(w) /\ Goto(w, "opened")
     \/ (ReadRefused(w) \/ LostRace(w)) /\ Goto(w, "stopped")
  /\ UNCHANGED <<log, tip, minted, lost, decisions>>

\* A substituted panel, another prompt pack, a failing read: an error return.
GiveUp(w) ==
  /\ kindOf[w] # "run"
  /\ step[w] = "opened"
  /\ LiveOpen(w)
  /\ Goto(w, "leaving")
  /\ UNCHANGED <<leaseVars, log, tip, minted, lost, decisions>>

\* Mutant: RunHandle::new without continuing_from.
ReadTipForgotten(w) ==
  /\ step[w] = "opened"
  /\ LiveOpen(w)
  /\ UNCHANGED tip
  /\ Goto(w, IF kindOf[w] = "accept" THEN "accepting" ELSE "stages")
  /\ UNCHANGED <<leaseVars, log, minted, lost, decisions>>

\* continuing_from.
ReadTip(w) ==
  /\ step[w] = "opened"
  /\ LiveOpen(w)
  /\ tip' = [tip EXCEPT ![w] = LastHash]
  /\ Goto(w, IF kindOf[w] = "accept" THEN "accepting" ELSE "stages")
  /\ UNCHANGED <<leaseVars, log, minted, lost, decisions>>

---------------------------------------------------------------------------
(* run_pipeline, and what run and resume do after it *)

\* Sink::emit: an error is noted and the stage goes on.
Emit(w) ==
  /\ step[w] = "stages"
  /\ LiveOpen(w)
  /\ minted[w] < MaxEvents
  /\ AppendChained(w, minted[w] + 1, "STAGE") \/ LoseEvent(w, minted[w] + 1)
  /\ UNCHANGED <<leaseVars, step, decisions>>

\* A StageError, take_error, or a put_artifact that failed.
StageFails(w) ==
  /\ step[w] = "stages"
  /\ LiveOpen(w)
  /\ Goto(w, "failing")
  /\ UNCHANGED <<leaseVars, log, tip, minted, lost, decisions>>

\* decision.synthesize, past its take_error.
Synthesize(w) ==
  /\ step[w] = "stages"
  /\ LiveOpen(w)
  /\ ~lost[w]
  /\ decisions' = Append(decisions, w)
  /\ Goto(w, "synthesized")
  /\ UNCHANGED <<leaseVars, log, tip, minted, lost>>

\* put_cache_entry(..)? leaves before any terminal event.
PersistFails(w) ==
  /\ WritesMayFail
  /\ step[w] \in {"synthesized", "failing"}
  /\ LiveOpen(w)
  /\ lost' = [lost EXCEPT ![w] = TRUE]
  /\ Goto(w, "leaving")
  /\ UNCHANGED <<leaseVars, log, tip, minted, decisions>>

Finish(w) ==
  /\ step[w] \in {"synthesized", "failing"}
  /\ LiveOpen(w)
  /\ \/ AppendChained(w, minted[w] + 1,
           IF step[w] = "synthesized" THEN "RUN_COMPLETED" ELSE "RUN_FAILED")
     \/ LoseEvent(w, minted[w] + 1)
  /\ Goto(w, "leaving")
  /\ UNCHANGED <<leaseVars, decisions>>

---------------------------------------------------------------------------
(* arbiter accept *)

Accept(w) ==
  /\ step[w] = "accepting"
  /\ LiveOpen(w)
  /\ \/ AppendChained(w, minted[w] + 1, "DECISION_ACCEPTED") /\ Goto(w, "overriding")
     \/ LoseEvent(w, minted[w] + 1) /\ Goto(w, "leaving")
  /\ UNCHANGED <<leaseVars, decisions>>

Override(w) ==
  /\ step[w] = "overriding"
  /\ LiveOpen(w)
  /\ minted[w] <= MaxEvents
  /\ \/ AppendChained(w, minted[w] + 1, "DECISION_OVERRIDDEN") /\ UNCHANGED step
     \/ LoseEvent(w, minted[w] + 1) /\ Goto(w, "leaving")
  /\ UNCHANGED <<leaseVars, decisions>>

\* The put of decision_acceptance.v1, whatever comes of it, ends the command.
PutAcceptance(w) ==
  /\ step[w] = "overriding"
  /\ LiveOpen(w)
  /\ Goto(w, "leaving")
  /\ UNCHANGED <<leaseVars, log, tip, minted, lost, decisions>>

---------------------------------------------------------------------------
\* The command returns and the writer is dropped.
Leave(w) ==
  /\ step[w] = "leaving"
  /\ Drop(w)
  /\ Goto(w, "stopped")
  /\ UNCHANGED <<log, tip, minted, lost, decisions>>

Around == World /\ UNCHANGED logVars

Command(w) ==
  \/ CreateRun(w) \/ RunStarted(w)
  \/ CheckFinished(w) \/ CheckChain(w) \/ CheckDecided(w)
  \/ Reopen(w) \/ GiveUp(w) \/ ReadTip(w)
  \/ Emit(w) \/ StageFails(w) \/ Synthesize(w) \/ PersistFails(w) \/ Finish(w)
  \/ Accept(w) \/ Override(w) \/ PutAcceptance(w)
  \/ Leave(w)

LogNext == Around \/ \E w \in Writer : Command(w)

LogSpec == LogInit /\ [][LogNext]_allVars

\* A process that is not killed runs on; nothing says that it is started.
FairLogSpec == LogSpec /\ \A w \in Writer : WF_allVars(Command(w))

---------------------------------------------------------------------------
Hash == {NoHash} \union (Writer \X Nat)

EventType == {"RUN_STARTED", "STAGE", "RUN_COMPLETED", "RUN_FAILED",
              "DECISION_ACCEPTED", "DECISION_OVERRIDDEN"}

Event == [hash : Writer \X Nat, prev : Hash, type : EventType]

Step == {"begin", "created", "unfinished", "checked", "opened", "stages", "synthesized",
         "failing", "accepting", "overriding", "leaving", "stopped"}

\* The types of the commands' state and of the log.
LogTypeOK ==
  /\ TypeOK
  /\ log \in Seq(Event)
  /\ step \in [Writer -> Step]
  /\ tip \in [Writer -> Hash]
  /\ minted \in [Writer -> Nat]
  /\ lost \in [Writer -> BOOLEAN]
  /\ decisions \in Seq(Writer)

(***************************************************************************)
(* The chain breaks only at an event of a handle one of whose writes       *)
(* failed: neither a crash, a resume, an acceptance nor two commands at    *)
(* once can break it, although each command chains to a tip it read once.  *)
(***************************************************************************)
BreaksOnlyAfterLostWrite ==
  \A i \in 1..Len(log) : LinkBroken(i) => lost[WriterOf(log[i])]

(***************************************************************************)
(* The log is in the order in which the lease was granted: no event of an  *)
(* earlier owner ever lands behind one of a later owner, though transact() *)
(* does not look at lease_epoch.                                           *)
(***************************************************************************)
EpochOrdered ==
  \A i, j \in 1..Len(log) :
    i < j => granted[WriterOf(log[i])] <= granted[WriterOf(log[j])]

(***************************************************************************)
(* The run ends once: one terminal event, whoever runs or resumes it       *)
(* (resume: "has already finished -- nothing to resume").                  *)
(***************************************************************************)
FinishedOnce ==
  \A i, j \in 1..Len(log) : Terminal(log[i]) /\ Terminal(log[j]) => i = j

\* Every other process is gone for good, and none of them had w's pid.
LeftAlone(w) ==
  \A p \in Proc \ {procOf[w]} : life[p] = "dead" /\ pidOf[p] # pidOf[procOf[w]]

(***************************************************************************)
(* A run that was started and whose chain is intact can be resumed when    *)
(* everyone who wrote it is dead, wherever each of them was: the resume    *)
(* gets to write the run, unless it is finished or the resume dies too.    *)
(***************************************************************************)
CrashedRunReopens ==
  \A w \in Writer :
    kindOf[w] = "resume" =>
      ( Alive(procOf[w]) /\ step[w] = "begin" /\ log # <<>> /\ ChainIntact /\ LeftAlone(w) )
        ~> ( Finished \/ LiveOpen(w) \/ ~Alive(procOf[w]) )
===========================================================================
