---------------------------- MODULE Comparison ----------------------------
(***************************************************************************)
(* POST /api/compare (arbiter-cli/serve/compare.rs) beside the other uses  *)
(* of the keys: every provider asked gets the same prompt, in a task of    *)
(* its own, and the answers reach the page as events of one bounded        *)
(* channel.  A provider without a key is skipped here, where a panel is    *)
(* refused.                                                                *)
(***************************************************************************)
EXTENDS ProviderKeys

VARIABLES
  compare,  \* the handler: the providers still to be looked up, those ready, those skipped
  channel,  \* the events sent and not yet read
  task,     \* the task of each provider that is ready
  page,     \* the reader: "none", "waiting", "reading", "over" or "left"
  cards     \* the events each provider's card has been given

compareVars == <<compare, channel, task, page, cards>>
vars == <<keysVars, compareVars>>

NoCompare == [pc |-> "none", left |-> <<>>, ready |-> {}, skipped |-> {}, told |-> {}]

CompareInit ==
  /\ Init
  /\ compare = NoCompare
  /\ channel = <<>>
  /\ task = [p \in Provider |-> "none"]
  /\ page = "none"
  /\ cards = [p \in Provider |-> <<>>]

\* body.providers, or all of them.  Bound: none is named twice.
Asked == {asked \in UNION {[1 .. n -> Provider] : n \in 1 .. Len(providers)} : IsInjective(asked)}

(***************************************************************************)
(* Bound: one comparison, and no other request beside it.  The keychain is *)
(* all that they share, and it changes at any time.                        *)
(***************************************************************************)
BeginCompare(asked) ==
  /\ page = "none"
  /\ requests = 0 /\ requests' = MaxRequests
  /\ compare' = [NoCompare EXCEPT !.pc = "resolving", !.left = asked]
  /\ page' = "waiting"
  /\ UNCHANGED <<keyVars, now, testVars, panelVars, channel, task, cards>>

\* Every credential is resolved up front.  Who has no key is skipped, and so is
\* who has no adapter, because its HTTP client cannot be built.
ResolveNext ==
  LET p == Head(compare.left)
      looked == [compare EXCEPT !.left = Tail(@)]
  IN  /\ compare.pc = "resolving" /\ compare.left # <<>>
      /\ \/ compare' = [looked EXCEPT !.skipped = @ \union {p}]
         \/ KeyIn(serve, p) # Unset /\ compare' = [looked EXCEPT !.ready = @ \union {p}]
      /\ UNCHANGED <<keysVars, channel, task, page, cards>>

OpenChannel ==
  /\ compare.pc = "resolving" /\ compare.left = <<>>
  /\ compare' = [compare EXCEPT !.pc = "skipping"]
  /\ UNCHANGED <<keysVars, channel, task, page, cards>>

\* Mutant: room for what the models say.
RoomForModels == Len(channel) < Cardinality(compare.ready) + 1

Room == Len(channel) < Cardinality(compare.ready) + Cardinality(compare.skipped) + 2

\* send waits for room, and fails at once when the reader is gone.
Send(kind, p) ==
  IF page = "left" THEN UNCHANGED channel
  ELSE Room /\ channel' = Append(channel, <<kind, p>>)

\* The handler, before there is a stream to read from.
SendSkip ==
  /\ compare.pc = "skipping"
  /\ \E p \in compare.skipped \ compare.told :
       /\ Send("skipped", p)
       /\ compare' = [compare EXCEPT !.told = @ \union {p}]
  /\ UNCHANGED <<keysVars, task, page, cards>>

\* The tasks are spawned, the handler's own sender dropped, the stream returned.
Spawn ==
  /\ compare.pc = "skipping" /\ compare.told = compare.skipped
  /\ compare' = [compare EXCEPT !.pc = "over"]
  /\ task' = [p \in Provider |-> IF p \in compare.ready THEN "starting" ELSE "none"]
  /\ page' = "reading"
  /\ UNCHANGED <<keysVars, channel, cards>>

TaskStarts(p) ==
  /\ task[p] = "starting"
  /\ Send("start", p)
  /\ task' = [task EXCEPT ![p] = "asking"]
  /\ UNCHANGED <<keysVars, compare, page, cards>>

\* The vendor answers, refuses, or 90 seconds pass.
VendorAnswers(p) ==
  /\ task[p] = "asking"
  /\ \E outcome \in {"done", "error"} : task' = [task EXCEPT ![p] = outcome]
  /\ UNCHANGED <<keysVars, compare, channel, page, cards>>

\* Mutant: only an answer is reported.
TaskReportsAnswers(p) ==
  /\ task[p] \in {"done", "error"}
  /\ IF task[p] = "done" THEN Send("done", p) ELSE UNCHANGED channel
  /\ task' = [task EXCEPT ![p] = "ended"]
  /\ UNCHANGED <<keysVars, compare, page, cards>>

\* The task sends its outcome and ends, and its sender with it.
TaskReports(p) ==
  /\ task[p] \in {"done", "error"}
  /\ Send(task[p], p)
  /\ task' = [task EXCEPT ![p] = "ended"]
  /\ UNCHANGED <<keysVars, compare, page, cards>>

\* Every sender is gone: the channel is closed.
Closed == compare.pc = "over" /\ \A p \in Provider : task[p] \in {"none", "ended"}

PageReads ==
  /\ page = "reading"
  /\ channel # <<>>
  /\ LET event == Head(channel)
     IN  cards' = [cards EXCEPT ![event[2]] = Append(@, event[1])]
  /\ channel' = Tail(channel)
  /\ UNCHANGED <<keysVars, compare, task, page>>

\* recv gives nothing: the stream says run-done and ends.
PageEnds ==
  /\ page = "reading"
  /\ channel = <<>> /\ Closed
  /\ page' = "over"
  /\ UNCHANGED <<keysVars, compare, channel, task, cards>>

\* The page is closed.  A handler that has not returned is dropped with it.
PageLeaves ==
  /\ page \in {"waiting", "reading"}
  /\ page' = "left"
  /\ compare' = [compare EXCEPT !.pc = "over"]
  /\ channel' = <<>>
  /\ UNCHANGED <<keysVars, task, cards>>

CompareNext ==
  \/ \E asked \in Asked : BeginCompare(asked)
  \/ ResolveNext
  \/ OpenChannel
  \/ SendSkip
  \/ Spawn
  \/ \E p \in Provider : TaskStarts(p) \/ VendorAnswers(p) \/ TaskReports(p)
  \/ PageReads
  \/ PageEnds
  \/ PageLeaves

Next == (KeysNext /\ UNCHANGED compareVars) \/ CompareNext

(***************************************************************************)
(* The runtime runs the handler and its tasks, a call is answered or timed *)
(* out, and a page that is open reads.  Nothing else has to happen.        *)
(***************************************************************************)
Fairness ==
  /\ WF_vars(ResolveNext) /\ WF_vars(OpenChannel) /\ WF_vars(SendSkip) /\ WF_vars(Spawn)
  /\ \A p \in Provider :
       WF_vars(TaskStarts(p)) /\ WF_vars(VendorAnswers(p)) /\ WF_vars(TaskReports(p))
  /\ WF_vars(PageReads) /\ WF_vars(PageEnds)

Spec == CompareInit /\ [][Next]_vars /\ Fairness

---------------------------------------------------------------------------
(***************************************************************************)
(* When the page hears run-done, every provider that was asked has either  *)
(* been skipped, or started and then ended exactly once, in that order.    *)
(***************************************************************************)
EveryCardSettles ==
  page = "over" =>
    /\ \A p \in compare.ready : cards[p] \in {<<"start", "done">>, <<"start", "error">>}
    /\ \A p \in compare.skipped : cards[p] = <<"skipped">>

(***************************************************************************)
(* A comparison comes to its end, or the page was closed: the handler, who *)
(* sends before anyone can read, never waits for room, and the stream ends *)
(* with the last task.                                                     *)
(***************************************************************************)
CompareEnds == page = "waiting" ~> page \in {"over", "left"}

=============================================================================
