---------------------------- MODULE ServerProofs ----------------------------
(***************************************************************************)
(* Theorems about Server, for any pages, acceptances, rounds, overrides    *)
(* and lost connections.  Fairness plays no part: they follow from the     *)
(* next-state relation alone.                                              *)
(***************************************************************************)
EXTENDS Server, TLAPS

Handle == Executor \union Client

EventType ==
  {"RUN_STARTED", "CONTROLLER_DECIDED", "RUN_COMPLETED", "RUN_FAILED",
   "DECISION_ACCEPTED", "DECISION_OVERRIDDEN"}

Event == [type : EventType, by : Handle, prev : Int]

Writing == {"rounds", "judging", "decided", "failed"}

TaskHolds == Writing \union {"created", "spawned", "unlisting", "unwinding", "leaving"}
CliHolds == Writing \union {"opened", "leaving"}
ClientHolds == {"reading", "accepting", "overriding"}

Shapes ==
  /\ log \in Seq(Event)
  /\ decided \in BOOLEAN /\ up \in BOOLEAN
  /\ tip \in [Handle -> Int]
  /\ unsound \subseteq Handle
  /\ DOMAIN pc = Executor /\ pc = [e \in Executor |-> pc[e]]
  /\ pc["task"] \in TaskHolds \union {"idle", "over"}
  /\ pc["cli"] \in CliHolds \union {"idle", "checked", "over"}
  /\ accept \in [Client -> ClientHolds \union {"idle", "reopening", "answered"}]

\* Whoever is past his reopen, and not yet gone, has the lease.
Holders ==
  /\ pc["task"] \in TaskHolds => lease = "task"
  /\ pc["cli"] \in CliHolds => lease = "cli"
  /\ \A c \in Client : accept[c] \in ClientHolds => lease = c

\* Whoever has read the tip and can still write chains to the last event.
Knows(h) == tip[h] = Len(log) \/ h \in unsound

Tips ==
  /\ pc["task"] \in Writing \union {"spawned"} => Knows("task")
  /\ pc["cli"] \in Writing => Knows("cli")
  /\ \A c \in Client : accept[c] \in {"accepting", "overriding"} => Knows(c)

\* Nothing begins before the run is created.
Beginning ==
  /\ pc["task"] = "idle" <=> log = <<>>
  /\ log = <<>> => pc["cli"] = "idle" /\ \A c \in Client : accept[c] = "idle"

Wrote(h) == \E i \in 1..Len(log) : log[i].by = h

\* Whoever has the lease wrote the last event or none, and nobody writes before
\* he has had it.
Together ==
  /\ EventsStayTogether
  /\ lease # Free /\ Wrote(lease) => log[Len(log)].by = lease
  /\ pc["cli"] \in {"idle", "checked"} => ~Wrote("cli")
  /\ \A c \in Client : accept[c] \in {"idle", "reopening"} => ~Wrote(c)

Chain == \A i \in 1..Len(log) : log[i].prev # i - 1 => log[i].by \in unsound

IInv == Shapes /\ Holders /\ Tips /\ Beginning /\ Together /\ Chain

---------------------------------------------------------------------------
LEMMA InvInit ==
  ASSUME ServerAssumption, ServerInit
  PROVE  IInv
<1>1. log = <<>> /\ log \in Seq(Event) /\ Len(log) = 0
  BY DEF ServerInit
<1>2. pc["task"] = "idle" /\ pc["cli"] = "idle" /\ \A c \in Client : accept[c] = "idle"
  BY DEF ServerInit, Executor
<1>3. Shapes
  <2>1. tip \in [Handle -> Int] /\ unsound \subseteq Handle
    BY DEF ServerInit, Handle
  <2>2. DOMAIN pc = Executor /\ pc = [e \in Executor |-> pc[e]]
    BY DEF ServerInit
  <2>3. accept \in [Client -> ClientHolds \union {"idle", "reopening", "answered"}]
    BY DEF ServerInit
  <2>4. decided \in BOOLEAN /\ up \in BOOLEAN
    BY DEF ServerInit
  <2> QED
    BY <1>1, <1>2, <2>1, <2>2, <2>3, <2>4 DEF Shapes
<1> QED
  BY <1>1, <1>2, <1>3
     DEF IInv, Holders, Tips, Beginning, Together, EventsStayTogether, Wrote, Chain, TaskHolds, CliHolds,
         ClientHolds, Writing

\* What it takes of an append to keep the log as it is to be.
LEMMA StoreKeeps ==
  ASSUME IInv, NEW h \in Handle, Knows(h), NEW type \in EventType, Store(h, type)
  PROVE  /\ log' \in Seq(Event) /\ Len(log') = Len(log) + 1 /\ log' # <<>>
         /\ log'[Len(log')].by = h /\ \A i \in 1..Len(log) : log'[i] = log[i]
         /\ tip' \in [Handle -> Int] /\ tip'[h] = Len(log')
         /\ unsound' = unsound
         /\ Chain'
<1> DEFINE e == [type |-> type, by |-> h, prev |-> tip[h]]
<1>1. log \in Seq(Event) /\ e \in Event
  BY DEF IInv, Shapes, Event
<1>2. log' = Append(log, e) /\ tip' = [tip EXCEPT ![h] = Len(log) + 1] /\ unsound' = unsound
  BY DEF Store
<1>3. e.prev = Len(log) \/ e.by \in unsound
  BY DEF Knows
<1>4. e.by = h
  OBVIOUS
<1> HIDE DEF e
<1>5. /\ log' \in Seq(Event) /\ Len(log') = Len(log) + 1 /\ log' # <<>>
      /\ \A i \in 1..Len(log) : log'[i] = log[i]
      /\ log'[Len(log) + 1] = e
  BY <1>1, <1>2
<1>6. Chain'
  BY <1>1, <1>2, <1>3, <1>5 DEF IInv, Chain
<1>7. tip' \in [Handle -> Int] /\ tip'[h] = Len(log')
  BY <1>1, <1>2, <1>5 DEF IInv, Shapes
<1> QED
  BY <1>2, <1>4, <1>5, <1>6, <1>7

\* An append by whoever has the lease, and of whom it is known where his events are.
LEMMA HolderStores ==
  ASSUME IInv, NEW h \in Handle, lease = h, h # Free, lease' = lease,
         log' \in Seq(Event), Len(log') = Len(log) + 1,
         log'[Len(log')].by = h, \A i \in 1..Len(log) : log'[i] = log[i],
         pc'["cli"] \in {"idle", "checked"} => h # "cli" /\ pc["cli"] \in {"idle", "checked"},
         \A c \in Client : accept'[c] \in {"idle", "reopening"}
                            => h # c /\ accept[c] \in {"idle", "reopening"}
  PROVE  Together'
<1>0. log \in Seq(Event) /\ Len(log) \in Nat /\ Len(log') = Len(log) + 1
  BY DEF IInv, Shapes
<1>1. EventsStayTogether'
  <2>1. SUFFICES ASSUME NEW i \in 1..Len(log'), NEW j \in 1..Len(log'), NEW k \in 1..Len(log'),
                        i < j, j < k, log'[i].by = log'[k].by
                 PROVE  log'[j].by = log'[i].by
    BY DEF EventsStayTogether
  <2>2. i \in 1..Len(log) /\ j \in 1..Len(log) /\ log'[i] = log[i] /\ log'[j] = log[j]
    BY <1>0, <2>1
  <2>3. CASE k \in 1..Len(log)
    BY <2>1, <2>2, <2>3 DEF IInv, Together, EventsStayTogether
  <2>4. CASE k = Len(log')
    <3>1. log[i].by = h
      BY <2>1, <2>2, <2>4
    <3>2. log[Len(log)].by = h
      BY <2>2, <3>1 DEF IInv, Together, Wrote
    <3>3. CASE j = Len(log)
      BY <2>2, <3>1, <3>2, <3>3
    <3>4. CASE j < Len(log)
      <4>1. Len(log) \in 1..Len(log) /\ i < j /\ j < Len(log) /\ log[i].by = log[Len(log)].by
        BY <1>0, <2>1, <2>2, <3>1, <3>2, <3>4
      <4> QED
        BY <2>2, <4>1 DEF IInv, Together, EventsStayTogether
    <3> QED
      BY <1>0, <2>2, <3>3, <3>4
  <2> QED
    BY <1>0, <2>3, <2>4
<1>2. ASSUME NEW g, g # h, ~Wrote(g) PROVE ~Wrote(g)'
  BY <1>0, <1>2 DEF Wrote
<1>3. pc'["cli"] \in {"idle", "checked"} => ~Wrote("cli")'
  BY <1>2 DEF IInv, Together
<1>4. ASSUME NEW c \in Client, accept'[c] \in {"idle", "reopening"} PROVE ~Wrote(c)'
  BY <1>2, <1>4 DEF IInv, Together
<1> QED
  BY <1>1, <1>3, <1>4 DEF Together

\* A step that stores nothing: the lease is given to nobody who has written.
LEMMA NobodyStores ==
  ASSUME IInv, UNCHANGED log,
         lease' \in {lease, Free} \/ ~Wrote(lease'),
         pc'["cli"] \in {"idle", "checked"} => pc["cli"] \in {"idle", "checked"},
         \A c \in Client : accept'[c] \in {"idle", "reopening"} => accept[c] \in {"idle", "reopening"}
  PROVE  Together'
<1>1. \A h : Wrote(h)' = Wrote(h)
  BY DEF Wrote
<1>2. EventsStayTogether'
  BY DEF IInv, Together, EventsStayTogether
<1>3. lease' # Free /\ Wrote(lease') => log[Len(log)].by = lease'
  BY DEF IInv, Together
<1>4. pc'["cli"] \in {"idle", "checked"} => ~Wrote("cli")
  BY DEF IInv, Together
<1>5. \A c \in Client : accept'[c] \in {"idle", "reopening"} => ~Wrote(c)
  BY DEF IInv, Together
<1> QED
  BY <1>1, <1>2, <1>3, <1>4, <1>5 DEF Together, Wrote

LEMMA Strangers ==
  ASSUME ServerAssumption
  PROVE  \A c \in Client : c # "task" /\ c # "cli" /\ c # Free
BY DEF ServerAssumption, Free

\* An executor's append, with its next step.
LEMMA ExecutorStores ==
  ASSUME ServerAssumption, IInv, NEW e \in Executor, NEW type \in EventType, Store(e, type),
         pc[e] \in Writing, NEW s, Goto(e, s),
         s \in IF e = "task" THEN {"rounds", "judging", "unlisting"} ELSE {"rounds", "judging", "leaving"},
         UNCHANGED <<decided, lease, up, accept>>
  PROVE  IInv'
<1>1. Knows(e) /\ e \in Handle /\ e \in {"task", "cli"}
  BY DEF IInv, Tips, Executor, Handle
<1>2. /\ log' \in Seq(Event) /\ Len(log') = Len(log) + 1 /\ log' # <<>>
      /\ log'[Len(log')].by = e /\ \A i \in 1..Len(log) : log'[i] = log[i]
      /\ tip' \in [Handle -> Int] /\ tip'[e] = Len(log')
      /\ unsound' = unsound
      /\ Chain'
  BY <1>1, StoreKeeps
<1>3. /\ pc'[e] = s /\ \A f \in Executor \ {e} : pc'[f] = pc[f]
      /\ DOMAIN pc' = Executor /\ pc' = [f \in Executor |-> pc'[f]]
  BY DEF IInv, Shapes, Goto
<1>4. Shapes'
  BY <1>1, <1>2, <1>3 DEF IInv, Shapes, Executor, TaskHolds, CliHolds, Writing
<1>5. Holders'
  BY <1>1, <1>3 DEF IInv, Holders, Executor, TaskHolds, CliHolds, Writing
<1>6. Tips'
  BY <1>1, <1>2, <1>3, Strangers
     DEF IInv, Tips, Knows, Holders, Executor, TaskHolds, CliHolds, ClientHolds, Writing
<1>7. Beginning'
  BY <1>1, <1>2, <1>3 DEF IInv, Beginning, Executor, Writing
<1>8. Together'
  <2>1. lease = e /\ e # Free
    BY <1>1 DEF IInv, Holders, Executor, Free, TaskHolds, CliHolds
  <2>2. pc'["cli"] \in {"idle", "checked"} => e # "cli" /\ pc["cli"] \in {"idle", "checked"}
    BY <1>1, <1>3 DEF Executor
  <2>3. \A c \in Client : e # c
    BY <1>1, Strangers
  <2> QED
    BY <1>1, <1>2, <2>1, <2>2, <2>3, HolderStores
<1> QED
  BY <1>2, <1>4, <1>5, <1>6, <1>7, <1>8 DEF IInv

\* A client's append, with or without a next step.
LEMMA ClientStores ==
  ASSUME ServerAssumption, IInv, NEW c \in Client, NEW type \in EventType,
         Store(c, type), accept[c] \in {"accepting", "overriding"},
         accept' = [accept EXCEPT ![c] = "overriding"],
         UNCHANGED <<decided, lease, pc, up>>
  PROVE  IInv'
<1>1. Knows(c) /\ c \in Handle
  BY DEF IInv, Tips, Handle
<1>2. /\ log' \in Seq(Event) /\ Len(log') = Len(log) + 1 /\ log' # <<>>
      /\ log'[Len(log')].by = c /\ \A i \in 1..Len(log) : log'[i] = log[i]
      /\ tip' \in [Handle -> Int] /\ tip'[c] = Len(log')
      /\ unsound' = unsound
      /\ Chain'
  BY <1>1, StoreKeeps
<1>3. /\ accept'[c] = "overriding" /\ \A d \in Client \ {c} : accept'[d] = accept[d]
      /\ accept' \in [Client -> ClientHolds \union {"idle", "reopening", "answered"}]
  BY DEF IInv, Shapes, ClientHolds
<1>4. lease = c
  BY DEF IInv, Holders, ClientHolds
<1>5. Shapes'
  BY <1>2, <1>3 DEF IInv, Shapes
<1>6. Holders'
  BY <1>3, <1>4 DEF IInv, Holders
<1>7. Tips'
  BY <1>2, <1>3, <1>4, Strangers
     DEF IInv, Tips, Knows, Holders, TaskHolds, CliHolds, ClientHolds, Writing
<1>8. Beginning'
  BY <1>2, <1>4 DEF IInv, Beginning
<1>9. Together'
  BY <1>1, <1>2, <1>3, <1>4, Strangers, HolderStores
<1> QED
  BY <1>2, <1>5, <1>6, <1>7, <1>8, <1>9 DEF IInv

\* A write that was lost leaves the log alone, and its handle is told.
LEMMA LosesQuietly ==
  ASSUME IInv, NEW h \in Handle, Lose(h) \/ LoseAndDrop(h)
  PROVE  /\ log' = log
         /\ tip' \in [Handle -> Int] /\ \A g \in Handle \ {h} : tip'[g] = tip[g]
         /\ unsound' = unsound \union {h}
         /\ Chain'
BY DEF IInv, Shapes, Chain, Lose, LoseAndDrop, Drop, Unstored

\* A step of an executor that stores nothing, described by what it does to pc.
LEMMA ExecutorMoves ==
  ASSUME ServerAssumption, IInv, NEW e \in Executor, NEW s, Goto(e, s),
         s \in IF e = "task" THEN TaskHolds \union {"over"} ELSE CliHolds \union {"checked", "over"},
         s = "checked" => pc[e] = "idle",
         lease' \in {lease, Free} \/ (e = "cli" /\ lease' = e /\ pc[e] = "checked"),
         log # <<>>, UNCHANGED <<log, accept>>,
         unsound \subseteq unsound', unsound' \subseteq Handle, up' \in BOOLEAN, decided' \in BOOLEAN,
         tip' \in [Handle -> Int], \A h \in Handle \ {e} : tip'[h] = tip[h],
         Holders',
         s \in Writing \union {"spawned"} => Knows(e)'
  PROVE  IInv'
<1>1. e \in {"task", "cli"} /\ Executor = {"task", "cli"}
  BY DEF Executor
<1>2. /\ pc'[e] = s /\ \A f \in Executor \ {e} : pc'[f] = pc[f]
      /\ DOMAIN pc' = Executor /\ pc' = [f \in Executor |-> pc'[f]]
  BY DEF IInv, Shapes, Goto
<1>3. Shapes'
  BY <1>1, <1>2 DEF IInv, Shapes
<1>4. Tips'
  <2>1. \A f \in Executor \ {e} : Knows(f) => Knows(f)'
    BY DEF Knows, Handle
  <2>2. \A c \in Client : c # e /\ Knows(c) => Knows(c)'
    BY DEF Knows, Handle
  <2> QED
    BY <1>1, <1>2, <2>1, <2>2, Strangers DEF IInv, Tips, Writing
<1>5. Beginning'
  BY <1>1, <1>2 DEF IInv, Beginning, TaskHolds, Writing
<1>6. Together'
  <2>1. lease' \in {lease, Free} \/ ~Wrote(lease')
    BY DEF IInv, Together
  <2>2. pc'["cli"] \in {"idle", "checked"} => pc["cli"] \in {"idle", "checked"}
    BY <1>1, <1>2 DEF CliHolds, Writing
  <2> QED
    BY <2>1, <2>2, NobodyStores
<1>7. Chain'
  BY DEF IInv, Chain
<1> QED
  BY <1>3, <1>4, <1>5, <1>6, <1>7 DEF IInv

\* A step of a client that stores nothing.
LEMMA ClientMoves ==
  ASSUME ServerAssumption, IInv, NEW c \in Client, NEW s, AcceptGoto(c, s),
         s \in ClientHolds \union {"reopening", "answered"},
         s = "reopening" => accept[c] = "idle",
         lease' \in {lease, Free} \/ (lease' = c /\ accept[c] = "reopening"),
         log # <<>>, UNCHANGED <<log, pc, up, decided>>,
         unsound \subseteq unsound', unsound' \subseteq Handle,
         tip' \in [Handle -> Int], \A h \in Handle \ {c} : tip'[h] = tip[h],
         Holders',
         s \in {"accepting", "overriding"} => Knows(c)'
  PROVE  IInv'
<1>1. /\ accept'[c] = s /\ \A d \in Client \ {c} : accept'[d] = accept[d]
      /\ accept' \in [Client -> ClientHolds \union {"idle", "reopening", "answered"}]
  BY DEF IInv, Shapes, AcceptGoto
<1>2. Shapes'
  BY <1>1 DEF IInv, Shapes
<1>3. Tips'
  <2>1. \A f \in Executor : Knows(f) => Knows(f)'
    BY Strangers DEF Knows, Handle, Executor
  <2>2. \A d \in Client \ {c} : Knows(d) => Knows(d)'
    BY DEF Knows, Handle
  <2> QED
    BY <1>1, <2>1, <2>2 DEF IInv, Tips, Executor
<1>4. Beginning'
  BY DEF IInv, Beginning
<1>5. Together'
  <2>1. lease' \in {lease, Free} \/ ~Wrote(lease')
    BY DEF IInv, Together
  <2>2. \A d \in Client : accept'[d] \in {"idle", "reopening"} => accept[d] \in {"idle", "reopening"}
    BY <1>1 DEF ClientHolds
  <2> QED
    BY <2>1, <2>2, NobodyStores
<1>6. Chain'
  BY DEF IInv, Chain
<1> QED
  BY <1>2, <1>3, <1>4, <1>5, <1>6 DEF IInv

\* Nobody else holds what somebody holds, and a lease that is free nobody holds.
LEMMA OneHolder ==
  ASSUME ServerAssumption, IInv
  PROVE  /\ lease = Free => /\ pc["task"] \notin TaskHolds /\ pc["cli"] \notin CliHolds
                           /\ \A c \in Client : accept[c] \notin ClientHolds
         /\ lease = "task" => /\ pc["cli"] \notin CliHolds
                             /\ \A c \in Client : accept[c] \notin ClientHolds
         /\ lease = "cli" => /\ pc["task"] \notin TaskHolds
                            /\ \A c \in Client : accept[c] \notin ClientHolds
         /\ \A c \in Client : lease = c =>
              /\ pc["task"] \notin TaskHolds /\ pc["cli"] \notin CliHolds
              /\ \A d \in Client \ {c} : accept[d] \notin ClientHolds
BY Strangers DEF IInv, Holders, Free

LEMMA CreateStep == ASSUME ServerAssumption, IInv, CreateRun PROVE IInv'
<1>1. /\ log = <<>> /\ pc["cli"] = "idle" /\ \A c \in Client : accept[c] = "idle"
      /\ pc' = [pc EXCEPT !["task"] = "created"] /\ lease' = "task"
      /\ UNCHANGED <<decided, tip, unsound, up, accept>>
  BY DEF CreateRun, Goto, IInv, Beginning
<1> DEFINE e == [type |-> "RUN_STARTED", by |-> "task", prev |-> 0]
<1>2. log' = <<e>> /\ e \in Event /\ e.by = "task" /\ e.prev = 0
  BY DEF CreateRun, Event, EventType, Handle, Executor
<1> HIDE DEF e
<1>3. log' \in Seq(Event) /\ Len(log') = 1 /\ log' # <<>> /\ log'[1] = e
  BY <1>2
<1>4. /\ pc'["task"] = "created" /\ pc'["cli"] = "idle"
      /\ DOMAIN pc' = Executor /\ pc' = [f \in Executor |-> pc'[f]]
  BY <1>1 DEF IInv, Shapes, Executor
<1>5. Shapes'
  BY <1>1, <1>3, <1>4 DEF IInv, Shapes, TaskHolds
<1>6. Holders' /\ Tips' /\ Beginning'
  BY <1>1, <1>3, <1>4 DEF Holders, Tips, Beginning, TaskHolds, CliHolds, ClientHolds, Writing
<1>7. Together'
  <2>1. \A c \in Client : c # "task"
    BY Strangers
  <2> QED
    BY <1>1, <1>2, <1>3, <1>4, <2>1 DEF Together, EventsStayTogether, Wrote
<1>8. Chain'
  BY <1>1, <1>2, <1>3, <1>4 DEF Chain
<1> QED
  BY <1>5, <1>6, <1>7, <1>8 DEF IInv

LEMMA CrashStep == ASSUME ServerAssumption, IInv, Crash PROVE IInv'
<1>0. /\ up' = FALSE /\ lease' = (IF lease = "cli" THEN "cli" ELSE Free)
      /\ pc' = [pc EXCEPT !["task"] = IF @ = "idle" THEN "idle" ELSE "over"]
      /\ accept' = [c \in Client |-> IF accept[c] = "idle" THEN "idle" ELSE "answered"]
      /\ tip' = [h \in DOMAIN tip |-> IF h = "cli" THEN tip[h] ELSE 0]
      /\ UNCHANGED <<log, decided, unsound>>
  BY DEF Crash
<1>1. /\ pc'["task"] = (IF pc["task"] = "idle" THEN "idle" ELSE "over") /\ pc'["cli"] = pc["cli"]
      /\ DOMAIN pc' = Executor /\ pc' = [f \in Executor |-> pc'[f]]
  BY <1>0 DEF IInv, Shapes, Executor
<1>2. /\ \A c \in Client : accept'[c] = (IF accept[c] = "idle" THEN "idle" ELSE "answered")
      /\ accept' \in [Client -> ClientHolds \union {"idle", "reopening", "answered"}]
  BY <1>0
<1>3. tip' \in [Handle -> Int] /\ tip'["cli"] = tip["cli"]
  BY <1>0 DEF IInv, Shapes, Handle, Executor
<1>4. Shapes'
  BY <1>0, <1>1, <1>2, <1>3 DEF IInv, Shapes
<1>5. Holders'
  BY <1>0, <1>1, <1>2 DEF IInv, Holders, TaskHolds, ClientHolds, Writing
<1>6. Tips'
  BY <1>0, <1>1, <1>2, <1>3 DEF IInv, Tips, Knows, Writing
<1>7. Beginning' /\ Chain'
  BY <1>0, <1>1, <1>2 DEF IInv, Beginning, Chain
<1>8. Together'
  <2>1. lease' \in {lease, Free}
    BY <1>0
  <2> QED
    BY <1>0, <1>1, <1>2, <2>1, NobodyStores
<1> QED
  BY <1>4, <1>5, <1>6, <1>7, <1>8 DEF IInv

\* The steps of the task and of a resume that both have.
LEMMA ExecuteStep ==
  ASSUME ServerAssumption, IInv, NEW e \in Executor, Execute(e)
  PROVE  IInv'
<1>0. /\ e \in {"task", "cli"} /\ e \in Handle /\ unsound \subseteq Handle
      /\ DOMAIN pc = Executor /\ tip \in [Handle -> Int]
      /\ up \in BOOLEAN /\ decided \in BOOLEAN
      /\ pc[e] \in CliHolds \union TaskHolds => log # <<>>
  BY DEF IInv, Shapes, Beginning, Executor, Handle, CliHolds, TaskHolds, Writing
<1> DEFINE Stays == \A f \in Executor \ {e} : pc'[f] = pc[f]
<1>1. ASSUME NEW s, Goto(e, s) PROVE pc'[e] = s /\ Stays
  BY <1>0, <1>1 DEF Goto, Executor
<1>2. CASE Decide(e)
  <2>1. Holders'
    BY <1>0, <1>1, <1>2 DEF Decide, IInv, Holders, Executor, TaskHolds, CliHolds, Writing
  <2>2. Knows(e)'
    BY <1>2 DEF Decide, IInv, Tips, Knows, Executor, Writing
  <2> QED
    BY <1>0, <1>2, <2>1, <2>2, ExecutorMoves DEF Decide, TaskHolds, CliHolds, Writing
<1>3. CASE Fail(e)
  <2>1. Holders'
    BY <1>0, <1>1, <1>3 DEF Fail, IInv, Holders, Executor, TaskHolds, CliHolds, Writing
  <2>2. Knows(e)'
    BY <1>3 DEF Fail, IInv, Tips, Knows, Executor, Writing
  <2> QED
    BY <1>0, <1>3, <2>1, <2>2, ExecutorMoves DEF Fail, TaskHolds, CliHolds, Writing
<1>4. CASE Release(e)
  <2>1. /\ lease' = Free /\ tip' = [tip EXCEPT ![e] = 0] /\ pc[e] = "leaving" /\ Goto(e, "over")
        /\ UNCHANGED <<log, decided, unsound, up, accept>>
    BY <1>4 DEF Release, Drop
  <2>2. lease = e
    BY <2>1 DEF IInv, Holders, Executor, TaskHolds, CliHolds
  <2>3. Holders'
    BY <1>0, <1>1, <2>1, <2>2, OneHolder DEF Holders, Executor, TaskHolds, CliHolds, Writing
  <2> QED
    BY <1>0, <2>1, <2>3, ExecutorMoves DEF TaskHolds, CliHolds, Writing
<1>5. ASSUME pc[e] \in Writing, NEW s, Goto(e, s),
             s \in IF e = "task" THEN {"rounds", "judging", "unlisting"} ELSE {"rounds", "judging", "leaving"},
             UNCHANGED <<log, decided, lease, up, accept>>,
             Lose(e) \/ (e = "cli" /\ s = "leaving" /\ UNCHANGED <<tip, unsound>>)
      PROVE  IInv'
  <2>1. tip' \in [Handle -> Int] /\ (\A h \in Handle \ {e} : tip'[h] = tip[h])
        /\ unsound \subseteq unsound' /\ unsound' \subseteq Handle
    BY <1>0, <1>5, LosesQuietly
  <2>2. Knows(e)' \/ s = "leaving"
    BY <1>0, <1>5 DEF Lose, Knows
  <2>3. Holders'
    BY <1>0, <1>1, <1>5 DEF IInv, Holders, Executor, TaskHolds, CliHolds, Writing
  <2> QED
    BY <1>0, <1>5, <2>1, <2>2, <2>3, ExecutorMoves DEF TaskHolds, CliHolds, Writing
<1>6. CASE Round(e)
  <2>1. PICK s \in {"rounds", "judging"} : Goto(e, s)
    BY <1>0, <1>6 DEF Round, Goto, IInv, Shapes
  <2>2. pc[e] = "rounds" /\ UNCHANGED <<decided, lease, up, accept>>
        /\ (Store(e, "CONTROLLER_DECIDED") \/ Lose(e))
    BY <1>6 DEF Round
  <2>3. CASE Store(e, "CONTROLLER_DECIDED")
    BY <2>1, <2>2, <2>3, ExecutorStores DEF EventType, Writing
  <2>4. CASE Lose(e)
    BY <1>5, <2>1, <2>2, <2>4 DEF Lose, Writing
  <2> QED
    BY <2>2, <2>3, <2>4
<1>7. CASE Finish(e)
  <2> DEFINE s == IF e = "cli" THEN "leaving" ELSE "unlisting"
             type == IF pc[e] = "decided" THEN "RUN_COMPLETED" ELSE "RUN_FAILED"
  <2>1. pc[e] \in {"decided", "failed"} /\ Goto(e, s) /\ UNCHANGED <<decided, lease, up, accept>>
    BY <1>7 DEF Finish
  <2>2. Store(e, type) \/ Lose(e) \/ (e = "cli" /\ UNCHANGED <<log, tip, unsound>>)
    BY <1>7 DEF Finish
  <2>3. /\ type \in EventType /\ s \in {"unlisting", "leaving"}
        /\ s \in IF e = "task" THEN {"rounds", "judging", "unlisting"} ELSE {"rounds", "judging", "leaving"}
        /\ e = "cli" => s = "leaving"
    BY <1>0 DEF EventType
  <2> HIDE DEF s, type
  <2>4. CASE Store(e, type)
    BY <2>1, <2>3, <2>4, ExecutorStores DEF Writing
  <2>5. CASE Lose(e) \/ (e = "cli" /\ UNCHANGED <<log, tip, unsound>>)
    <3>1. UNCHANGED log
      BY <2>5 DEF Lose
    <3> QED
      BY <1>5, <2>1, <2>3, <2>5, <3>1 DEF Writing
  <2> QED
    BY <2>2, <2>4, <2>5
<1> QED
  BY <1>2, <1>3, <1>4, <1>6, <1>7 DEF Execute

\* The steps of starting a run and of the task that the resume does not have.
LEMMA TaskStep ==
  ASSUME ServerAssumption, IInv, SpawnRun \/ SpawnFails \/ Register \/ Panic \/ Unregister
  PROVE  IInv'
<1>0. /\ "task" \in Executor /\ "task" \in Handle /\ unsound \subseteq Handle
      /\ DOMAIN pc = Executor /\ tip \in [Handle -> Int] /\ log \in Seq(Event)
      /\ up \in BOOLEAN /\ decided \in BOOLEAN
      /\ pc["task"] \in TaskHolds => log # <<>> /\ lease = "task"
  BY DEF IInv, Shapes, Holders, Beginning, Executor, Handle, TaskHolds, Writing
<1>1. ASSUME NEW s, Goto("task", s) PROVE pc'["task"] = s /\ pc'["cli"] = pc["cli"]
  BY <1>0, <1>1 DEF Goto, Executor
<1>2. CASE SpawnRun
  <2>1. /\ pc["task"] = "created" /\ Goto("task", "spawned") /\ tip' = [tip EXCEPT !["task"] = Len(log)]
        /\ UNCHANGED <<log, decided, lease, unsound, up, accept>>
    BY <1>2 DEF SpawnRun
  <2>2. Holders' /\ Knows("task")'
    BY <1>0, <1>1, <2>1 DEF IInv, Holders, Knows, TaskHolds
  <2>3. Len(log) \in Int
    BY <1>0
  <2> QED
    BY <1>0, <2>1, <2>2, <2>3, ExecutorMoves DEF TaskHolds, Writing
<1>3. CASE SpawnFails
  <2>1. /\ pc["task"] = "created" /\ Goto("task", "over") /\ lease' = Free
        /\ UNCHANGED <<log, decided, tip, unsound, up, accept>>
    BY <1>3 DEF SpawnFails
  <2>2. Holders'
    BY <1>0, <1>1, <2>1, OneHolder DEF Holders, TaskHolds, Writing
  <2> QED
    BY <1>0, <2>1, <2>2, ExecutorMoves DEF TaskHolds, Writing
<1>4. CASE Register
  <2>1. /\ pc["task"] = "spawned" /\ Goto("task", "rounds")
        /\ UNCHANGED <<log, decided, lease, tip, unsound, up, accept>>
    BY <1>4 DEF Register
  <2>2. Holders' /\ Knows("task")'
    BY <1>0, <1>1, <2>1 DEF IInv, Holders, Tips, Knows, TaskHolds
  <2> QED
    BY <1>0, <2>1, <2>2, ExecutorMoves DEF TaskHolds, Writing
<1>5. CASE Panic \/ Unregister
  <2>1. PICK s \in {"unwinding", "leaving"} :
          /\ pc["task"] \in TaskHolds /\ Goto("task", s)
          /\ UNCHANGED <<log, decided, lease, tip, unsound, up, accept>>
    BY <1>5 DEF Panic, Unregister, TaskHolds, Writing
  <2>2. Holders'
    BY <1>0, <1>1, <2>1 DEF IInv, Holders
  <2> QED
    BY <1>0, <2>1, <2>2, ExecutorMoves DEF TaskHolds, Writing
<1> QED
  BY <1>2, <1>3, <1>4, <1>5

LEMMA ResumeStep ==
  ASSUME ServerAssumption, IInv, ResumeCheck \/ ResumeReopen \/ ResumeRead \/ KillResume
  PROVE  IInv'
<1>0. /\ "cli" \in Executor /\ "cli" \in Handle /\ unsound \subseteq Handle
      /\ DOMAIN pc = Executor /\ tip \in [Handle -> Int] /\ log \in Seq(Event)
      /\ up \in BOOLEAN /\ decided \in BOOLEAN
      /\ pc["cli"] # "idle" => log # <<>>
      /\ pc["cli"] \in CliHolds => lease = "cli"
  BY DEF IInv, Shapes, Holders, Beginning, Executor, Handle
<1>1. ASSUME NEW s, Goto("cli", s) PROVE pc'["cli"] = s /\ pc'["task"] = pc["task"]
  BY <1>0, <1>1 DEF Goto, Executor
<1>2. CASE ResumeCheck
  <2>1. /\ pc["cli"] = "idle" /\ log # <<>> /\ Goto("cli", "checked")
        /\ UNCHANGED <<log, decided, lease, tip, unsound, up, accept>>
    BY <1>2 DEF ResumeCheck, RunExists
  <2>2. Holders'
    BY <1>0, <1>1, <2>1 DEF IInv, Holders, CliHolds, Writing
  <2> QED
    BY <1>0, <2>1, <2>2, ExecutorMoves DEF CliHolds, Writing
<1>3. CASE ResumeReopen
  <2>1. /\ pc["cli"] = "checked"
        /\ \/ lease = Free /\ lease' = "cli" /\ Goto("cli", "opened")
           \/ Goto("cli", "over") /\ UNCHANGED lease
        /\ UNCHANGED <<log, decided, tip, unsound, up, accept>>
    BY <1>3 DEF ResumeReopen
  <2>2. Holders'
    BY <1>0, <1>1, <2>1, OneHolder DEF IInv, Holders, CliHolds, Writing
  <2>3. CASE Goto("cli", "opened")
    BY <1>0, <2>1, <2>2, <2>3, ExecutorMoves DEF CliHolds, Writing
  <2>4. CASE Goto("cli", "over")
    BY <1>0, <2>1, <2>2, <2>4, ExecutorMoves DEF CliHolds, Writing
  <2> QED
    BY <2>1, <2>3, <2>4
<1>4. CASE ResumeRead
  <2>1. /\ pc["cli"] = "opened" /\ Goto("cli", "rounds") /\ tip' = [tip EXCEPT !["cli"] = Len(log)]
        /\ UNCHANGED <<log, decided, lease, unsound, up, accept>>
    BY <1>4 DEF ResumeRead
  <2>2. Holders' /\ Knows("cli")'
    BY <1>0, <1>1, <2>1 DEF IInv, Holders, Knows, CliHolds
  <2>3. Len(log) \in Int
    BY <1>0
  <2> QED
    BY <1>0, <2>1, <2>2, <2>3, ExecutorMoves DEF CliHolds, Writing
<1>5. CASE KillResume
  <2>1. /\ pc["cli"] \notin {"idle", "over"} /\ Goto("cli", "over")
        /\ lease' = (IF lease = "cli" THEN Free ELSE lease)
        /\ tip' = [tip EXCEPT !["cli"] = 0]
        /\ UNCHANGED <<log, decided, unsound, up, accept>>
    BY <1>5 DEF KillResume
  <2>2. Holders'
    BY <1>0, <1>1, <2>1, OneHolder DEF IInv, Holders, CliHolds, Writing
  <2>3. lease' \in {lease, Free}
    BY <2>1
  <2> QED
    BY <1>0, <2>1, <2>2, <2>3, ExecutorMoves DEF CliHolds, Writing
<1> QED
  BY <1>2, <1>3, <1>4, <1>5

LEMMA AcceptanceStep ==
  ASSUME ServerAssumption, IInv, NEW c \in Client, Acceptance(c)
  PROVE  IInv'
<1>0. /\ c \in Handle /\ unsound \subseteq Handle /\ tip \in [Handle -> Int] /\ log \in Seq(Event)
      /\ DOMAIN accept = Client
      /\ accept[c] # "idle" => log # <<>>
      /\ accept[c] \in ClientHolds => lease = c
  BY DEF IInv, Shapes, Holders, Beginning, Handle
<1>1. ASSUME NEW s, AcceptGoto(c, s)
      PROVE  accept'[c] = s /\ \A d \in Client \ {c} : accept'[d] = accept[d]
  BY <1>0, <1>1 DEF AcceptGoto
<1>2. ASSUME AcceptGoto(c, "answered"), UNCHANGED <<log, decided, pc, up>>, log # <<>>,
             lease' = lease \/ (lease = c /\ lease' = Free),
             unsound \subseteq unsound', unsound' \subseteq Handle,
             tip' \in [Handle -> Int], \A h \in Handle \ {c} : tip'[h] = tip[h]
      PROVE  IInv'
  <2>1. Holders'
    BY <1>1, <1>2, OneHolder DEF IInv, Holders, ClientHolds
  <2> QED
    BY <1>2, <2>1, ClientMoves DEF ClientHolds
<1>3. CASE Ask(c)
  <2>1. /\ log # <<>> /\ UNCHANGED <<log, decided, lease, tip, pc, unsound, up>>
        /\ accept[c] = "idle"
        /\ AcceptGoto(c, "answered") \/ AcceptGoto(c, "reopening")
    BY <1>3 DEF Ask, RunExists, run
  <2>2. CASE AcceptGoto(c, "answered")
    BY <1>0, <1>2, <2>1, <2>2
  <2>3. CASE AcceptGoto(c, "reopening")
    <3>1. Holders'
      BY <1>1, <2>1, <2>3 DEF IInv, Holders, ClientHolds
    <3> QED
      BY <1>0, <2>1, <2>3, <3>1, ClientMoves
  <2> QED
    BY <2>1, <2>2, <2>3
<1>4. CASE ReopenToAccept(c)
  <2>1. /\ accept[c] = "reopening" /\ UNCHANGED <<log, decided, tip, pc, unsound, up>>
        /\ \/ lease = Free /\ lease' = c /\ AcceptGoto(c, "reading")
           \/ AcceptGoto(c, "answered") /\ UNCHANGED lease
    BY <1>4 DEF ReopenToAccept
  <2>2. CASE AcceptGoto(c, "answered") /\ UNCHANGED lease
    BY <1>0, <1>2, <2>1, <2>2
  <2>3. CASE lease = Free /\ lease' = c /\ AcceptGoto(c, "reading")
    <3>1. Holders'
      BY <1>1, <2>1, <2>3, OneHolder DEF Holders
    <3> QED
      BY <1>0, <2>1, <2>3, <3>1, ClientMoves DEF ClientHolds
  <2> QED
    BY <2>1, <2>2, <2>3
<1>5. CASE ReadTip(c)
  <2>1. /\ accept[c] = "reading" /\ AcceptGoto(c, "accepting") /\ UNCHANGED <<log, decided, lease, pc, up>>
        /\ \/ tip' = [tip EXCEPT ![c] = Len(log)] /\ UNCHANGED unsound
           \/ unsound' = unsound \union {c} /\ UNCHANGED tip
    BY <1>5 DEF ReadTip
  <2>2. Holders'
    BY <1>0, <1>1, <2>1 DEF IInv, Holders, ClientHolds
  <2>3. /\ Knows(c)' /\ tip' \in [Handle -> Int] /\ \A h \in Handle \ {c} : tip'[h] = tip[h]
        /\ unsound \subseteq unsound' /\ unsound' \subseteq Handle
    BY <1>0, <2>1 DEF Knows
  <2> QED
    BY <1>0, <2>1, <2>2, <2>3, ClientMoves DEF ClientHolds
<1>6. CASE Accept(c) \/ Override(c)
  <2>1. /\ accept[c] \in {"accepting", "overriding"} /\ UNCHANGED <<decided, pc, up>>
        /\ \/ /\ Store(c, "DECISION_ACCEPTED") \/ Store(c, "DECISION_OVERRIDDEN")
              /\ accept' = [accept EXCEPT ![c] = "overriding"]
              /\ UNCHANGED lease
           \/ LoseAndDrop(c) /\ AcceptGoto(c, "answered")
    <3>1. accept = [d \in Client |-> accept[d]]
      BY DEF IInv, Shapes
    <3> QED
      BY <1>6, <3>1 DEF Accept, Override, AcceptGoto
  <2>2. CASE (Store(c, "DECISION_ACCEPTED") \/ Store(c, "DECISION_OVERRIDDEN"))
             /\ accept' = [accept EXCEPT ![c] = "overriding"] /\ UNCHANGED lease
    BY <2>1, <2>2, ClientStores DEF EventType
  <2>3. CASE LoseAndDrop(c) /\ AcceptGoto(c, "answered")
    <3>1. lease = c
      BY <1>0, <2>1 DEF ClientHolds
    <3>2. lease' = Free
      BY <2>3 DEF LoseAndDrop, Drop
    <3> QED
      BY <1>0, <1>2, <2>1, <2>3, <3>1, <3>2, LosesQuietly
  <2> QED
    BY <2>1, <2>2, <2>3
<1>7. CASE PutAcceptance(c)
  <2>1. /\ accept[c] = "overriding" /\ AcceptGoto(c, "answered") /\ tip' = [tip EXCEPT ![c] = 0]
        /\ lease' = Free /\ UNCHANGED <<log, decided, pc, unsound, up>>
    BY <1>7 DEF PutAcceptance, Drop
  <2>2. lease = c
    BY <1>0, <2>1 DEF ClientHolds
  <2> QED
    BY <1>0, <1>2, <2>1, <2>2
<1> QED
  BY <1>3, <1>4, <1>5, <1>6, <1>7 DEF Acceptance

LEMMA InvStep ==
  ASSUME ServerAssumption, IInv, [ServerNext]_serverVars
  PROVE  IInv'
<1>1. ASSUME UNCHANGED <<log, decided, lease, tip, pc, unsound, accept>>, up' \in BOOLEAN PROVE IInv'
  BY <1>1 DEF IInv, Shapes, Holders, Tips, Knows, Beginning, Together, EventsStayTogether, Wrote, Chain
<1>2. up \in BOOLEAN
  BY DEF IInv, Shapes
<1>3. CASE CancelRun \/ Restart \/ UNCHANGED serverVars
  BY <1>1, <1>2, <1>3 DEF CancelRun, Restart, run, serverVars
<1>4. ASSUME NEW v \in Viewer, Page(v) PROVE IInv'
  BY <1>1, <1>2, <1>4 DEF Page, Open, Reconnect, Send, Receive, Disconnect, run
<1>5. "task" \in Executor /\ "cli" \in Executor
  BY DEF Executor
<1> QED
  BY <1>3, <1>4, <1>5, CreateStep, TaskStep, ExecuteStep, ResumeStep, AcceptanceStep, CrashStep
     DEF ServerNext, Task, Resume

LEMMA Invariance == ASSUME ServerAssumption PROVE ServerSpec => []IInv
<1>1. ServerInit => IInv
  BY InvInit
<1>2. IInv /\ [ServerNext]_serverVars => IInv'
  BY InvStep
<1> QED
  BY <1>1, <1>2, PTL DEF ServerSpec

---------------------------------------------------------------------------
(* Every event chains to the one before it, whoever wrote it, except those *)
(* of a handle that lost a write or could not read the tip.                *)
THEOREM LogIsChained == ASSUME ServerAssumption PROVE ServerSpec => []ChainsToStored
<1>1. IInv => ChainsToStored
  BY DEF IInv, Chain, ChainsToStored, LinkBroken
<1> QED
  BY <1>1, Invariance, PTL

(* No event of another falls between two events of one handle, however the *)
(* task, a resume and any number of acceptances interleave and fail.       *)
THEOREM WritersStayTogether == ASSUME ServerAssumption PROVE ServerSpec => []EventsStayTogether
<1>1. IInv => EventsStayTogether
  BY DEF IInv, Together
<1> QED
  BY <1>1, Invariance, PTL

---------------------------------------------------------------------------
(* Pages *)

IsPage(w) ==
  /\ DOMAIN w = {"watching", "open", "sent", "wire", "got"}
  /\ w.sent \in Nat /\ w.wire \in Seq(Nat) /\ w.got \in Seq(Nat)

\* What a page has and what is on its way are the first events of the log, and
\* its stream goes on behind them; only the last event on its way can be the end.
InStep(w) ==
  /\ \A i \in 1..Len(w.got) : w.got[i] = i
  /\ \A i \in 1..Len(w.wire) : w.wire[i] = Len(w.got) + i
  /\ Len(w.got) + Len(w.wire) <= Len(log)
  /\ w.open => w.watching /\ w.sent = Len(w.got) + Len(w.wire)
  /\ ~w.open => w.wire = <<>>
  /\ \A i \in 1..Len(w.wire) - 1 : ~Terminal(log[w.wire[i]])

PInv ==
  /\ DOMAIN view = Viewer
  /\ \A v \in Viewer : IsPage(view[v]) /\ InStep(view[v])

\* The log only grows.
LEMMA LogGrows ==
  ASSUME ServerAssumption, IInv, [ServerNext]_serverVars
  PROVE  /\ log' \in Seq(Event) /\ Len(log') >= Len(log)
         /\ \A i \in 1..Len(log) : log'[i] = log[i]
<1>1. log \in Seq(Event) /\ log' \in Seq(Event)
  BY InvStep DEF IInv, Shapes
<1>2. UNCHANGED log \/ log = <<>> \/ \E e : log' = Append(log, e)
  <2>1. ASSUME NEW e, Execute(e) PROVE UNCHANGED log \/ \E x : log' = Append(log, x)
    BY <2>1 DEF Execute, Round, Decide, Fail, Finish, Release, Store, Lose
  <2>2. ASSUME NEW c, Acceptance(c) PROVE UNCHANGED log \/ \E x : log' = Append(log, x)
    BY <2>2
       DEF Acceptance, Ask, ReopenToAccept, ReadTip, Accept, Override, PutAcceptance, Store, LoseAndDrop, run
  <2>3. ASSUME NEW v, Page(v) PROVE UNCHANGED log
    BY <2>3 DEF Page, Open, Reconnect, Send, Receive, Disconnect, run
  <2>4. CreateRun => log = <<>>
    BY DEF CreateRun, IInv, Beginning
  <2> QED
    BY <2>1, <2>2, <2>3, <2>4
       DEF ServerNext, Task, Resume, SpawnRun, SpawnFails, Register, Unregister, Panic, CancelRun,
           ResumeCheck, ResumeReopen, ResumeRead, KillResume, Crash, Restart, run, serverVars
<1>3. ASSUME NEW e, log' = Append(log, e)
      PROVE  Len(log') >= Len(log) /\ \A i \in 1..Len(log) : log'[i] = log[i]
  BY <1>1, <1>3
<1>4. CASE log = <<>>
  BY <1>1, <1>4
<1> QED
  BY <1>1, <1>2, <1>3, <1>4

LEMMA Positions ==
  ASSUME NEW g \in Nat, NEW k \in Nat, NEW n \in Nat, NEW i \in Nat, i >= 1, i <= k, g + k <= n
  PROVE  g + i \in 1..n
OBVIOUS

LEMMA Longer ==
  ASSUME NEW g \in Nat, NEW k \in Nat, NEW n \in Nat, NEW m \in Nat, g + k <= n, n <= m
  PROVE  g + k <= m
OBVIOUS

\* A page that does nothing stays in step.
LEMMA StaysInStep ==
  ASSUME ServerAssumption, IInv, [ServerNext]_serverVars, NEW w, IsPage(w), InStep(w)
  PROVE  InStep(w)'
<1>1. /\ Len(log) \in Nat /\ Len(log') \in Nat /\ Len(log') >= Len(log)
      /\ \A i \in 1..Len(log) : log'[i] = log[i]
  BY LogGrows DEF IInv, Shapes
<1>2. Len(w.got) \in Nat /\ Len(w.wire) \in Nat
  BY DEF IsPage
<1>3. ASSUME NEW i \in 1..Len(w.wire) PROVE w.wire[i] \in 1..Len(log)
  <2>1. w.wire[i] = Len(w.got) + i /\ Len(w.got) + Len(w.wire) <= Len(log)
    BY DEF InStep
  <2>2. i \in Nat /\ i >= 1 /\ i <= Len(w.wire)
    BY <1>2
  <2>3. Len(log) \in Nat
    BY <1>1
  <2>4. Len(w.got) + i \in 1..Len(log)
    BY <1>2, <2>1, <2>2, <2>3, Positions
  <2> QED
    BY <2>1, <2>4
<1>4. ASSUME NEW i \in 1..Len(w.wire) - 1 PROVE ~Terminal(log'[w.wire[i]])
  <2>1. i \in 1..Len(w.wire)
    BY <1>2
  <2>2. log'[w.wire[i]] = log[w.wire[i]]
    BY <1>1, <1>3, <2>1
  <2> QED
    BY <2>2 DEF InStep
<1>5. Len(w.got) + Len(w.wire) <= Len(log')
  <2>1. Len(w.got) + Len(w.wire) <= Len(log) /\ Len(log) <= Len(log')
    BY <1>1 DEF InStep
  <2> QED
    BY <1>1, <1>2, <2>1, Longer
<1> QED
  BY <1>4, <1>5 DEF InStep

LEMMA PagesInit == ASSUME ServerInit PROVE PInv
<1>1. log = <<>> /\ Len(log) = 0 /\ view = [v \in Viewer |-> NotOpened]
  BY DEF ServerInit
<1>2. IsPage(NotOpened) /\ InStep(NotOpened)
  BY <1>1 DEF NotOpened, IsPage, InStep
<1> QED
  BY <1>1, <1>2 DEF PInv

\* One page is given another state, which is in step.
LEMMA OnePage ==
  ASSUME PInv, UNCHANGED log, NEW v \in Viewer, NEW w, IsPage(w), InStep(w), view' = [view EXCEPT ![v] = w]
  PROVE  PInv'
<1>1. DOMAIN view' = Viewer
  BY DEF PInv
<1>2. ASSUME NEW x \in Viewer PROVE IsPage(view'[x]) /\ InStep(view'[x])
  BY DEF PInv
<1>3. ASSUME NEW x \in Viewer PROVE InStep(view[x])'
  BY <1>2 DEF InStep
<1>4. ASSUME NEW x \in Viewer PROVE IsPage(view[x])'
  BY <1>2 DEF IsPage
<1> QED
  BY <1>1, <1>3, <1>4 DEF PInv

LEMMA OpenStep ==
  ASSUME PInv, NEW v \in Viewer, Open(v)
  PROVE  PInv'
<1> DEFINE w == view[v]
<1>1. IsPage(w) /\ InStep(w) /\ w.got = <<>> /\ Len(w.got) = 0 /\ ~w.watching
  BY DEF PInv, Open
<1>2. PICK next : /\ next = [w EXCEPT !.watching = TRUE, !.open = TRUE, !.sent = 0]
                  /\ view' = [view EXCEPT ![v] = next] /\ UNCHANGED log
  BY DEF Open, run
<1>3. ~w.open /\ w.wire = <<>> /\ Len(w.wire) = 0
  BY <1>1 DEF InStep
<1>4. IsPage(next) /\ next.watching /\ next.open /\ next.sent = 0 /\ next.wire = w.wire /\ next.got = w.got
  BY <1>1, <1>2 DEF IsPage
<1>5. InStep(next)
  BY <1>1, <1>3, <1>4 DEF InStep
<1> QED
  BY <1>2, <1>4, <1>5, OnePage

LEMMA ReconnectStep ==
  ASSUME PInv, NEW v \in Viewer, Reconnect(v)
  PROVE  PInv'
<1> DEFINE w == view[v]
<1>1. IsPage(w) /\ InStep(w) /\ w.watching /\ ~w.open
  BY DEF PInv, Reconnect
<1>2. PICK next : /\ next = [w EXCEPT !.open = TRUE, !.sent = LastEventId(v)]
                  /\ view' = [view EXCEPT ![v] = next] /\ UNCHANGED log
  BY DEF Reconnect, run
<1>3. w.got \in Seq(Nat) /\ Len(w.got) \in Nat /\ w.wire = <<>> /\ Len(w.wire) = 0
  BY <1>1 DEF InStep, IsPage
<1>4. LastEventId(v) = Len(w.got)
  <2>1. CASE w.got = <<>>
    BY <2>1 DEF LastEventId
  <2>2. CASE w.got # <<>>
    <3>1. Len(w.got) \in 1..Len(w.got)
      BY <1>3, <2>2
    <3>2. w.got[Len(w.got)] = Len(w.got)
      BY <1>1, <3>1 DEF InStep
    <3> QED
      BY <2>2, <3>2 DEF LastEventId, Last
  <2> QED
    BY <2>1, <2>2
<1>5. /\ IsPage(next) /\ next.watching /\ next.open
      /\ next.sent = Len(w.got) /\ next.wire = w.wire /\ next.got = w.got
  BY <1>1, <1>2, <1>3, <1>4 DEF IsPage
<1>6. InStep(next)
  BY <1>1, <1>3, <1>5 DEF InStep
<1> QED
  BY <1>2, <1>5, <1>6, OnePage

LEMMA Appended ==
  ASSUME NEW s \in Seq(Nat), NEW i \in Nat
  PROVE  /\ Append(s, i) \in Seq(Nat) /\ Len(Append(s, i)) = Len(s) + 1
         /\ Append(s, i)[Len(s) + 1] = i
         /\ \A j \in 1..Len(s) : Append(s, i)[j] = s[j]
OBVIOUS

LEMMA DisconnectStep ==
  ASSUME PInv, Len(log) \in Nat, NEW v \in Viewer, Disconnect(v)
  PROVE  PInv'
<1> DEFINE w == view[v]
<1>1. IsPage(w) /\ InStep(w)
  BY DEF PInv
<1>2. PICK next : /\ next = [w EXCEPT !.open = FALSE, !.wire = <<>>]
                  /\ view' = [view EXCEPT ![v] = next] /\ UNCHANGED log
  BY DEF Disconnect, run
<1>3. IsPage(next) /\ ~next.open /\ next.wire = <<>> /\ Len(next.wire) = 0 /\ next.got = w.got
  BY <1>1, <1>2 DEF IsPage
<1>4. InStep(next)
  <2>1. PICK g \in Nat, k \in Nat : g = Len(w.got) /\ k = Len(w.wire)
    <3>1. Len(w.got) \in Nat /\ Len(w.wire) \in Nat
      BY <1>1 DEF IsPage
    <3> QED
      BY <3>1
  <2>2. g + k <= Len(log) /\ \A i \in 1..Len(w.got) : w.got[i] = i
    BY <1>1, <2>1 DEF InStep
  <2>3. g + 0 <= Len(log)
    BY <2>2
  <2> QED
    BY <1>3, <2>1, <2>2, <2>3 DEF InStep
<1> QED
  BY <1>2, <1>3, <1>4, OnePage

\* The event a poll sends is the one behind the last it sent.
LEMMA SendStep ==
  ASSUME PInv, Len(log) \in Nat, NEW v \in Viewer, Send(v)
  PROVE  PInv'
<1> DEFINE w == view[v]
<1>1. IsPage(w) /\ InStep(w) /\ w.got \in Seq(Nat) /\ w.wire \in Seq(Nat)
  BY DEF PInv, IsPage
<1>2. w.open /\ ~StreamDone(v) /\ UNCHANGED log
  BY DEF Send, run
<1>3. PICK i \in Unsent(v) :
           /\ \A j \in Unsent(v) : i <= j
           /\ view' = [view EXCEPT ![v] = [w EXCEPT !.sent = i, !.wire = Append(w.wire, i)]]
  BY DEF Send
<1>4. PICK g \in Nat, k \in Nat, n \in Nat : g = Len(w.got) /\ k = Len(w.wire) /\ n = Len(log)
  BY <1>1
<1>5. w.watching /\ w.sent = g + k /\ g + k <= n
  BY <1>1, <1>2, <1>4 DEF InStep
<1>6. i = g + k + 1 /\ i \in Nat /\ i <= n
  <2>1. Unsent(v) = {j \in 1..n : j > g + k}
    BY <1>4, <1>5 DEF Unsent
  <2>2. i \in Nat /\ i > g + k /\ i <= n
    BY <1>3, <2>1
  <2>3. g + k + 1 \in Unsent(v)
    BY <2>1, <2>2
  <2>4. i <= g + k + 1
    BY <1>3, <2>3
  <2> QED
    BY <2>2, <2>4
<1>7. PICK next : /\ next = [w EXCEPT !.sent = i, !.wire = Append(w.wire, i)]
                  /\ view' = [view EXCEPT ![v] = next]
  BY <1>3
<1>8. /\ Append(w.wire, i) \in Seq(Nat) /\ Len(Append(w.wire, i)) = k + 1
      /\ Append(w.wire, i)[k + 1] = i
      /\ \A j \in 1..k : Append(w.wire, i)[j] = w.wire[j]
  BY <1>1, <1>4, <1>6, Appended
<1>9. /\ IsPage(next) /\ next.open = w.open /\ next.watching = w.watching
      /\ next.sent = i /\ next.wire = Append(w.wire, i) /\ next.got = w.got
  BY <1>1, <1>6, <1>7, <1>8 DEF IsPage
<1>10. Len(next.wire) = k + 1 /\ Len(next.got) = g
  BY <1>4, <1>8, <1>9
<1>11. next.wire[k + 1] = i /\ \A j \in 1..k : next.wire[j] = w.wire[j]
  BY <1>8, <1>9
<1>12. InStep(next)
  <2>1. \A j \in 1..Len(next.got) : next.got[j] = j
    BY <1>1, <1>9 DEF InStep
  <2>2. ASSUME NEW j \in 1..k + 1 PROVE next.wire[j] = g + j
    <3>1. CASE j = k + 1
      BY <1>6, <1>11, <3>1
    <3>2. CASE j # k + 1
      <4>1. j \in 1..k
        BY <2>2, <3>2
      <4>2. w.wire[j] = g + j
        BY <1>1, <1>4, <4>1 DEF InStep
      <4> QED
        BY <1>11, <4>1, <4>2
    <3> QED
      BY <3>1, <3>2
  <2>3. g + (k + 1) <= n /\ i = g + (k + 1)
    BY <1>6
  <2>4. ASSUME NEW j \in 1..(k + 1) - 1 PROVE ~Terminal(log[next.wire[j]])
    <3>1. j \in 1..k /\ k > 0
      BY <2>4
    <3>2. next.wire[j] = w.wire[j] /\ w.wire # <<>>
      BY <1>4, <1>11, <3>1
    <3>3. CASE j = k
      <4>1. ~Terminal(log[w.wire[k]])
        BY <1>2, <1>4, <3>2 DEF StreamDone, Last
      <4> QED
        BY <3>2, <3>3, <4>1
    <3>4. CASE j # k
      <4>1. j \in 1..k - 1
        BY <3>1, <3>4
      <4>2. ~Terminal(log[w.wire[j]])
        BY <1>1, <1>4, <4>1 DEF InStep
      <4> QED
        BY <3>2, <4>2
    <3> QED
      BY <3>3, <3>4
  <2> QED
    BY <1>2, <1>4, <1>5, <1>9, <1>10, <2>1, <2>2, <2>3, <2>4 DEF InStep
<1> QED
  BY <1>2, <1>7, <1>9, <1>12, OnePage

LEMMA Headed ==
  ASSUME NEW s \in Seq(Nat), NEW k \in Nat, k = Len(s), s # <<>>
  PROVE  /\ k > 0 /\ Head(s) = s[1] /\ Tail(s) \in Seq(Nat) /\ Len(Tail(s)) = k - 1
         /\ \A j \in 1..k - 1 : Tail(s)[j] = s[j + 1]
         /\ k = 1 => Tail(s) = <<>>
OBVIOUS

\* The event a page receives is the one behind the last it has; the end of the
\* run is the last event on its way.
LEMMA ReceiveStep ==
  ASSUME PInv, Len(log) \in Nat, NEW v \in Viewer, Receive(v)
  PROVE  PInv'
<1> DEFINE w == view[v]
<1>1. IsPage(w) /\ InStep(w) /\ w.got \in Seq(Nat) /\ w.wire \in Seq(Nat)
  BY DEF PInv, IsPage
<1>2. w.open /\ w.wire # <<>> /\ UNCHANGED log
  BY DEF Receive, run
<1>3. PICK i, a, b :
        /\ i = Head(w.wire) /\ a = (log[i].type # "RUN_COMPLETED") /\ b = ~Terminal(log[i])
        /\ view' = [view EXCEPT ![v] = [w EXCEPT !.got = Append(w.got, i), !.wire = Tail(w.wire),
                                                 !.watching = a, !.open = b]]
  BY DEF Receive
<1>4. PICK g \in Nat, k \in Nat, n \in Nat : g = Len(w.got) /\ k = Len(w.wire) /\ n = Len(log)
  BY <1>1
<1>5. w.watching /\ w.sent = g + k /\ g + k <= n
  BY <1>1, <1>2, <1>4 DEF InStep
<1>6. /\ k > 0 /\ i = w.wire[1] /\ Tail(w.wire) \in Seq(Nat) /\ Len(Tail(w.wire)) = k - 1
      /\ \A j \in 1..k - 1 : Tail(w.wire)[j] = w.wire[j + 1]
      /\ k = 1 => Tail(w.wire) = <<>>
  BY <1>1, <1>2, <1>3, <1>4, Headed
<1>7. i = g + 1 /\ i \in Nat
  <2>1. 1 \in 1..k
    BY <1>6
  <2>2. w.wire[1] = g + 1
    BY <1>1, <1>4, <2>1 DEF InStep
  <2> QED
    BY <1>6, <2>2
<1>8. /\ Append(w.got, i) \in Seq(Nat) /\ Len(Append(w.got, i)) = g + 1
      /\ Append(w.got, i)[g + 1] = i
      /\ \A j \in 1..g : Append(w.got, i)[j] = w.got[j]
  BY <1>1, <1>4, <1>7, Appended
<1>9. PICK next : /\ next = [w EXCEPT !.got = Append(w.got, i), !.wire = Tail(w.wire),
                                      !.watching = a, !.open = b]
                  /\ view' = [view EXCEPT ![v] = next]
  BY <1>3
<1>10. /\ IsPage(next) /\ next.open = b /\ next.watching = a /\ next.sent = w.sent
       /\ next.wire = Tail(w.wire) /\ next.got = Append(w.got, i)
  BY <1>1, <1>6, <1>8, <1>9 DEF IsPage
<1>11. InStep(next)
  <2>1. ASSUME NEW j \in 1..g + 1 PROVE next.got[j] = j
    <3>1. CASE j = g + 1
      BY <1>7, <1>8, <1>10, <3>1
    <3>2. CASE j # g + 1
      <4>1. j \in 1..g
        BY <2>1, <3>2
      <4>2. w.got[j] = j
        BY <1>1, <1>4, <4>1 DEF InStep
      <4> QED
        BY <1>8, <1>10, <4>1, <4>2
    <3> QED
      BY <3>1, <3>2
  <2>2. ASSUME NEW j \in 1..k - 1 PROVE next.wire[j] = w.wire[j + 1] /\ next.wire[j] = (g + 1) + j
    <3>1. j + 1 \in 1..k /\ j \in Nat
      BY <1>6, <2>2
    <3>2. w.wire[j + 1] = g + (j + 1)
      BY <1>1, <1>4, <3>1 DEF InStep
    <3>3. g + (j + 1) = (g + 1) + j
      BY <3>1
    <3> QED
      BY <1>6, <1>10, <2>2, <3>2, <3>3
  <2>3. (g + 1) + (k - 1) <= n /\ w.sent = (g + 1) + (k - 1)
    BY <1>5, <1>6
  <2>4. b => a
    BY <1>3 DEF Terminal
  <2>5. ~b => next.wire = <<>>
    <3>1. CASE k = 1
      BY <1>6, <1>10, <3>1
    <3>2. CASE k # 1
      <4>1. 1 \in 1..k - 1
        BY <1>6, <3>2
      <4>2. ~Terminal(log[w.wire[1]])
        BY <1>1, <1>4, <4>1 DEF InStep
      <4> QED
        BY <1>3, <1>6, <4>2
    <3> QED
      BY <3>1, <3>2
  <2>6. ASSUME NEW j \in 1..(k - 1) - 1 PROVE ~Terminal(log[next.wire[j]])
    <3>1. j \in 1..k - 1 /\ j + 1 \in 1..k - 1
      BY <1>6, <2>6
    <3>2. ~Terminal(log[w.wire[j + 1]])
      BY <1>1, <1>4, <3>1 DEF InStep
    <3> QED
      BY <2>2, <3>1, <3>2
  <2>7. Len(next.got) = g + 1 /\ Len(next.wire) = k - 1
    BY <1>6, <1>8, <1>10
  <2> QED
    BY <1>4, <1>10, <2>1, <2>2, <2>3, <2>4, <2>5, <2>6, <2>7 DEF InStep
<1> QED
  BY <1>2, <1>9, <1>10, <1>11, OnePage

\* The server dies with its streams.
LEMMA CrashPages ==
  ASSUME PInv, Len(log) \in Nat, Crash
  PROVE  PInv'
<1>1. view' = [v \in Viewer |-> [view[v] EXCEPT !.open = FALSE, !.wire = <<>>]] /\ UNCHANGED log
  BY DEF Crash
<1>2. ASSUME NEW v \in Viewer PROVE IsPage(view'[v]) /\ InStep(view'[v])
  <2> DEFINE w == view[v]
  <2>1. IsPage(w) /\ InStep(w)
    BY DEF PInv
  <2>2. PICK next : next = [w EXCEPT !.open = FALSE, !.wire = <<>>] /\ view'[v] = next
    BY <1>1
  <2>3. IsPage(next) /\ ~next.open /\ next.wire = <<>> /\ Len(next.wire) = 0 /\ next.got = w.got
    BY <2>1, <2>2 DEF IsPage
  <2>4. PICK g \in Nat, k \in Nat : g = Len(w.got) /\ k = Len(w.wire)
    <3>1. Len(w.got) \in Nat /\ Len(w.wire) \in Nat
      BY <2>1 DEF IsPage
    <3> QED
      BY <3>1
  <2>5. g + k <= Len(log) /\ \A i \in 1..Len(w.got) : w.got[i] = i
    BY <2>1, <2>4 DEF InStep
  <2>6. g + 0 <= Len(log)
    BY <2>5
  <2>7. InStep(next)
    BY <2>3, <2>4, <2>5, <2>6 DEF InStep
  <2> QED
    BY <2>2, <2>3, <2>7
<1>3. ASSUME NEW v \in Viewer PROVE InStep(view[v])'
  BY <1>1, <1>2 DEF InStep
<1>4. ASSUME NEW v \in Viewer PROVE IsPage(view[v])'
  BY <1>2 DEF IsPage
<1> QED
  BY <1>1, <1>3, <1>4 DEF PInv

LEMMA RestartPages ==
  ASSUME PInv, Len(log) \in Nat, Restart
  PROVE  PInv'
<1>1. view' = [v \in Viewer |-> NotOpened] /\ UNCHANGED log
  BY DEF Restart, run
<1>2. IsPage(NotOpened) /\ InStep(NotOpened)
  <2>1. Len(NotOpened.got) = 0 /\ Len(NotOpened.wire) = 0
    BY DEF NotOpened
  <2> QED
    BY <2>1 DEF NotOpened, IsPage, InStep
<1>3. ASSUME NEW v \in Viewer PROVE InStep(view[v])' /\ IsPage(view[v])'
  BY <1>1, <1>2 DEF InStep, IsPage
<1> QED
  BY <1>1, <1>3 DEF PInv

LEMMA PagesStep ==
  ASSUME ServerAssumption, IInv, PInv, [ServerNext]_serverVars
  PROVE  PInv'
<1>1. Len(log) \in Nat
  BY DEF IInv, Shapes
<1>2. CASE UNCHANGED view
  <2>1. ASSUME NEW v \in Viewer PROVE InStep(view[v])'
    <3>1. view' = view /\ IsPage(view[v]) /\ InStep(view[v])
      BY <1>2 DEF PInv
    <3> QED
      BY <3>1, StaysInStep DEF InStep
  <2> QED
    BY <1>2, <2>1 DEF PInv, IsPage
<1>3. CASE \E v \in Viewer : Page(v)
  BY <1>1, <1>3, OpenStep, ReconnectStep, SendStep, ReceiveStep, DisconnectStep DEF Page
<1>4. CASE Crash
  BY <1>1, <1>4, CrashPages
<1>5. CASE Restart
  BY <1>1, <1>5, RestartPages
<1>6. CASE ~UNCHANGED view
  <2>1. ASSUME NEW e, Execute(e) PROVE UNCHANGED view
    BY <2>1 DEF Execute, Round, Decide, Fail, Finish, Release
  <2>2. ASSUME NEW c, Acceptance(c) PROVE UNCHANGED view
    BY <2>2 DEF Acceptance, Ask, ReopenToAccept, ReadTip, Accept, Override, PutAcceptance
  <2>3. (\E v \in Viewer : Page(v)) \/ Crash \/ Restart
    BY <1>6, <2>1, <2>2
       DEF ServerNext, Task, Resume, CreateRun, SpawnRun, SpawnFails, Register, Unregister, Panic, CancelRun,
           ResumeCheck, ResumeReopen, ResumeRead, KillResume, serverVars
  <2> QED
    BY <1>3, <1>4, <1>5, <2>3
<1> QED
  BY <1>2, <1>6

(***************************************************************************)
(* A page has received the first events of the log, each once and in order:*)
(* every connection begins behind what the page has, and a poll sends the  *)
(* event behind the last it sent (run_events, the page's EventSource).     *)
(***************************************************************************)
THEOREM PagesFollowLog == ASSUME ServerAssumption PROVE ServerSpec => []StreamFollowsLog
<1>1. ServerInit => IInv /\ PInv
  BY InvInit, PagesInit
<1>2. IInv /\ PInv /\ [ServerNext]_serverVars => (IInv /\ PInv)'
  BY InvStep, PagesStep
<1>3. PInv => StreamFollowsLog
  <2> SUFFICES ASSUME PInv, NEW v \in Viewer PROVE view[v].got = [i \in 1..Len(view[v].got) |-> i]
    BY DEF StreamFollowsLog
  <2>1. view[v].got \in Seq(Nat) /\ \A i \in 1..Len(view[v].got) : view[v].got[i] = i
    BY DEF PInv, IsPage, InStep
  <2>2. PICK s \in Seq(Nat) : s = view[v].got
    BY <2>1
  <2>3. s = [i \in 1..Len(s) |-> s[i]]
    OBVIOUS
  <2> QED
    BY <2>1, <2>2, <2>3
<1> QED
  BY <1>1, <1>2, <1>3, PTL DEF ServerSpec
=============================================================================
