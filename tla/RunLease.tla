----------------------------- MODULE RunLease -----------------------------
(***************************************************************************)
(* Who may write a run: the one row of run.db's `run` table and the        *)
(* functions of arbiter-store/src/lease.rs on it, as SqliteRunStore and    *)
(* SqliteRunWriter call them.  `create` inserts the row; `reopen` reads    *)
(* it, decides whether the recorded owner is gone, and then compares and   *)
(* swaps on lease_epoch; dropping a writer releases.  Processes start,     *)
(* exit without dropping anything (a crash, kill -9, the end of main), and *)
(* go down with their machine; the system reuses pids.                     *)
(*                                                                         *)
(* Each SQL statement is one action; reopen is two, because other          *)
(* processes run between its SELECT and its UPDATE.                        *)
(***************************************************************************)
EXTENDS Integers, FiniteSets

CONSTANTS
  Proc,     \* processes over time; each lives at most once
  Host,
  hostOf,   \* the machine a process runs on, [Proc -> Host]
  Pid,
  pidOf,    \* the pid it is given, [Proc -> Pid]; not injective
  NoPid,    \* the 0 that release writes
  Writer,   \* SqliteRunWriters that processes try to obtain
  procOf,   \* the process each belongs to, [Writer -> Proc]
  MaxBoots  \* bound: reboots of one machine

ASSUME LeaseAssumption ==
  /\ hostOf \in [Proc -> Host]
  /\ pidOf \in [Proc -> Pid]
  /\ procOf \in [Writer -> Proc]
  /\ NoPid \notin Pid
  /\ "released" \notin Host
  /\ MaxBoots \in Nat

\* All processes see one process table and one boot id.
SingleHost == \A p, q \in Proc : hostOf[p] = hostOf[q]

VARIABLES
  row,     \* the `run` row: lease_epoch, owner_pid, boot_id
  boots,   \* how often each machine has rebooted
  life,    \* of each process
  pc,      \* of each writer: how far create or reopen has come
  seen,    \* the epoch reopen's SELECT returned
  granted  \* the epoch create or reopen returned, 0 before; kept after the drop

leaseVars == <<row, boots, life, pc, seen, granted>>

---------------------------------------------------------------------------
\* boot_id(): one value per boot of a machine, never RELEASED_BOOT_ID.
BootIdOf(p) == <<hostOf[p], boots[hostOf[p]]>>

RELEASED_BOOT_ID == <<"released", 0>>

\* The row after `release`; with epoch 0, there is no row.
Unowned(epoch) == [lease_epoch |-> epoch, owner_pid |-> NoPid, boot_id |-> RELEASED_BOOT_ID]

OwnedBy(p, epoch) == [lease_epoch |-> epoch, owner_pid |-> pidOf[p], boot_id |-> BootIdOf(p)]

NoRow == row.lease_epoch = 0

Alive(p) == life[p] = "alive"

\* Mutant: a platform without a liveness check (lease.rs:16).
PidIsNeverAlive(p, pid) == FALSE

\* pid_is_alive, as process p asks its own machine.
PidIsAlive(p, pid) == \E q \in Proc : Alive(q) /\ hostOf[q] = hostOf[p] /\ pidOf[q] = pid

\* Mutant: only a reboot shows that the owner is gone.
OnlyRebootShows(p) ==
  row.boot_id = RELEASED_BOOT_ID \/ row.boot_id # BootIdOf(p)

OwnerIsGone(p) ==
  \/ row.boot_id = RELEASED_BOOT_ID
  \/ row.boot_id # BootIdOf(p)
  \/ ~PidIsAlive(p, row.owner_pid)

\* A writer that was granted the run and whose process is there to use it.
LiveOpen(w) == pc[w] = "open" /\ Alive(procOf[w])

---------------------------------------------------------------------------
Init ==
  /\ row = Unowned(0)
  /\ boots = [h \in Host |-> 0]
  /\ life = [p \in Proc |-> "unborn"]
  /\ pc = [w \in Writer |-> "idle"]
  /\ seen = [w \in Writer |-> 0]
  /\ granted = [w \in Writer |-> 0]

Start(p) ==
  /\ life[p] = "unborn"
  /\ ~PidIsAlive(p, pidOf[p])
  /\ life' = [life EXCEPT ![p] = "alive"]
  /\ UNCHANGED <<row, boots, pc, seen, granted>>

\* The process is gone and no Drop has run.
Die(p) ==
  /\ Alive(p)
  /\ life' = [life EXCEPT ![p] = "dead"]
  /\ UNCHANGED <<row, boots, pc, seen, granted>>

Reboot(h) ==
  /\ boots[h] < MaxBoots
  /\ boots' = [boots EXCEPT ![h] = @ + 1]
  /\ life' = [p \in Proc |-> IF hostOf[p] = h /\ Alive(p) THEN "dead" ELSE life[p]]
  /\ UNCHANGED <<row, pc, seen, granted>>

\* lease::create: the primary key decides.
Create(w) ==
  /\ Alive(procOf[w])
  /\ pc[w] = "idle"
  /\ NoRow
  /\ row' = OwnedBy(procOf[w], 1)
  /\ pc' = [pc EXCEPT ![w] = "open"]
  /\ granted' = [granted EXCEPT ![w] = 1]
  /\ UNCHANGED <<boots, life, seen>>

\* AlreadyOpen from the primary key, or NotFound.
CreateRefused(w) ==
  /\ Alive(procOf[w])
  /\ pc[w] = "idle"
  /\ ~NoRow
  /\ pc' = [pc EXCEPT ![w] = "refused"]
  /\ UNCHANGED <<row, boots, life, seen, granted>>

\* reopen's SELECT and the precondition.
ReadRow(w) ==
  /\ Alive(procOf[w])
  /\ pc[w] = "idle"
  /\ ~NoRow
  /\ OwnerIsGone(procOf[w])
  /\ pc' = [pc EXCEPT ![w] = "judged"]
  /\ seen' = [seen EXCEPT ![w] = row.lease_epoch]
  /\ UNCHANGED <<row, boots, life, granted>>

\* reopen's AlreadyOpen on a live owner, or its NotFound.
ReadRefused(w) ==
  /\ Alive(procOf[w])
  /\ pc[w] = "idle"
  /\ NoRow \/ ~OwnerIsGone(procOf[w])
  /\ pc' = [pc EXCEPT ![w] = "refused"]
  /\ UNCHANGED <<row, boots, life, seen, granted>>

\* reopen's UPDATE ... WHERE lease_epoch = ?, changed == 1.
TakeOver(w) ==
  /\ Alive(procOf[w])
  /\ pc[w] = "judged"
  /\ row.lease_epoch = seen[w]
  /\ row' = OwnedBy(procOf[w], seen[w] + 1)
  /\ pc' = [pc EXCEPT ![w] = "open"]
  /\ granted' = [granted EXCEPT ![w] = seen[w] + 1]
  /\ UNCHANGED <<boots, life, seen>>

\* Mutant: changed == 0 is not looked at.
LostRaceOpensAnyway(w) ==
  /\ Alive(procOf[w])
  /\ pc[w] = "judged"
  /\ row.lease_epoch # seen[w]
  /\ pc' = [pc EXCEPT ![w] = "open"]
  /\ UNCHANGED <<row, boots, life, seen, granted>>

\* changed == 0: somebody else took it in between.
LostRace(w) ==
  /\ Alive(procOf[w])
  /\ pc[w] = "judged"
  /\ row.lease_epoch # seen[w]
  /\ pc' = [pc EXCEPT ![w] = "refused"]
  /\ UNCHANGED <<row, boots, life, seen, granted>>

\* The command is tried again.
TryAgain(w) ==
  /\ Alive(procOf[w])
  /\ pc[w] = "refused"
  /\ pc' = [pc EXCEPT ![w] = "idle"]
  /\ UNCHANGED <<row, boots, life, seen, granted>>

\* Drop for SqliteRunWriter: release, fenced on the owner's identity.
Drop(w) ==
  /\ LiveOpen(w)
  /\ pc' = [pc EXCEPT ![w] = "closed"]
  /\ row' = IF row.owner_pid = pidOf[procOf[w]] /\ row.boot_id = BootIdOf(procOf[w])
              THEN Unowned(row.lease_epoch)
              ELSE row
  /\ UNCHANGED <<boots, life, seen, granted>>

World == (\E p \in Proc : Start(p) \/ Die(p)) \/ (\E h \in Host : Reboot(h))

Contend(w) ==
  \/ Create(w) \/ CreateRefused(w) \/ ReadRow(w) \/ ReadRefused(w)
  \/ TakeOver(w) \/ LostRace(w) \/ TryAgain(w) \/ Drop(w)

Next == World \/ \E w \in Writer : Contend(w)

Spec == Init /\ [][Next]_leaseVars

---------------------------------------------------------------------------
WriterState == {"idle", "judged", "open", "refused", "closed"}

BootId == (Host \X (0..MaxBoots)) \union {RELEASED_BOOT_ID}

TypeOK ==
  /\ row \in [lease_epoch : Nat, owner_pid : Pid \union {NoPid}, boot_id : BootId]
  /\ boots \in [Host -> 0..MaxBoots]
  /\ life \in [Proc -> {"unborn", "alive", "dead"}]
  /\ pc \in [Writer -> WriterState]
  /\ seen \in [Writer -> Nat]
  /\ granted \in [Writer -> Nat]

(***************************************************************************)
(* INTERFACES 1: never "two engines then believe they own the run", nor    *)
(* (lease.rs, RELEASED_BOOT_ID) "a live run's lease" handed "to a second   *)
(* writer".                                                                *)
(***************************************************************************)
OneWriter ==
  \A v, w \in Writer : LiveOpen(v) /\ LiveOpen(w) => v = w

(***************************************************************************)
(* The epoch is a fence: no two writers are ever granted the same one,     *)
(* whether or not they still write.  This is the compare-and-swap's part,  *)
(* and needs nothing of pids and boots.                                    *)
(***************************************************************************)
EpochsUnique ==
  \A v, w \in Writer : granted[v] # 0 /\ granted[v] = granted[w] => v = w

(***************************************************************************)
(* A writer that is alive keeps the row until it drops: transact() never   *)
(* looks at the epoch again, so this is what its writes rest on.           *)
(***************************************************************************)
KeepsLease ==
  [][\A w \in Writer :
        LiveOpen(w) /\ row' # row => pc'[w] = "closed"]_leaseVars

\* Who holds the fence, and its number.
Fence == INSTANCE WriteFence WITH
  holder <- {w \in Writer : LiveOpen(w)}, fence <- row.lease_epoch

\* The lease implements the fence: crashes, reboots and reused pids included.
RefinesFence == Fence!Spec
===========================================================================
