----------------------------- MODULE StoreProofs -----------------------------
(***************************************************************************)
(* Theorems about the store of a run: the lease (RunLease), the commands   *)
(* and the event log over it (RunLog), and the blobs beside it (BlobStore).*)
(* They hold for any number of processes, machines, writers, reboots,      *)
(* commands, events, payloads, sessions and sweeps, whether writes can     *)
(* fail or not.                                                            *)
(*                                                                         *)
(* That epochs are fencing tokens needs no assumption; that there is one   *)
(* writer at a time needs SingleHost, and is false without it.             *)
(***************************************************************************)
EXTENDS RunLog, BlobStore, TLAPS

---------------------------------------------------------------------------
(***************************************************************************)
(* The lease                                                               *)
(***************************************************************************)

LEMMA TypeInit == Init => TypeOK
<1> SUFFICES ASSUME Init PROVE TypeOK
  OBVIOUS
<1>1. row \in [lease_epoch : Nat, owner_pid : Pid \union {NoPid}, boot_id : BootId]
  BY DEF Init, Unowned, BootId, RELEASED_BOOT_ID
<1>2. boots \in [Host -> 0..MaxBoots]
  BY LeaseAssumption DEF Init
<1>3. /\ life \in [Proc -> {"unborn", "alive", "dead"}]
      /\ pc \in [Writer -> WriterState]
      /\ seen \in [Writer -> Nat]
      /\ granted \in [Writer -> Nat]
  BY DEF Init, WriterState
<1> QED
  BY <1>1, <1>2, <1>3 DEF TypeOK

\* A row OwnedBy a process is a row.
LEMMA RowType ==
  ASSUME TypeOK, NEW p \in Proc, NEW e \in Nat
  PROVE  /\ OwnedBy(p, e) \in [lease_epoch : Nat, owner_pid : Pid \union {NoPid}, boot_id : BootId]
         /\ Unowned(e) \in [lease_epoch : Nat, owner_pid : Pid \union {NoPid}, boot_id : BootId]
<1>1. BootIdOf(p) \in BootId
  BY LeaseAssumption DEF TypeOK, BootIdOf, BootId
<1>2. pidOf[p] \in Pid
  BY LeaseAssumption
<1>3. RELEASED_BOOT_ID \in BootId
  BY DEF BootId
<1> QED
  BY <1>1, <1>2, <1>3 DEF OwnedBy, Unowned

LEMMA TypeStep ==
  ASSUME TypeOK, [Next]_leaseVars
  PROVE  TypeOK'
<1> USE LeaseAssumption DEF WriterState
<1>0. BootId' = BootId
  BY DEF BootId, RELEASED_BOOT_ID
<1>1. ASSUME NEW p \in Proc, Start(p) \/ Die(p) PROVE TypeOK'
  BY <1>0, <1>1 DEF TypeOK, Start, Die
<1>2. ASSUME NEW h \in Host, Reboot(h) PROVE TypeOK'
  <2>1. boots' \in [Host -> 0..MaxBoots]
    BY <1>2 DEF TypeOK, Reboot
  <2>2. life' \in [Proc -> {"unborn", "alive", "dead"}]
    BY <1>2 DEF TypeOK, Reboot
  <2> QED
    BY <1>0, <1>2, <2>1, <2>2 DEF TypeOK, Reboot
<1>3. ASSUME NEW w \in Writer, Contend(w) PROVE TypeOK'
  <2>1. procOf[w] \in Proc
    OBVIOUS
  <2>2. CASE Create(w)
    <3>1. row' \in [lease_epoch : Nat, owner_pid : Pid \union {NoPid}, boot_id : BootId]
      BY <2>1, <2>2, RowType DEF Create
    <3> QED
      BY <1>0, <2>2, <3>1 DEF TypeOK, Create
  <2>3. CASE TakeOver(w)
    <3>1. seen[w] + 1 \in Nat
      BY DEF TypeOK
    <3>2. row' \in [lease_epoch : Nat, owner_pid : Pid \union {NoPid}, boot_id : BootId]
      BY <2>1, <2>3, <3>1, RowType DEF TakeOver
    <3> QED
      BY <1>0, <2>3, <3>1, <3>2 DEF TypeOK, TakeOver
  <2>4. CASE Drop(w)
    <3>1. row.lease_epoch \in Nat
      BY DEF TypeOK
    <3>2. row' \in [lease_epoch : Nat, owner_pid : Pid \union {NoPid}, boot_id : BootId]
      BY <2>1, <2>4, <3>1, RowType DEF Drop, TypeOK
    <3> QED
      BY <1>0, <2>4, <3>2 DEF TypeOK, Drop
  <2>5. CASE ReadRow(w)
    BY <1>0, <2>5 DEF TypeOK, ReadRow
  <2>6. CASE CreateRefused(w) \/ ReadRefused(w) \/ LostRace(w) \/ TryAgain(w)
    BY <1>0, <2>6 DEF TypeOK, CreateRefused, ReadRefused, LostRace, TryAgain
  <2> QED
    BY <1>3, <2>2, <2>3, <2>4, <2>5, <2>6 DEF Contend
<1>4. CASE UNCHANGED leaseVars
  BY <1>0, <1>4 DEF TypeOK, leaseVars
<1> QED
  BY <1>1, <1>2, <1>3, <1>4 DEF Next, World

\* The type invariant of the lease.
THEOREM TypeCorrect == Spec => []TypeOK
  BY TypeInit, TypeStep, PTL DEF Spec

---------------------------------------------------------------------------
\* What has been granted or read is not ahead of the row.
NotAhead ==
  \A w \in Writer : granted[w] <= row.lease_epoch /\ seen[w] <= row.lease_epoch

EpochInv == TypeOK /\ NotAhead /\ EpochsUnique

LEMMA EpochStep ==
  ASSUME EpochInv, [Next]_leaseVars
  PROVE  EpochInv'
<1> USE LeaseAssumption DEF EpochInv
<1>1. TypeOK'
  BY TypeStep
<1>2. ASSUME UNCHANGED <<granted, seen>>, row'.lease_epoch = row.lease_epoch
      PROVE  NotAhead' /\ EpochsUnique'
  BY <1>2 DEF NotAhead, EpochsUnique
<1>3. ASSUME NEW w \in Writer, NEW e \in Nat, e > row.lease_epoch,
             row'.lease_epoch = e, granted' = [granted EXCEPT ![w] = e], seen' = seen
      PROVE  NotAhead' /\ EpochsUnique'
  <2>1. row.lease_epoch \in Nat
    BY DEF TypeOK
  <2>2. NotAhead'
    BY <1>3, <2>1 DEF NotAhead, TypeOK
  <2>3. ASSUME NEW u \in Writer, NEW v \in Writer, granted'[u] # 0, granted'[u] = granted'[v]
        PROVE  u = v
    BY <1>3, <2>1, <2>3 DEF NotAhead, EpochsUnique, TypeOK
  <2> QED
    BY <2>2, <2>3 DEF EpochsUnique
<1>4. ASSUME NEW w \in Writer, Contend(w) PROVE NotAhead' /\ EpochsUnique'
  <2>1. CASE Create(w)
    <3>1. row'.lease_epoch = 1 /\ 1 > row.lease_epoch
      BY <2>1 DEF Create, OwnedBy, NoRow
    <3> QED
      BY <1>3, <2>1, <3>1 DEF Create
  <2>2. CASE TakeOver(w)
    <3>1. seen[w] + 1 \in Nat /\ seen[w] + 1 > row.lease_epoch
      BY <2>2 DEF TakeOver, TypeOK
    <3> QED
      BY <1>3, <2>2, <3>1 DEF TakeOver, OwnedBy
  <2>3. CASE ReadRow(w)
    <3>1. row.lease_epoch \in Nat
      BY DEF TypeOK
    <3> QED
      BY <2>3, <3>1 DEF ReadRow, NotAhead, EpochsUnique, TypeOK
  <2>4. CASE Drop(w)
    BY <1>2, <2>4 DEF Drop, Unowned
  <2>5. CASE CreateRefused(w) \/ ReadRefused(w) \/ LostRace(w) \/ TryAgain(w)
    BY <1>2, <2>5 DEF CreateRefused, ReadRefused, LostRace, TryAgain
  <2> QED
    BY <1>4, <2>1, <2>2, <2>3, <2>4, <2>5 DEF Contend
<1>5. CASE World \/ UNCHANGED leaseVars
  <2>1. ASSUME NEW p \in Proc, Start(p) \/ Die(p) PROVE UNCHANGED <<row, granted, seen>>
    BY <2>1 DEF Start, Die
  <2>2. ASSUME NEW h \in Host, Reboot(h) PROVE UNCHANGED <<row, granted, seen>>
    BY <2>2 DEF Reboot
  <2>3. UNCHANGED leaseVars => UNCHANGED <<row, granted, seen>>
    BY DEF leaseVars
  <2>4. UNCHANGED <<row, granted, seen>>
    BY <1>5, <2>1, <2>2, <2>3 DEF World
  <2>5. NotAhead' /\ EpochsUnique'
    BY <1>2, <2>4
  <2> QED
    BY <1>1, <2>5
<1> QED
  BY <1>1, <1>4, <1>5 DEF Next

LEMMA EpochInvariant == Spec => []EpochInv
<1>1. Init => EpochInv
  <2> SUFFICES ASSUME Init PROVE NotAhead /\ EpochsUnique
    BY TypeInit DEF EpochInv
  <2> QED
    BY DEF Init, Unowned, NotAhead, EpochsUnique
<1> QED
  BY <1>1, EpochStep, PTL DEF Spec

(***************************************************************************)
(* lease_epoch is a fencing token: never granted twice, over any crashes,  *)
(* reboots, pid reuse and machines.                                        *)
(***************************************************************************)
THEOREM EpochsAreUnique == Spec => []EpochsUnique
  BY EpochInvariant, PTL DEF EpochInv

---------------------------------------------------------------------------
\* A live writer's row is its own.
OwnsRow(w) ==
  /\ granted[w] = row.lease_epoch
  /\ row.lease_epoch # 0
  /\ row.owner_pid = pidOf[procOf[w]]
  /\ row.boot_id = BootIdOf(procOf[w])

(***************************************************************************)
(* Why the compare-and-swap and the precondition suffice together: a       *)
(* writer that judged the owner gone, and whose epoch is still the row's,  *)
(* was right and still is, since every new owner moves the epoch on.       *)
(***************************************************************************)
LeaseInv ==
  /\ EpochInv
  /\ \A w \in Writer : life[procOf[w]] = "unborn" => pc[w] = "idle"
  /\ \A w \in Writer : LiveOpen(w) => OwnsRow(w)
  /\ \A w \in Writer : pc[w] = "judged" => row.lease_epoch # 0
  /\ \A v, w \in Writer : pc[w] = "judged" /\ seen[w] = row.lease_epoch => ~LiveOpen(v)

\* One writer at a time: the owner of the row.
LEMMA AtMostOne == LeaseInv => OneWriter
  BY DEF LeaseInv, EpochInv, EpochsUnique, OneWriter, OwnsRow

\* The precondition is exact on one machine: who is judged gone is gone.
LEMMA JudgedRight ==
  ASSUME SingleHost, LeaseInv, NEW p \in Proc, OwnerIsGone(p), NEW v \in Writer
  PROVE  ~LiveOpen(v)
<1> SUFFICES ASSUME LiveOpen(v) PROVE FALSE
  OBVIOUS
<1> USE LeaseAssumption
<1>1. row.owner_pid = pidOf[procOf[v]] /\ row.boot_id = BootIdOf(procOf[v])
  BY DEF LeaseInv, OwnsRow
<1>2. procOf[v] \in Proc /\ hostOf[procOf[v]] = hostOf[p] /\ Alive(procOf[v])
  BY DEF SingleHost, LiveOpen
<1>3. row.boot_id = BootIdOf(p)
  BY <1>1, <1>2 DEF BootIdOf
<1>4. row.boot_id # RELEASED_BOOT_ID
  BY <1>3 DEF BootIdOf, RELEASED_BOOT_ID
<1>5. PidIsAlive(p, row.owner_pid)
  BY <1>1, <1>2 DEF PidIsAlive
<1> QED
  BY <1>3, <1>4, <1>5 DEF OwnerIsGone

\* What one step can do to the set of live writers.
LEMMA WorldStep ==
  ASSUME LeaseInv, World
  PROVE  /\ UNCHANGED <<row, pc, seen, granted>>
         /\ \A w \in Writer : LiveOpen(w)' => LiveOpen(w) /\ BootIdOf(procOf[w])' = BootIdOf(procOf[w])
         /\ \A w \in Writer : life'[procOf[w]] = "unborn" => life[procOf[w]] = "unborn"
<1> USE LeaseAssumption DEF LeaseInv, EpochInv, TypeOK
<1>1. ASSUME NEW p \in Proc, Start(p)
      PROVE  /\ UNCHANGED <<row, boots, pc, seen, granted>>
             /\ \A w \in Writer : LiveOpen(w)' => LiveOpen(w)
             /\ \A w \in Writer : life'[procOf[w]] = "unborn" => life[procOf[w]] = "unborn"
  BY <1>1 DEF Start, LiveOpen, Alive
<1>2. ASSUME NEW p \in Proc, Die(p)
      PROVE  /\ UNCHANGED <<row, boots, pc, seen, granted>>
             /\ \A w \in Writer : LiveOpen(w)' => LiveOpen(w)
             /\ \A w \in Writer : life'[procOf[w]] = "unborn" => life[procOf[w]] = "unborn"
  BY <1>2 DEF Die, LiveOpen, Alive
<1>3. ASSUME NEW h \in Host, Reboot(h), NEW w \in Writer
      PROVE  /\ UNCHANGED <<row, pc, seen, granted>>
             /\ LiveOpen(w)' => LiveOpen(w) /\ BootIdOf(procOf[w])' = BootIdOf(procOf[w])
             /\ life'[procOf[w]] = "unborn" => life[procOf[w]] = "unborn"
  <2>1. procOf[w] \in Proc
    OBVIOUS
  <2>2. LiveOpen(w)' => Alive(procOf[w]) /\ hostOf[procOf[w]] # h
    BY <1>3, <2>1 DEF Reboot, LiveOpen, Alive
  <2>3. hostOf[procOf[w]] # h => BootIdOf(procOf[w])' = BootIdOf(procOf[w])
    BY <1>3, <2>1 DEF Reboot, BootIdOf
  <2> QED
    BY <1>3, <2>1, <2>2, <2>3 DEF Reboot, LiveOpen
<1>4. CASE \E p \in Proc : Start(p) \/ Die(p)
  <2>1. /\ UNCHANGED <<row, boots, pc, seen, granted>>
        /\ \A w \in Writer : LiveOpen(w)' => LiveOpen(w)
        /\ \A w \in Writer : life'[procOf[w]] = "unborn" => life[procOf[w]] = "unborn"
    BY <1>1, <1>2, <1>4
  <2> QED
    BY <2>1 DEF BootIdOf
<1>5. CASE \E h \in Host : Reboot(h)
  <2>1. PICK h \in Host : Reboot(h)
    BY <1>5
  <2>2. UNCHANGED <<row, pc, seen, granted>>
    BY <2>1 DEF Reboot
  <2> QED
    BY <1>3, <2>1, <2>2
<1> QED
  BY <1>4, <1>5 DEF World

LEMMA LeaseStep ==
  ASSUME SingleHost, LeaseInv, [Next]_leaseVars
  PROVE  LeaseInv'
<1> USE LeaseAssumption
<1> DEFINE Unborn == \A w \in Writer : life[procOf[w]] = "unborn" => pc[w] = "idle"
           Owned == \A w \in Writer : LiveOpen(w) => OwnsRow(w)
           HasRow == \A w \in Writer : pc[w] = "judged" => row.lease_epoch # 0
           Free == \A v, w \in Writer :
                     pc[w] = "judged" /\ seen[w] = row.lease_epoch => ~LiveOpen(v)
<1>1. Unborn /\ Owned /\ HasRow /\ Free /\ EpochInv /\ TypeOK
  BY DEF LeaseInv, EpochInv
<1>2. EpochInv'
  BY <1>1, EpochStep
<1>3. SUFFICES Unborn' /\ Owned' /\ HasRow' /\ Free'
  BY <1>2 DEF LeaseInv
<1>4. CASE World
  <2>1. /\ UNCHANGED <<row, pc, seen, granted>>
        /\ \A w \in Writer : LiveOpen(w)' => LiveOpen(w) /\ BootIdOf(procOf[w])' = BootIdOf(procOf[w])
        /\ \A w \in Writer : life'[procOf[w]] = "unborn" => life[procOf[w]] = "unborn"
    BY <1>4, WorldStep
  <2>2. Owned'
    BY <1>1, <2>1 DEF OwnsRow
  <2>3. Unborn' /\ HasRow' /\ Free'
    BY <1>1, <2>1
  <2> QED
    BY <2>2, <2>3
<1>5. ASSUME NEW w \in Writer, pc[w] \in {"idle", "judged", "refused"}, Alive(procOf[w]),
             \E s \in {"idle", "judged", "refused"} : pc' = [pc EXCEPT ![w] = s],
             UNCHANGED <<row, boots, life, granted>>
      PROVE  Unborn' /\ Owned' /\ \A v \in Writer : LiveOpen(v)' <=> LiveOpen(v)
  <2>1. \A v \in Writer : LiveOpen(v)' <=> LiveOpen(v)
    BY <1>1, <1>5 DEF TypeOK, LiveOpen, Alive
  <2>2. Unborn'
    BY <1>1, <1>5 DEF TypeOK, Alive
  <2>3. Owned'
    BY <1>1, <1>5, <2>1 DEF OwnsRow, BootIdOf
  <2> QED
    BY <2>1, <2>2, <2>3
<1>6. ASSUME NEW w \in Writer, CreateRefused(w) \/ ReadRefused(w) \/ LostRace(w) \/ TryAgain(w)
      PROVE  Unborn' /\ Owned' /\ HasRow' /\ Free'
  <2>1. /\ pc[w] \in {"idle", "judged", "refused"} /\ Alive(procOf[w])
        /\ \E s \in {"idle", "refused"} : pc' = [pc EXCEPT ![w] = s]
        /\ UNCHANGED <<row, boots, life, seen, granted>>
    BY <1>6 DEF CreateRefused, ReadRefused, LostRace, TryAgain
  <2>2. Unborn' /\ Owned' /\ \A v \in Writer : LiveOpen(v)' <=> LiveOpen(v)
    BY <1>5, <2>1
  <2>3. HasRow' /\ Free'
    BY <1>1, <2>1, <2>2 DEF TypeOK
  <2> QED
    BY <2>2, <2>3
<1>7. ASSUME NEW w \in Writer, ReadRow(w)
      PROVE  Unborn' /\ Owned' /\ HasRow' /\ Free'
  <2>1. Unborn' /\ Owned' /\ \A v \in Writer : LiveOpen(v)' <=> LiveOpen(v)
    BY <1>5, <1>7 DEF ReadRow
  <2>2. \A v \in Writer : ~LiveOpen(v)
    BY <1>7, JudgedRight DEF ReadRow
  <2>3. HasRow'
    BY <1>1, <1>7 DEF ReadRow, NoRow, TypeOK
  <2> QED
    BY <2>1, <2>2, <2>3
<1>8. ASSUME NEW w \in Writer, NEW e \in Nat, Create(w) \/ TakeOver(w),
             \A v \in Writer : ~LiveOpen(v), e > row.lease_epoch,
             row' = OwnedBy(procOf[w], e), granted' = [granted EXCEPT ![w] = e]
      PROVE  Unborn' /\ Owned' /\ HasRow' /\ Free'
  <2>1. /\ pc' = [pc EXCEPT ![w] = "open"] /\ Alive(procOf[w])
        /\ UNCHANGED <<boots, life, seen>>
    BY <1>8 DEF Create, TakeOver
  <2>2. \A v \in Writer : LiveOpen(v)' => v = w
    BY <1>1, <1>8, <2>1 DEF TypeOK, LiveOpen, Alive
  <2>3. row'.lease_epoch = e /\ row'.owner_pid = pidOf[procOf[w]] /\ row'.boot_id = BootIdOf(procOf[w])
    BY <1>8 DEF OwnedBy
  <2>4. e # 0 /\ granted'[w] = e /\ row.lease_epoch \in Nat
    BY <1>1, <1>8 DEF TypeOK
  <2>5. Owned'
    BY <2>1, <2>2, <2>3, <2>4 DEF OwnsRow, BootIdOf
  <2>6. \A v \in Writer : seen'[v] < row'.lease_epoch
    BY <1>1, <1>8, <2>1, <2>3, <2>4 DEF EpochInv, NotAhead, TypeOK
  <2>7. Unborn'
    BY <1>1, <2>1 DEF TypeOK, Alive
  <2>8. HasRow'
    BY <2>3, <2>4
  <2>9. Free'
    BY <1>1, <2>1, <2>6 DEF TypeOK
  <2> QED
    BY <2>5, <2>7, <2>8, <2>9
<1>9. ASSUME NEW w \in Writer, Create(w)
      PROVE  Unborn' /\ Owned' /\ HasRow' /\ Free'
  <2>1. \A v \in Writer : ~LiveOpen(v)
    BY <1>1, <1>9 DEF Create, NoRow, OwnsRow
  <2>2. 1 > row.lease_epoch
    BY <1>9 DEF Create, NoRow
  <2> QED
    BY <1>8, <1>9, <2>1, <2>2 DEF Create
<1>10. ASSUME NEW w \in Writer, TakeOver(w)
       PROVE  Unborn' /\ Owned' /\ HasRow' /\ Free'
  <2>1. \A v \in Writer : ~LiveOpen(v)
    BY <1>1, <1>10 DEF TakeOver
  <2>2. seen[w] + 1 \in Nat /\ seen[w] + 1 > row.lease_epoch
    BY <1>1, <1>10 DEF TakeOver, TypeOK
  <2> QED
    BY <1>8, <1>10, <2>1, <2>2 DEF TakeOver
<1>11. ASSUME NEW w \in Writer, Drop(w)
       PROVE  Unborn' /\ Owned' /\ HasRow' /\ Free'
  <2>1. \A v \in Writer : LiveOpen(v) => v = w
    BY <1>11, AtMostOne DEF Drop, OneWriter
  <2>2. pc' = [pc EXCEPT ![w] = "closed"] /\ UNCHANGED <<boots, life, seen, granted>>
    BY <1>11 DEF Drop
  <2>3. \A v \in Writer : ~LiveOpen(v)'
    BY <1>1, <2>1, <2>2 DEF TypeOK, LiveOpen, Alive
  <2>4. row'.lease_epoch = row.lease_epoch
    BY <1>11 DEF Drop, Unowned
  <2>5. Unborn'
    BY <1>1, <1>11, <2>2 DEF TypeOK, Drop, LiveOpen, Alive
  <2>6. HasRow'
    BY <1>1, <2>2, <2>4 DEF TypeOK
  <2> QED
    BY <2>3, <2>5, <2>6
<1>12. CASE UNCHANGED leaseVars
  <2>1. \A v \in Writer : (LiveOpen(v)' <=> LiveOpen(v)) /\ (OwnsRow(v)' <=> OwnsRow(v))
    BY <1>12 DEF leaseVars, LiveOpen, Alive, OwnsRow, BootIdOf
  <2> QED
    BY <1>1, <1>12, <2>1 DEF leaseVars
<1> QED
  BY <1>4, <1>6, <1>7, <1>9, <1>10, <1>11, <1>12 DEF Next, Contend

LEMMA LeaseInvariant ==
  ASSUME SingleHost
  PROVE  Spec => []LeaseInv
<1>1. Init => LeaseInv
  <2> SUFFICES ASSUME Init PROVE LeaseInv
    OBVIOUS
  <2>1. EpochInv
    BY TypeInit DEF Init, Unowned, EpochInv, NotAhead, EpochsUnique
  <2>2. \A w \in Writer : pc[w] = "idle"
    BY DEF Init
  <2> QED
    BY <2>1, <2>2 DEF LeaseInv, LiveOpen
<1> QED
  BY <1>1, LeaseStep, PTL DEF Spec

(***************************************************************************)
(* On one machine two engines never both own the run, whatever crashes,    *)
(* reboots, reused pids and races for the row there are.                   *)
(***************************************************************************)
THEOREM MutualExclusion ==
  ASSUME SingleHost
  PROVE  Spec => []OneWriter
  BY LeaseInvariant, AtMostOne, PTL

(***************************************************************************)
(* A live writer is never displaced, so that transact() need not look at   *)
(* the epoch: the row changes under it only by its own drop.               *)
(***************************************************************************)
THEOREM NeverDisplaced ==
  ASSUME SingleHost
  PROVE  Spec => KeepsLease
<1> DEFINE Keeps == \A w \in Writer : LiveOpen(w) /\ row' # row => pc'[w] = "closed"
<1>1. LeaseInv /\ [Next]_leaseVars => [Keeps]_leaseVars
  <2> SUFFICES ASSUME LeaseInv, Next, NEW w \in Writer, LiveOpen(w), row' # row
               PROVE  pc'[w] = "closed"
    BY DEF leaseVars
  <2>1. ~World
    BY WorldStep
  <2>2. PICK v \in Writer : Contend(v)
    BY <2>1 DEF Next
  <2>3. ~Create(v)
    BY DEF LeaseInv, OwnsRow, Create, NoRow
  <2>4. ~TakeOver(v)
    BY DEF LeaseInv, TakeOver
  <2>5. Drop(v)
    BY <2>2, <2>3, <2>4 DEF Contend, CreateRefused, ReadRow, ReadRefused, LostRace, TryAgain
  <2>6. v = w
    BY <2>5, AtMostOne DEF Drop, OneWriter
  <2> QED
    BY <2>5, <2>6 DEF Drop, LeaseInv, EpochInv, TypeOK
<1>2. []LeaseInv /\ [][Next]_leaseVars => [][Keeps]_leaseVars
  BY <1>1, PTL
<1> QED
  BY <1>2, LeaseInvariant, PTL DEF Spec, KeepsLease

(***************************************************************************)
(* The lease implements the fence: create and reopen acquire it, a drop or *)
(* a death lets go, and nothing else touches it.                           *)
(***************************************************************************)
THEOREM Refinement ==
  ASSUME SingleHost
  PROVE  Spec => RefinesFence
<1> DEFINE Holder == {w \in Writer : LiveOpen(w)}
<1>1. Init => Fence!Init
  BY DEF Init, Fence!Init, LiveOpen, Unowned
<1>2. LeaseInv /\ LeaseInv' /\ [Next]_leaseVars => [Fence!Next]_(Fence!fenceVars)
  <2> SUFFICES ASSUME LeaseInv, LeaseInv', [Next]_leaseVars
               PROVE  Fence!Next \/ UNCHANGED Fence!fenceVars
    OBVIOUS
  <2> USE LeaseAssumption DEF Fence!Next, Fence!fenceVars
  <2>1. \A v, w \in Holder : v = w
    BY AtMostOne DEF OneWriter
  <2>2. TypeOK
    BY DEF LeaseInv, EpochInv
  <2>3. ASSUME Holder' \subseteq Holder, row'.lease_epoch = row.lease_epoch
        PROVE  Fence!Next \/ UNCHANGED Fence!fenceVars
    <3>1. CASE Holder' = Holder
      BY <2>3, <3>1
    <3>2. CASE Holder' # Holder
      <4>1. Holder # {} /\ Holder' = {}
        BY <2>1, <2>3, <3>2
      <4>2. Fence!LetGo
        BY <2>3, <4>1 DEF Fence!LetGo
      <4> QED
        BY <4>2
    <3> QED
      BY <3>1, <3>2
  <2>4. ASSUME NEW w \in Writer, Create(w) \/ TakeOver(w)
        PROVE  Fence!Acquire(w)
    <3>1. Holder = {}
      BY <2>4 DEF Create, TakeOver, NoRow, LeaseInv, OwnsRow
    <3>2. /\ pc' = [pc EXCEPT ![w] = "open"] /\ Alive(procOf[w]) /\ UNCHANGED life
      BY <2>4 DEF Create, TakeOver
    <3>3. Holder' = {w}
      BY <2>2, <3>1, <3>2 DEF TypeOK, LiveOpen, Alive
    <3>4. row'.lease_epoch = row.lease_epoch + 1
      BY <2>2, <2>4 DEF TypeOK, Create, TakeOver, NoRow, OwnedBy
    <3> QED
      BY <3>1, <3>3, <3>4 DEF Fence!Acquire
  <2>5. ASSUME NEW w \in Writer, Contend(w), ~Create(w), ~TakeOver(w)
        PROVE  Holder' \subseteq Holder /\ row'.lease_epoch = row.lease_epoch
    <3>1. CASE Drop(w)
      <4>1. Holder' \subseteq Holder
        BY <2>2, <3>1 DEF Drop, TypeOK, LiveOpen, Alive
      <4>2. row'.lease_epoch = row.lease_epoch
        BY <3>1 DEF Drop, Unowned
      <4> QED
        BY <4>1, <4>2
    <3>2. CASE CreateRefused(w) \/ ReadRow(w) \/ ReadRefused(w) \/ LostRace(w) \/ TryAgain(w)
      <4>1. /\ \E s \in {"idle", "judged", "refused"} : pc' = [pc EXCEPT ![w] = s]
            /\ UNCHANGED <<row, life>>
        BY <3>2 DEF CreateRefused, ReadRow, ReadRefused, LostRace, TryAgain
      <4> QED
        BY <2>2, <4>1 DEF TypeOK, LiveOpen, Alive
    <3> QED
      BY <2>5, <3>1, <3>2 DEF Contend
  <2>6. CASE World
    <3>1. Holder' \subseteq Holder /\ row' = row
      BY <2>6, WorldStep
    <3> QED
      BY <2>3, <3>1
  <2>7. CASE UNCHANGED leaseVars
    <3>1. Holder' = Holder /\ row' = row
      BY <2>7 DEF leaseVars, LiveOpen, Alive
    <3> QED
      BY <2>3, <3>1
  <2> QED
    BY <2>3, <2>4, <2>5, <2>6, <2>7 DEF Next
<1> QED
  BY <1>1, <1>2, LeaseInvariant, PTL DEF Spec, RefinesFence, Fence!Spec

---------------------------------------------------------------------------
(***************************************************************************)
(* The commands and the log                                                *)
(***************************************************************************)

(* The commands only do to the lease what the lease allows. *)

LEMMA LeaseStepOfCommand ==
  ASSUME [LogNext]_allVars
  PROVE  [Next]_leaseVars
<1>1. CASE Around
  BY <1>1 DEF Around, Next
<1>2. ASSUME NEW w \in Writer, CreateRun(w) \/ Reopen(w) \/ Leave(w)
      PROVE  Next
  BY <1>2 DEF CreateRun, Reopen, Leave, Next, Contend
<1>3. ASSUME NEW w \in Writer, Command(w), ~(CreateRun(w) \/ Reopen(w) \/ Leave(w))
      PROVE  UNCHANGED leaseVars
  BY <1>3 DEF Command, RunStarted, CheckFinished, CheckChain, CheckDecided, GiveUp, ReadTip,
     Emit, StageFails, Synthesize, PersistFails, Finish, Accept, Override, PutAcceptance
<1>4. CASE UNCHANGED allVars
  BY <1>4 DEF allVars, leaseVars
<1> QED
  BY <1>1, <1>2, <1>3, <1>4 DEF LogNext

(***************************************************************************)
(* The commands of the CLI and the server use the lease as lease.rs means  *)
(* it: every behaviour of the log is one of the lease.                     *)
(***************************************************************************)
THEOREM ImplementsLease == LogSpec => Spec
<1>1. LogInit => Init
  BY DEF LogInit
<1> QED
  BY <1>1, LeaseStepOfCommand, PTL DEF LogSpec, Spec

---------------------------------------------------------------------------
(* What a command's step does to the chain, one case each. *)

Writing == {"stages", "synthesized", "failing", "accepting", "overriding"}

Moves(w) ==
  \E s \in Step \ {"begin", "created"} : step' = [step EXCEPT ![w] = s]

\* Nothing is written; no step that starts writing.
Silent(w) ==
  /\ UNCHANGED <<leaseVars, log, tip, minted>>
  /\ UNCHANGED lost \/ lost' = [lost EXCEPT ![w] = TRUE]
  /\ Moves(w)
  /\ step'[w] \in Writing => step[w] \in Writing

\* The lease moves, for w alone, and the log does not.
LeaseOnly(w) ==
  /\ UNCHANGED <<log, tip, minted, lost, decisions>>
  /\ \E s \in Step \ ({"begin"} \union Writing) :
        step' = [step EXCEPT ![w] = s] /\ (s = "created" => Create(w) /\ step[w] = "begin")
  /\ \A v \in Writer \ {w} : LiveOpen(v)' => LiveOpen(v)

Catches(w) ==
  /\ UNCHANGED <<leaseVars, log, minted, lost, decisions>>
  /\ tip' = [tip EXCEPT ![w] = LastHash]
  /\ Moves(w)

Writes(w) ==
  /\ LiveOpen(w)
  /\ step[w] \in Writing \union {"created"}
  /\ UNCHANGED <<leaseVars, decisions>>
  /\ Moves(w)
  /\ \E n \in Nat, type \in EventType : AppendChained(w, n, type) \/ LoseEvent(w, n)

LEMMA CommandEffect ==
  ASSUME LogTypeOK, NEW w \in Writer, Command(w)
  PROVE  Silent(w) \/ LeaseOnly(w) \/ Catches(w) \/ Writes(w)
<1> USE DEF Goto, Step
<1>0. /\ step \in [Writer -> Step] /\ minted[w] + 1 \in Nat
      /\ step = [step EXCEPT ![w] = step[w]] /\ step[w] \in Step
  BY DEF LogTypeOK
<1>1. CASE CreateRun(w) \/ Reopen(w) \/ Leave(w)
  <2>1. /\ UNCHANGED <<log, tip, minted, lost, decisions>>
        /\ \E s \in Step \ ({"begin"} \union Writing) :
              step' = [step EXCEPT ![w] = s] /\ (s = "created" => Create(w) /\ step[w] = "begin")
    BY <1>0, <1>1 DEF CreateRun, Reopen, Leave, Writing
  <2>2. UNCHANGED life /\ \E s \in WriterState : pc' = [pc EXCEPT ![w] = s]
    BY <1>1 DEF CreateRun, Reopen, Leave, Create, CreateRefused, ReadRow, ReadRefused,
       TakeOver, LostRace, Drop, WriterState
  <2>3. pc \in [Writer -> WriterState]
    BY DEF LogTypeOK, TypeOK
  <2>4. \A v \in Writer \ {w} : LiveOpen(v)' => LiveOpen(v)
    BY <2>2, <2>3 DEF LiveOpen, Alive
  <2> QED
    BY <2>1, <2>4 DEF LeaseOnly
<1>2. CASE CheckFinished(w) \/ CheckChain(w) \/ CheckDecided(w) \/ GiveUp(w)
  BY <1>0, <1>2 DEF CheckFinished, CheckChain, CheckDecided, GiveUp, Silent, Moves, Writing
<1>3. CASE StageFails(w) \/ Synthesize(w) \/ PersistFails(w) \/ PutAcceptance(w)
  BY <1>0, <1>3 DEF StageFails, Synthesize, PersistFails, PutAcceptance, Silent, Moves, Writing
<1>4. CASE ReadTip(w)
  BY <1>0, <1>4 DEF ReadTip, Catches, Moves
<1>5. CASE RunStarted(w)
  <2>1. Moves(w) /\ step[w] = "created" /\ LiveOpen(w) /\ UNCHANGED <<leaseVars, decisions>>
    BY <1>0, <1>5 DEF RunStarted, Moves
  <2>2. \E n \in Nat, type \in EventType : AppendChained(w, n, type) \/ LoseEvent(w, n)
    BY <1>5 DEF RunStarted, EventType
  <2> QED
    BY <2>1, <2>2 DEF Writes
<1>6. CASE Emit(w) \/ Finish(w) \/ Accept(w) \/ Override(w)
  <2>1. LiveOpen(w) /\ UNCHANGED <<leaseVars, decisions>> /\ step[w] \in Writing
    BY <1>6 DEF Emit, Finish, Accept, Override, Writing
  <2>2. Moves(w)
    BY <1>0, <1>6 DEF Emit, Finish, Accept, Override, Moves
  <2>3. \E n \in Nat, type \in EventType : AppendChained(w, n, type) \/ LoseEvent(w, n)
    BY <1>0, <1>6 DEF Emit, Finish, Accept, Override, EventType
  <2> QED
    BY <2>1, <2>2, <2>3 DEF Writes
<1> QED
  BY <1>1, <1>2, <1>3, <1>4, <1>5, <1>6 DEF Command

---------------------------------------------------------------------------
(* Types *)

\* An event of the log, taken apart.
LEMMA EventTypes ==
  ASSUME LogTypeOK, NEW i \in 1..Len(log)
  PROVE  /\ log[i] \in Event
         /\ log[i].hash \in Writer \X Nat
         /\ WriterOf(log[i]) \in Writer
<1>1. log \in Seq(Event)
  BY DEF LogTypeOK
<1>2. log[i] \in Event
  BY <1>1
<1>3. log[i].hash \in Writer \X Nat
  BY <1>2 DEF Event
<1> QED
  BY <1>2, <1>3 DEF WriterOf

LEMMA LastIsHash ==
  ASSUME LogTypeOK
  PROVE  LastHash \in Hash
<1>1. CASE log = <<>>
  BY <1>1 DEF LastHash, Hash
<1>2. CASE log # <<>>
  <2>1. log \in Seq(Event)
    BY DEF LogTypeOK
  <2>2. Len(log) \in 1..Len(log)
    BY <1>2, <2>1
  <2>3. log[Len(log)].hash \in Writer \X Nat
    BY <2>2, EventTypes
  <2> QED
    BY <1>2, <2>3 DEF LastHash, Hash
<1> QED
  BY <1>1, <1>2

LEMMA LogTypeStep ==
  ASSUME LogTypeOK, [LogNext]_allVars
  PROVE  LogTypeOK'
<1>1. TypeOK'
  BY LeaseStepOfCommand, TypeStep DEF LogTypeOK
<1>2. CASE Around \/ UNCHANGED allVars
  BY <1>1, <1>2 DEF Around, allVars, logVars, LogTypeOK
<1>3. ASSUME NEW w \in Writer, Command(w)
      PROVE  LogTypeOK'
  <2>1. decisions' \in Seq(Writer)
    <3>1. UNCHANGED decisions \/ decisions' = Append(decisions, w)
      BY <1>3 DEF Command, RunStarted, CheckFinished, CheckChain, CheckDecided, GiveUp,
         ReadTip, Emit, StageFails, Synthesize, PersistFails, Finish, Accept, Override,
         PutAcceptance, CreateRun, Reopen, Leave
    <3>2. decisions \in Seq(Writer)
      BY DEF LogTypeOK
    <3> QED
      BY <3>1, <3>2
  <2>2. LastHash \in Hash
    BY LastIsHash
  <2>3. CASE Silent(w) \/ LeaseOnly(w) \/ Catches(w)
    <3>1. step' \in [Writer -> Step]
      BY <2>3 DEF LogTypeOK, Silent, LeaseOnly, Catches, Moves
    <3>2. lost' \in [Writer -> BOOLEAN] /\ minted' = minted /\ log' = log
      BY <2>3 DEF LogTypeOK, Silent, LeaseOnly, Catches
    <3>3. tip' \in [Writer -> Hash]
      BY <2>2, <2>3 DEF LogTypeOK, Silent, LeaseOnly, Catches
    <3> QED
      BY <1>1, <2>1, <3>1, <3>2, <3>3 DEF LogTypeOK
  <2>4. CASE Writes(w)
    <3>1. PICK n \in Nat, type \in EventType : AppendChained(w, n, type) \/ LoseEvent(w, n)
      BY <2>4 DEF Writes
    <3>2. HashOf(w, n) \in Writer \X Nat
      BY DEF HashOf
    <3>3. tip' \in [Writer -> Hash] /\ minted' \in [Writer -> Nat]
      <4>1. Seal(w, n)
        BY <3>1 DEF AppendChained, LoseEvent
      <4>2. HashOf(w, n) \in Hash
        BY <3>2 DEF Hash
      <4>3. tip \in [Writer -> Hash] /\ minted \in [Writer -> Nat]
        BY DEF LogTypeOK
      <4> QED
        BY <4>1, <4>2, <4>3 DEF Seal
    <3>4. [hash |-> HashOf(w, n), prev |-> tip[w], type |-> type] \in Event
      <4>1. tip[w] \in Hash
        BY DEF LogTypeOK
      <4> HIDE DEF Hash, EventType
      <4> QED
        BY <3>2, <4>1 DEF Event
    <3>5. log' \in Seq(Event) /\ lost' \in [Writer -> BOOLEAN]
      <4>1. log \in Seq(Event) /\ lost \in [Writer -> BOOLEAN]
        BY DEF LogTypeOK
      <4> DEFINE e == [hash |-> HashOf(w, n), prev |-> tip[w], type |-> type]
      <4>2. log' = Append(log, e) \/ log' = log
        BY <3>1 DEF AppendChained, LoseEvent
      <4>3. lost' \in [Writer -> BOOLEAN]
        BY <3>1, <4>1 DEF AppendChained, LoseEvent
      <4>4. e \in Event
        BY <3>4
      <4> HIDE DEF e
      <4> QED
        BY <4>1, <4>2, <4>3, <4>4
    <3>6. step' \in [Writer -> Step]
      BY <2>4 DEF LogTypeOK, Writes, Moves
    <3> QED
      BY <1>1, <2>1, <3>3, <3>5, <3>6 DEF LogTypeOK
  <2> QED
    BY <1>3, <2>3, <2>4, CommandEffect
<1> QED
  BY <1>2, <1>3 DEF LogNext

LEMMA LogTypeInit == LogInit => LogTypeOK
  BY TypeInit DEF LogInit, LogTypeOK, Step, Hash, NoHash

\* The types of the commands' state and of the log.
THEOREM LogTypeCorrect == LogSpec => []LogTypeOK
  BY LogTypeInit, LogTypeStep, PTL DEF LogSpec
---------------------------------------------------------------------------
(* The lease under the commands, and the chain it protects *)

LEMMA LogLeaseInvariant ==
  ASSUME SingleHost
  PROVE  LogSpec => []LeaseInv
  BY LeaseInvariant, ImplementsLease, PTL

\* Nothing is written before the run is created, and init writes first.
NoLogBeforeInit ==
  /\ NoRow => log = <<>>
  /\ \A w \in Writer : LiveOpen(w) /\ step[w] = "created" => log = <<>>
  /\ \A w \in Writer : step[w] \in {"begin", "created"} => tip[w] = NoHash

\* A command that can still write knows the end of the log, or has lost a write.
KnowsTheEnd ==
  \A w \in Writer :
    LiveOpen(w) /\ step[w] \in Writing => tip[w] = LastHash \/ lost[w]

ChainInv == NoLogBeforeInit /\ KnowsTheEnd /\ BreaksOnlyAfterLostWrite

\* A row does not go away.
LEMMA RowStays ==
  ASSUME LeaseInv, [Next]_leaseVars
  PROVE  NoRow' => NoRow
<1> USE LeaseAssumption DEF NoRow
<1>1. row.lease_epoch \in Nat /\ seen \in [Writer -> Nat]
  BY DEF LeaseInv, EpochInv, TypeOK
<1>2. CASE World
  BY <1>2, WorldStep
<1>3. CASE UNCHANGED leaseVars
  BY <1>3 DEF leaseVars
<1>4. ASSUME NEW v \in Writer, Contend(v)
      PROVE  NoRow' => NoRow
  <2>1. CASE Create(v) \/ TakeOver(v)
    BY <1>1, <2>1 DEF Create, TakeOver, OwnedBy
  <2>2. CASE Drop(v)
    BY <2>2 DEF Drop, Unowned
  <2> QED
    BY <1>4, <2>1, <2>2 DEF Contend, CreateRefused, ReadRow, ReadRefused, LostRace, TryAgain
<1> QED
  BY <1>2, <1>3, <1>4 DEF Next

\* Nobody else can write while a live writer does.
LEMMA Alone ==
  ASSUME LeaseInv, NEW w \in Writer, LiveOpen(w)
  PROVE  ~NoRow /\ \A v \in Writer : LiveOpen(v) => v = w
  BY AtMostOne DEF LeaseInv, OwnsRow, NoRow, OneWriter

LEMMA ChainStep ==
  ASSUME LogTypeOK, LeaseInv, ChainInv, [LogNext]_allVars
  PROVE  ChainInv'
<1> USE LeaseAssumption DEF ChainInv
<1>1. NoRow' => NoRow
  BY RowStays, LeaseStepOfCommand
<1>2. /\ step \in [Writer -> Step] /\ tip \in [Writer -> Hash] /\ lost \in [Writer -> BOOLEAN]
      /\ log \in Seq(Event)
  BY DEF LogTypeOK
<1>3. ASSUME UNCHANGED logVars, \A v \in Writer : LiveOpen(v)' => LiveOpen(v)
      PROVE  ChainInv'
  <2>1. BreaksOnlyAfterLostWrite'
    BY <1>3 DEF logVars, BreaksOnlyAfterLostWrite, LinkBroken, ExpectedPrevious
  <2>2. NoLogBeforeInit' /\ KnowsTheEnd'
    BY <1>1, <1>3 DEF logVars, NoLogBeforeInit, KnowsTheEnd, LastHash
  <2> QED
    BY <2>1, <2>2
<1>4. CASE Around
  BY <1>3, <1>4, WorldStep DEF Around
<1>5. CASE UNCHANGED allVars
  BY <1>3, <1>5 DEF allVars, logVars, LiveOpen, Alive
<1>6. ASSUME NEW w \in Writer, UNCHANGED log,
             UNCHANGED lost \/ lost' = [lost EXCEPT ![w] = TRUE]
      PROVE  BreaksOnlyAfterLostWrite'
  <2>1. \A i \in 1..Len(log) : WriterOf(log[i]) \in Writer
    BY EventTypes
  <2>2. \A i \in 1..Len(log) : LinkBroken(i)' <=> LinkBroken(i)
    BY <1>6 DEF LinkBroken, ExpectedPrevious
  <2> QED
    BY <1>2, <1>6, <2>1, <2>2 DEF BreaksOnlyAfterLostWrite
<1>7. ASSUME NEW w \in Writer, Silent(w)
      PROVE  ChainInv'
  <2>1. \A v \in Writer : LiveOpen(v)' <=> LiveOpen(v)
    BY <1>7 DEF Silent, leaseVars, LiveOpen, Alive
  <2>2. LastHash' = LastHash
    BY <1>7 DEF Silent, LastHash
  <2>3. NoLogBeforeInit'
    BY <1>1, <1>2, <1>7, <2>1 DEF Silent, Moves, NoLogBeforeInit
  <2>4. KnowsTheEnd'
    BY <1>2, <1>7, <2>1, <2>2 DEF Silent, Moves, KnowsTheEnd
  <2>5. BreaksOnlyAfterLostWrite'
    BY <1>6, <1>7 DEF Silent
  <2> QED
    BY <2>3, <2>4, <2>5
<1>8. ASSUME NEW w \in Writer, LeaseOnly(w)
      PROVE  ChainInv'
  <2>1. LastHash' = LastHash
    BY <1>8 DEF LeaseOnly, LastHash
  <2>2. PICK s \in Step \ ({"begin"} \union Writing) :
          step' = [step EXCEPT ![w] = s] /\ (s = "created" => Create(w) /\ step[w] = "begin")
    BY <1>8 DEF LeaseOnly
  <2>3. s = "created" => log = <<>> /\ tip[w] = NoHash
    BY <2>2 DEF NoLogBeforeInit, Create
  <2>4. NoLogBeforeInit'
    BY <1>1, <1>2, <1>8, <2>2, <2>3 DEF LeaseOnly, NoLogBeforeInit
  <2>5. KnowsTheEnd'
    BY <1>2, <1>8, <2>1, <2>2 DEF LeaseOnly, KnowsTheEnd
  <2>6. BreaksOnlyAfterLostWrite'
    BY <1>6, <1>8 DEF LeaseOnly
  <2> QED
    BY <2>4, <2>5, <2>6
<1>9. ASSUME NEW w \in Writer, Catches(w)
      PROVE  ChainInv'
  <2>1. \A v \in Writer : LiveOpen(v)' <=> LiveOpen(v)
    BY <1>9 DEF Catches, leaseVars, LiveOpen, Alive
  <2>2. LastHash' = LastHash
    BY <1>9 DEF Catches, LastHash
  <2>3. NoLogBeforeInit'
    BY <1>1, <1>2, <1>9, <2>1 DEF Catches, Moves, NoLogBeforeInit
  <2>4. KnowsTheEnd'
    BY <1>2, <1>9, <2>1, <2>2 DEF Catches, Moves, KnowsTheEnd
  <2>5. BreaksOnlyAfterLostWrite'
    BY <1>6, <1>9 DEF Catches
  <2> QED
    BY <2>3, <2>4, <2>5
<1>10. ASSUME NEW w \in Writer, Writes(w)
       PROVE  ChainInv'
  <2>1. PICK n \in Nat, type \in EventType : AppendChained(w, n, type) \/ LoseEvent(w, n)
    BY <1>10 DEF Writes
  <2>2. \A v \in Writer : LiveOpen(v)' => v = w
    BY <1>10, Alone DEF Writes, leaseVars, LiveOpen, Alive
  <2>3. ~NoRow'
    BY <1>1, <1>10, Alone DEF Writes
  <2>4. step'[w] \notin {"begin", "created"} /\ \A v \in Writer \ {w} : step'[v] = step[v]
    BY <1>2, <1>10 DEF Writes, Moves
  <2>5. tip'[w] = HashOf(w, n) /\ \A v \in Writer \ {w} : tip'[v] = tip[v]
    BY <1>2, <2>1 DEF AppendChained, LoseEvent, Seal
  <2>6. NoLogBeforeInit'
    BY <2>2, <2>3, <2>4, <2>5 DEF NoLogBeforeInit
  <2>7. CASE LoseEvent(w, n)
    <3>1. BreaksOnlyAfterLostWrite'
      BY <1>6, <2>7 DEF LoseEvent
    <3>2. lost'[w]
      BY <1>2, <2>7 DEF LoseEvent
    <3> QED
      BY <2>2, <2>6, <3>1, <3>2 DEF KnowsTheEnd
  <2>8. CASE AppendChained(w, n, type)
    <3> DEFINE e == [hash |-> HashOf(w, n), prev |-> tip[w], type |-> type]
    <3>1. log' = Append(log, e) /\ lost' = lost
      BY <2>8 DEF AppendChained
    <3>2. e.hash = HashOf(w, n) /\ e.prev = tip[w] /\ WriterOf(e) = w
      BY DEF HashOf, WriterOf
    <3> HIDE DEF e
    <3>3. /\ Len(log') = Len(log) + 1 /\ log'[Len(log) + 1] = e
          /\ \A i \in 1..Len(log) : log'[i] = log[i]
          /\ Len(log) \in Nat
      BY <1>2, <3>1
    <3>4. LastHash' = tip'[w]
      BY <1>2, <2>5, <3>1, <3>2, <3>3 DEF LastHash
    <3>5. KnowsTheEnd'
      BY <2>2, <3>4 DEF KnowsTheEnd
    <3>6. tip[w] = LastHash \/ lost[w]
      BY <1>10 DEF Writes, NoLogBeforeInit, KnowsTheEnd, LastHash
    <3>7. ASSUME NEW i \in 1..Len(log)
          PROVE  LinkBroken(i)' <=> LinkBroken(i)
      <4>1. i = 1 \/ i - 1 \in 1..Len(log)
        BY <3>3
      <4>2. log'[i] = log[i] /\ (i = 1 \/ log'[i - 1] = log[i - 1])
        BY <3>3, <4>1
      <4> QED
        BY <4>2 DEF LinkBroken, ExpectedPrevious
    <3>8. ASSUME NEW k \in Nat, k = Len(log) + 1
          PROVE  LinkBroken(k)' => tip[w] # LastHash
      <4>1. log'[k].prev = tip[w]
        BY <3>2, <3>3, <3>8
      <4>2. CASE log = <<>>
        <5>1. k = 1
          BY <3>8, <4>2
        <5> QED
          BY <4>1, <4>2, <5>1 DEF LinkBroken, ExpectedPrevious, LastHash
      <4>3. CASE log # <<>>
        <5>1. Len(log) \in 1..Len(log) /\ k # 1 /\ k - 1 = Len(log)
          BY <1>2, <3>8, <4>3
        <5>2. log'[k - 1] = log[Len(log)]
          BY <3>3, <5>1
        <5> QED
          BY <4>1, <4>3, <5>1, <5>2 DEF LinkBroken, ExpectedPrevious, LastHash
      <4> QED
        BY <4>2, <4>3
    <3>9. BreaksOnlyAfterLostWrite'
      <4>1. SUFFICES ASSUME NEW k \in 1..Len(log'), LinkBroken(k)'
                     PROVE  lost'[WriterOf(log'[k])]
        BY DEF BreaksOnlyAfterLostWrite
      <4>2. CASE k \in 1..Len(log)
        <5>1. LinkBroken(k) /\ log'[k] = log[k]
          BY <3>3, <3>7, <4>1, <4>2
        <5> QED
          BY <3>1, <4>2, <5>1 DEF BreaksOnlyAfterLostWrite
      <4>3. CASE k = Len(log) + 1
        <5>1. k \in Nat /\ log'[k] = e
          BY <3>3, <4>3
        <5> QED
          BY <3>1, <3>2, <3>6, <3>8, <4>1, <4>3, <5>1
      <4> QED
        BY <3>3, <4>1, <4>2, <4>3
    <3> QED
      BY <2>6, <3>5, <3>9
  <2> QED
    BY <2>1, <2>7, <2>8
<1> QED
  BY <1>4, <1>5, <1>7, <1>8, <1>9, <1>10, CommandEffect DEF LogNext

(***************************************************************************)
(* On one machine, whatever crashes, reboots and races: only an event of a *)
(* handle that lost a write can break the chain.                           *)
(***************************************************************************)
THEOREM ChainHolds ==
  ASSUME SingleHost
  PROVE  LogSpec => []BreaksOnlyAfterLostWrite
<1>1. LogInit => ChainInv
  BY DEF LogInit, Init, Unowned, ChainInv, NoLogBeforeInit, KnowsTheEnd, Writing,
     BreaksOnlyAfterLostWrite
<1> QED
  BY <1>1, ChainStep, LogLeaseInvariant, LogTypeCorrect, PTL DEF LogSpec, ChainInv

---------------------------------------------------------------------------
(* The log against the epochs *)

\* What was granted stays what it was, after the drop as well.
LEMMA GrantIsFinal ==
  ASSUME TypeOK, [Next]_leaseVars, NEW v \in Writer, pc[v] \in {"open", "closed"}
  PROVE  pc'[v] \in {"open", "closed"} /\ granted'[v] = granted[v]
<1>1. pc \in [Writer -> WriterState] /\ granted \in [Writer -> Nat]
  BY DEF TypeOK
<1>2. CASE World \/ UNCHANGED leaseVars
  BY <1>2 DEF World, Start, Die, Reboot, leaseVars
<1>3. ASSUME NEW w \in Writer, Contend(w)
      PROVE  pc'[v] \in {"open", "closed"} /\ granted'[v] = granted[v]
  <2>1. CASE Create(w) \/ TakeOver(w)
    BY <1>1, <2>1 DEF Create, TakeOver
  <2>2. CASE Drop(w)
    BY <1>1, <2>2 DEF Drop
  <2>3. CASE CreateRefused(w) \/ ReadRow(w) \/ ReadRefused(w) \/ LostRace(w) \/ TryAgain(w)
    BY <1>1, <2>3 DEF CreateRefused, ReadRow, ReadRefused, LostRace, TryAgain
  <2> QED
    BY <1>3, <2>1, <2>2, <2>3 DEF Contend
<1> QED
  BY <1>2, <1>3 DEF Next

OrderInv ==
  /\ \A i \in 1..Len(log) : pc[WriterOf(log[i])] \in {"open", "closed"}
  /\ EpochOrdered

LEMMA OrderStep ==
  ASSUME LogTypeOK, LeaseInv, OrderInv, [LogNext]_allVars
  PROVE  OrderInv'
<1> USE DEF OrderInv
<1>1. \A i \in 1..Len(log) :
        /\ WriterOf(log[i]) \in Writer
        /\ pc'[WriterOf(log[i])] \in {"open", "closed"}
        /\ granted'[WriterOf(log[i])] = granted[WriterOf(log[i])]
  BY EventTypes, GrantIsFinal, LeaseStepOfCommand DEF LogTypeOK
<1>2. CASE UNCHANGED log
  BY <1>1, <1>2 DEF EpochOrdered
<1>3. ASSUME NEW w \in Writer, NEW n \in Nat, NEW type \in EventType,
             Writes(w), AppendChained(w, n, type)
      PROVE  OrderInv'
  <2> DEFINE e == [hash |-> HashOf(w, n), prev |-> tip[w], type |-> type]
  <2>1. log' = Append(log, e)
    BY <1>3 DEF AppendChained
  <2>2. WriterOf(e) = w
    BY DEF HashOf, WriterOf
  <2> HIDE DEF e
  <2>3. /\ Len(log') = Len(log) + 1 /\ log'[Len(log) + 1] = e
        /\ \A i \in 1..Len(log) : log'[i] = log[i]
        /\ Len(log) \in Nat
    BY <2>1 DEF LogTypeOK
  <2>4. pc'[w] = "open" /\ granted'[w] = row.lease_epoch
    BY <1>3 DEF Writes, leaseVars, LiveOpen, LeaseInv, OwnsRow
  <2>5. \A i \in 1..Len(log) : granted'[WriterOf(log[i])] <= granted'[w]
    BY <1>1, <2>4 DEF LeaseInv, EpochInv, NotAhead
  <2>6. granted'[w] <= granted'[w]
    BY <2>4 DEF LogTypeOK, TypeOK
  <2>7. \A i \in 1..Len(log') : pc'[WriterOf(log'[i])] \in {"open", "closed"}
    BY <1>1, <2>2, <2>3, <2>4
  <2>8. ASSUME NEW i \in 1..Len(log'), NEW j \in 1..Len(log'), i < j
        PROVE  granted'[WriterOf(log'[i])] <= granted'[WriterOf(log'[j])]
    <3>1. i \in 1..Len(log) /\ log'[i] = log[i]
      BY <2>3, <2>8
    <3>2. CASE j \in 1..Len(log)
      BY <1>1, <2>3, <2>8, <3>1, <3>2 DEF EpochOrdered
    <3>3. CASE j = Len(log) + 1
      BY <2>2, <2>3, <2>5, <3>1, <3>3
    <3> QED
      BY <2>3, <3>2, <3>3
  <2>9. EpochOrdered'
    BY <2>8 DEF EpochOrdered
  <2> QED
    BY <2>7, <2>9
<1>4. ASSUME NEW w \in Writer, Command(w)
      PROVE  UNCHANGED log \/ OrderInv'
  <2>1. Silent(w) \/ LeaseOnly(w) \/ Catches(w) \/ Writes(w)
    BY <1>4, CommandEffect
  <2>2. CASE Writes(w)
    BY <1>3, <2>2 DEF Writes, LoseEvent
  <2> QED
    BY <2>1, <2>2 DEF Silent, LeaseOnly, Catches
<1> QED
  BY <1>2, <1>4 DEF LogNext, Around, allVars, logVars

(***************************************************************************)
(* On one machine the log is in the order in which the lease was granted.  *)
(***************************************************************************)
THEOREM LogFollowsEpochs ==
  ASSUME SingleHost
  PROVE  LogSpec => []EpochOrdered
<1>1. LogInit => OrderInv
  BY DEF LogInit, OrderInv, EpochOrdered
<1> QED
  BY <1>1, OrderStep, LogLeaseInvariant, LogTypeCorrect, PTL DEF LogSpec, OrderInv

---------------------------------------------------------------------------
(***************************************************************************)
(* The blobs                                                               *)
(***************************************************************************)

Lost == swept \union unsynced

Shapes ==
  /\ open \in BOOLEAN
  /\ gc \in {"idle", "checked", "read", "sweeping"}
  /\ \/ writing = NotWriting
     \/ writing \in [at : {"temp", "renamed", "written"}, hash : Payload]
  /\ ~open => writing = NotWriting
  /\ synced \subseteq entries
  /\ rows \subseteq {ResponseHash(h) : h \in Payload}
  /\ referenced \subseteq {ResponseHash(h) : h \in Payload}

\* What a session that is open has to fear of the collector.
SessionKnows ==
  /\ open /\ gc = "sweeping" => behind
  /\ SessionKeepsBlobs

\* What the writer knows of the payload it is writing.
WriterKnows ==
  /\ RenameFindsFile
  /\ At("renamed") => writing.hash \in entries \union swept
  /\ At("written") => writing.hash \in synced \union Lost

\* A row's blob is on disk, not only in the directory, or it is accounted for.
RowsAreDurable == \A h \in Payload : ResponseHash(h) \in rows => h \in synced \union Lost

BlobInv == Shapes /\ SessionKnows /\ WriterKnows /\ RowsAreDurable

LEMMA BlobInvInit == BlobInit => BlobInv
BY DEF BlobInit, BlobInv, Shapes, SessionKnows, SessionKeepsBlobs, WriterKnows, RenameFindsFile,
       RowsAreDurable, At, NotWriting, Lost

LEMMA ShapesStep ==
  ASSUME BlobInv, [BlobNext]_blobVars
  PROVE  Shapes'
<1> USE DEF BlobInv, Shapes, At, NotWriting, filesVars, writerVars, gcVars
<1>1. CASE BlobWriter
  <2>1. CASE Open \/ Close
    BY <2>1 DEF Open, Close
  <2>2. ASSUME NEW h \in Payload, WriteTemp(h) \/ FindEntry(h)
        PROVE  Shapes'
    BY <2>2 DEF WriteTemp, FindEntry
  <2>3. CASE Rename \/ SyncDirectory
    <3>1. writing'.at \in {"renamed", "written"} /\ writing' = [writing EXCEPT !.at = writing'.at]
      BY <2>3 DEF Rename, SyncDirectory
    <3>2. writing \in [at : {"temp", "renamed", "written"}, hash : Payload]
      BY <2>3 DEF Rename, SyncDirectory
    <3>3. writing' \in [at : {"temp", "renamed", "written"}, hash : Payload]
      BY <3>1, <3>2
    <3> QED
      BY <2>3, <3>3 DEF Rename, SyncDirectory
  <2>4. CASE CommitRow
    <3>1. writing.hash \in Payload
      BY <2>4 DEF CommitRow
    <3> QED
      BY <2>4, <3>1 DEF CommitRow
  <2> QED
    BY <1>1, <2>1, <2>2, <2>3, <2>4 DEF BlobWriter
<1>2. CASE Collector
  BY <1>2 DEF Collector, LookAtLease, ReadRows, LookAgain, Visit, EndSweep
<1>3. CASE PowerFailure
  BY <1>3 DEF PowerFailure
<1>4. CASE UNCHANGED blobVars
  BY <1>4 DEF blobVars
<1> QED
  BY <1>1, <1>2, <1>3, <1>4 DEF BlobNext

LEMMA SessionStep ==
  ASSUME BlobInv, [BlobNext]_blobVars
  PROVE  SessionKnows'
<1> USE DEF BlobInv, Shapes, SessionKnows, SessionKeepsBlobs, At, filesVars, writerVars, gcVars,
            session
<1>1. CASE BlobWriter
  BY <1>1 DEF BlobWriter, Open, Close, WriteTemp, FindEntry, Rename, SyncDirectory, CommitRow
<1>2. CASE Collector
  BY <1>2 DEF Collector, LookAtLease, ReadRows, LookAgain, Visit, EndSweep
<1>3. CASE PowerFailure
  BY <1>3 DEF PowerFailure
<1>4. CASE UNCHANGED blobVars
  BY <1>4 DEF blobVars
<1> QED
  BY <1>1, <1>2, <1>3, <1>4 DEF BlobNext

LEMMA WriterStep ==
  ASSUME BlobInv, [BlobNext]_blobVars
  PROVE  WriterKnows'
<1> USE DEF BlobInv, Shapes, WriterKnows, RenameFindsFile, At, NotWriting, Lost, filesVars,
            writerVars, gcVars, losses
<1>1. CASE BlobWriter
  <2>1. CASE Open \/ Close \/ CommitRow
    BY <2>1 DEF Open, Close, CommitRow
  <2>2. ASSUME NEW h \in Payload, WriteTemp(h) \/ FindEntry(h)
        PROVE  WriterKnows'
    BY <2>2 DEF WriteTemp, FindEntry
  <2>3. CASE Rename
    BY <2>3 DEF Rename
  <2>4. CASE SyncDirectory
    BY <2>4 DEF SyncDirectory
  <2> QED
    BY <1>1, <2>1, <2>2, <2>3, <2>4 DEF BlobWriter
<1>2. CASE Collector
  BY <1>2 DEF Collector, LookAtLease, ReadRows, LookAgain, Visit, EndSweep
<1>3. CASE PowerFailure
  BY <1>3 DEF PowerFailure
<1>4. CASE UNCHANGED blobVars
  BY <1>4 DEF blobVars
<1> QED
  BY <1>1, <1>2, <1>3, <1>4 DEF BlobNext

LEMMA RowsStep ==
  ASSUME BlobInv, [BlobNext]_blobVars
  PROVE  RowsAreDurable'
<1> USE DEF BlobInv, Shapes, RowsAreDurable, Lost, filesVars, losses
<1>1. ASSUME NEW h \in Payload, h \in synced \union Lost
      PROVE  h \in synced' \union Lost'
  <2>1. CASE BlobWriter
    BY <1>1, <2>1 DEF BlobWriter, Open, Close, WriteTemp, FindEntry, Rename, SyncDirectory, CommitRow
  <2>2. CASE Collector
    BY <1>1, <2>2 DEF Collector, LookAtLease, ReadRows, LookAgain, Visit, EndSweep
  <2>3. CASE PowerFailure
    BY <1>1, <2>3 DEF PowerFailure
  <2>4. CASE UNCHANGED blobVars
    BY <1>1, <2>4 DEF blobVars
  <2> QED
    BY <2>1, <2>2, <2>3, <2>4 DEF BlobNext
<1>2. CASE CommitRow
  <2>1. writing.hash \in Payload /\ writing.hash \in synced \union Lost
    BY <1>2 DEF CommitRow, At, NotWriting, WriterKnows
  <2>2. ASSUME NEW h \in Payload, ResponseHash(h) \in rows'
        PROVE  h \in synced \union Lost
    <3>1. ResponseHash(h) \in rows \/ ResponseHash(h) = ResponseHash(writing.hash)
      BY <1>2, <2>2 DEF CommitRow
    <3>2. ResponseHash(h) = ResponseHash(writing.hash) => h = writing.hash
      BY DEF ResponseHash
    <3> QED
      BY <2>1, <3>1, <3>2
  <2> QED
    BY <1>1, <2>2
<1>3. CASE UNCHANGED rows
  BY <1>1, <1>3
<1>4. CommitRow \/ UNCHANGED rows
  BY DEF BlobNext, BlobWriter, Collector, Open, Close, WriteTemp, FindEntry, Rename, SyncDirectory,
     LookAtLease, ReadRows, LookAgain, Visit, EndSweep, PowerFailure, blobVars
<1> QED
  BY <1>2, <1>3, <1>4

LEMMA BlobInvariance == BlobSpec => []BlobInv
BY BlobInvInit, ShapesStep, SessionStep, WriterStep, RowsStep, PTL DEF BlobSpec, BlobInv

---------------------------------------------------------------------------
(* A session that was not opened behind the collector's second look keeps  *)
(* every blob it has found or put in place, however often the run is       *)
(* reopened and doctor --gc is run.                                        *)
THEOREM SessionsAreSafe == BlobSpec => []SessionKeepsBlobs
<1>1. BlobInv => SessionKeepsBlobs
  BY DEF BlobInv, SessionKnows
<1> QED
  BY <1>1, BlobInvariance, PTL

(* A row loses its blob only to a sweep, or to a power failure after it    *)
(* was found in a directory nobody had synced.                             *)
THEOREM RowsSurvive == BlobSpec => []RowsOutliveCrashes
<1>1. BlobInv => RowsOutliveCrashes
  BY DEF BlobInv, Shapes, RowsAreDurable, RowsOutliveCrashes, Lost
<1> QED
  BY <1>1, BlobInvariance, PTL

(* No sweep takes the temporary file from a write in progress.             *)
THEOREM WritesFinish == BlobSpec => []RenameFindsFile
<1>1. BlobInv => RenameFindsFile
  BY DEF BlobInv, WriterKnows
<1> QED
  BY <1>1, BlobInvariance, PTL

(***************************************************************************)
(* And a sweep spares nothing it comes to, whether a row names it or not:  *)
(* the name of a file is never among the response hashes it is looked up   *)
(* in (gc_one_run: "if referenced.contains(name)").                        *)
(***************************************************************************)
SparesNothing == [][\A h \in Payload : Visit(h) => h \notin entries']_blobVars

THEOREM SweepsSpareNothing == BlobSpec => SparesNothing
<1>1. ASSUME BlobInv, NEW h \in Payload, Visit(h)
      PROVE  h \notin entries'
  <2>1. h \notin referenced
    BY <1>1, BlobAssumption DEF BlobInv, Shapes
  <2> QED
    BY <1>1, <2>1 DEF Visit
<1>2. BlobInv /\ [BlobNext]_blobVars => [\A h \in Payload : Visit(h) => h \notin entries']_blobVars
  BY <1>1
<1> QED
  BY <1>2, BlobInvariance, PTL DEF BlobSpec, SparesNothing
==============================================================================
