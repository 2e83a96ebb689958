----------------------------- MODULE BlobStore ------------------------------
(***************************************************************************)
(* The out-of-line payloads of one run (blob.rs) and arbiter doctor --gc   *)
(* (maintenance.rs) beside them. The writer of a payload writes its blob   *)
(* and then commits the row that names it, in the order blob.rs prescribes *)
(* (no command calls write_blob yet); the collector looks at the lease,    *)
(* reads the rows, looks again, and deletes what it takes to be unnamed.   *)
(* The two share nothing but the files and the database.                   *)
(*                                                                         *)
(* Blobs are content-addressed: a payload is its hash, and a file's name   *)
(* is that hash in hex. The response_hash of a cache_entries row is the    *)
(* same hex behind the word "blake3:", and nothing takes the word off.     *)
(* The rows of the artifacts table name no blob.                           *)
(*                                                                         *)
(* A rename is visible at once and survives a power failure once the       *)
(* directory has been synced.                                              *)
(***************************************************************************)
EXTENDS Naturals, FiniteSets

CONSTANTS
  Payload,      \* payloads above the threshold
  MaxSessions,  \* bound: times the run is opened for writing
  MaxSweeps     \* bound: runs of doctor --gc

\* response_hash, as every stage that stores an answer writes it.
ResponseHash(h) == <<"blake3:", h>>

ASSUME BlobAssumption ==
  /\ MaxSessions \in Nat /\ MaxSweeps \in Nat
  /\ \A h \in Payload : ResponseHash(h) \notin Payload

VARIABLES
  entries,    \* blobs/b3/<hash>
  synced,     \* those of them that the directory on disk holds
  temps,      \* blobs/b3/.<hash>.tmp.<pid>
  rows,       \* the response_hash column of cache_entries
  open,       \* a live owner holds the lease
  writing,    \* [hash, at]: where write_blob and its commit are
  sessions,
  gc,         \* where doctor --gc is with this run
  referenced, \* the hashes it found in the rows
  listed,     \* the names read_dir has still to give
  sweeps,
  \* History:
  used,       \* blobs the open session has found or put in place
  behind,     \* whether it was opened while a sweep deleted
  swept,      \* deleted by a sweep, and not written since
  unsynced    \* found in the directory before it was synced, and not synced since

filesVars == <<entries, synced, temps, rows>>
writerVars == <<open, writing, sessions>>
gcVars == <<gc, referenced, listed, sweeps>>
session == <<used, behind>>
losses == <<swept, unsynced>>
blobVars == <<filesVars, writerVars, gcVars, session, losses>>

NotWriting == [at |-> "none"]

BlobInit ==
  /\ entries = {} /\ synced = {} /\ temps = {} /\ rows = {}
  /\ open = FALSE /\ writing = NotWriting /\ sessions = 0
  /\ gc = "idle" /\ referenced = {} /\ listed = {} /\ sweeps = 0
  /\ used = {} /\ behind = FALSE
  /\ swept = {} /\ unsynced = {}

---------------------------------------------------------------------------
(* The writer *)

At(where) == open /\ writing.at = where

Open ==
  /\ ~open
  /\ sessions < MaxSessions
  /\ open' = TRUE
  /\ sessions' = sessions + 1
  /\ used' = {} /\ behind' = (gc = "sweeping")
  /\ UNCHANGED <<filesVars, writing, gcVars, losses>>

\* The writer is dropped or its process dies: nobody holds the lease.
Close ==
  /\ open
  /\ open' = FALSE
  /\ writing' = NotWriting
  /\ UNCHANGED <<filesVars, sessions, gcVars, session, losses>>

WriteTemp(h) ==
  /\ At("none")
  /\ h \notin entries
  /\ temps' = temps \union {h}
  /\ writing' = [at |-> "temp", hash |-> h]
  /\ UNCHANGED <<entries, synced, rows, open, sessions, gcVars, session, losses>>

\* "the existing file already satisfies written and fsynced"
FindEntry(h) ==
  /\ At("none")
  /\ h \in entries
  /\ writing' = [at |-> "written", hash |-> h]
  /\ used' = used \union {h}
  /\ unsynced' = IF h \in synced THEN unsynced ELSE unsynced \union {h}
  /\ UNCHANGED <<filesVars, open, sessions, gcVars, behind, swept>>

\* A directory that is being read may give the new name or not.
Rename ==
  /\ At("temp")
  /\ writing.hash \in temps
  /\ temps' = temps \ {writing.hash}
  /\ entries' = entries \union {writing.hash}
  /\ writing' = [writing EXCEPT !.at = "renamed"]
  /\ used' = used \union {writing.hash}
  /\ \/ UNCHANGED listed
     \/ gc = "sweeping" /\ listed' = listed \union {writing.hash}
  /\ UNCHANGED <<synced, rows, open, sessions, gc, referenced, sweeps, behind, losses>>

SyncDirectory ==
  /\ At("renamed")
  /\ synced' = entries
  /\ writing' = [writing EXCEPT !.at = "written"]
  /\ swept' = swept \ entries
  /\ unsynced' = unsynced \ entries
  /\ UNCHANGED <<entries, temps, rows, open, sessions, gcVars, session>>

\* Mutant: the row is committed before the directory is synced.
CommitUnsynced ==
  /\ At("renamed") \/ At("written")
  /\ rows' = rows \union {ResponseHash(writing.hash)}
  /\ writing' = NotWriting
  /\ UNCHANGED <<entries, synced, temps, open, sessions, gcVars, session, losses>>

\* The transaction that stores the row, begun when write_blob has returned.
CommitRow ==
  /\ At("written")
  /\ rows' = rows \union {ResponseHash(writing.hash)}
  /\ writing' = NotWriting
  /\ UNCHANGED <<entries, synced, temps, open, sessions, gcVars, session, losses>>

\* The machine goes down: processes end, and what was not synced may be gone.
PowerFailure ==
  /\ open \/ gc # "idle" \/ entries # synced
  /\ \E kept \in SUBSET (entries \ synced) :
       /\ entries' = synced \union kept
       /\ synced' = synced \union kept
       /\ unsynced' = unsynced \ kept
  /\ temps' = {}
  /\ open' = FALSE /\ writing' = NotWriting
  /\ gc' = "idle" /\ referenced' = {} /\ listed' = {}
  /\ UNCHANGED <<rows, sessions, sweeps, session, swept>>

---------------------------------------------------------------------------
(* doctor --gc *)

\* is_run_lease_live; a lease that cannot be read counts as live.
LookAtLease ==
  /\ gc = "idle"
  /\ sweeps < MaxSweeps
  /\ sweeps' = sweeps + 1
  /\ gc' = "idle" \/ (~open /\ gc' = "checked")
  /\ UNCHANGED <<filesVars, writerVars, referenced, listed, session, losses>>

\* cache_entries().unwrap_or_default(): an error reads as a run without rows.
ReadRows ==
  /\ gc = "checked"
  /\ gc' = "read"
  /\ referenced' = rows \/ referenced' = {}
  /\ UNCHANGED <<filesVars, writerVars, listed, sweeps, session, losses>>

\* Mutant: the lease is not looked at again.
LookOnce ==
  /\ gc = "read"
  /\ gc' = "sweeping" /\ listed' = entries
  /\ UNCHANGED <<filesVars, writerVars, referenced, sweeps, session, losses>>

\* gc_run looks at the lease again before it lists the directory.
LookAgain ==
  /\ gc = "read"
  /\ \/ gc' = "idle" /\ referenced' = {} /\ UNCHANGED listed
     \/ ~open /\ gc' = "sweeping" /\ listed' = entries /\ UNCHANGED referenced
  /\ UNCHANGED <<filesVars, writerVars, sweeps, session, losses>>

\* One name of the directory that is not a temporary file.
Visit(h) ==
  /\ gc = "sweeping"
  /\ h \in listed
  /\ listed' = listed \ {h}
  /\ IF h \in referenced THEN UNCHANGED <<entries, synced, swept>>
     ELSE entries' = entries \ {h} /\ synced' = synced \ {h} /\ swept' = swept \union {h}
  /\ UNCHANGED <<temps, rows, writerVars, gc, referenced, sweeps, session, unsynced>>

\* No name is left, or one cannot be looked at or removed.
EndSweep ==
  /\ gc = "sweeping"
  /\ gc' = "idle"
  /\ referenced' = {} /\ listed' = {}
  /\ UNCHANGED <<filesVars, writerVars, sweeps, session, losses>>

---------------------------------------------------------------------------
BlobWriter == Open \/ Close \/ (\E h \in Payload : WriteTemp(h) \/ FindEntry(h))
          \/ Rename \/ SyncDirectory \/ CommitRow

Collector == LookAtLease \/ ReadRows \/ LookAgain \/ (\E h \in Payload : Visit(h)) \/ EndSweep

BlobNext == BlobWriter \/ Collector \/ PowerFailure

BlobSpec == BlobInit /\ [][BlobNext]_blobVars

---------------------------------------------------------------------------

(***************************************************************************)
(* The collector never takes a blob from a session that uses it, however   *)
(* its two looks at the lease and its read of the rows fall among the      *)
(* sessions -- but for a session that was opened after the second look,    *)
(* while the sweep deletes (gc_one_run: "Never call this for a run whose   *)
(* lease may be live").                                                    *)
(***************************************************************************)
SessionKeepsBlobs == open /\ ~behind => used \subseteq entries

(***************************************************************************)
(* What the order of writes gives: no crash of the process or the machine  *)
(* leaves a row without its blob.  Only a sweep does, or a power failure   *)
(* after a session that found the blob in a directory which the session    *)
(* that put it there had not lived to sync.                                *)
(***************************************************************************)
RowsOutliveCrashes ==
  \A h \in Payload : ResponseHash(h) \in rows => h \in entries \union swept \union unsynced

(***************************************************************************)
(* A sweep leaves a write in progress alone: the rename always finds its   *)
(* temporary file, also when the run was reopened under the collector.     *)
(***************************************************************************)
RenameFindsFile == At("temp") => writing.hash \in temps
=============================================================================
