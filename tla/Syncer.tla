------------------------------- MODULE Syncer -------------------------------
(***************************************************************************)
(* The replication engine (src/sync/mod.rs): Syncer::open, sync,           *)
(* checkpoint_if_needed / checkpoint_now and the over-fold fallback, on    *)
(* top of the database of module Db, against an object store that holds    *)
(* the level-0 LTX chain.                                                  *)
(*                                                                         *)
(* Data abstraction.  The LTX file of TXID n is a record: it carries the   *)
(* commits lo+1 .. hi (a snapshot carries the whole database, lo = 0), and *)
(* in its header the WAL position it ends at (generation gen, off frames)  *)
(* and a timestamp.  The timestamp matters because the compare-and-swap    *)
(* upload compares bytes: the same frames encoded twice are different      *)
(* files.  Only that a new file differs from the stored file of its TXID   *)
(* is ever observed, so a stamp is one bit.  Compaction, retention and     *)
(* restore have no place here: levels above 0 never hold the newest TXID   *)
(* alone, and never change what this module reads.                         *)
(*                                                                         *)
(* A snapshot is built in two steps (the WAL is read whole, then database  *)
(* pages are read one by one), an incremental in two (header and length,   *)
(* then the tail).  Other connections may act between any two steps.       *)
(***************************************************************************)
EXTENDS Db, Sequences

CONSTANTS
  MinFrames,       \* min_checkpoint_frames
  TruncateFrames,  \* truncate_frames
  Timed,           \* does the driver run its time-based checkpoint?
  LargeSnapshots,  \* are snapshots above MULTIPART_THRESHOLD?
  WindowWrites,    \* may the application commit between build and PRAGMA?
  Faults,          \* the faults that may happen
  MaxFaults        \* bound: how many of them

FaultKinds ==
  {"crash",            \* the process dies
   "upload_sync",      \* an upload of sync() or open() fails, nothing stored
   "upload_ckpt",      \* an upload of run_checkpoint fails, nothing stored
   "upload_lost_ack",  \* an upload fails although the file was stored
   "bump_busy",        \* bump_seq gives SQLITE_BUSY
   "ckpt_locked",      \* another connection holds the checkpoint lock
   "app_checkpoint",   \* the application checkpoints, our pin held
   "gap_checkpoint",   \* ... while Db::checkpoint has released the pin
   "down_checkpoint"}  \* ... while no syncer runs

ASSUME SyncerAssumption ==
  /\ MinFrames \in Nat \ {0} /\ TruncateFrames \in Nat \ {0}
  /\ MinFrames <= TruncateFrames
  /\ Timed \in BOOLEAN /\ LargeSnapshots \in BOOLEAN
  /\ WindowWrites \in BOOLEAN
  /\ Faults \subseteq FaultKinds
  /\ MaxFaults \in Nat

VARIABLES
  pc,       \* what the syncer does next
  task,     \* the operation it runs
  pos,      \* Position: what has been replicated
  store,    \* the replica: the L0 file of TXID n is store[n]
  staging,  \* LTX files in the staging directory
  plan,     \* what build_under_lock read and decided
  cur,      \* the StagedFile in flight
  synced,   \* run_checkpoint's synced_frames
  dirty,    \* the driver's synced_since_checkpoint
  faults    \* faults so far

syncVars == <<pc, task, pos, store, staging, plan, cur, synced, dirty, faults>>
locals == <<task, plan, cur, synced>>
vars == <<dbVars, syncVars>>

CkptTasks == {"threshold", "truncate", "timed"}
Tasks == CkptTasks \cup {"sync", "overfold"}
Pcs == {"down", "recover", "idle", "plan", "snap", "checkpoint",
        "checkpointing", "upload", "uploaded", "check"}

File == [txid : Nat, lo : Nat, hi : Nat, gen : Nat, off : Nat, stamp : {0, 1}]
NoFile == [txid |-> 0, lo |-> 0, hi |-> 0, gen |-> 0, off |-> 0, stamp |-> 0]
Staged == [file : File, toEnd : BOOLEAN]
NoStaged == [file |-> NoFile, toEnd |-> FALSE]

Position == [txid : Nat, off : Nat, gen : Nat, toEnd : BOOLEAN]
DefaultPosition == [txid |-> 0, off |-> 0, gen |-> 0, toEnd |-> FALSE]

PlanKinds == {"none", "snapshot", "incremental"}
NoPlan == [kind |-> "none", lo |-> 0, hi |-> 0, gen |-> 0, off |-> 0, len |-> 0]

TypeOK ==
  /\ DbTypeOK
  /\ pc \in Pcs /\ task \in Tasks
  /\ pos \in Position
  /\ store \in Seq(File)
  /\ staging \subseteq File
  /\ plan \in [kind : PlanKinds, lo : Nat, hi : Nat, gen : Nat, off : Nat,
               len : Nat]
  /\ cur \in Staged
  /\ synced \in Nat
  /\ dirty \in BOOLEAN /\ faults \in Nat

\* The last commit the published chain claims to hold.
LastHi == IF store = << >> THEN 0 ELSE store[Len(store)].hi

Init ==
  /\ DbInit
  /\ pc = "down" /\ task = "sync"
  /\ pos = DefaultPosition
  /\ store = << >> /\ staging = {}
  /\ plan = NoPlan /\ cur = NoStaged
  /\ synced = 0 /\ dirty = FALSE /\ faults = 0

\* A fault of the given kind happens now.
Fault(kind) == kind \in Faults /\ faults < MaxFaults /\ faults' = faults + 1

\* The operation returns, with a result or an error: its locals are gone.
Return ==
  /\ pc' = "idle" /\ task' = "sync"
  /\ plan' = NoPlan /\ cur' = NoStaged /\ synced' = 0
  /\ call' = NoCall

(***************************************************************************)
(* build_next: re-take the pin, read the WAL's length and header, plan.    *)
(***************************************************************************)

\* Mutation: a new generation is not noticed, only a shorter file.
MutPlanOffset == IF pos.off > slots THEN 0 ELSE pos.off

\* Syncer::plan.  A generation or length mismatch means the log restarted:
\* read it from its first frame.
PlanOffset ==
  IF pos.gen # gen \/ pos.off > slots THEN 0 ELSE pos.off

PlanSkips == pos.txid > 0 /\ slots = 0 /\ pos.toEnd

PlanSnapshots == pos.txid = 0 \/ (slots = 0 /\ ~pos.toEnd)

PlanNext ==
  IF PlanSnapshots
    THEN [NoPlan EXCEPT !.kind = "snapshot"]
    ELSE [kind |-> "incremental", lo |-> base + PlanOffset, hi |-> 0,
          gen |-> gen, off |-> PlanOffset, len |-> slots]

\* build_next has returned (a staged file, or none).  sync uploads the file;
\* run_checkpoint notes how many frames are captured, then checkpoints.
Built(t, s) ==
  \/ /\ t \in CkptTasks
     /\ pc' = "checkpoint" /\ task' = t /\ plan' = NoPlan /\ cur' = s
     /\ synced' = IF s = NoStaged THEN pos.off ELSE s.file.off
     /\ UNCHANGED call
  \/ /\ t \notin CkptTasks /\ s # NoStaged
     /\ pc' = "upload" /\ task' = t /\ plan' = NoPlan /\ cur' = s
     /\ UNCHANGED <<synced, call>>
  \/ t \notin CkptTasks /\ s = NoStaged /\ Return

\* Mutation: the pin is not taken again when a checkpoint lost it.
MutBuildNext(t) ==
  /\ pc = "idle"
  /\ \/ PlanSkips /\ Built(t, NoStaged)
     \/ /\ ~PlanSkips
        /\ pc' = "plan" /\ task' = t /\ plan' = PlanNext
        /\ UNCHANGED <<cur, synced, call>>
  /\ UNCHANGED <<walVars, pin, pos, store, staging, dirty, faults>>

BuildNext(t) ==
  /\ pc = "idle"
  /\ AcquireReadLock
  /\ \/ PlanSkips /\ Built(t, NoStaged)
     \/ /\ ~PlanSkips
        /\ pc' = "plan" /\ task' = t /\ plan' = PlanNext
        /\ UNCHANGED <<cur, synced, call>>
  /\ UNCHANGED <<walVars, pos, store, staging, dirty, faults>>

\* The header's timestamp: another one than that of the stored file.
FreshStamp(txid) ==
  IF txid <= Len(store) THEN 1 - store[txid].stamp ELSE 0

\* stage(): encode, fsync, rename over whatever has this file's name.
Stage(lo, hi, g, off, toEnd) ==
  LET f == [txid |-> pos.txid + 1, lo |-> lo, hi |-> hi, gen |-> g,
            off |-> off, stamp |-> FreshStamp(pos.txid + 1)]
  IN  /\ staging' = {s \in staging : s.txid # f.txid} \cup {f}
      /\ Built(task, [file |-> f, toEnd |-> toEnd])

(***************************************************************************)
(* build_snapshot.                                                         *)
(***************************************************************************)

\* Mutation: end_offset - offset without saturating_sub, on an empty WAL.
MutReadWal ==
  plan' = [kind |-> "snapshot", lo |-> 0, hi |-> head,
           gen |-> IF slots = 0 THEN 0 ELSE gen,
           off |-> IF slots = 0 THEN -1 ELSE Frames,
           len |-> slots]

\* The WAL is read whole: its frames on top of the database file are the
\* state of now.  With no header the salts and the offset are 0.
ReadWal ==
  plan' = [kind |-> "snapshot", lo |-> 0, hi |-> head,
           gen |-> IF slots = 0 THEN 0 ELSE gen,
           off |-> IF slots = 0 THEN 0 ELSE Frames,
           len |-> slots]

SnapshotReadWal ==
  /\ pc = "plan" /\ plan.kind = "snapshot"
  /\ ReadWal
  /\ pc' = "snap"
  /\ UNCHANGED <<dbVars, task, pos, store, staging, cur, synced, dirty,
                 faults>>

\* The other pages come from the database file, and the result is staged.
BuildSnapshot ==
  /\ pc = "snap"
  /\ Stage(0, plan.hi, plan.gen, plan.off, plan.off >= plan.len)
  /\ UNCHANGED <<walVars, pin, pos, store, dirty, faults>>

(***************************************************************************)
(* build_incremental: the tail of the generation the header named.         *)
(***************************************************************************)

\* If the log was restarted or truncated since the header was read, the frame
\* before the offset may be overwritten or gone: PrevFrameMismatch, or a
\* short read.
TailLost ==
  /\ plan.off > 0
  /\ plan.off > slots \/ (plan.gen # gen /\ plan.off <= Frames)

\* The last commit the tail holds.  Frames of another generation do not
\* verify; what a restarted log has not overwritten yet still does.
TailEnd ==
  CASE plan.gen = gen /\ slots > 0 -> head
    [] plan.gen # gen /\ plan.off > 0 -> base
    [] OTHER -> plan.lo

BuildIncremental ==
  /\ pc = "plan" /\ plan.kind = "incremental"
  /\ ~TailLost
  /\ IF TailEnd > plan.lo
       THEN LET off == plan.off + (TailEnd - plan.lo)
            IN  Stage(plan.lo, TailEnd, plan.gen, off, off >= plan.len)
       ELSE Built(task, NoStaged) /\ UNCHANGED staging
  /\ UNCHANGED <<walVars, pin, pos, store, dirty, faults>>

\* The error ends the whole operation; no state has changed.
BuildIncrementalError ==
  /\ pc = "plan" /\ plan.kind = "incremental"
  /\ TailLost
  /\ Return
  /\ UNCHANGED <<walVars, pin, pos, store, staging, dirty, faults>>

(***************************************************************************)
(* The operations: sync; checkpoint_if_needed (its gate is the replicated  *)
(* extent of the generation, live_wal_frames); checkpoint_now, which the   *)
(* driver calls when the threshold was not crossed, frames have been synced*)
(* since the last checkpoint and the interval has passed.                  *)
(***************************************************************************)
LiveWalFrames == pos.off

Sync == BuildNext("sync")

CheckpointIfNeeded ==
  /\ LiveWalFrames >= MinFrames
  /\ head < MaxHead   \* bound: its bump_seq is a commit too
  /\ BuildNext(IF LiveWalFrames >= TruncateFrames THEN "truncate"
                                                 ELSE "threshold")

CheckpointNow ==
  /\ Timed
  /\ LiveWalFrames < MinFrames /\ dirty /\ slots > 0
  /\ BuildNext("timed")

(***************************************************************************)
(* run_checkpoint, after build_next: Db::checkpoint, upload, over-fold.    *)
(***************************************************************************)
RunCheckpoint ==
  /\ pc = "checkpoint"
  /\ CheckpointBegin(IF task = "truncate" THEN "truncate" ELSE "passive",
                     task # "timed")
  /\ pc' = "checkpointing"
  /\ UNCHANGED <<locals, pos, store, staging, dirty, faults>>

CheckpointStep ==
  /\ pc = "checkpointing"
  /\ PragmaPassive \/ PragmaTruncate \/ PragmaTruncateBusy \/ BumpSeq
  /\ UNCHANGED syncVars

CheckpointLocked ==
  /\ pc = "checkpointing"
  /\ PragmaLocked
  /\ Fault("ckpt_locked")
  /\ UNCHANGED <<pc, locals, pos, store, staging, dirty>>

\* Db::checkpoint's error is run_checkpoint's: the staged file stays where
\* it is, the position and the pin stay as they are.
CheckpointBumpBusy ==
  /\ pc = "checkpointing"
  /\ BumpSeqBusy
  /\ Fault("bump_busy")
  /\ Return
  /\ UNCHANGED <<pos, store, staging, dirty>>

\* Mutation: the staged file is not uploaded after the checkpoint.
MutCheckpointReturn ==
  /\ pc = "checkpointing"
  /\ CheckpointEnd
  /\ pc' = "check"
  /\ UNCHANGED <<locals, pos, store, staging, dirty, faults>>

CheckpointReturn ==
  /\ pc = "checkpointing"
  /\ CheckpointEnd
  /\ pc' = IF cur = NoStaged THEN "check" ELSE "upload"
  /\ UNCHANGED <<locals, pos, store, staging, dirty, faults>>

\* Mutation: nobody looks for frames folded before they were captured.
MutOverFolded == FALSE

\* checkpointed_frames as u64 > synced_frames; -1 becomes the largest u64.
OverFolded == call.folded < 0 \/ call.folded > synced

\* The checkpoint folded frames that were not captured: snapshot the
\* database now (build_snapshot_now).
OverFold ==
  /\ pc = "check" /\ OverFolded
  /\ task' = "overfold"
  /\ ReadWal
  /\ pc' = "snap"
  /\ UNCHANGED <<dbVars, pos, store, staging, cur, synced, dirty, faults>>

CheckpointDone ==
  /\ pc = "check" /\ ~OverFolded
  /\ Return
  /\ dirty' = FALSE
  /\ UNCHANGED <<walVars, pin, pos, store, staging, faults>>

(***************************************************************************)
(* upload_staged and upload_ltx_file.                                      *)
(***************************************************************************)
Stored(f) == f.txid <= Len(store)

\* Mutation: a plain put, without if-none-match.
MutPutCas(f) ==
  store' = IF Stored(f) THEN [store EXCEPT ![f.txid] = f] ELSE Append(store, f)

\* put_ltx_cas with if-none-match: create, or compare with what is there.
PutCas(f) ==
  /\ Stored(f) => store[f.txid] = f
  /\ store' = IF Stored(f) THEN store ELSE Append(store, f)

\* put_ltx_multipart: no guard, the object is replaced.
PutMultipart(f) ==
  /\ LargeSnapshots /\ f.lo = 0
  /\ store' = IF Stored(f) THEN [store EXCEPT ![f.txid] = f]
                           ELSE Append(store, f)

Conflict(f) ==
  /\ Stored(f) /\ store[f.txid] # f
  /\ ~(LargeSnapshots /\ f.lo = 0)

Put(f) == IF LargeSnapshots /\ f.lo = 0 THEN PutMultipart(f) ELSE PutCas(f)

Upload ==
  /\ pc = "upload"
  /\ Put(cur.file)
  /\ pc' = "uploaded"
  /\ UNCHANGED <<dbVars, locals, pos, staging, dirty, faults>>

\* SyncError::Equivocation: a different file holds this TXID.
Equivocation ==
  /\ pc = "upload"
  /\ Conflict(cur.file)
  /\ Return
  /\ UNCHANGED <<walVars, pin, pos, store, staging, dirty, faults>>

\* Mutation: the position advances although the upload failed.
MutUploadFails ==
  /\ pc = "upload"
  /\ Fault(IF task = "sync" THEN "upload_sync" ELSE "upload_ckpt")
  /\ Return
  /\ pos' = [txid |-> cur.file.txid, off |-> cur.file.off,
             gen |-> cur.file.gen, toEnd |-> cur.toEnd]
  /\ UNCHANGED <<walVars, pin, store, staging, dirty>>

UploadFails ==
  /\ pc = "upload"
  /\ Fault(IF task = "sync" THEN "upload_sync" ELSE "upload_ckpt")
  /\ Return
  /\ UNCHANGED <<walVars, pin, pos, store, staging, dirty>>

UploadLosesAck ==
  /\ pc = "upload"
  /\ Put(cur.file)
  /\ Fault("upload_lost_ack")
  /\ Return
  /\ UNCHANGED <<walVars, pin, pos, staging, dirty>>

\* The staged copy is removed and the position advances.
UploadDone ==
  /\ pc = "uploaded"
  /\ staging' = {s \in staging : s.txid # cur.file.txid}
  /\ pos' = [txid |-> cur.file.txid, off |-> cur.file.off,
             gen |-> cur.file.gen, toEnd |-> cur.toEnd]
  /\ \/ /\ task \in CkptTasks
        /\ pc' = "check" /\ cur' = NoStaged
        /\ UNCHANGED <<task, plan, synced, call, dirty>>
     \/ /\ task \notin CkptTasks
        /\ Return
        /\ dirty' = (task = "sync")
  /\ UNCHANGED <<walVars, pin, store, faults>>

(***************************************************************************)
(* Restarts: Syncer::open uploads what a previous run staged, in TXID      *)
(* order, then takes its position from the newest file of the replica.     *)
(***************************************************************************)
Crash ==
  /\ pc # "down"
  /\ Fault("crash")
  /\ pc' = "down"
  /\ pin' = Unpinned /\ call' = NoCall
  /\ pos' = DefaultPosition /\ plan' = NoPlan /\ cur' = NoStaged
  /\ task' = "sync" /\ synced' = 0 /\ dirty' = FALSE
  /\ UNCHANGED <<walVars, store, staging>>

Open ==
  /\ pc = "down"
  /\ pc' = "recover"
  /\ UNCHANGED <<dbVars, locals, pos, store, staging, dirty, faults>>

OldestStaged == CHOOSE f \in staging : \A g \in staging : f.txid <= g.txid

RecoverStaging ==
  /\ pc = "recover" /\ staging # {}
  /\ Put(OldestStaged)
  /\ staging' = staging \ {OldestStaged}
  /\ UNCHANGED <<dbVars, pc, locals, pos, dirty, faults>>

\* open() returns the error, and the process has no syncer.
OpenFails ==
  /\ pc = "recover" /\ staging # {}
  /\ \/ Conflict(OldestStaged) /\ UNCHANGED faults
     \/ Fault("upload_sync")
  /\ pc' = "down"
  /\ UNCHANGED <<dbVars, locals, pos, store, staging, dirty>>

\* Mutation: the position is taken from the file before the newest.
MutDerivePosition ==
  IF Len(store) < 2 THEN DefaultPosition
  ELSE [txid |-> Len(store) - 1, off |-> store[Len(store) - 1].off,
        gen |-> store[Len(store) - 1].gen, toEnd |-> FALSE]

DerivePosition ==
  IF store = << >> THEN DefaultPosition
  ELSE [txid |-> Len(store), off |-> store[Len(store)].off,
        gen |-> store[Len(store)].gen, toEnd |-> FALSE]

\* Mutation: open() does not wait for the recovery of the staged files.
MutOpenDone ==
  /\ pc = "recover"
  /\ pos' = DerivePosition
  /\ AcquireReadLock
  /\ pc' = "idle"
  /\ UNCHANGED <<walVars, call, locals, store, staging, dirty, faults>>

OpenDone ==
  /\ pc = "recover" /\ staging = {}
  /\ pos' = DerivePosition
  /\ AcquireReadLock
  /\ pc' = "idle"
  /\ UNCHANGED <<walVars, call, locals, store, staging, dirty, faults>>

(***************************************************************************)
(* The application.                                                        *)
(***************************************************************************)

\* Between run_checkpoint's first look at the WAL and its PRAGMA.
InWindow ==
  \/ pc \in {"plan", "snap"} /\ task \in CkptTasks
  \/ pc = "checkpoint"
  \/ pc = "checkpointing" /\ call.at = "pragma"

CheckpointFault ==
  CASE pin.held                    -> "app_checkpoint"
    [] pc \in {"down", "recover"}  -> "down_checkpoint"
    [] OTHER                       -> "gap_checkpoint"

AppWrites ==
  /\ WindowWrites \/ ~InWindow
  /\ AppCommit
  /\ UNCHANGED syncVars

AppCheckpoints ==
  /\ CheckpointFault \in Faults
  /\ AppCheckpoint \/ AppTruncate
  /\ UNCHANGED syncVars

SyncerStep ==
  \/ Sync \/ CheckpointIfNeeded \/ CheckpointNow
  \/ SnapshotReadWal \/ BuildSnapshot
  \/ BuildIncremental \/ BuildIncrementalError
  \/ RunCheckpoint \/ CheckpointStep \/ CheckpointReturn
  \/ OverFold \/ CheckpointDone
  \/ Upload \/ Equivocation \/ UploadDone
  \/ Open \/ RecoverStaging \/ OpenDone

FaultStep ==
  \/ Crash \/ UploadFails \/ UploadLosesAck \/ OpenFails
  \/ CheckpointLocked \/ CheckpointBumpBusy

Next == SyncerStep \/ FaultStep \/ AppWrites \/ AppCheckpoints

Spec == Init /\ [][Next]_vars

\* The monitor loop ticks for ever and goes on after an error, and a process
\* that died is started again: the syncer never just stops.  Nothing is
\* asked of the application.
FairSpec == Spec /\ WF_vars(SyncerStep)

(***************************************************************************)
(* Properties.                                                             *)
(***************************************************************************)
PrevHi(n) == IF n = 1 THEN 0 ELSE store[n - 1].hi

\* Every published TXID restores to a committed state: the chain starts with
\* a snapshot, and each later file is a snapshot or starts no later than the
\* file before it ends.  No commit ever falls between two files, so no
\* restore yields a state the database never had.
ChainComplete ==
  \A n \in 1 .. Len(store) :
    store[n].lo <= PrevHi(n) /\ PrevHi(n) <= store[n].hi

\* While a snapshot takes its pages from the database file, the file is not
\* ahead of the WAL image the snapshot is built on: the snapshot is one
\* committed state and not a mixture of two.
SnapshotConsistent == pc = "snap" => DbFile <= plan.hi

\* A sync that finds an empty WAL and skips has nothing left to replicate.
SkipIsComplete == pc = "idle" /\ PlanSkips => LastHi = head

SamePlace(p, q) == p.txid = q.txid /\ p.off = q.off /\ p.gen = q.gen

\* The position in memory is the one a restart would read back from the
\* replica, unless the replica is one unacknowledged upload ahead: a crash
\* between operations never moves the syncer back, and never past a frame.
ResumeAgrees ==
  pc = "idle" =>
    IF pos.txid = Len(store)
      THEN SamePlace(pos, DerivePosition)
      ELSE pos.txid + 1 = Len(store) /\ "upload_lost_ack" \in Faults

KeepsPublished ==
  \A n \in 1 .. Len(store) :
    /\ n <= Len(store')
    /\ \/ store'[n] = store[n]
       \/ /\ LargeSnapshots /\ store'[n].lo = 0
          /\ store[n].hi <= store'[n].hi

\* A published file is never taken back or changed: the compare-and-swap
\* upload refuses to.  Only a snapshot too large for it may replace the file
\* of its TXID, by a state that is at least as new.
PublishedIsFinal == [][KeepsPublished]_vars

\* The only writer never finds a different file at the TXID it uploads:
\* Equivocation is raised against another writer, never against itself.
NoSelfEquivocation ==
  /\ pc = "upload" => ~Conflict(cur.file)
  /\ pc = "recover" /\ staging # {} => ~Conflict(OldestStaged)

\* Every commit is in the replica in the end.
EventuallyReplicated ==
  \A c \in 1 .. MaxHead + 1 : head >= c ~> LastHi >= c

\* The state TXID n restores to: what its file ends with if no commit is
\* missing before it, and otherwise (0) no state the database ever had.
RestoresTo(n) ==
  IF \A m \in 1 .. n : store[m].lo <= PrevHi(m) THEN store[n].hi ELSE 0

\* The syncer implements the abstract replica: every published TXID restores
\* to a committed state, newer TXIDs to newer states, nothing is rewritten,
\* and every commit is published in the end.
Abstract ==
  INSTANCE Replica WITH committed <- head,
                        published <- [n \in 1 .. Len(store) |-> RestoresTo(n)]

RefinesReplica == Abstract!ReplicaSpec
=============================================================================
