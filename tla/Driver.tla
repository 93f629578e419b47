------------------------------- MODULE Driver -------------------------------
(***************************************************************************)
(* Driver::tick (src/sync/driver.rs) with the level intervals of           *)
(* src/sync/level.rs and the checkpoint gates of src/sync/mod.rs: which    *)
(* job of a tick runs when, on a clock the caller passes in, beside an     *)
(* application that commits between any two steps.                         *)
(*                                                                         *)
(* What sync, checkpoint, compaction, snapshot and retention do to the     *)
(* replica is the subject of Syncer and Tiers.  Here the log is its        *)
(* generation, its frames, how many of them are folded and the length of   *)
(* the file; a build is one step and so is each upload, PRAGMA and bump;   *)
(* a published file is a number; a job succeeds or fails.                  *)
(***************************************************************************)
EXTENDS Integers, Sequences, FiniteSets

CONSTANTS
  Levels,              \* CompactionLevels: a sequence, level 0 first
  SnapshotInterval,    \* snapshot_interval, 0 to disable
  RetentionInterval,   \* l0_retention_interval, 0 to disable
  CheckpointInterval,  \* checkpoint_interval, 0 to disable
  MinFrames,           \* min_checkpoint_frames
  TruncateFrames,      \* truncate_frames
  Start,               \* the clock when the driver is created
  MaxNow,              \* bound: the clock
  MaxGap,              \* the caller ticks at least this often
  MaxCommits,          \* bound: commits of the application
  Faults, MaxFaults    \* which faults may occur, and how many

SNAPSHOT_LEVEL == 9

\* CompactionLevels::new refuses anything else.
validate(levels) ==
  /\ levels # << >>
  /\ \A i \in 1 .. Len(levels) :
       /\ levels[i].level = i - 1
       /\ levels[i].level <= SNAPSHOT_LEVEL - 1
       /\ levels[i].level = 0 <=> levels[i].interval = 0

ASSUME DriverAssumption ==
  /\ Levels \in Seq([level : Nat, interval : Nat]) /\ validate(Levels)
  /\ SnapshotInterval \in Nat /\ RetentionInterval \in Nat /\ CheckpointInterval \in Nat
  /\ MinFrames \in Nat /\ TruncateFrames \in Nat /\ Start \in Nat /\ MaxNow \in Nat
  /\ MaxGap \in Nat \ {0} /\ MaxCommits \in Nat /\ MaxFaults \in Nat

max_level == Len(Levels) - 1

\* truncate: the clock floored to a multiple of the interval.
truncate(t, interval) == IF interval = 0 THEN t ELSE (t \div interval) * interval

(***************************************************************************)
(* The jobs of a tick that follow the checkpoint, in their order.          *)
(***************************************************************************)
SnapshotJob == max_level + 1
RetentionJob == max_level + 2
Jobs == 1 .. RetentionJob

IntervalOf(j) ==
  IF j <= max_level THEN Levels[j + 1].interval
  ELSE IF j = SnapshotJob THEN SnapshotInterval ELSE RetentionInterval

VARIABLES
  now,          \* the caller's clock
  pc,           \* the step of the tick, "idle" between ticks
  job,          \* the job pc = "jobs" has reached
  last,         \* last_*_boundary, by job
  lastCheckpoint, syncedSince,  \* last_checkpoint_at, synced_since_checkpoint
  work,         \* the sync or checkpoint in progress
  wal,          \* generation, frames, frames folded, frames the file has room for
  pos,          \* the syncer's position: generation, frames, synced_to_wal_end
  commits,      \* commits so far
  faults,       \* faults so far
  since,        \* since the last commit: files, over-fold snapshots and refused
                \* PRAGMAs; and its time
  waiting,      \* by job: the ticks that ended before it while it was due, since
                \* the clock was last set back: the job that failed, and when
  runs,         \* by job: how often it ran
  latest,       \* the latest time of a tick
  untroubled    \* no sync or checkpoint has failed, and the clock went on

logVars == <<lastCheckpoint, syncedSince, work, wal, pos>>
jobVars == <<last, waiting, runs>>
vars == <<now, pc, job, logVars, jobVars, commits, faults, since, latest, untroubled>>

\* Mutation: any other boundary is due, an earlier one as well.
MutDue(j) ==
  /\ j > max_level => IntervalOf(j) # 0
  /\ truncate(now, IntervalOf(j)) # last[j]

Due(j) ==
  /\ j > max_level => IntervalOf(j) # 0
  /\ truncate(now, IntervalOf(j)) > last[j]

\* A staged file and the position it leads to, the one that stays when there
\* is none; the mode of the checkpoint, and the frames its PRAGMA reported.
NoWork == [mode |-> "none", file |-> FALSE, to |-> [gen |-> 0, frames |-> 0, toEnd |-> FALSE],
           folded |-> 0]

\* derive_position: of an empty replica, or of one that was left at some time.
\* The log holds the commit that made the sequence table, or is empty.
Init ==
  /\ now = Start /\ pc = "idle" /\ job = 1
  /\ last = [j \in Jobs |-> 0] /\ lastCheckpoint = 0 /\ syncedSince = FALSE
  /\ work = NoWork
  /\ wal \in {[gen |-> 1, frames |-> n, folded |-> 0, len |-> n] : n \in {0, 1}}
  /\ pos \in {[gen |-> g, frames |-> g * n, toEnd |-> FALSE] : g, n \in {0, 1}}
  /\ commits = 0 /\ faults = 0
  /\ since = [files |-> 0, snapshots |-> 0, refused |-> 0, at |-> Start]
  /\ waiting = [j \in Jobs |-> {}] /\ runs = [j \in Jobs |-> 0] /\ latest = Start
  /\ untroubled = TRUE

Fault(kind) == kind \in Faults /\ faults < MaxFaults /\ faults' = faults + 1

(***************************************************************************)
(* The application (external).  It may restart a log that is all folded.   *)
(***************************************************************************)
FullyFolded == wal.folded = wal.frames

Appended(fresh) ==
  LET n == IF fresh THEN 1 ELSE wal.frames + 1
  IN  [gen |-> IF fresh THEN wal.gen + 1 ELSE wal.gen, frames |-> n,
       folded |-> IF fresh THEN 0 ELSE wal.folded,
       len |-> IF n > wal.len THEN n ELSE wal.len]

AppCommit ==
  /\ commits < MaxCommits
  /\ \E fresh \in IF wal.len = 0 THEN {TRUE} ELSE {FALSE, FullyFolded} : wal' = Appended(fresh)
  /\ commits' = commits + 1
  /\ since' = [files |-> 0, snapshots |-> 0, refused |-> 0, at |-> now]
  /\ UNCHANGED <<now, pc, job, lastCheckpoint, syncedSince, work, pos, jobVars, faults, latest,
                 untroubled>>

(***************************************************************************)
(* tick.  The ? operator: an error leaves the rest of the tick undone.     *)
(***************************************************************************)
Return == pc' = "idle" /\ job' = 1

TickAt ==
  /\ pc = "idle"
  /\ \E t \in now + 1 .. now + MaxGap :
       /\ t <= MaxNow /\ now' = t
       /\ latest' = IF t > latest THEN t ELSE latest
  /\ pc' = "sync"
  /\ UNCHANGED <<job, logVars, jobVars, commits, faults, since, untroubled>>

\* The wall clock was set back.
ClockBack ==
  /\ pc = "idle" /\ Fault("clock_back")
  /\ \E t \in Start .. now - 1 : now' = t
  /\ pc' = "sync" /\ untroubled' = FALSE /\ waiting' = [j \in Jobs |-> {}]
  /\ UNCHANGED <<job, logVars, last, runs, commits, since, latest>>

(***************************************************************************)
(* sync: build_next, then the upload, during which the application goes on.*)
(***************************************************************************)
\* build_snapshot of the log as it is.
Snapshot ==
  IF wal.len = 0 THEN [gen |-> 0, frames |-> 0, toEnd |-> TRUE]
  ELSE [gen |-> wal.gen, frames |-> wal.frames, toEnd |-> wal.frames >= wal.len]

\* plan: an empty file has nothing for a position that saw the end of the last
\* one, and needs a snapshot otherwise; a log with frames that are new, or of
\* another generation, gives an incremental file.
Finds(p) ==
  IF wal.len = 0 THEN ~p.toEnd ELSE p.gen # wal.gen \/ p.frames < wal.frames

Built(mode) ==
  work' = [mode |-> mode, file |-> Finds(pos), to |-> IF Finds(pos) THEN Snapshot ELSE pos,
           folded |-> 0]

Sync ==
  /\ pc = "sync"
  /\ Built("none")
  /\ pc' = IF Finds(pos) THEN "upload" ELSE "checkpoint"
  /\ UNCHANGED <<now, job, lastCheckpoint, syncedSince, wal, pos, jobVars, commits, faults,
                 since, latest, untroubled>>

\* upload_staged acknowledged.
Uploaded ==
  /\ pos' = work.to /\ work' = [work EXCEPT !.file = FALSE]
  /\ since' = [since EXCEPT !.files = @ + 1]

\* Mutation: only what the next tick finds counts.
MutSyncedSince == Finds(work.to)

SyncedSince == TRUE

Upload ==
  /\ pc = "upload"
  /\ Uploaded
  /\ syncedSince' = SyncedSince
  /\ pc' = "checkpoint"
  /\ UNCHANGED <<now, job, lastCheckpoint, wal, jobVars, commits, faults, latest, untroubled>>

\* The build or the upload fails; the position stays.
SyncFails ==
  /\ pc \in {"sync", "upload"} /\ Fault("sync_fails")
  /\ work' = NoWork /\ untroubled' = FALSE
  /\ Return
  /\ UNCHANGED <<now, lastCheckpoint, syncedSince, wal, pos, jobVars, commits, since, latest>>

(***************************************************************************)
(* checkpoint_if_needed, or the time-based checkpoint: run_checkpoint.     *)
(***************************************************************************)
\* live_wal_frames, and the mode it selects.
live_wal_frames == pos.frames
Truncates == live_wal_frames >= TruncateFrames
Passive == ~Truncates /\ live_wal_frames >= MinFrames

\* wal_frame_count counts the frames the file has room for.
TimedDue ==
  /\ CheckpointInterval # 0 /\ syncedSince /\ wal.len > 0
  /\ now - lastCheckpoint >= CheckpointInterval

\* Mutation: the time-based checkpoint restarts the log as well.
MutTimedMode == "passive"

\* checkpoint_now: PASSIVE without restart_wal.
TimedMode == "timed"

Mode ==
  IF Truncates THEN "truncate"
  ELSE IF Passive THEN "passive"
  ELSE IF TimedDue THEN TimedMode ELSE "none"

NoCheckpoint ==
  /\ pc = "checkpoint" /\ Mode = "none"
  /\ work' = NoWork /\ pc' = "jobs"
  /\ UNCHANGED <<now, job, lastCheckpoint, syncedSince, wal, pos, jobVars, commits, faults,
                 since, latest, untroubled>>

BuildNext ==
  /\ pc = "checkpoint" /\ Mode # "none"
  /\ Built(Mode)
  /\ pc' = "pragma"
  /\ UNCHANGED <<now, job, lastCheckpoint, syncedSince, wal, pos, jobVars, commits, faults,
                 since, latest, untroubled>>

\* The staged file, if there is one, is uploaded next.
AfterCheckpoint == IF work.file THEN "store" ELSE "overfold"

\* How far a checkpoint gets beside the readers of the application.
Foldable ==
  {wal.frames} \cup (IF "reader" \in Faults THEN {wal.folded} ELSE {})

Reported(n) == work' = [work EXCEPT !.folded = n]

PragmaPassive ==
  /\ pc = "pragma" /\ work.mode \in {"passive", "timed"}
  /\ \E n \in Foldable : wal' = [wal EXCEPT !.folded = n] /\ Reported(n)
  /\ pc' = IF work.mode = "passive" THEN "bump" ELSE AfterCheckpoint
  /\ UNCHANGED <<now, job, lastCheckpoint, syncedSince, pos, jobVars, commits, faults, since,
                 latest, untroubled>>

Emptied == [wal EXCEPT !.frames = 0, !.folded = 0, !.len = 0]

\* TRUNCATE empties the file and reports the counts of an empty one; beside a
\* reader it copies what it can.  It does not bump.
PragmaTruncate ==
  /\ pc = "pragma" /\ work.mode = "truncate"
  /\ \/ wal' = Emptied /\ Reported(0)
     \/ /\ "reader" \in Faults
        /\ \E n \in Foldable : wal' = [wal EXCEPT !.folded = n] /\ Reported(n)
  /\ pc' = AfterCheckpoint
  /\ UNCHANGED <<now, job, lastCheckpoint, syncedSince, pos, jobVars, commits, faults, since,
                 latest, untroubled>>

\* Another connection is checkpointing: busy, the counts are -1, no bump.
PragmaRefused ==
  /\ pc = "pragma" /\ Fault("refused")
  /\ Reported(-1) /\ since' = [since EXCEPT !.refused = @ + 1]
  /\ pc' = AfterCheckpoint
  /\ UNCHANGED <<now, job, lastCheckpoint, syncedSince, wal, pos, jobVars, commits, latest,
                 untroubled>>

\* bump_seq is a commit: it restarts a log that is all folded.
Bump ==
  /\ pc = "bump"
  /\ wal' = Appended(FullyFolded)
  /\ pc' = AfterCheckpoint
  /\ UNCHANGED <<now, job, lastCheckpoint, syncedSince, work, pos, jobVars, commits, faults,
                 since, latest, untroubled>>

Store ==
  /\ pc = "store"
  /\ Uploaded
  /\ pc' = "overfold"
  /\ UNCHANGED <<now, job, lastCheckpoint, syncedSince, wal, jobVars, commits, faults, latest,
                 untroubled>>

\* checkpointed_frames as u64 > synced_frames: -1 is the largest u64.
OverFolded == work.folded = -1 \/ work.folded > work.to.frames

Checkpointed ==
  /\ lastCheckpoint' = now /\ syncedSince' = FALSE
  /\ pc' = "jobs"

CheckpointDone ==
  /\ pc = "overfold" /\ ~OverFolded
  /\ work' = NoWork
  /\ Checkpointed
  /\ UNCHANGED <<now, job, wal, pos, jobVars, commits, faults, since, latest, untroubled>>

\* build_snapshot_now, then its upload.
Resnapshot ==
  /\ pc = "overfold" /\ OverFolded
  /\ work' = [work EXCEPT !.file = TRUE, !.to = Snapshot]
  /\ since' = [since EXCEPT !.snapshots = @ + 1]
  /\ pc' = "resnapshot"
  /\ UNCHANGED <<now, job, lastCheckpoint, syncedSince, wal, pos, jobVars, commits, faults,
                 latest, untroubled>>

ResnapshotDone ==
  /\ pc = "resnapshot"
  /\ pos' = work.to /\ work' = NoWork
  /\ since' = [since EXCEPT !.files = @ + 1]
  /\ Checkpointed
  /\ UNCHANGED <<now, job, wal, jobVars, commits, faults, latest, untroubled>>

\* A build, the PRAGMA, bump_seq or an upload returns an error: what was done
\* before it stays done, and the driver's fields stay as they are.
CheckpointFails ==
  /\ pc \in {"checkpoint", "pragma", "bump", "store", "overfold", "resnapshot"}
  /\ Fault("checkpoint_fails")
  /\ work' = NoWork /\ untroubled' = FALSE
  /\ Return
  /\ UNCHANGED <<now, lastCheckpoint, syncedSince, wal, pos, jobVars, commits, since, latest>>

(***************************************************************************)
(* The jobs.                                                               *)
(***************************************************************************)
\* Mutation: the tick goes on past its last job.
MutAdvance == job' = job + 1 /\ pc' = pc

\* The step after a job that was done or not due.
Advance ==
  IF job = RetentionJob THEN Return ELSE job' = job + 1 /\ pc' = pc

\* Mutation: the boundary is recorded when the job has succeeded.
MutRecorded(ok) == IF ok THEN [last EXCEPT ![job] = truncate(now, IntervalOf(job))] ELSE last

\* The boundary is recorded before the job runs.
Recorded(ok) == [last EXCEPT ![job] = truncate(now, IntervalOf(job))]

SkipJob ==
  /\ pc = "jobs" /\ ~Due(job)
  /\ Advance
  /\ UNCHANGED <<now, logVars, jobVars, commits, faults, since, latest, untroubled>>

RunJob ==
  /\ pc = "jobs" /\ Due(job)
  /\ last' = Recorded(TRUE) /\ runs' = [runs EXCEPT ![job] = @ + 1]
  /\ waiting' = [waiting EXCEPT ![job] = {}]
  /\ Advance
  /\ UNCHANGED <<now, logVars, commits, faults, since, latest, untroubled>>

\* compact_level, snapshot or a retention pass returns an error: also again
\* and again, since nothing the driver does repairs it.
JobFails ==
  /\ pc = "jobs" /\ Due(job) /\ "job_fails" \in Faults
  /\ last' = Recorded(FALSE) /\ runs' = [runs EXCEPT ![job] = @ + 1]
  /\ waiting' = [j \in Jobs |->
                    IF j = job THEN {}
                    ELSE IF j > job /\ Due(j) THEN waiting[j] \cup {[job |-> job, at |-> now]}
                    ELSE waiting[j]]
  /\ Return
  /\ UNCHANGED <<now, logVars, commits, faults, since, latest, untroubled>>

Checkpoint ==
  \/ NoCheckpoint \/ BuildNext \/ PragmaPassive \/ PragmaTruncate \/ PragmaRefused \/ Bump
  \/ Store \/ CheckpointDone \/ Resnapshot \/ ResnapshotDone \/ CheckpointFails

Tick ==
  \/ TickAt \/ ClockBack \/ Sync \/ Upload \/ SyncFails
  \/ Checkpoint
  \/ SkipJob \/ RunJob \/ JobFails

Next == AppCommit \/ Tick

Spec == Init /\ [][Next]_vars

(***************************************************************************)
(* Properties.                                                             *)
(***************************************************************************)
Position == [gen : Nat, frames : Nat, toEnd : BOOLEAN]

TypeOK ==
  /\ now \in Nat /\ job \in Jobs
  /\ pc \in {"idle", "sync", "upload", "checkpoint", "pragma", "bump", "store", "overfold",
             "resnapshot", "jobs"}
  /\ last \in [Jobs -> Nat] /\ lastCheckpoint \in Nat /\ syncedSince \in BOOLEAN
  /\ work \in [mode : {"none", "passive", "truncate", "timed"}, file : BOOLEAN, to : Position,
               folded : Int]
  /\ wal \in [gen : Nat, frames : Nat, folded : Nat, len : Nat] /\ pos \in Position
  /\ commits \in Nat /\ faults \in Nat
  /\ since \in [files : Nat, snapshots : Nat, refused : Nat, at : Nat]
  /\ waiting \in [Jobs -> SUBSET [job : Jobs, at : Nat]] /\ runs \in [Jobs -> Nat]
  /\ latest \in Nat /\ untroubled \in BOOLEAN

\* However the clock is set back and forth, and whatever fails, a job runs at
\* most once for each boundary that the clock has reached since the start.
OncePerBoundary ==
  \A j \in Jobs : IntervalOf(j) # 0 =>
    runs[j] <= (latest \div IntervalOf(j)) - (Start \div IntervalOf(j)) + 1

\* A job that keeps failing does not starve the jobs after it: its boundary is
\* already recorded, so the next tick goes on past it.  With intervals longer
\* than the ticks a round of failures takes, each job ahead of a due one fails
\* at most twice, once on each side of a boundary, before that one is reached.
NotStarved == \A j \in Jobs : Cardinality(waiting[j]) <= 2 * (j - 1)

\* An idle database stops costing files: after its last commit it publishes at
\* most three more, one that was under way, one with that commit and one with
\* the bump of the sequence row, and a snapshot for each PRAGMA that another
\* checkpoint refused.
IdleIsQuiet == since.files <= 3 + since.refused

\* That a checkpoint always has something to fold does not hold: after a
\* TRUNCATE the position still counts the frames that are gone, and an idle
\* database is truncated at every tick.
CheckpointsHaveWork == pc = "pragma" => wal.len > 0

\* A database with few writes gets its log folded at the time-based cadence: one
\* checkpoint interval and two ticks after its last commit nothing is left in
\* the log.  It does not hold after an over-fold, whose snapshot captures what
\* was committed meanwhile and leaves the next sync nothing to remember.
LowWriteIsFolded ==
  untroubled /\ commits > 0 /\ pc = "jobs" /\ now - since.at > CheckpointInterval + 2 * MaxGap
    => FullyFolded

\* The same, unless a snapshot for an over-fold has been taken since.
FoldedInTime == since.snapshots = 0 => LowWriteIsFolded
=============================================================================
