# A TLA+ model of literstream

literstream replicates a live SQLite database to an object store: it reads the
write-ahead log (WAL), ships each batch of commits as an LTX file, compacts and
prunes those files, and restores a database from them. This directory models
the parts of it that carry its promise, *every commit reaches the replica, and
what is restored is a state the database really had*, checks them with TLC on
small instances, and proves what holds for every instance with TLAPS.

Paths below are relative to the crate (`src/db/mod.rs`, `src/sync/mod.rs`, ...).
`PROJECT.json` maps every definition to the lines it models.

## The system

| Part | State it keeps | Operations | Talks to |
|---|---|---|---|
| `Db` (`src/db/mod.rs`) | an SQLite connection, `read_lock_held` | `acquire_read_lock`, `release_read_lock`, `checkpoint`, `bump_seq` | SQLite; shares the database and its WAL with the application's connections |
| `Syncer` (`src/sync/mod.rs`) | `Position` (TXID, WAL offset, salts), staging directory, `FileIndex` | `open`, `sync`, `flush`, `checkpoint_if_needed`, `checkpoint_now`, `compact`, `compact_level`, `snapshot`, `enforce_*_retention` | `Db`, the `-wal` and database files, the store |
| `Driver` (`src/sync/driver.rs`) | last run times | `tick` | calls the syncer in a fixed order |
| retention (`src/sync/retention.rs`) | none | which files may go | called by the syncer |
| `ReplicaClient` (`src/storage/mod.rs`) | none | put, compare-and-swap put, multipart put, get, list, delete | the store |
| restore (`src/sync/restore.rs`) | the `RESTORED` marker beside the local file | `restore*`, `catch_up`, `record_position` | the store, at the same time as the writer |
| `ReplicaReader` (`src/sync/reader.rs`) | a plan, cached page indexes | `read_page` | the store |
| WAL reader, LTX encoder, decoder, compactor (`src/wal`, `src/ltx`) | streams | pure | called by the others |
| `ProcessLock` (`src/lock.rs`) | a lock file | `acquire` | other processes of the host |

What is hard here:

* **Concurrency without a lock.** The application commits, and may checkpoint,
  between any two steps of the syncer. Only the pinned read transaction keeps
  the log from being recycled, and `Db::checkpoint` has to let go of it.
* **Generations.** A restarted log reuses its file. An offset, a frame count or
  a header is only meaningful with the generation it was read in.
* **Crashes and retries.** Every step of stage, checkpoint, upload, removal of
  the staged copy, new position can be the last one; an upload may be stored
  and still fail.
* **Deleting from a store that is being read.** Compaction publishes and then
  deletes; retention deletes from an index that may be stale; a reader lists
  level by level.

The complete list, each at its line and with the properties aimed at it, is
under `hazards` in `PROJECT.json`.

## Modules

| Module | Models | State and actions |
|---|---|---|
| `Db` | `Db` and SQLite's WAL | commits are numbers; a generation, its base, how much of it is copied, the length of the file, the pin, and the `Db::checkpoint` call in progress. One action per step of `checkpoint` that other connections can fall between; the application's commit, PASSIVE and TRUNCATE checkpoints. SQLite's own rules are marked external. |
| `Replica` | the promise | a list of database states, one per TXID, that grows at its end; everything committed is published in the end. |
| `Syncer` (extends `Db`) | `open`, `sync`, both checkpoints, over-fold, staging, recovery, the compare-and-swap upload | `pc` is the next step of the one operation in progress. An LTX file is the range of commits it carries, the WAL position in its header, and one bit for its timestamp. |
| `RestorePlan` | `greedy_cover`, the three planners, the compactor's contiguity check | pure operators on sets of file names. |
| `RestoreImage` (extends `RestorePlan`) | what planners, appliers, merges and the reader compute | every file set, every question, every history of one page. |
| `Tiers` (extends `RestorePlan`) | compaction, snapshots, retention, `FileIndex`, restart | files have a name and the set of TXIDs really in them; deletes happen one by one. |
| `CatchUp` (extends `Tiers`) | `catch_up` and `restore_to_path` beside the writer | the reader's listing, plan, marker and file, with the writer of `Tiers` running. |
| `WalReader` | `src/wal`: `read_frame`, `page_map`, the seed of a tail | pure operators on a log file: a salt and frames with page, commit size, salt, data and checksum. |
| `Ltx` | `src/ltx`: the encoder's rules, the pages `read_file` finds, the merge | pure operators on a file: a header and page frames in order. |
| `Capture` (extends `WalReader`, `Ltx`) | from frames to files to a database, page by page | the log, the open transaction, the committed database after each commit, the database file; the sync in progress with its buffer; the chain of files. The application spills, commits, rolls back, tears frames and loses power; a tail is read frame by frame while it does. |
| `Driver` | `Driver::tick`, `CompactionLevels`, the checkpoint gates | clock, the step of the tick, boundaries, `last_checkpoint_at`, `synced_since_checkpoint`; the log as generation, frames, frames folded and length of the file; the staged file and the position it leads to. Build, upload, PRAGMA, bump, over-fold test and catch-up snapshot are actions of their own, each with its error path, and the application commits between any two of them. |
| `MultiWriter` | `ProcessLock`, staging shared by processes, the compare-and-swap between hosts, failover | by host: database, log, lock, staging; by process: step and position. `Failover` is `restore_to_path` on a host that takes over: it writes the database and leaves the staging directory alone, so `open` may find files of an earlier life there. An upload succeeds, fails, or is stored and answered with an error. |
| `MCDriver`, `MCMultiWriter` | values for TLC | two levels above level 0 and the two scenarios; symmetry of hosts and processes. |
| `SyncerProofs` (on `Db` too), `CaptureProofs`, `RestorePlanProofs`, `RestoreImageProofs`, `TiersProofs`, `CatchUpProofs`, `DriverProofs`, `MultiWriterProofs` | theorems | see below. |

How they fit: `Syncer` contains the database of `Db` and is shown to implement
`Replica`. `Tiers` takes over where `Syncer` stops: it sees an upload of the next
L0 file as one step, because compaction, retention and sync run one after the
other in one task (`Driver::tick`) and never change what sync reads. `CatchUp`
composes `Tiers` with an independent reader. `Capture` is the inside of one
sync: `Syncer` sees a commit as one frame and assumes that reading a tail yields
the committed ones (`TailEnd`); `Capture` shows that for frames, pages and
checksums, and takes from `Db` and `Syncer` when a log may be folded. `Driver`
says in which order and when the operations of `Syncer` and `Tiers` are called,
which those leave open. `MultiWriter` puts several syncers, each as coarse as
one step per build, beside each other.

Definitions that begin with `Mut` are mutations: each stands for a plausible mistake
in the definition after it and is used by no specification. They show that the
property they are listed with would notice.

### Abstractions

* A commit is one WAL frame, a database state is the number of its last commit
  (`Db`, `Syncer`). Page contents matter in `Capture`, where a page holds the
  number of the transaction that wrote it, and in `RestoreImage`, where one page
  stands for all: files, merges and restores treat pages independently except
  through the size of the database, which the page's history therefore carries.
* Salts are the number of the generation. Two generations never share salts.
* A frame's checksum is what it is computed from (`WalReader`): equal sums mean
  equal content, which 64 bits only make likely. A torn frame is one whose sum
  matches nothing. The checksum of an LTX file is not modelled: what `read_file`
  reads is what was written.
* In `Capture` a log is folded only when its commits are captured, and uploads
  succeed; in `MultiWriter` a build is one step; in `Driver` a job succeeds or
  fails. What is left out of each is the subject of another module.
* A file's timestamp is one bit (`Syncer`, `MultiWriter`): only whether it differs
  from that of the stored file of the same TXID is ever observed (by the byte
  comparison of the compare-and-swap).
* `restore_to_timestamp` and `restore_to_txid` each list the levels
  (`src/sync/restore.rs:369`, `417`); in `RestoreImage` the two listings are the
  same. In `Tiers` and `CatchUp` a listing can be a state the store never had.
* A host that takes over (`MultiWriter`) has no log beside the restored database.
* File ages in retention passes are a free choice, so nothing in `Tiers` depends
  on clocks or on the configured intervals.
* An error that changes nothing (a failed GET or list, an upload that stored
  nothing during compaction) is a stuttering step.

## Runs

A run has the name of its configuration. In `Syncer` runs, `Faults` lists the faults that
may happen and `WindowWrites` says whether the application may commit between
build and checkpoint.

| Run | Checks | Bounds |
|---|---|---|
| `Syncer_race` | `ChainComplete`; commits everywhere, also in the window of a PASSIVE threshold checkpoint; uploads of `sync` fail, the checkpoint lock is taken | 6 commits, two faults |
| `Syncer_app` | `ChainComplete`, `SkipIsComplete`; the application checkpoints under the pin at will; TRUNCATE and timed checkpoints | 6 commits, one further fault |
| `Syncer_live` | `ChainComplete`, `NoSelfEquivocation`, `EventuallyReplicated`, `RefinesReplica`; crashes, failed uploads, a busy checkpoint | 5 commits, two faults |
| `Syncer_faults` | `TypeOK`, `SnapshotConsistent`, `ResumeAgrees`, `PinKeepsFrames`, `OneRestartWhilePinned`, `PublishedIsFinal`: what holds with all nine faults, commits everywhere and multipart snapshots | 4 commits, two faults |
| `RestoreImage` | `PlanReaches`, `PlanMinimal`, `ImageExact`, `MergeIsLatest`, `TimestampSnaps` | every subset of the names of four TXIDs, every history of a page, every timestamp |
| `Tiers` | `TypeOK`, `Restorable`, `FilesHoldTheirRange`, `ResumeStateKept`, `SnapshotNeverFails`, `RestoreIsComplete`, for a deployment that uses L0 retention (as `Driver` does) and for one that uses `compact` | two cascade levels, four TXIDs, one fault |
| `CatchUp` | `CurrentIfQuiet`, with L0 retention | one cascade level, three TXIDs (with two no torn listing is taken for a whole one); it holds with a crash of the reader too, in 3 million states |
| `CatchUp_live` | `CleanMarkerIsTrue`, `EventuallyCurrent`, with and without L0 retention | two TXIDs; one crash, touched file or recorded position |
| `Capture` | `CapturedIsCommitted`, `SyncReaches`, `EncoderAccepts` | three pages with the lock page among them, two generations of up to three frames, three transactions, three TXIDs |
| `Driver` | `TypeOK`, `NotStarved`, `OncePerBoundary`, `IdleIsQuiet`, `FoldedInTime`, in two scenarios. In one, jobs fail at will, a reader holds checkpoints back and nobody commits; in the other, the application commits between any two steps. In both, syncs and checkpoints fail, a PRAGMA is refused, the clock is set back | two levels above level 0, thirteen ticks; or four commits, six ticks; two faults |
| `MultiWriter` | `OneHistory`, `NeverConflicts`, `AcknowledgedIsKept`, in order and racing, with small and large snapshots; crashes, failed and unanswered uploads, hosts that take over again | two hosts with two processes each, three commits, three TXIDs, two faults |

The bounds are large enough for the cases the properties are about. Two
generations, an offset into the older one and a commit on either side of a
checkpoint need four commits. Four TXIDs let two levels fold twice with a
snapshot between them. In `Capture` a restart leaves stale frames behind the new
ones, and a transaction fits before, across and after the end of a read. In
`Driver` the clock starts before a boundary that the intervals share and
crosses a second one of the short ones, so that each job ahead of the last can
fail twice and the bound of `NotStarved` is met exactly. Four commits
can fall before, during and after one upload, and are enough to cross the PASSIVE
and the TRUNCATE threshold; `FoldedInTime` allows four of the six ticks. What jobs
do does not depend on the log nor the log on jobs, so the two scenarios are run
side by side and not against each other. In `MultiWriter` two hosts that take turns are enough for one to come back
to the staging directory of its earlier life. Every property has a mutation that breaks it under the
very same bounds.

The runs of `Tiers`, `RestoreImage`, `Driver`, `Capture` and `MultiWriter` do not
check for deadlock: a syncer with nothing to compact, prune or upload really is
idle, a planner that has answered is done, and the bounds on clock, transactions
and faults end the others.

### Where ChainComplete holds

The main safety property, `ChainComplete` (no commit falls between two published
files), holds in these situations, as `Syncer_race`, `Syncer_live` and `Syncer_app`
show for small instances and `ChainStaysComplete` proves for all (there they are
`ChainSettings`: `PassiveOnly` or `QuietWindow`):

* PASSIVE threshold checkpoints with commits in the window, uploads of `sync`
  failing and the checkpoint lock taken;
* no commits in the window, with TRUNCATE and timed checkpoints, and either
  crashes or an application that checkpoints under the pin.

Outside of them the code does not keep it. The run `Syncer_truncate_race` expects
a violation, which `findings` sets beside the sentence it contradicts: a commit
between build and TRUNCATE is folded; the emptied log reports zero frames, so the
over-fold test is false and no catch-up snapshot is taken.

`ChainComplete` also fails with `MinFrames = 2`, `TruncateFrames = 9`,
`WindowWrites = FALSE`, `MaxFaults = 1` in `Syncer_truncate_race.cfg` and these
values (each is a limit of the passing runs, not something they cover):

| Values | What happens |
|---|---|
| `Faults = {"upload_ckpt"}` | An upload fails after a checkpoint has folded its frames; the position stays, and the next build of the same process stages another file under the same TXID and renames it over the staged one. `src/sync/mod.rs:645-647` says "the frames are not lost (recovered on the next open()), so surface the error and retry later". |
| `Timed = TRUE`, `WindowWrites = TRUE`, no faults | A timed checkpoint copied the whole log; the commit in the next window restarts it, and the frames folded are counted in the new generation but compared with an offset of the old one. |
| `WindowWrites = TRUE`, `Faults = {"crash"}` | A crash between the checkpoint and the catch-up snapshot of an over-fold. |
| `Faults = {"crash", "down_checkpoint"}` | The application checkpoints and restarts the log while no syncer runs; the next start takes an incremental from the new generation. |
| `Faults = {"gap_checkpoint"}` | Another connection checkpoints and resets the log while `Db::checkpoint` has released the pin. |
| `Faults = {"bump_busy"}` | `bump_seq` fails after the PRAGMA; the staged file is not uploaded and is overwritten by the next build. |

And in `Tiers.cfg`, a style that uses both, `Styles = {{"compact",
"l0_retention"}}`, breaks `FilesHoldTheirRange`: after L0 retention pruned TXID 1,
`compact` finds no base and publishes what is left under the name of a snapshot
from TXID 1. `Driver` never calls `compact`.

### Other properties that do not hold

Each is a definition of the module named, with a comment; the change to the
configuration, or the condition left out of the formula, reproduces the
counterexample.

| Property | Change | What TLC finds |
|---|---|---|
| `NoSelfEquivocation` (`Syncer`) | `Syncer_truncate_race.cfg` with the values above, this invariant, `MaxHead = 4` and `Faults = {"upload_lost_ack"}` | A stored but unacknowledged upload: the file is encoded again with a new timestamp, conflicts with the stored one, and every later `sync` fails with `Equivocation`. `src/sync/mod.rs:1077-1078` calls "an idempotent retry of our own write" fine, and `docs/how-it-works.md:119` says it "is simply retried from the same spot". |
| `CatchUpIsCurrent` (`CatchUp`) | in `CatchUp.cfg`: in place of `CurrentIfQuiet` | Levels are listed one by one: level 1 before a fold and level 0 after the prune leave a hole, and the restore ends before it and succeeds. `src/sync/restore.rs:750` promises a current file. |
| `TimestampIsExact` (`RestoreImage`) | in `RestoreImage.cfg`: in place of `TimestampSnaps` | `snapshot` stamps its file with the time it runs (`src/sync/mod.rs:861`). Once the files below it are pruned, `restore_to_timestamp` cannot find the newest transaction committed by a time before the snapshot, although the snapshot holds it; the comment in it says "Each file's timestamp reflects its newest content". |
| `CapturedIsCommitted` (`Capture`) | in `Capture.cfg`: `LosesCaptured = TRUE` | With `synchronous = NORMAL` a power loss takes back commits that were replicated; the log goes on at a smaller offset and the replica keeps a branch the database no longer has. |
| `CheckpointsHaveWork` (`Driver`) | in `Driver.cfg`: in place of `IdleIsQuiet` | After a TRUNCATE the position still counts the frames that are gone, so an idle database is truncated at every tick. |
| `IdleIsQuiet` (`Driver`) | in `Driver.cfg`: `MinFrames = 1`; or without `CopiesAll` | A bump of the sequence row is then enough for the next checkpoint, which bumps again: a file per tick. With a long reader that holds PASSIVE checkpoints back the bump is appended each time the threshold is met. |
| `NotStarved` (`Driver`) | in `Driver.cfg`: `MaxGap = 8` (any value above 1) | Ticks as rare as the intervals find every job due at once; one that always fails is reached first each time, and those after it never run. |
| `LowWriteIsFolded` (`Driver`) | in `Driver.cfg`: in place of `FoldedInTime` | Two commits fall around a timed PRAGMA. The first is folded before it was captured, so the over-fold test takes a catch-up snapshot; the second, after the PRAGMA, is captured by that snapshot but not folded. `tick` then clears `synced_since_checkpoint`, the next sync finds nothing, and no timed checkpoint follows until somebody writes again. `src/sync/driver.rs:111-113` says "A low-write database that never crosses the frame threshold still folds its WAL on this cadence". Nothing is lost: the frame is in the replica. `FoldedInTime` is about the time in which no such snapshot was taken. |
| `OneHistory` (`MultiWriter`) | without `setup.orderly` | Two hosts with their own databases: the guard lets one win each TXID, and the loser goes on after its next start on top of the winner's files, so a restore mixes both. `src/lock.rs:9-10` says "Cross-host safety comes from the CAS equivocation guard on upload"; the guard keeps what was acknowledged (`AcknowledgedIsKept`), not the history. |
| `OneHistory` (`MultiWriter`) | without `~leftover` | A host dies with a staged file, another one restores the replica, goes on and stops, and the first takes over again: `restore_to_path` rebuilds its database, `open` uploads the old staged file, and the replica has commits the database does not have, or takes back what the other host published. |
| `NeverConflicts` (`MultiWriter`) | without `~leftover`, or without `~lost` | The old staged file has a TXID the other host has published: `open` fails with `Equivocation`, at every start. And a stored upload that was answered with an error is built again as another file, as with `NoSelfEquivocation`. |

Two places where the code says something else of LTX files than it does, seen
while modelling: `read_file` and `page_index`, which every restore and merge uses,
do not compare the file checksum (only `Decoder` does); and
`PAGE_HEADER_FLAG_SIZE` (`src/ltx/format.rs:24-25`) is described as set on every
page by the current encoder, which writes the frame format with flags 0, so
that `Decoder` and `read_snapshot` refuse the crate's own files. Neither of the two
is modelled: no page of a replica is read through them.

Two smaller remarks. A pin taken when the log is fully copied is SQLite's read
lock 0: it keeps other connections from copying frames (`PinKeepsFrames`), but not
from emptying a log that is copied already; the properties do not rely on more.
And `ImageExact` speaks of `ReplicaReader::read_page` only for pages the database
still has: `read_page` does not compare the page number with the database size,
and finds a dropped page in an older file.

### Fairness

`FairSpec` assumes weak fairness of the syncer's own steps together: the loop of
`replicate` (`src/bin/literstream.rs`) ticks for ever and goes on after an
error, every call returns, and a supervisor restarts a process that died. There
is no fairness on the application or on faults. `FairCatchUpSpec` assumes that a
caller which got an error calls `catch_up` again; nothing is assumed of the
writer.

## Proofs

All theorems are checked by `tlapm` to the last leaf and hold for every value of
the constants allowed by the assumptions `MaxHeadAssumption`, `SyncerAssumption`
(types, and `MinFrames <= TruncateFrames`), `CaptureAssumption` (types, and a lock
page that is not page 1), `TiersAssumption` (types, and the
levels below the snapshot level), `CatchUpAssumption`, `ImageAssumption` and
`MultiWriterAssumption` (types) and `DriverAssumption` (types, and levels that
`CompactionLevels::validate` accepts); TLC evaluates the assumptions in the runs of
the modules that state them. TLC finds each inductive invariant true on the
instance of its run (`DbInv` with four transactions). A theorem that needs more than the
assumptions says so in an `ASSUME` of its own, repeated here; every such condition
is that of a passing run (in `Driver` the scenario with commits is without the reader
that `BumpsSettle` excludes).

`SyncerProofs`, first the database alone:

* `DbTypeCorrect`, `PinProtects`, `PinBoundsRestarts`: `DbSpec` keeps `DbTypeOK`,
  `PinKeepsFrames` and `OneRestartWhilePinned`. None of them is inductive: what
  an external checkpoint may copy depends on the read mark, and whether that is
  read lock 0 on how the log stood when the pin was taken. The inductive
  invariant `DbInv` relates the three: `WalInv` (copied frames are frames that
  exist, the file is at least that long), `MarkInv` (a mark above 0 lies in the
  generation it was taken in and blocks restarts; with read lock 0 the log was
  fully copied at the pin, and at most one restart has followed), `CallInv`
  (which steps of `checkpoint` run without the pin).

Then the syncer, with **all** faults and all interleavings allowed:

* `SyncerTypeCorrect` (`TypeOK`);
* `PinProtectsSyncer`, `PinBoundsSyncerRestarts`: the two guarantees of the pin for
  the whole syncer;
* `SnapshotsAreConsistent` (`SnapshotConsistent`): a snapshot is read under a pin
  that is at most as new as the WAL image, so by `PinKeepsFrames` the file
  cannot overtake it. This needs `CtlInv` (where the pin is held) and `SnapInv`;
* `RestartResumes` (`ResumeAgrees`) and `PublishedFilesAreFinal`
  (`PublishedIsFinal`): from `FilesInv`, which says that every file in the store,
  in staging or in flight ends no later than the head of the database, that the
  staged and in-flight files have a TXID at most one past the store, and that
  the position is that of the stored file of its TXID.

The conjunction is `IInv`. With less:

* `NeverAgainstItself` (`NoSelfEquivocation`), with every fault but an upload stored
  without acknowledgement, the one that breaks it (see above). `OwnInv`: a
  staged file whose TXID is stored is the stored file. A new file never takes a
  TXID of the store, because the position is that of the last file.
* `ChainStaysComplete` (`ChainComplete`), `SkipsAreComplete` (`SkipIsComplete`) and
  `SyncerImplementsReplica` (every behaviour of the syncer is one of
  `ReplicaSafe`: the initial states map, and every step commits, publishes one
  state or stutters), under `ChainSettings`. The
  invariant `CompleteInv` says what keeps the next file from leaving a hole:
  - `KeepInv`: everything after the last commit captured is still in the current
    generation or not yet out of the log (`Kept`: the generation begins no later,
    and the database file is no further, unless the pin keeps the log anyway),
    or the over-fold that broke this has been noticed and its snapshot is on
    its way (`Excused`);
  - `PlaceInv`: the offset in a file's header is where the file ends, if the
    generation is still the one it names; so `plan` starts where the last file
    ends, or at the start of a generation that is no later (`PlanFollows`);
  - `CapInv`: at the PRAGMA all that is committed is captured, or (with
    commits in the window) `synced_frames` counts exactly what is captured, so
    that a fold beyond it is seen;
  - `RaceInv`, for commits in the window: the log is never fully folded when a
    checkpoint begins, because `bump_seq` follows every PASSIVE one. This is why
    timed checkpoints, which do not bump, are not among those settings. That
    TRUNCATE checkpoints do not run is stated by `TruncateFrames >= MaxHead + 3`.

`CaptureProofs`, for any number of pages, frames, generations, transactions and
files, if a power loss takes back nothing that was captured (`~LosesCaptured`, the
setting of the run; with it `CapturedIsCommitted` is false, see above):

* `CapturedIsCommittedTheorem` (`CapturedIsCommitted`), `SyncReachesTheorem`
  (`SyncReaches`) and `EncoderAcceptsTheorem` (`EncoderAccepts`), all from the
  inductive invariant `CapInv` (`CapInvariant`). Its parts:
  - `LogInv`: up to the open transaction the frames carry one chain of checksums,
    and no commit lies beyond the last one, whatever is behind it in the file;
  - `HistInv`: from any commit to any later one the database changes by the newest
    frame of each page in between, and the database file is the one at the start
    of the log;
  - `PosInv` and `ReadInv`: the position, and the place where a sync in progress
    began, name a commit of the log, or else the database file has all they name;
  - `BufInv`: frames read one by one from a file that changes meanwhile are, up to
    every commit that passes the checksums, the frames of the log. That is
    `ChecksumsMatch`: a sum determines all frames before it, so a commit frame that
    passes vouches for those read before it, whenever each of them was read;
  - `DueInv`: what was committed when the sync began has been read as it is;
  - `ChainInv`: every file is as the encoder writes it, each adds all pages the
    database grew by, and together they restore to the database at the position.
  The lemmas are about files and chains of them: pages in ascending order are what
  the encoder asks for (`AcceptsPages`) and are read back (`ReadsBack`); a file added
  at the end adds its pages to the image (`AppendImage`); a merged file takes the
  place of its inputs in the chain and leaves the image as it was (`MergeStands`,
  `ReplaceOK`, `ReplaceImage`); `page_map` gives the newest frame of every page up
  to the last commit (`MapsSome`).

`RestorePlanProofs`, for every finite or infinite set of file names:

* `GreedyIsMinimal`: no choice of fewer files covers what a plan of `greedy_cover`
  covers. Before it, `GreedyCover` is shown to return a chain without holes that
  goes as far as any. `GreedyCover` is a recursive function, so first a function
  with its equation is shown to exist; every induction is on a least
  counterexample.

`RestoreImageProofs`, for any number of TXIDs, any files and any history of a page:

* `PlansReach` (`PlanReaches`), `PlansAreMinimal` (`PlanMinimal`), `TimestampsSnap`
  (`TimestampSnaps`), `ImagesAreExact` (`ImageExact`). The state is only a request and
  its answer; the invariant says which planner gave it, and the rest is about
  plans: along a chain the last file that holds the page holds its last version,
  whether the files are applied oldest first, newest first or looked up.
* `MergesAreLatest` (`MergeIsLatest`): a sorted list of inputs has each at the place
  that the number of files before it gives (`SortIs`), so comparing neighbours
  is enough (`NeighboursSuffice`, by the first place where it would not be), and the
  last input with the page has its last version (`MergeOfContiguous`).

`TiersProofs`, for any number of levels, TXIDs and faults, and any mix of
`compact` and L0 retention except where said:

* `NothingLost` (`Restorable`), `ResumeIsKept` (`ResumeStateKept`),
  `SnapshotsSucceed` (`SnapshotNeverFails`), `TiersTypeCorrect` (`TypeOK`). The
  inductive invariant `TInv` speaks of the files that are both in the store and
  in the index (`Live`). `ChainInv`: every published TXID is in a live snapshot,
  in a live level-1 window or in its own level-0 file, and all that the index
  claims of level 1 (its frontier) and of snapshots is kept by live files; the
  same holds of the store alone, which is what a restart will list. `DelInv`:
  a file that is still to be deleted, or whose index entry outlived it, is
  superseded by a live file, and what supersedes it is never deleted without
  being superseded itself. `PickInv`: the plan of a snapshot covers what it has
  reached with live files. That a stale index entry is never planned
  (`PickIsLive`) is because the file that superseded it beats it in `greedy_cover`.
* `RestoresAreComplete` (`RestoreIsComplete`): a plan from the stored names at any
  moment, also between two deletes, reaches the last published TXID, and of every
  TXID up to it one of the planned files holds the pages, if no deployment uses
  both `compact` and L0 retention. From `TInv`, `LevelInv` (which names a level
  can have), `FilesHoldTheirRange` and what `RestorePlanProofs` shows of plans.
* `FilesAreComplete` (`FilesHoldTheirRange`), if no deployment uses both `compact` and
  L0 retention: then a level-0 file goes only when a snapshot holds it
  (`KeepsL0`), and `compact` without a base still finds TXID 1. The condition is
  needed: see the style that uses both, above. Only with it does `NothingLost`,
  which is about the ranges in the names, mean that the transactions are there.

`CatchUpProofs`, for any number of levels, TXIDs and faults of writer and reader:

* `MarkerIsTrue` (`CleanMarkerIsTrue`), if no deployment uses both `compact` and L0
  retention (`NotMixed`). The files still to be read and the image in the making
  cover the goal of the plan and nothing beyond it (`PlanInv`), because a file
  holds what its name says (`FilesAreComplete`) and no more (`PagesInRange`).
* `CatchUpReachesHead` (`CurrentIfQuiet`): an invariant of the listing (`ListInv`), that
  what was published when it began is in what was seen or at a level still to
  be listed.

`DriverProofs`, for every list of valid levels, every interval and every fault:

* `DriverTypeCorrect` (`TypeOK`): also that a tick, whatever fails in it, ends at a
  job of the configured levels (`AdvanceType`), and that every boundary is a
  time (`TruncateType`);
* `JobsRunOncePerBoundary` (`OncePerBoundary`): a job has run at most once for each
  boundary between that of the start and the latest time the clock has reached.
  `OnceInv` counts, per job, the multiples of the interval up to the boundary
  recorded last (`Counted`); recording a later one adds at least one multiple for
  the one run (`CountedOnce`), and nothing recorded is later than `latest`;
* `IdleStaysQuiet` (`IdleIsQuiet`), if `MinFrames >= 2` and no reader blocks PASSIVE
  checkpoints (`BumpsSettle`; both conditions are needed, see above), with commits
  between any two steps and catch-up snapshots. `QuietInv`: the files since the
  last commit and those still to come are at most three together, and one per
  refused PRAGMA; what is to come (`ToCome`) is the staged file, and what log and
  position can still cause: a file for frames not captured, and a bump if those
  reach the threshold. `LogInv` says which frames a position can name at each step;
* `LogIsFolded` (`FoldedInTime`), with a time-based checkpoint configured and under
  `BumpsSettle`: as long as no over-fold snapshot was taken since the last commit,
  what is not folded is dirty or about to be synced, and the last checkpoint is
  no older than the last commit allows (`TimeInv`, one part per step of a tick);
* `NoJobStarves` (`NotStarved`), under `LongIntervals`: the interval of every job that
  others follow is at least as long as the ticks in which each of them fails
  twice and the other faults happen (`MaxGap` is the longest time between two
  ticks; with intervals that are shorter the property fails, see above). In
  `StarveInv` (`Overtaken`) a job that ticks ended before is still due, the ticks
  that one job ended were for different boundaries of it, and the time since the
  first is bounded by their number. So it spans at most one interval, in which a
  job has at most two boundaries (`TwoBoundaries`), and each tick can be told apart
  by its job and by which of the two it was for (`AtMostTwo`).

`MultiWriterProofs`, for any number of hosts, processes, commits and faults:

* `LockIsExclusive`: a host's lock is held by the one process that is past its
  acquisition (`LockInv`);
* `HistoryIsOne` (`OneHistory`) and `GuardNeverFires` (`NeverConflicts`), which speak of
  hosts that take over in order. `OrderlyInv` says, until a host comes back with a
  staged file the replica does not hold, that the replica is a chain in which each
  file restores to its writer's database (`ChainInv`), that the active host's
  database extends it, and that what it has staged is the stored file of its
  TXID or goes on from the last one (`HostInv`, `Fits`). For the guard, no upload
  may have been stored and answered with an error: only then does a new build find
  its TXID taken by another file. It rests on `SafeInv`: the lock, types, and
  positions that exist;
* `AcknowledgedStays` (`AcknowledgedIsKept`), for racing hosts, lost answers and
  leftover files too, if snapshots go through the compare-and-swap: `AckedInv`,
  that an acknowledged file is stored under its TXID.

Only model-checked: the liveness properties (`EventuallyReplicated`,
`EventuallyCurrent`), and with them the fairness part of `RefinesReplica`, because
fairness and ENABLED are beyond the prover. Every invariant and every safety
property of a passing run is a theorem.

## Not modelled

* The LTX byte layout, page index, varints, LZ4, CRC64 and the file checksum: data.
  The streaming `Decoder` of pages and `read_snapshot`, which take only the block
  format and so no file the encoder writes; `write_snapshot`, which only tests and
  tools call.
* `flush`: it repeats `sync` until that skips. An application that writes faster
  than uploads finish keeps it from returning.
* The page-size fallback of `catch_up`: SQLite cannot change the page size of a
  database in WAL mode. A local file edited in place, or a replica that was
  reset, which the marker is documented not to notice.
* `ReplicaReader`'s index cache, object keys, retries inside the object_store crate.
* Command line, errors' wording, logging, metrics, the examples.

## Plan

1. (done) `Db`, `Syncer`, `Replica`: the core, with theorems on both.
2. (done) `RestorePlan`, `RestoreImage`, `Tiers`, `CatchUp`, `TiersProofs`.
3. (done) `WalReader`, `Ltx`, `Capture`: frames, pages and files.
4. (done) `Driver` with `DriverProofs`; `MultiWriter`; `restore_to_timestamp` and
   `record_position`.
5. (done) Theorems on planners, images, restores, `CatchUp` and `MultiWriter`.
6. (done) `ChainComplete` for the settings in which it holds, and the safety part
   of the refinement of `Replica`.
7. (done) `NotStarved` and the safety of `Capture`.
