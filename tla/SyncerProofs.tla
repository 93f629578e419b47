---------------------------- MODULE SyncerProofs ----------------------------
(***************************************************************************)
(* First the database on its own (Db): what the pinned read transaction    *)
(* guarantees, for any number of commits and any interleaving of the       *)
(* application with Db's calls.                                            *)
(*                                                                         *)
(* Then what holds of the syncer whatever fails: every fault of            *)
(* FaultKinds, any number of them, and writes and checkpoints of the       *)
(* application at any time.  A snapshot is one committed state             *)
(* (SnapshotConsistent), the position in memory and the newest file of the *)
(* replica agree (ResumeAgrees), and a published file is final             *)
(* (PublishedIsFinal).                                                     *)
(*                                                                         *)
(* Last what needs more: that the syncer never conflicts with itself (no   *)
(* upload is stored unacknowledged), and that the chain is complete, a     *)
(* skip has nothing to do and the abstract replica is implemented          *)
(* (ChainSettings).  Their invariants extend the first one.                *)
(*                                                                         *)
(* The syncer's first invariant, IInv, joins the database's (DbInv: the    *)
(* pin holds the database file at pin.at) with the syncer's control (where *)
(* the pin is held and where a checkpoint call is running) and with the    *)
(* bookkeeping of files: there is at most one staged file, it carries the  *)
(* TXID after the position, and the replica ends at the position or one    *)
(* TXID later.                                                             *)
(***************************************************************************)
EXTENDS Syncer, TLAPS

(***************************************************************************)
(* The pinned read transaction.  PinKeepsFrames and OneRestartWhilePinned  *)
(* are not inductive: that a reader on read lock 0 sees at most one        *)
(* restart rests on the database file standing still at the reader's state *)
(* while it is held, and the checkpoint's own PRAGMA is harmless only      *)
(* because the pin is released for as long as Db::checkpoint runs.  DbInv  *)
(* says both.                                                              *)
(***************************************************************************)
WalInv ==
  /\ head \in Nat /\ gen \in Nat /\ base \in Nat
  /\ backfill \in Nat /\ slots \in Nat
  /\ base > 0 /\ DbFile <= head /\ Frames <= slots

MarkInv ==
  /\ pin.held <=> pin.mark # NoMark
  /\ pin.mark > 0 =>
       /\ base + pin.mark = pin.at /\ pin.at <= head
       /\ backfill <= pin.mark /\ gen = pin.gen
  /\ pin.mark = 0 =>
       /\ DbFile = pin.at
       /\ gen = pin.gen \/ (gen = pin.gen + 1 /\ pin.at < head)

PinType == pin \in [held : BOOLEAN, mark : Nat \cup {NoMark}, at : Nat, gen : Nat]

PinInv == PinType /\ MarkInv

CallType ==
  call \in [at : Steps, mode : Modes, restart : BOOLEAN,
            hadLock : BOOLEAN, folded : Nat \cup {-1}]

\* While Db::checkpoint runs, the pin is released.
CallInv == CallType /\ (call.at # "none" => ~pin.held)

DbInv == WalInv /\ PinInv /\ CallInv

(***************************************************************************)
(* The operations of the log and of the pin, one lemma each.               *)
(***************************************************************************)

\* A commit of any connection, whatever the pin: it restarts the log at most
\* once under a pin, and never moves the database file past it.
LEMMA CommitKeeps ==
  ASSUME WalInv, PinInv, NEW fresh \in BOOLEAN, Commit(fresh), pin' = pin
  PROVE  WalInv' /\ PinInv'
<1> USE DEF WalInv, DbFile, Frames, Commit, CanRestart, FullyBackfilled,
            BlocksReset, Max2
<1>1. pin.mark \in Nat \cup {-1} /\ pin.at \in Nat /\ pin.gen \in Nat
  BY DEF PinInv, PinType, NoMark
<1>2. fresh => slots = 0 \/ CanRestart
  OBVIOUS
<1>3. WalInv'
  OBVIOUS
<1>4. MarkInv'
  BY <1>1, <1>2 DEF PinInv, MarkInv, NoMark
<1> QED
  BY <1>3, <1>4 DEF PinInv, PinType

\* A checkpoint by a connection that respects the pin's read mark.
LEMMA AppCheckpointKeeps ==
  ASSUME WalInv, PinInv, AppCheckpoint
  PROVE  WalInv' /\ PinInv'
<1> USE DEF AppCheckpoint, FoldTo, FoldLimit, WalInv, DbFile, Frames
<1>1. pin.mark \in Nat \cup {-1} /\ pin.at \in Nat /\ pin.gen \in Nat
  BY DEF PinInv, PinType, NoMark
<1>2. PICK k \in backfill + 1 .. FoldLimit : FoldTo(k)
  OBVIOUS
<1>3. CASE pin.mark = NoMark
  BY <1>1, <1>2, <1>3 DEF PinInv, PinType, MarkInv, NoMark
<1>4. CASE pin.mark = 0
  BY <1>1, <1>2, <1>4 DEF NoMark
<1>5. CASE pin.mark > 0
  BY <1>1, <1>2, <1>5 DEF PinInv, PinType, MarkInv, NoMark
<1> QED
  BY <1>1, <1>3, <1>4, <1>5 DEF NoMark

\* A TRUNCATE checkpoint of another connection gets past a pin only when the
\* pin is on read lock 0 and everything is in the database file.
LEMMA AppTruncateKeeps ==
  ASSUME WalInv, PinInv, AppTruncate
  PROVE  WalInv' /\ PinInv'
<1> USE DEF AppTruncate, ResetLog, FoldLimit, BlocksReset, WalInv, DbFile,
            Frames
<1>1. pin.mark \in Nat \cup {-1} /\ pin.at \in Nat /\ pin.gen \in Nat
  BY DEF PinInv, PinType, NoMark
<1>2. WalInv'
  OBVIOUS
<1>3. MarkInv'
  BY <1>1 DEF PinInv, MarkInv, NoMark
<1> QED
  BY <1>2, <1>3 DEF PinInv, PinType

LEMMA MarkType ==
  ASSUME NEW m \in Nat, NEW a \in Nat, NEW g \in Nat
  PROVE  [held |-> TRUE, mark |-> m, at |-> a, gen |-> g]
           \in [held : BOOLEAN, mark : Nat \cup {-1}, at : Nat, gen : Nat]
OBVIOUS

\* Taking the pin: its mark is 0 exactly when every frame is copied.
LEMMA AcquireKeeps ==
  ASSUME WalInv, PinInv, AcquireReadLock, UNCHANGED walVars
  PROVE  WalInv' /\ PinInv' /\ pin'.held
<1> USE DEF AcquireReadLock, walVars, WalInv, DbFile, Frames
<1>1. CASE pin.held
  BY <1>1 DEF PinInv, PinType, MarkInv
<1>2. CASE ~pin.held
  <2>1. pin' = TakeReadMark
    BY <1>2
  <2>2. PinType'
    <3>1. (IF FullyBackfilled THEN 0 ELSE Frames) \in Nat
      BY DEF FullyBackfilled
    <3>2. TakeReadMark \in
            [held : BOOLEAN, mark : Nat \cup {-1}, at : Nat, gen : Nat]
      BY <3>1, MarkType DEF TakeReadMark
    <3> QED
      BY <2>1, <3>2 DEF PinType, NoMark
  <2>3. MarkInv'
    BY <2>1 DEF TakeReadMark, MarkInv, FullyBackfilled, NoMark
  <2> QED
    BY <2>1, <2>2, <2>3 DEF PinInv, TakeReadMark
<1> QED
  BY <1>1, <1>2

\* Without the pin, every assignment to the log that keeps it well formed
\* keeps the pin's invariant.
LEMMA UnpinnedKeeps ==
  ASSUME PinInv, ~pin.held, pin' = pin
  PROVE  PinInv'
BY DEF PinInv, PinType, MarkInv, NoMark

LEMMA ReleaseKeeps ==
  ASSUME ReleaseReadLock
  PROVE  PinInv' /\ ~pin'.held
BY DEF ReleaseReadLock, Unpinned, PinInv, PinType, MarkInv, NoMark

(***************************************************************************)
(* The steps of Db::checkpoint.                                            *)
(***************************************************************************)
LEMMA CheckpointBeginKeeps ==
  ASSUME DbInv, NEW mode \in Modes, NEW restart \in BOOLEAN,
         CheckpointBegin(mode, restart)
  PROVE  DbInv'
<1>1. WalInv'
  BY DEF DbInv, CheckpointBegin, walVars, WalInv, DbFile, Frames
<1>2. PinInv' /\ ~pin'.held
  BY ReleaseKeeps DEF CheckpointBegin
<1>3. CallType'
  BY DEF DbInv, CheckpointBegin, PinInv, PinType, CallType, Steps
<1> QED
  BY <1>1, <1>2, <1>3 DEF DbInv, CallInv

LEMMA PragmaDoneKeeps ==
  ASSUME CallType, NEW busy \in BOOLEAN, NEW folded \in Nat \cup {-1},
         PragmaDone(busy, folded)
  PROVE  CallType'
BY DEF CallType, PragmaDone, Steps

LEMMA PragmaFoldKeeps ==
  ASSUME DbInv, NEW busy \in BOOLEAN, NEW k \in backfill .. Frames,
         call.at = "pragma", FoldTo(k), PragmaDone(busy, k), pin' = pin
  PROVE  DbInv'
<1>1. WalInv'
  BY DEF DbInv, FoldTo, WalInv, DbFile, Frames
<1>2. PinInv' /\ ~pin'.held
  BY UnpinnedKeeps DEF DbInv, CallInv
<1>3. CallType'
  BY PragmaDoneKeeps DEF DbInv, WalInv, CallInv, Frames
<1> QED
  BY <1>1, <1>2, <1>3 DEF DbInv, CallInv

LEMMA PragmaPassiveKeeps ==
  ASSUME DbInv, PragmaPassive
  PROVE  DbInv'
BY PragmaFoldKeeps DEF PragmaPassive

LEMMA PragmaTruncateBusyKeeps ==
  ASSUME DbInv, PragmaTruncateBusy
  PROVE  DbInv'
BY PragmaFoldKeeps DEF PragmaTruncateBusy

LEMMA PragmaTruncateKeeps ==
  ASSUME DbInv, PragmaTruncate
  PROVE  DbInv'
<1>1. WalInv'
  BY DEF PragmaTruncate, DbInv, ResetLog, WalInv, DbFile, Frames
<1>2. PinInv' /\ ~pin'.held
  BY UnpinnedKeeps DEF PragmaTruncate, DbInv, CallInv
<1>3. CallType'
  BY PragmaDoneKeeps DEF PragmaTruncate, DbInv, CallInv
<1> QED
  BY <1>1, <1>2, <1>3 DEF DbInv, CallInv

LEMMA PragmaLockedKeeps ==
  ASSUME DbInv, PragmaLocked
  PROVE  DbInv'
<1>1. WalInv'
  BY DEF PragmaLocked, DbInv, walVars, WalInv, DbFile, Frames
<1>2. PinInv' /\ ~pin'.held
  BY UnpinnedKeeps DEF PragmaLocked, DbInv, CallInv
<1>3. CallType'
  BY PragmaDoneKeeps DEF PragmaLocked, DbInv, CallInv
<1> QED
  BY <1>1, <1>2, <1>3 DEF DbInv, CallInv

LEMMA BumpSeqKeeps ==
  ASSUME DbInv, BumpSeq
  PROVE  DbInv'
<1>1. WalInv' /\ PinInv'
  BY CommitKeeps DEF BumpSeq, DbInv
<1>2. ~pin'.held
  BY DEF BumpSeq, DbInv, CallInv
<1>3. CallType'
  BY DEF BumpSeq, DbInv, CallInv, CallType, Steps
<1> QED
  BY <1>1, <1>2, <1>3 DEF DbInv, CallInv

LEMMA BumpSeqBusyKeeps ==
  ASSUME DbInv, BumpSeqBusy
  PROVE  DbInv'
<1>1. WalInv' /\ PinInv'
  BY DEF BumpSeqBusy, walVars, DbInv, WalInv, PinInv, PinType, MarkInv,
         DbFile, Frames
<1>2. CallInv'
  BY DEF BumpSeqBusy, NoCall, CallInv, CallType, Steps, Modes
<1> QED
  BY <1>1, <1>2 DEF DbInv

LEMMA CheckpointEndKeeps ==
  ASSUME DbInv, CheckpointEnd
  PROVE  DbInv'
<1>1. CallInv'
  BY DEF CheckpointEnd, DbInv, CallInv, CallType, Steps
<1>2. CASE call.hadLock
  BY <1>1, <1>2, AcquireKeeps DEF CheckpointEnd, DbInv
<1>3. CASE ~call.hadLock
  BY <1>1, <1>3 DEF CheckpointEnd, walVars, DbInv, WalInv, PinInv, PinType,
                    MarkInv, DbFile, Frames
<1> QED
  BY <1>2, <1>3

LEMMA AppStepKeeps ==
  ASSUME DbInv, AppStep
  PROVE  DbInv'
<1>1. WalInv' /\ PinInv'
  BY CommitKeeps, AppCheckpointKeeps, AppTruncateKeeps
     DEF AppStep, AppCommit, DbInv
<1>2. CallInv'
  BY DEF AppStep, AppCommit, AppCheckpoint, AppTruncate, DbInv, CallInv,
         CallType
<1> QED
  BY <1>1, <1>2 DEF DbInv

LEMMA DbInvInit == DbInit => DbInv
BY DEF DbInit, DbInv, WalInv, PinInv, PinType, MarkInv, CallInv, CallType,
       DbFile, Frames, Unpinned, NoCall, NoMark, Steps, Modes

LEMMA DbInvImplies == DbInv => DbTypeOK /\ PinKeepsFrames /\ OneRestartWhilePinned
<1> SUFFICES ASSUME DbInv PROVE DbTypeOK /\ PinKeepsFrames /\ OneRestartWhilePinned
  OBVIOUS
<1>1. DbTypeOK
  BY DEF DbInv, WalInv, PinInv, PinType, CallInv, CallType, DbTypeOK
<1>2. PinKeepsFrames /\ OneRestartWhilePinned
  BY DEF DbInv, WalInv, PinInv, PinType, MarkInv, PinKeepsFrames,
         OneRestartWhilePinned, DbFile, NoMark
<1> QED
  BY <1>1, <1>2

LEMMA DbNextKeeps == DbInv /\ [DbNext]_dbVars => DbInv'
<1> SUFFICES ASSUME DbInv, [DbNext]_dbVars PROVE DbInv'
  OBVIOUS
<1>1. CASE AppStep
  BY <1>1, AppStepKeeps
<1>2. CASE Acquire
  <2>1. WalInv' /\ PinInv'
    BY <1>2, AcquireKeeps DEF Acquire, DbInv
  <2>2. CallInv'
    BY <1>2 DEF Acquire, DbInv, CallInv, CallType
  <2> QED
    BY <2>1, <2>2 DEF DbInv
<1>3. CASE Release
  <2>1. WalInv'
    BY <1>3 DEF Release, walVars, DbInv, WalInv, DbFile, Frames
  <2>2. CallInv'
    BY <1>3 DEF Release, DbInv, CallInv, CallType
  <2> QED
    BY <1>3, <2>1, <2>2, ReleaseKeeps DEF DbInv, Release
<1>4. CASE \E mode \in Modes, restart \in BOOLEAN :
             head < MaxHead /\ CheckpointBegin(mode, restart)
  BY <1>4, CheckpointBeginKeeps
<1>5. CASE DbCheckpointStep
  BY <1>5, PragmaPassiveKeeps, PragmaTruncateKeeps, PragmaTruncateBusyKeeps,
     PragmaLockedKeeps, BumpSeqKeeps, BumpSeqBusyKeeps, CheckpointEndKeeps
     DEF DbCheckpointStep
<1>6. CASE UNCHANGED dbVars
  BY <1>6 DEF dbVars, DbInv, WalInv, PinInv, PinType, MarkInv, CallInv,
              CallType, DbFile, Frames
<1> QED
  BY <1>1, <1>2, <1>3, <1>4, <1>5, <1>6 DEF DbNext

(***************************************************************************)
(* The theorems.                                                           *)
(***************************************************************************)

\* Db's variables keep their types, whatever is called and whatever other
\* connections do.
THEOREM DbTypeCorrect == DbSpec => []DbTypeOK
BY DbInvInit, DbNextKeeps, DbInvImplies, PTL DEF DbSpec

\* While read_lock_held is set, no frame committed since is copied into the
\* database file by anyone: acquire_read_lock, release_read_lock and the
\* release around Db::checkpoint's PRAGMA keep flag and read mark together.
THEOREM PinProtects == DbSpec => []PinKeepsFrames
BY DbInvInit, DbNextKeeps, DbInvImplies, PTL DEF DbSpec

\* While read_lock_held is set the WAL is restarted at most once.
THEOREM PinBoundsRestarts == DbSpec => []OneRestartWhilePinned
BY DbInvInit, DbNextKeeps, DbInvImplies, PTL DEF DbSpec

(***************************************************************************)
(* The syncer.                                                             *)
(***************************************************************************)
SyncType ==
  /\ pc \in Pcs /\ task \in Tasks
  /\ pos \in Position
  /\ store \in Seq(File)
  /\ staging \subseteq File
  /\ plan \in [kind : PlanKinds, lo : Nat, hi : Nat, gen : Nat, off : Nat,
               len : Nat]
  /\ cur \in Staged
  /\ synced \in Nat
  /\ dirty \in BOOLEAN /\ faults \in Nat

\* A checkpoint call runs exactly at "checkpointing", and was made with the
\* pin held; wherever a plan or its result is used, the pin is held.
Pinned == {"plan", "snap", "checkpoint", "upload", "uploaded", "check"}

CtlInv ==
  /\ call.at # "none" <=> pc = "checkpointing"
  /\ pc = "checkpointing" => call.hadLock
  /\ pc \in Pinned => pin.held

\* The WAL image of a snapshot in the making is at least as new as the pin
\* and as everything published; an incremental is never mistaken for one.
AtLeast(h) == \A n \in 1 .. Len(store) : store[n].hi <= h

SnapInv ==
  /\ pc = "snap" => plan.hi <= head /\ pin.at <= plan.hi /\ AtLeast(plan.hi)
  /\ pc = "plan" /\ plan.kind = "incremental" => plan.lo > 0

\* A file that is not published yet: real commits, and a snapshot is at
\* least as new as everything published.
Sound(f) == f.hi <= head /\ (f.lo = 0 => AtLeast(f.hi))

Running == pc \notin {"down", "recover"}

StagedInv ==
  /\ \A f, g \in staging : f = g
  /\ \A f \in staging :
       /\ Sound(f)
       /\ f.txid > 0 /\ f.txid \in {Len(store), Len(store) + 1}
       /\ Running => f.txid = pos.txid + 1

CurInv ==
  /\ cur # NoStaged => cur.file \in staging
  /\ pc \in {"upload", "uploaded"} => cur # NoStaged
  /\ ~Running => cur = NoStaged

AtEnd ==
  /\ pos.txid = Len(store)
  /\ SamePlace(pos, DerivePosition)

PosInv ==
  /\ Running =>
       \/ AtEnd /\ pc # "uploaded"
       \/ /\ pos.txid + 1 = Len(store)
          /\ pc = "uploaded" \/ "upload_lost_ack" \in Faults
  /\ pc = "uploaded" => store[Len(store)] = cur.file

FilesInv == AtLeast(head) /\ StagedInv /\ CurInv /\ PosInv

IInv == DbInv /\ SyncType /\ CtlInv /\ SnapInv /\ FilesInv

(***************************************************************************)
(* Frame lemmas.                                                           *)
(***************************************************************************)

LEMMA StoredFile ==
  ASSUME store \in Seq(File)
  PROVE  /\ Len(store) \in Nat
         /\ \A n \in 1 .. Len(store) : store[n] \in File
OBVIOUS

\* Nothing is lost by time passing: commits, and steps that move between
\* control points without touching position, replica or staging.
LEMMA FilesFrame ==
  ASSUME DbInv, DbInv', SyncType, FilesInv,
         UNCHANGED <<store, staging, pos>>, head <= head',
         cur' = cur \/ cur' = NoStaged,
         pc' = "uploaded" <=> pc = "uploaded",
         pc' = "uploaded" => cur' = cur,
         pc' = "upload" => cur' # NoStaged,
         Running' <=> Running
  PROVE  FilesInv'
<1>1. head \in Nat /\ head' \in Nat
  BY DEF DbInv, WalInv
<1>2. \A n \in 1 .. Len(store) : store[n].hi \in Nat
  BY StoredFile DEF SyncType, File
<1>3. AtLeast(head)'
  BY <1>1, <1>2 DEF FilesInv, AtLeast
<1>4. \A f \in File : Sound(f) => Sound(f)'
  BY <1>1, <1>2 DEF Sound, AtLeast, File
<1>5. StagedInv'
  BY <1>4 DEF FilesInv, StagedInv, SyncType
<1>6. CurInv'
  BY DEF FilesInv, CurInv
<1>7. PosInv'
  BY DEF FilesInv, PosInv, AtEnd, SamePlace, DerivePosition
<1> QED
  BY <1>3, <1>5, <1>6, <1>7 DEF FilesInv
LEMMA NoneTypes ==
  /\ NoStaged \in Staged
  /\ NoPlan \in [kind : PlanKinds, lo : Nat, hi : Nat, gen : Nat, off : Nat,
                 len : Nat]
  /\ NoCall.at = "none"
  /\ NoCall \in [at : Steps, mode : Modes, restart : BOOLEAN,
                 hadLock : BOOLEAN, folded : Nat \cup {-1}]
BY DEF NoStaged, NoFile, Staged, File, NoPlan, PlanKinds, NoCall, Steps, Modes

\* The database is untouched, and so is its invariant.
LEMMA DbFrame ==
  ASSUME DbInv, UNCHANGED <<walVars, pin>>, call' = call \/ call' = NoCall
  PROVE  DbInv'
<1>1. WalInv' /\ PinInv'
  BY DEF walVars, DbInv, WalInv, PinInv, PinType, MarkInv, DbFile, Frames
<1>2. CallInv'
  BY NoneTypes DEF DbInv, CallInv, CallType
<1> QED
  BY <1>1, <1>2 DEF DbInv

\* An operation returns: its locals are reset, its caller is idle.
LEMMA ReturnTypes ==
  ASSUME Return
  PROVE  /\ pc' = "idle" /\ pc' \in Pcs /\ task' \in Tasks
         /\ plan' \in [kind : PlanKinds, lo : Nat, hi : Nat, gen : Nat,
                       off : Nat, len : Nat]
         /\ cur' = NoStaged /\ cur' \in Staged
         /\ synced' \in Nat
         /\ call' = NoCall /\ call'.at = "none"
BY NoneTypes DEF Return, Pcs, Tasks

LEMMA BuiltNone ==
  ASSUME SyncType, CallType, call.at = "none", NEW t \in Tasks,
         Built(t, NoStaged)
  PROVE  /\ pc' \in {"checkpoint", "idle"} /\ pc' \in Pcs /\ task' \in Tasks
         /\ plan' \in [kind : PlanKinds, lo : Nat, hi : Nat, gen : Nat,
                       off : Nat, len : Nat]
         /\ cur' = NoStaged /\ cur' \in Staged
         /\ synced' \in Nat
         /\ call' = call \/ call' = NoCall
         /\ call'.at = "none"
<1>1. pos.off \in Nat
  BY DEF SyncType, Position
<1>2. CASE t \in CkptTasks
  BY <1>1, <1>2, NoneTypes DEF Built, Pcs, Tasks, CkptTasks
<1>3. CASE t \notin CkptTasks
  BY <1>3, ReturnTypes DEF Built
<1> QED
  BY <1>2, <1>3

LEMMA BuiltSome ==
  ASSUME NEW t \in Tasks, NEW s \in Staged, s # NoStaged, Built(t, s),
         SyncType
  PROVE  /\ pc' \in {"checkpoint", "upload"} /\ pc' \in Pcs /\ task' \in Tasks
         /\ plan' \in [kind : PlanKinds, lo : Nat, hi : Nat, gen : Nat,
                       off : Nat, len : Nat]
         /\ cur' = s
         /\ synced' \in Nat
         /\ call' = call
<1>1. s.file.off \in Nat
  BY DEF Staged, File
<1>2. synced \in Nat
  BY DEF SyncType
<1> QED
  BY <1>1, <1>2, NoneTypes DEF Built, Pcs, Tasks, CkptTasks

(***************************************************************************)
(* build_next.                                                             *)
(***************************************************************************)
LEMMA PlanNextType ==
  ASSUME DbInv, SyncType
  PROVE  PlanNext \in [kind : PlanKinds, lo : Nat, hi : Nat, gen : Nat,
                       off : Nat, len : Nat]
<1>1. PlanOffset \in Nat
  BY DEF PlanOffset, SyncType, Position
<1>2. base \in Nat /\ gen \in Nat /\ slots \in Nat
  BY DEF DbInv, WalInv
<1> QED
  BY <1>1, <1>2 DEF PlanNext, NoPlan, PlanKinds

LEMMA PlanNextLo ==
  ASSUME DbInv, SyncType, PlanNext.kind = "incremental"
  PROVE  PlanNext.lo > 0
<1>1. PlanOffset \in Nat
  BY DEF PlanOffset, SyncType, Position, DbInv, WalInv
<1>2. base \in Nat /\ base > 0
  BY DEF DbInv, WalInv
<1> QED
  BY <1>1, <1>2 DEF PlanNext, NoPlan

LEMMA BuildNextKeeps ==
  ASSUME IInv, NEW t \in Tasks, BuildNext(t)
  PROVE  IInv'
<1>1. call.at = "none" /\ CallType /\ pc = "idle"
  BY DEF IInv, CtlInv, BuildNext, DbInv, CallInv
<1>2. /\ WalInv' /\ PinInv' /\ pin'.held
      /\ UNCHANGED <<walVars, pos, store, staging, dirty, faults>>
  BY AcquireKeeps DEF IInv, DbInv, BuildNext
<1>3. CASE Built(t, NoStaged)
  <2>1. DbInv'
    BY <1>1, <1>2, <1>3, BuiltNone, NoneTypes DEF IInv, DbInv, CallInv, CallType
  <2>2. SyncType'
    BY <1>1, <1>2, <1>3, BuiltNone DEF IInv, SyncType
  <2>3. CtlInv' /\ SnapInv'
    BY <1>1, <1>2, <1>3, BuiltNone DEF IInv, CtlInv, SnapInv
  <2>4. FilesInv'
    BY <1>1, <1>2, <1>3, <2>1, BuiltNone, FilesFrame
       DEF IInv, walVars, Running, DbInv, WalInv
  <2> QED
    BY <2>1, <2>2, <2>3, <2>4 DEF IInv
<1>4. CASE pc' = "plan" /\ task' = t /\ plan' = PlanNext
           /\ UNCHANGED <<cur, synced, call>>
  <2>1. DbInv'
    BY <1>1, <1>2, <1>4 DEF IInv, DbInv, CallInv, CallType
  <2>2. SyncType'
    BY <1>2, <1>4, PlanNextType DEF IInv, SyncType, Pcs
  <2>3. CtlInv'
    BY <1>1, <1>2, <1>4 DEF IInv, CtlInv
  <2>5. SnapInv'
    BY <1>4, PlanNextLo DEF IInv, SnapInv
  <2>4. FilesInv'
    BY <1>1, <1>2, <1>4, <2>1, FilesFrame
       DEF IInv, walVars, Running, DbInv, WalInv
  <2> QED
    BY <2>1, <2>2, <2>3, <2>4, <2>5 DEF IInv
<1> QED
  BY <1>3, <1>4 DEF BuildNext

\* stage(): the file replaces whatever is staged under its TXID, and there is
\* nothing else staged.
LEMMA StageKeeps ==
  ASSUME IInv, pc \in {"plan", "snap"},
         NEW lo \in Nat, NEW hi \in Nat, NEW g \in Nat, NEW off \in Nat,
         NEW toEnd \in BOOLEAN, Stage(lo, hi, g, off, toEnd),
         UNCHANGED <<walVars, pin, pos, store, dirty, faults>>,
         hi <= head, lo = 0 => AtLeast(hi)
  PROVE  IInv'
<1> DEFINE f == [txid |-> pos.txid + 1, lo |-> lo, hi |-> hi, gen |-> g,
                 off |-> off, stamp |-> FreshStamp(pos.txid + 1)]
           s == [file |-> f, toEnd |-> toEnd]
<1>1. /\ staging' = {x \in staging : x.txid # f.txid} \cup {f}
      /\ Built(task, s)
  BY DEF Stage
<1>2. pos.txid \in Nat /\ task \in Tasks /\ store \in Seq(File)
  BY DEF IInv, SyncType, Position
<1>3. FreshStamp(pos.txid + 1) \in {0, 1}
  <2>1. CASE pos.txid + 1 <= Len(store)
    <3>1. store[pos.txid + 1] \in File
      BY <1>2, <2>1
    <3>2. store[pos.txid + 1].stamp \in {0, 1}
      BY <3>1 DEF File
    <3> QED
      BY <2>1, <3>2 DEF FreshStamp
  <2>2. CASE ~(pos.txid + 1 <= Len(store))
    BY <2>2 DEF FreshStamp
  <2> QED
    BY <2>1, <2>2
<1>4. f \in File
  BY <1>2, <1>3 DEF File
<1>5. /\ f.txid = pos.txid + 1 /\ f.hi = hi /\ f.lo = lo
      /\ s.file = f
  OBVIOUS
<1>6. f.txid # 0
  BY <1>2, <1>5
<1>7. s \in Staged /\ s # NoStaged
  <2> HIDE DEF f
  <2>1. s \in Staged
    BY <1>4 DEF Staged
  <2>2. NoStaged.file.txid = 0
    BY DEF NoStaged, NoFile
  <2> QED
    BY <1>5, <1>6, <2>1, <2>2
<1> HIDE DEF f, s
<1>8. /\ pc' \in {"checkpoint", "upload"} /\ pc' \in Pcs /\ task' \in Tasks
      /\ plan' \in [kind : PlanKinds, lo : Nat, hi : Nat, gen : Nat,
                    off : Nat, len : Nat]
      /\ cur' = s /\ synced' \in Nat /\ call' = call
  BY <1>1, <1>2, <1>7, BuiltSome DEF IInv
<1>9. DbInv'
  BY <1>8, DbFrame DEF IInv
<1>10. SyncType'
  BY <1>1, <1>4, <1>7, <1>8 DEF IInv, SyncType
<1>11. CtlInv' /\ SnapInv'
  BY <1>8 DEF IInv, CtlInv, SnapInv, Pinned
<1>12. head \in Nat /\ head' = head
  BY DEF IInv, DbInv, WalInv, walVars
<1>13. AtLeast(head)'
  BY <1>12 DEF IInv, FilesInv, AtLeast
<1>14. PICK x \in File : x = f
  BY <1>4
<1>15. Sound(x)'
  BY <1>5, <1>12, <1>14 DEF Sound, AtLeast
<1>16. staging' = {x}
  BY <1>1, <1>5, <1>14 DEF IInv, FilesInv, StagedInv, Running
<1>17. pos.txid \in {Len(store), Len(store) - 1}
  BY <1>2 DEF IInv, FilesInv, PosInv, AtEnd, Running
<1>18. StagedInv'
  <2>1. /\ x.txid > 0 /\ x.txid \in {Len(store), Len(store) + 1}
        /\ x.txid = pos.txid + 1
    BY <1>2, <1>5, <1>17, <1>14
  <2>2. (Len(store))' = Len(store) /\ (pos.txid)' = pos.txid
    OBVIOUS
  <2> QED
    BY <1>15, <1>16, <2>1, <2>2 DEF StagedInv
<1>19. CurInv'
  BY <1>5, <1>7, <1>8, <1>14, <1>16 DEF CurInv, Running, NoStaged, NoFile
<1>20. PosInv'
  BY <1>8 DEF IInv, FilesInv, PosInv, AtEnd, SamePlace, DerivePosition, Running
<1> QED
  BY <1>9, <1>10, <1>11, <1>13, <1>18, <1>19, <1>20 DEF IInv, FilesInv

\* The state a reader under the pin sees is a committed one.
LEMMA PinAtHead ==
  ASSUME DbInv, pin.held
  PROVE  DbFile <= pin.at /\ pin.at <= head
BY DEF DbInv, WalInv, PinInv, PinType, MarkInv, DbFile, NoMark

LEMMA ReadWalType ==
  ASSUME DbInv, ReadWal
  PROVE  /\ plan' \in [kind : PlanKinds, lo : Nat, hi : Nat, gen : Nat,
                       off : Nat, len : Nat]
         /\ plan'.hi = head
<1>1. head \in Nat /\ gen \in Nat /\ slots \in Nat /\ Frames \in Nat
  BY DEF DbInv, WalInv, Frames, DbFile
<1> QED
  BY <1>1 DEF ReadWal, PlanKinds

\* Reading the WAL for a snapshot, from a plan or after an over-fold.
LEMMA ReadWalKeeps ==
  ASSUME IInv, ReadWal, pc \in {"plan", "check"}, pc' = "snap",
         task' \in Tasks,
         UNCHANGED <<dbVars, pos, store, staging, cur, synced, dirty, faults>>
  PROVE  IInv'
<1>1. DbInv'
  BY DbFrame DEF IInv, dbVars, walVars
<1>2. SyncType'
  BY ReadWalType DEF IInv, SyncType, Pcs
<1>3. CtlInv'
  BY DEF IInv, CtlInv, dbVars, Pinned
<1>4. SnapInv'
  <2>1. pin.at <= head /\ head \in Nat
    BY PinAtHead DEF IInv, CtlInv, Pinned, DbInv, WalInv
  <2>2. plan'.hi = head /\ head' = head /\ pin' = pin
    BY ReadWalType DEF IInv, dbVars
  <2>3. AtLeast(head)
    BY DEF IInv, FilesInv
  <2> QED
    BY <2>1, <2>2, <2>3 DEF SnapInv, AtLeast
<1>5. FilesInv'
  <2>1. head <= head'
    BY DEF dbVars, IInv, DbInv, WalInv
  <2>2. Running /\ Running'
    BY ReturnTypes DEF Running
  <2> QED
    BY <1>1, <2>1, <2>2, FilesFrame DEF IInv
<1> QED
  BY <1>1, <1>2, <1>3, <1>4, <1>5 DEF IInv

LEMMA SnapshotReadWalKeeps ==
  ASSUME IInv, SnapshotReadWal
  PROVE  IInv'
BY ReadWalKeeps DEF SnapshotReadWal, IInv, SyncType

LEMMA OverFoldKeeps ==
  ASSUME IInv, OverFold
  PROVE  IInv'
BY ReadWalKeeps DEF OverFold, Tasks

LEMMA BuildSnapshotKeeps ==
  ASSUME IInv, BuildSnapshot
  PROVE  IInv'
<1>1. /\ plan.hi \in Nat /\ plan.gen \in Nat /\ plan.off \in Nat
      /\ plan.len \in Nat
  BY DEF IInv, SyncType
<1>2. pc = "snap" /\ plan.hi <= head /\ AtLeast(plan.hi)
  BY DEF BuildSnapshot, IInv, SnapInv
<1>3. PICK toEnd \in BOOLEAN : Stage(0, plan.hi, plan.gen, plan.off, toEnd)
  <2>1. (plan.off >= plan.len) \in BOOLEAN
    BY <1>1
  <2>2. Stage(0, plan.hi, plan.gen, plan.off, plan.off >= plan.len)
    BY DEF BuildSnapshot
  <2> QED
    BY <2>1, <2>2, Zenon
<1> QED
  BY <1>1, <1>2, <1>3, StageKeeps DEF BuildSnapshot

LEMMA ReturnKeeps ==
  ASSUME IInv, Return, pc \notin {"down", "recover", "uploaded"},
         UNCHANGED <<walVars, pin, pos, store, staging>>,
         dirty' \in BOOLEAN, faults' \in Nat
  PROVE  IInv'
<1>1. DbInv'
  BY ReturnTypes, DbFrame DEF IInv
<1>2. SyncType'
  BY ReturnTypes DEF IInv, SyncType
<1>3. CtlInv' /\ SnapInv'
  BY ReturnTypes DEF CtlInv, SnapInv, Pinned
<1>4. FilesInv'
  <2>1. head <= head'
    BY DEF walVars, IInv, DbInv, WalInv
  <2>2. Running /\ Running'
    BY ReturnTypes DEF Running
  <2> QED
    BY <1>1, <2>1, <2>2, ReturnTypes, FilesFrame DEF IInv
<1> QED
  BY <1>1, <1>2, <1>3, <1>4 DEF IInv

LEMMA BuildIncrementalKeeps ==
  ASSUME IInv, BuildIncremental
  PROVE  IInv'
<1>1. /\ plan.lo \in Nat /\ plan.gen \in Nat /\ plan.off \in Nat
      /\ plan.len \in Nat
  BY DEF IInv, SyncType
<1>2. plan.lo > 0 /\ pc = "plan"
  BY DEF BuildIncremental, IInv, SnapInv
<1>3. head \in Nat /\ base \in Nat /\ base <= head
  BY DEF IInv, DbInv, WalInv, DbFile
<1>4. CASE TailEnd > plan.lo
  <2>1. TailEnd \in Nat /\ TailEnd <= head
    BY <1>1, <1>3, <1>4 DEF TailEnd
  <2>2. plan.off + (TailEnd - plan.lo) \in Nat
    BY <1>1, <1>4, <2>1
  <2>3. PICK toEnd \in BOOLEAN :
          Stage(plan.lo, TailEnd, plan.gen, plan.off + (TailEnd - plan.lo),
                toEnd)
    <3> DEFINE off == plan.off + (TailEnd - plan.lo)
    <3>1. (off >= plan.len) \in BOOLEAN
      BY <1>1, <2>2
    <3>2. Stage(plan.lo, TailEnd, plan.gen, off, off >= plan.len)
      BY <1>4, Zenon DEF BuildIncremental
    <3> QED
      BY <3>1, <3>2, Zenon
  <2> QED
    BY <1>1, <1>2, <2>1, <2>2, <2>3, StageKeeps DEF BuildIncremental
<1>5. CASE ~(TailEnd > plan.lo)
  <2>1. call.at = "none" /\ CallType /\ task \in Tasks /\ pin.held
    BY <1>2 DEF IInv, CtlInv, DbInv, CallInv, SyncType, Pinned
  <2>2. /\ Built(task, NoStaged)
        /\ UNCHANGED <<walVars, pin, pos, store, staging, dirty, faults>>
    BY <1>5 DEF BuildIncremental
  <2>3. DbInv'
    BY <2>1, <2>2, BuiltNone, DbFrame DEF IInv
  <2>4. SyncType'
    BY <2>1, <2>2, BuiltNone DEF IInv, SyncType
  <2>5. CtlInv' /\ SnapInv'
    BY <2>1, <2>2, BuiltNone DEF IInv, CtlInv, SnapInv, Pinned
  <2>6. FilesInv'
    BY <1>2, <1>3, <2>1, <2>2, <2>3, BuiltNone, FilesFrame
       DEF IInv, walVars, Running
  <2> QED
    BY <2>3, <2>4, <2>5, <2>6 DEF IInv
<1> QED
  BY <1>4, <1>5

LEMMA BuildIncrementalErrorKeeps ==
  ASSUME IInv, BuildIncrementalError
  PROVE  IInv'
BY ReturnKeeps DEF BuildIncrementalError, IInv, SyncType

(***************************************************************************)
(* run_checkpoint.                                                         *)
(***************************************************************************)

\* A step of the database, or of the control of run_checkpoint, that touches
\* no file.
LEMMA CheckpointFrame ==
  ASSUME IInv, DbInv', CtlInv', head <= head',
         pc \in {"checkpoint", "checkpointing"},
         pc' \in {"checkpointing", "upload", "check"},
         pc' = "upload" => cur # NoStaged,
         UNCHANGED <<task, pos, store, staging, plan, cur, synced, dirty>>,
         faults' \in Nat
  PROVE  IInv'
<1>1. SyncType'
  BY DEF IInv, SyncType, Pcs
<1>2. SnapInv'
  BY DEF SnapInv
<1>3. Running /\ Running'
  BY DEF Running
<1>4. FilesInv'
  BY <1>3, FilesFrame DEF IInv
<1> QED
  BY <1>1, <1>2, <1>4 DEF IInv

LEMMA RunCheckpointKeeps ==
  ASSUME IInv, RunCheckpoint
  PROVE  IInv'
<1> DEFINE mode == IF task = "truncate" THEN "truncate" ELSE "passive"
<1>1. PICK restart \in BOOLEAN : CheckpointBegin(mode, restart)
  <2>1. (task # "timed") \in BOOLEAN
    OBVIOUS
  <2>2. CheckpointBegin(mode, task # "timed")
    BY DEF RunCheckpoint
  <2> QED
    BY <2>1, <2>2, Zenon
<1>2. mode \in Modes
  BY DEF Modes
<1> HIDE DEF mode
<1>3. DbInv'
  BY <1>1, <1>2, CheckpointBeginKeeps DEF IInv
<1>4. CtlInv'
  <2>1. pin.held
    BY DEF RunCheckpoint, IInv, CtlInv, Pinned
  <2>2. call'.at = "pragma" /\ call'.hadLock
    BY <1>1, <2>1 DEF CheckpointBegin
  <2> QED
    BY <2>2 DEF RunCheckpoint, CtlInv, Pinned
<1>5. head <= head'
  BY <1>1 DEF CheckpointBegin, walVars, IInv, DbInv, WalInv
<1>6. faults' \in Nat
  BY DEF RunCheckpoint, IInv, SyncType
<1> QED
  BY <1>3, <1>4, <1>5, <1>6, CheckpointFrame DEF RunCheckpoint, locals

\* After its PRAGMA the call is at bump_seq or at taking the pin again.
LEMMA PragmaDoneCtl ==
  ASSUME CallType, NEW busy, NEW folded, PragmaDone(busy, folded)
  PROVE  call'.at # "none" /\ call'.hadLock = call.hadLock
BY DEF CallType, PragmaDone

LEMMA CheckpointStepKeeps ==
  ASSUME IInv, CheckpointStep
  PROVE  IInv'
<1>1. DbInv'
  BY PragmaPassiveKeeps, PragmaTruncateKeeps, PragmaTruncateBusyKeeps,
     BumpSeqKeeps DEF CheckpointStep, IInv
<1>2. pc = "checkpointing" /\ call.hadLock /\ CallType
  BY DEF CheckpointStep, IInv, CtlInv, DbInv, CallInv
<1>3. call'.at # "none" /\ call'.hadLock = call.hadLock
  <2>1. CASE BumpSeq
    BY <1>2, <2>1 DEF BumpSeq, CallType
  <2>2. CASE PragmaPassive \/ PragmaTruncate \/ PragmaTruncateBusy
    BY <1>2, <2>2, PragmaDoneCtl
       DEF PragmaPassive, PragmaTruncate, PragmaTruncateBusy
  <2> QED
    BY <2>1, <2>2 DEF CheckpointStep
<1>4. CtlInv'
  BY <1>2, <1>3 DEF CheckpointStep, syncVars, CtlInv, Pinned
<1>5. head <= head'
  <2>1. head' = head \/ head' = head + 1
    BY DEF CheckpointStep, PragmaPassive, PragmaTruncate, PragmaTruncateBusy,
           BumpSeq, FoldTo, ResetLog, Commit
  <2> QED
    BY <2>1 DEF IInv, DbInv, WalInv
<1>6. faults' \in Nat
  BY DEF CheckpointStep, syncVars, IInv, SyncType
<1> QED
  BY <1>1, <1>2, <1>4, <1>5, <1>6, CheckpointFrame DEF CheckpointStep, syncVars

LEMMA CheckpointLockedKeeps ==
  ASSUME IInv, CheckpointLocked
  PROVE  IInv'
<1>1. DbInv'
  BY PragmaLockedKeeps DEF CheckpointLocked, IInv
<1>2. pc = "checkpointing" /\ call.hadLock /\ CallType
  BY DEF CheckpointLocked, IInv, CtlInv, DbInv, CallInv
<1>3. call'.at # "none" /\ call'.hadLock = call.hadLock
  BY <1>2, PragmaDoneCtl DEF CheckpointLocked, PragmaLocked
<1>4. CtlInv'
  BY <1>2, <1>3 DEF CheckpointLocked, CtlInv, Pinned
<1>5. head <= head'
  BY DEF CheckpointLocked, PragmaLocked, walVars, IInv, DbInv, WalInv
<1>6. faults' \in Nat
  BY DEF CheckpointLocked, Fault, IInv, SyncType
<1> QED
  BY <1>1, <1>2, <1>4, <1>5, <1>6, CheckpointFrame DEF CheckpointLocked, locals

LEMMA CheckpointBumpBusyKeeps ==
  ASSUME IInv, CheckpointBumpBusy
  PROVE  IInv'
<1>1. faults' \in Nat /\ dirty' \in BOOLEAN
  BY DEF CheckpointBumpBusy, Fault, IInv, SyncType
<1> QED
  BY <1>1, ReturnKeeps DEF CheckpointBumpBusy, BumpSeqBusy

LEMMA CheckpointReturnKeeps ==
  ASSUME IInv, CheckpointReturn
  PROVE  IInv'
<1>1. DbInv'
  BY CheckpointEndKeeps DEF CheckpointReturn, IInv
<1>2. pc = "checkpointing" /\ call.hadLock
  BY DEF CheckpointReturn, IInv, CtlInv
<1>3. call'.at = "none" /\ pin'.held
  BY <1>2, AcquireKeeps
     DEF CheckpointReturn, CheckpointEnd, IInv, DbInv, CallInv, CallType
<1>4. pc' \in {"check", "upload"} /\ (pc' = "upload" => cur # NoStaged)
  BY DEF CheckpointReturn
<1>5. CtlInv'
  BY <1>3, <1>4 DEF CtlInv
<1>6. head <= head'
  BY DEF CheckpointReturn, CheckpointEnd, walVars, IInv, DbInv, WalInv
<1>7. faults' \in Nat
  BY DEF CheckpointReturn, IInv, SyncType
<1> QED
  BY <1>1, <1>2, <1>4, <1>5, <1>6, <1>7, CheckpointFrame
     DEF CheckpointReturn, locals

LEMMA CheckpointDoneKeeps ==
  ASSUME IInv, CheckpointDone
  PROVE  IInv'
BY ReturnKeeps DEF CheckpointDone, IInv, SyncType

(***************************************************************************)
(* upload_ltx_file.                                                        *)
(***************************************************************************)

\* A put of the newest TXID or of the one after it: afterwards the chain ends
\* with this file, the files before it are the same, and the file that had
\* its TXID was either the same or is replaced by a snapshot as new.
LEMMA PutKeeps ==
  ASSUME store \in Seq(File), NEW f \in File, Put(f), Sound(f),
         f.txid > 0, f.txid \in {Len(store), Len(store) + 1}
  PROVE  /\ store' \in Seq(File) /\ Len(store') = f.txid /\ store'[f.txid] = f
         /\ \A n \in 1 .. Len(store) : n # f.txid => store'[n] = store[n]
         /\ \A n \in 1 .. Len(store) :
              /\ n <= Len(store')
              /\ \/ store'[n] = store[n]
                 \/ /\ LargeSnapshots /\ store'[n].lo = 0
                    /\ store[n].hi <= store'[n].hi
<1>1. f.txid \in Nat /\ f.hi \in Nat /\ Len(store) \in Nat
  BY DEF File
<1>2. CASE ~Stored(f)
  <2>1. store' = Append(store, f)
    BY <1>2 DEF Put, PutCas, PutMultipart
  <2>2. f.txid = Len(store) + 1
    BY <1>1, <1>2 DEF Stored
  <2> QED
    BY <1>1, <2>1, <2>2
<1>3. CASE Stored(f) /\ store' = store /\ store[f.txid] = f
  <2>1. f.txid = Len(store)
    BY <1>1, <1>3 DEF Stored
  <2> QED
    BY <1>1, <1>3, <2>1
<1>4. CASE /\ Stored(f) /\ LargeSnapshots /\ f.lo = 0
           /\ store' = [store EXCEPT ![f.txid] = f]
  <2>1. f.txid = Len(store) /\ f.txid \in 1 .. Len(store)
    BY <1>1, <1>4 DEF Stored
  <2>2. /\ store' \in Seq(File) /\ Len(store') = Len(store)
        /\ store'[f.txid] = f
        /\ \A n \in 1 .. Len(store) : n # f.txid => store'[n] = store[n]
    BY <1>4, <2>1
  <2>3. store[f.txid].hi <= f.hi
    BY <1>4, <2>1 DEF Sound, AtLeast
  <2>4. ASSUME NEW n \in 1 .. Len(store)
        PROVE  /\ n <= Len(store')
               /\ \/ store'[n] = store[n]
                  \/ /\ LargeSnapshots /\ store'[n].lo = 0
                     /\ store[n].hi <= store'[n].hi
    <3>1. n <= Len(store')
      BY <1>1, <2>2
    <3>2. CASE n = f.txid
      BY <1>4, <2>2, <2>3, <3>1, <3>2
    <3>3. CASE n # f.txid
      BY <2>2, <3>1, <3>3
    <3> QED
      BY <3>2, <3>3
  <2> QED
    BY <2>1, <2>2, <2>4
<1> QED
  BY <1>2, <1>3, <1>4 DEF Put, PutCas, PutMultipart

\* What a put leaves true of the published commits, and of the file itself.
LEMMA PutSound ==
  ASSUME store \in Seq(File), NEW f \in File, Put(f), Sound(f),
         f.txid > 0, f.txid \in {Len(store), Len(store) + 1},
         AtLeast(head), head' = head
  PROVE  AtLeast(head)' /\ Sound(f)'
<1>1. f.txid \in Nat /\ Len(store) \in Nat /\ f.hi \in Nat
  BY DEF File
<1>2. /\ store' \in Seq(File) /\ Len(store') = f.txid /\ store'[f.txid] = f
      /\ \A n \in 1 .. Len(store) : n # f.txid => store'[n] = store[n]
  BY PutKeeps
<1>3. \A n \in 1 .. Len(store') :
        n = f.txid \/ (n \in 1 .. Len(store) /\ store'[n] = store[n])
  BY <1>1, <1>2
<1>4. AtLeast(head)'
  BY <1>2, <1>3 DEF AtLeast, Sound
<1>5. f.lo = 0 => AtLeast(f.hi)'
  BY <1>1, <1>2, <1>3 DEF AtLeast, Sound
<1> QED
  BY <1>4, <1>5 DEF Sound, AtLeast

\* The put of the file in flight, acknowledged or not.
LEMMA PutStepKeeps ==
  ASSUME IInv, pc = "upload", Put(cur.file),
         UNCHANGED <<walVars, pin, pos, staging>>,
         pc' \in Pcs, task' \in Tasks, plan' = plan \/ plan' = NoPlan,
         synced' \in Nat, dirty' \in BOOLEAN, faults' \in Nat,
         call'.at = "none", call' = call \/ call' = NoCall,
         \/ pc' = "uploaded" /\ cur' = cur
         \/ pc' = "idle" /\ cur' = NoStaged /\ "upload_lost_ack" \in Faults
  PROVE  IInv'
<1>1. /\ cur.file \in File /\ store \in Seq(File) /\ Len(store) \in Nat
      /\ pos.txid \in Nat
  BY DEF IInv, SyncType, Staged, Position
<1>2. /\ cur.file \in staging /\ StagedInv /\ AtLeast(head)
      /\ cur.file.txid = pos.txid + 1 /\ Sound(cur.file)
  BY DEF IInv, FilesInv, CurInv, StagedInv, Running
<1>3. cur.file.txid > 0 /\ cur.file.txid \in {Len(store), Len(store) + 1}
  BY <1>2 DEF StagedInv
<1>4. PICK f \in File : f = cur.file
  BY <1>1
<1>5. /\ store' \in Seq(File) /\ Len(store') = f.txid /\ store'[f.txid] = f
      /\ \A n \in 1 .. Len(store) : n # f.txid => store'[n] = store[n]
  BY <1>1, <1>2, <1>3, <1>4, PutKeeps
<1>6. head' = head
  BY DEF walVars
<1>7. AtLeast(head)' /\ Sound(f)'
  BY <1>1, <1>2, <1>3, <1>4, <1>6, PutSound
<1>8. DbInv'
  BY DbFrame DEF IInv
<1>9. cur' \in Staged
  BY NoneTypes DEF IInv, SyncType
<1>10. SyncType'
  BY <1>5, <1>9, NoneTypes DEF IInv, SyncType
<1>11. CtlInv' /\ SnapInv'
  BY DEF IInv, CtlInv, SnapInv, Pinned
<1>12. staging' = {f}
  BY <1>2, <1>4 DEF StagedInv
<1>13. StagedInv'
  BY <1>1, <1>2, <1>3, <1>4, <1>5, <1>7, <1>12 DEF StagedInv
<1>14. CurInv'
  BY <1>2 DEF IInv, FilesInv, CurInv, Running
<1>15. PosInv'
  BY <1>1, <1>2, <1>4, <1>5 DEF PosInv, Running
<1> QED
  BY <1>7, <1>8, <1>10, <1>11, <1>13, <1>14, <1>15 DEF IInv, FilesInv

LEMMA UploadKeeps ==
  ASSUME IInv, Upload
  PROVE  IInv'
<1>1. call.at = "none" /\ task \in Tasks /\ synced \in Nat /\ dirty \in BOOLEAN
      /\ faults \in Nat
  BY DEF Upload, IInv, CtlInv, SyncType
<1> QED
  BY <1>1, PutStepKeeps DEF Upload, dbVars, walVars, locals, Pcs

LEMMA UploadLosesAckKeeps ==
  ASSUME IInv, UploadLosesAck
  PROVE  IInv'
<1>1. dirty' \in BOOLEAN /\ faults' \in Nat /\ "upload_lost_ack" \in Faults
  BY DEF UploadLosesAck, Fault, IInv, SyncType
<1>2. plan' = NoPlan
  BY DEF UploadLosesAck, Return
<1> QED
  BY <1>1, <1>2, ReturnTypes, PutStepKeeps DEF UploadLosesAck

LEMMA EquivocationKeeps ==
  ASSUME IInv, Equivocation
  PROVE  IInv'
BY ReturnKeeps DEF Equivocation, IInv, SyncType

LEMMA UploadFailsKeeps ==
  ASSUME IInv, UploadFails
  PROVE  IInv'
<1>1. dirty' \in BOOLEAN /\ faults' \in Nat
  BY DEF UploadFails, Fault, IInv, SyncType
<1> QED
  BY <1>1, ReturnKeeps DEF UploadFails

\* The position moves to the file the replica ends with.
LEMMA UploadDoneKeeps ==
  ASSUME IInv, UploadDone
  PROVE  IInv'
<1>1. /\ cur \in Staged /\ cur.file \in File /\ store \in Seq(File)
      /\ Len(store) \in Nat /\ pos.txid \in Nat /\ task \in Tasks
      /\ synced \in Nat
      /\ plan \in [kind : PlanKinds, lo : Nat, hi : Nat, gen : Nat,
                   off : Nat, len : Nat]
  BY DEF IInv, SyncType, Staged, Position
<1>2. /\ pc = "uploaded" /\ call.at = "none" /\ pin.held
      /\ cur.file \in staging /\ StagedInv /\ AtLeast(head)
      /\ cur.file.txid = pos.txid + 1
      /\ store[Len(store)] = cur.file /\ pos.txid + 1 = Len(store)
  BY DEF UploadDone, IInv, CtlInv, Pinned, FilesInv, CurInv, StagedInv,
         PosInv, Running
<1>3. UNCHANGED <<walVars, pin, store, faults>>
  BY DEF UploadDone
<1>4. /\ pc' \in {"check", "idle"} /\ pc' \in Pcs /\ task' \in Tasks
      /\ cur' = NoStaged /\ cur' \in Staged /\ synced' \in Nat
      /\ plan' \in [kind : PlanKinds, lo : Nat, hi : Nat, gen : Nat,
                    off : Nat, len : Nat]
      /\ call'.at = "none"
      /\ call' = call \/ call' = NoCall
  <2>1. CASE task \in CkptTasks
    BY <1>1, <1>2, <2>1, NoneTypes DEF UploadDone, Pcs
  <2>2. CASE task \notin CkptTasks
    BY <2>2, ReturnTypes DEF UploadDone
  <2> QED
    BY <2>1, <2>2
<1>5. dirty' \in BOOLEAN
  BY DEF UploadDone, IInv, SyncType
<1>6. pos' = [txid |-> cur.file.txid, off |-> cur.file.off,
              gen |-> cur.file.gen, toEnd |-> cur.toEnd]
  BY DEF UploadDone
<1>7. pos' \in Position
  BY <1>1, <1>6 DEF Position, File, Staged
<1>8. staging' = {}
  BY <1>2 DEF UploadDone, StagedInv
<1>9. DbInv'
  BY <1>3, <1>4, DbFrame DEF IInv
<1>10. SyncType'
  BY <1>3, <1>4, <1>5, <1>7, <1>8 DEF IInv, SyncType
<1>11. CtlInv' /\ SnapInv'
  BY <1>2, <1>3, <1>4 DEF CtlInv, SnapInv
<1>12. AtLeast(head)' /\ StagedInv' /\ CurInv'
  BY <1>2, <1>3, <1>4, <1>8
     DEF walVars, AtLeast, StagedInv, CurInv, NoStaged, NoFile
<1>13. PosInv'
  <2>1. store # << >>
    BY <1>1, <1>2
  <2>2. DerivePosition' = [txid |-> cur.file.txid, off |-> cur.file.off,
                           gen |-> cur.file.gen, toEnd |-> FALSE]
    BY <1>2, <1>3, <2>1 DEF DerivePosition
  <2>3. SamePlace(pos, DerivePosition)'
    BY <1>6, <2>2 DEF SamePlace
  <2>4. pos'.txid = Len(store')
    BY <1>2, <1>3, <1>6
  <2>5. AtEnd'
    BY <2>3, <2>4 DEF AtEnd
  <2> QED
    BY <1>4, <2>5 DEF PosInv
<1> QED
  BY <1>9, <1>10, <1>11, <1>12, <1>13 DEF IInv, FilesInv

(***************************************************************************)
(* Restarts.                                                               *)
(***************************************************************************)
LEMMA CrashKeeps ==
  ASSUME IInv, Crash
  PROVE  IInv'
<1>1. DbInv'
  <2>1. WalInv'
    BY DEF Crash, IInv, DbInv, WalInv, walVars, DbFile, Frames
  <2>2. PinInv' /\ ~pin'.held
    BY ReleaseKeeps DEF Crash, ReleaseReadLock
  <2>3. CallInv'
    BY NoneTypes DEF Crash, CallInv, CallType
  <2> QED
    BY <2>1, <2>2, <2>3 DEF DbInv
<1>2. SyncType'
  <2>1. DefaultPosition \in Position
    BY DEF DefaultPosition, Position
  <2>2. "down" \in Pcs /\ "sync" \in Tasks /\ faults' \in Nat
    BY DEF Pcs, Tasks, Crash, Fault, IInv, SyncType
  <2> QED
    BY <2>1, <2>2, NoneTypes DEF Crash, IInv, SyncType
<1>3. CtlInv' /\ SnapInv'
  BY NoneTypes DEF Crash, CtlInv, SnapInv, Pinned
<1>4. FilesInv'
  BY DEF Crash, walVars, IInv, FilesInv, AtLeast, StagedInv, CurInv, PosInv,
         Running, Sound, NoStaged, NoFile
<1> QED
  BY <1>1, <1>2, <1>3, <1>4 DEF IInv

LEMMA DownFrame ==
  ASSUME IInv, pc \in {"down", "recover"}, pc' \in {"down", "recover"},
         UNCHANGED <<dbVars, locals, pos, store, staging, dirty>>,
         faults' \in Nat
  PROVE  IInv'
<1>1. DbInv'
  BY DbFrame DEF IInv, dbVars, walVars
<1>2. SyncType'
  BY DEF locals, IInv, SyncType, Pcs
<1>3. CtlInv' /\ SnapInv'
  BY DEF dbVars, IInv, CtlInv, SnapInv, Pinned
<1>4. FilesInv'
  <2>1. head <= head'
    BY DEF dbVars, IInv, DbInv, WalInv
  <2> QED
    BY <1>1, <2>1, FilesFrame DEF IInv, locals, Running
<1> QED
  BY <1>1, <1>2, <1>3, <1>4 DEF IInv

LEMMA OpenKeeps ==
  ASSUME IInv, Open
  PROVE  IInv'
BY DownFrame DEF Open, IInv, SyncType

LEMMA OpenFailsKeeps ==
  ASSUME IInv, OpenFails
  PROVE  IInv'
<1>1. faults' \in Nat
  BY DEF OpenFails, Fault, IInv, SyncType
<1> QED
  BY <1>1, DownFrame DEF OpenFails

\* There is one staged file at most, and it continues or ends the chain.
LEMMA RecoverStagingKeeps ==
  ASSUME IInv, RecoverStaging
  PROVE  IInv'
<1>1. PICK f \in staging : TRUE
  BY DEF RecoverStaging
<1>2. staging = {f} /\ f \in File /\ StagedInv
  BY <1>1 DEF IInv, FilesInv, StagedInv, SyncType
<1>3. OldestStaged = f
  BY <1>2 DEF OldestStaged, File
<1>4. /\ pc = "recover" /\ Put(f) /\ staging' = {}
      /\ UNCHANGED <<dbVars, pc, locals, pos, dirty, faults>>
  BY <1>2, <1>3 DEF RecoverStaging
<1>5. /\ store \in Seq(File) /\ Sound(f) /\ f.txid > 0
      /\ f.txid \in {Len(store), Len(store) + 1}
      /\ AtLeast(head) /\ head' = head
  BY <1>2, <1>4 DEF IInv, SyncType, FilesInv, StagedInv, dbVars
<1>6. store' \in Seq(File)
  BY <1>2, <1>4, <1>5, PutKeeps
<1>7. AtLeast(head)'
  BY <1>2, <1>4, <1>5, PutSound
<1>8. DbInv'
  BY <1>4, DbFrame DEF IInv, dbVars, walVars
<1>9. SyncType'
  BY <1>4, <1>6 DEF IInv, SyncType, locals
<1>10. CtlInv' /\ SnapInv'
  BY <1>4 DEF IInv, CtlInv, SnapInv, dbVars
<1>11. StagedInv'
  BY <1>4 DEF StagedInv
<1>12. CurInv'
  <2>1. cur = NoStaged
    BY <1>4 DEF IInv, FilesInv, CurInv, Running
  <2> QED
    BY <1>4, <2>1 DEF CurInv, locals
<1>13. PosInv'
  BY <1>4 DEF PosInv, Running
<1> QED
  BY <1>7, <1>8, <1>9, <1>10, <1>11, <1>12, <1>13 DEF IInv, FilesInv

LEMMA OpenDoneKeeps ==
  ASSUME IInv, OpenDone
  PROVE  IInv'
<1>1. /\ pc = "recover" /\ pc' = "idle" /\ staging = {}
      /\ call.at = "none" /\ store \in Seq(File) /\ cur = NoStaged
      /\ UNCHANGED <<walVars, call, locals, store, staging, dirty, faults>>
  BY DEF OpenDone, IInv, CtlInv, SyncType, FilesInv, CurInv, Running
<1>2. DbInv'
  <2>1. WalInv' /\ PinInv'
    BY <1>1, AcquireKeeps DEF OpenDone, IInv, DbInv
  <2>2. CallInv'
    BY <1>1 DEF IInv, DbInv, CallInv, CallType
  <2> QED
    BY <2>1, <2>2 DEF DbInv
<1>3. pos' \in Position /\ pos'.txid = Len(store)
  <2>1. CASE store = << >>
    BY <2>1 DEF OpenDone, DerivePosition, DefaultPosition, Position
  <2>2. CASE store # << >>
    <3>1. Len(store) \in Nat /\ store[Len(store)] \in File
      BY <1>1, <2>2
    <3> QED
      BY <2>2, <3>1 DEF OpenDone, DerivePosition, Position, File
  <2> QED
    BY <2>1, <2>2
<1>4. SyncType'
  BY <1>1, <1>3 DEF IInv, SyncType, locals, Pcs
<1>5. CtlInv' /\ SnapInv'
  BY <1>1 DEF CtlInv, SnapInv, Pinned
<1>6. AtLeast(head)' /\ StagedInv' /\ CurInv'
  BY <1>1 DEF walVars, locals, IInv, FilesInv, AtLeast, StagedInv, CurInv,
              NoStaged, NoFile, Running
<1>7. PosInv'
  <2>1. SamePlace(pos, DerivePosition)'
    BY <1>1 DEF OpenDone, DerivePosition, DefaultPosition, SamePlace
  <2> QED
    BY <1>1, <1>3, <2>1 DEF PosInv, AtEnd
<1> QED
  BY <1>2, <1>4, <1>5, <1>6, <1>7 DEF IInv, FilesInv

(***************************************************************************)
(* The application.                                                        *)
(***************************************************************************)
LEMMA AppKeeps ==
  ASSUME IInv, AppStep, UNCHANGED syncVars
  PROVE  IInv'
<1>1. DbInv'
  BY AppStepKeeps DEF IInv
<1>2. UNCHANGED <<pin, call>> /\ (head' = head \/ head' = head + 1)
  BY DEF AppStep, AppCommit, AppCheckpoint, AppTruncate, Commit, FoldTo,
         ResetLog
<1>3. head \in Nat
  BY DEF IInv, DbInv, WalInv
<1>4. SyncType'
  BY DEF syncVars, IInv, SyncType
<1>5. CtlInv'
  BY <1>2 DEF syncVars, IInv, CtlInv
<1>6. SnapInv'
  <2>1. plan.hi \in Nat
    BY DEF IInv, SyncType
  <2> QED
    BY <1>2, <1>3, <2>1 DEF syncVars, IInv, SnapInv, AtLeast
<1>7. FilesInv'
  BY <1>1, <1>2, <1>3, FilesFrame
     DEF syncVars, IInv, Running, FilesInv, CurInv
<1> QED
  BY <1>1, <1>4, <1>5, <1>6, <1>7 DEF IInv

(***************************************************************************)
(* The inductive invariant.                                                *)
(***************************************************************************)
LEMMA IInvInit == Init => IInv
<1> SUFFICES ASSUME Init PROVE IInv
  OBVIOUS
<1>1. DbInv
  BY DbInvInit DEF Init
<1>2. SyncType
  <2>1. DefaultPosition \in Position
    BY DEF DefaultPosition, Position
  <2>2. "down" \in Pcs /\ "sync" \in Tasks
    BY DEF Pcs, Tasks
  <2>3. << >> \in Seq(File)
    OBVIOUS
  <2> QED
    BY <2>1, <2>2, <2>3, NoneTypes DEF Init, SyncType
<1>3. CtlInv /\ SnapInv
  BY NoneTypes DEF Init, DbInit, CtlInv, SnapInv, Pinned
<1>4. FilesInv
  BY DEF Init, FilesInv, AtLeast, StagedInv, CurInv, PosInv, Running
<1> QED
  BY <1>1, <1>2, <1>3, <1>4 DEF IInv

LEMMA IInvNext == IInv /\ [Next]_vars => IInv'
<1> SUFFICES ASSUME IInv, [Next]_vars PROVE IInv'
  OBVIOUS
<1>1. CASE Sync \/ CheckpointIfNeeded \/ CheckpointNow
  <2>1. PICK t \in Tasks : BuildNext(t)
    BY <1>1 DEF Sync, CheckpointIfNeeded, CheckpointNow, Tasks, CkptTasks
  <2> QED
    BY <2>1, BuildNextKeeps
<1>2. CASE SyncerStep /\ ~(Sync \/ CheckpointIfNeeded \/ CheckpointNow)
  BY <1>2, SnapshotReadWalKeeps, BuildSnapshotKeeps, BuildIncrementalKeeps,
     BuildIncrementalErrorKeeps, RunCheckpointKeeps, CheckpointStepKeeps,
     CheckpointReturnKeeps, OverFoldKeeps, CheckpointDoneKeeps, UploadKeeps,
     EquivocationKeeps, UploadDoneKeeps, OpenKeeps, RecoverStagingKeeps,
     OpenDoneKeeps
     DEF SyncerStep
<1>3. CASE FaultStep
  BY <1>3, CrashKeeps, UploadFailsKeeps, UploadLosesAckKeeps, OpenFailsKeeps,
     CheckpointLockedKeeps, CheckpointBumpBusyKeeps
     DEF FaultStep
<1>4. CASE AppWrites \/ AppCheckpoints
  BY <1>4, AppKeeps DEF AppWrites, AppCheckpoints, AppStep
<1>5. CASE UNCHANGED vars
  <2>1. UNCHANGED dbVars /\ UNCHANGED syncVars
    BY <1>5 DEF vars
  <2>2. DbInv'
    BY <2>1, DbFrame DEF IInv, dbVars, walVars
  <2>3. SyncType' /\ CtlInv' /\ SnapInv'
    BY <2>1 DEF dbVars, syncVars, IInv, SyncType, CtlInv, SnapInv, AtLeast
  <2>4. FilesInv'
    <3>1. head <= head'
      BY <2>1 DEF dbVars, IInv, DbInv, WalInv
    <3> QED
      BY <2>1, <2>2, <3>1, FilesFrame
         DEF syncVars, IInv, Running, FilesInv, CurInv
  <2> QED
    BY <2>2, <2>3, <2>4 DEF IInv
<1> QED
  BY <1>1, <1>2, <1>3, <1>4, <1>5 DEF Next

LEMMA IInvImplies == IInv => TypeOK /\ SnapshotConsistent /\ ResumeAgrees
<1> SUFFICES ASSUME IInv PROVE TypeOK /\ SnapshotConsistent /\ ResumeAgrees
  OBVIOUS
<1>1. TypeOK
  BY DbInvImplies DEF IInv, SyncType, TypeOK
<1>2. SnapshotConsistent
  <2> SUFFICES ASSUME pc = "snap" PROVE DbFile <= plan.hi
    BY DEF SnapshotConsistent
  <2>1. DbFile <= pin.at /\ pin.at <= plan.hi
    BY PinAtHead DEF IInv, CtlInv, SnapInv, Pinned
  <2>2. DbFile \in Nat /\ pin.at \in Nat /\ plan.hi \in Nat
    BY DEF IInv, DbInv, WalInv, PinInv, PinType, SyncType, DbFile
  <2> QED
    BY <2>1, <2>2
<1>3. ResumeAgrees
  <2>1. pos.txid \in Nat
    BY DEF IInv, SyncType, Position
  <2> QED
    BY <2>1 DEF IInv, FilesInv, PosInv, AtEnd, Running, ResumeAgrees
<1> QED
  BY <1>1, <1>2, <1>3

\* The only steps that touch the replica are puts.
LEMMA NextKeepsPublished == IInv /\ [Next]_vars => [KeepsPublished]_vars
<1> SUFFICES ASSUME IInv, Next PROVE KeepsPublished
  OBVIOUS
<1>1. store \in Seq(File) /\ Len(store) \in Nat
  BY DEF IInv, SyncType
<1>2. CASE store' = store
  BY <1>1, <1>2 DEF KeepsPublished
<1>3. ASSUME NEW f \in staging, Put(f)
      PROVE  KeepsPublished
  <2>1. /\ f \in File /\ Sound(f) /\ f.txid > 0
        /\ f.txid \in {Len(store), Len(store) + 1}
    BY DEF IInv, SyncType, FilesInv, StagedInv
  <2> QED
    BY <1>1, <1>3, <2>1, PutKeeps DEF KeepsPublished
<1>4. CASE Upload \/ UploadLosesAck
  <2>1. cur.file \in staging /\ Put(cur.file)
    BY <1>4 DEF Upload, UploadLosesAck, IInv, FilesInv, CurInv
  <2> QED
    BY <1>3, <2>1
<1>5. CASE RecoverStaging
  <2>1. \A f, g \in staging : f = g
    BY DEF IInv, FilesInv, StagedInv
  <2>2. \A f \in staging : f.txid \in Nat
    BY DEF IInv, SyncType, File
  <2>3. OldestStaged \in staging
    BY <1>5, <2>1, <2>2 DEF RecoverStaging, OldestStaged
  <2> QED
    BY <1>3, <1>5, <2>3 DEF RecoverStaging
<1>6. CASE SyncerStep /\ ~Upload /\ ~RecoverStaging
  BY <1>2, <1>6
     DEF SyncerStep, Sync, CheckpointIfNeeded, CheckpointNow, BuildNext,
         SnapshotReadWal, BuildSnapshot, BuildIncremental,
         BuildIncrementalError, RunCheckpoint, CheckpointStep, syncVars,
         CheckpointReturn, OverFold, CheckpointDone, Equivocation,
         UploadDone, Open, OpenDone
<1>7. CASE FaultStep /\ ~UploadLosesAck
  BY <1>2, <1>7
     DEF FaultStep, Crash, UploadFails, OpenFails, CheckpointLocked,
         CheckpointBumpBusy
<1>8. CASE AppWrites \/ AppCheckpoints
  BY <1>2, <1>8 DEF AppWrites, AppCheckpoints, syncVars
<1> QED
  BY <1>4, <1>5, <1>6, <1>7, <1>8 DEF Next

(***************************************************************************)
(* The theorems.                                                           *)
(***************************************************************************)

\* Every variable of the syncer keeps its type, whatever fails.
THEOREM SyncerTypeCorrect == Spec => []TypeOK
BY IInvInit, IInvNext, IInvImplies, PTL DEF Spec

\* build_snapshot and build_snapshot_now never mix two database states: while
\* pages are read from the database file, no checkpoint of anyone, at any
\* moment, has moved the file past the WAL image the snapshot is built on.
THEOREM SnapshotsAreConsistent == Spec => []SnapshotConsistent
BY IInvInit, IInvNext, IInvImplies, PTL DEF Spec

\* Between operations, a restart (derive_position) would resume exactly where
\* the running syncer is, or one unacknowledged upload later.
THEOREM RestartResumes == Spec => []ResumeAgrees
BY IInvInit, IInvNext, IInvImplies, PTL DEF Spec

\* No step, whatever fails, takes back or changes a published file, except
\* that a snapshot above MULTIPART_THRESHOLD may replace the file of its own
\* TXID by a state at least as new.
THEOREM PublishedFilesAreFinal == Spec => PublishedIsFinal
BY IInvInit, IInvNext, NextKeepsPublished, PTL DEF Spec, PublishedIsFinal

\* The pin protects the running syncer, whatever fails: while it is held no
\* commit made since is copied into the database file by anyone.
THEOREM PinProtectsSyncer == Spec => []PinKeepsFrames
<1>1. IInv => PinKeepsFrames
  BY DbInvImplies DEF IInv
<1> QED
  BY <1>1, IInvInit, IInvNext, PTL DEF Spec

\* Under one pin the syncer sees at most one restart of the WAL, whatever
\* fails: its header reads and tail reads are at most one generation apart.
THEOREM PinBoundsSyncerRestarts == Spec => []OneRestartWhilePinned
<1>1. IInv => OneRestartWhilePinned
  BY DbInvImplies DEF IInv
<1> QED
  BY <1>1, IInvInit, IInvNext, PTL DEF Spec

(***************************************************************************)
(* The only writer never conflicts with itself, as long as no upload is    *)
(* stored without being acknowledged: a staged file has the TXID after the *)
(* replica's last, or is that last file itself (a crash before the staged  *)
(* copy was removed).                                                      *)
(***************************************************************************)
NoLostAck == "upload_lost_ack" \notin Faults

OwnInv == \A f \in staging : Stored(f) => store[f.txid] = f

\* Between operations the position is that of the replica's last file.
LEMMA RunsAtEnd ==
  ASSUME IInv, NoLostAck, Running, pc # "uploaded"
  PROVE  AtEnd
BY DEF IInv, FilesInv, PosInv, NoLostAck

\* stage(): one file, with the TXID after the replica's last.
LEMMA StageIs ==
  ASSUME IInv, NoLostAck, pc \in {"plan", "snap"},
         NEW lo \in Nat, NEW hi \in Nat, NEW g \in Nat, NEW off \in Nat,
         NEW toEnd \in BOOLEAN, Stage(lo, hi, g, off, toEnd)
  PROVE  \E x \in File :
           /\ x.txid = Len(store) + 1 /\ x.lo = lo /\ x.hi = hi /\ x.gen = g /\ x.off = off
           /\ staging' = {x} /\ cur' = [file |-> x, toEnd |-> toEnd]
           /\ task' = task /\ call' = call
           /\ task \in CkptTasks => pc' = "checkpoint" /\ synced' = off
           /\ task \notin CkptTasks => pc' = "upload"
<1> DEFINE x == [txid |-> pos.txid + 1, lo |-> lo, hi |-> hi, gen |-> g,
                 off |-> off, stamp |-> FreshStamp(pos.txid + 1)]
<1>1. /\ staging' = {s \in staging : s.txid # x.txid} \cup {x}
      /\ Built(task, [file |-> x, toEnd |-> toEnd])
  BY DEF Stage
<1>2. pos.txid = Len(store) /\ Len(store) \in Nat /\ Running
  BY RunsAtEnd DEF AtEnd, Running, IInv, SyncType
<1>3. FreshStamp(pos.txid + 1) = 0
  BY <1>2 DEF FreshStamp
<1>4. x \in File
  BY <1>2, <1>3 DEF File
<1>5. x.txid = Len(store) + 1 /\ x.lo = lo /\ x.hi = hi /\ x.gen = g /\ x.off = off
  BY <1>2
<1>6. x.txid = pos.txid + 1
  OBVIOUS
<1> HIDE DEF x
<1>7. staging' = {x}
  BY <1>1, <1>2, <1>6 DEF IInv, FilesInv, StagedInv
<1>8. [file |-> x, toEnd |-> toEnd] # NoStaged
  BY <1>2, <1>5 DEF NoStaged, NoFile
<1>9. /\ cur' = [file |-> x, toEnd |-> toEnd] /\ task' = task /\ call' = call
      /\ task \in CkptTasks => pc' = "checkpoint" /\ synced' = off
      /\ task \notin CkptTasks => pc' = "upload"
  BY <1>1, <1>5, <1>8 DEF Built
<1> QED
  BY <1>4, <1>5, <1>7, <1>9

\* put_ltx_cas or put_ltx_multipart of a staged file: the replica grows by it,
\* or holds it already.
LEMMA PutIs ==
  ASSUME IInv, OwnInv, NEW f \in staging, Put(f)
  PROVE  \/ f.txid = Len(store) + 1 /\ store' = Append(store, f)
         \/ f.txid = Len(store) /\ f.txid > 0 /\ store[f.txid] = f /\ store' = store
<1>1. /\ store \in Seq(File) /\ f \in File /\ f.txid \in Nat /\ f.txid > 0
      /\ f.txid \in {Len(store), Len(store) + 1} /\ Len(store) \in Nat
  BY DEF IInv, SyncType, FilesInv, StagedInv, File
<1>2. CASE ~Stored(f)
  BY <1>1, <1>2 DEF Stored, Put, PutCas, PutMultipart
<1>3. CASE Stored(f)
  <2>1. f.txid = Len(store) /\ store[f.txid] = f
    BY <1>1, <1>3 DEF Stored, OwnInv
  <2>2. f.txid \in 1 .. Len(store)
    BY <1>1, <2>1
  <2>3. [store EXCEPT ![f.txid] = f] = store
    BY <1>1, <2>1, <2>2
  <2> QED
    BY <1>1, <1>3, <2>1, <2>3 DEF Put, PutCas, PutMultipart
<1> QED
  BY <1>2, <1>3

\* There is at most one staged file.
LEMMA OneStaged ==
  ASSUME IInv, NEW f \in staging
  PROVE  staging = {f} /\ OldestStaged = f /\ f \in File
<1>1. staging = {f} /\ f \in File
  BY DEF IInv, FilesInv, StagedInv, SyncType
<1> QED
  BY <1>1 DEF OldestStaged, File

LEMMA OwnAfterPut ==
  ASSUME IInv, OwnInv, NEW f \in staging, Put(f), staging' \subseteq staging
  PROVE  OwnInv'
<1>1. staging = {f} /\ f \in File
  BY OneStaged
<1>2. store \in Seq(File)
  BY DEF IInv, SyncType
<1>3. store'[f.txid] = f
  BY <1>1, <1>2, PutIs
<1> QED
  BY <1>1, <1>3 DEF OwnInv

LEMMA OwnStep ==
  ASSUME IInv, NoLostAck, OwnInv, Next
  PROVE  OwnInv'
<1>1. CASE staging' \subseteq staging /\ store' = store
  BY <1>1 DEF OwnInv, Stored
<1>2. ASSUME pc \in {"plan", "snap"}, store' = store,
             NEW lo \in Nat, NEW hi \in Nat, NEW g \in Nat, NEW off \in Nat,
             NEW toEnd \in BOOLEAN, Stage(lo, hi, g, off, toEnd)
      PROVE  OwnInv'
  <2>1. PICK x \in File : x.txid = Len(store) + 1 /\ staging' = {x}
    BY <1>2, StageIs
  <2>2. Len(store) \in Nat
    BY DEF IInv, SyncType
  <2> QED
    BY <1>2, <2>1, <2>2 DEF OwnInv, Stored
<1>3. CASE BuildSnapshot
  <2>1. plan.hi \in Nat /\ plan.gen \in Nat /\ plan.off \in Nat /\ plan.len \in Nat
    BY DEF IInv, SyncType
  <2>2. (plan.off >= plan.len) \in BOOLEAN
    BY <2>1
  <2>3. pc = "snap" /\ store' = store /\ Stage(0, plan.hi, plan.gen, plan.off, plan.off >= plan.len)
    BY <1>3 DEF BuildSnapshot
  <2> QED
    BY <1>2, <2>1, <2>2, <2>3
<1>4. CASE BuildIncremental
  <2>1. plan.lo \in Nat /\ plan.gen \in Nat /\ plan.off \in Nat /\ plan.len \in Nat
    BY DEF IInv, SyncType
  <2>2. head \in Nat /\ base \in Nat
    BY DEF IInv, DbInv, WalInv
  <2>3. CASE TailEnd > plan.lo
    <3> DEFINE off == plan.off + (TailEnd - plan.lo)
    <3>1. TailEnd \in Nat /\ off \in Nat
      BY <2>1, <2>2, <2>3 DEF TailEnd
    <3>2. (off >= plan.len) \in BOOLEAN
      BY <2>1, <3>1
    <3>3. /\ pc = "plan" /\ store' = store
          /\ Stage(plan.lo, TailEnd, plan.gen, off, off >= plan.len)
      BY <1>4, <2>3, Zenon DEF BuildIncremental
    <3> HIDE DEF off
    <3> QED
      BY <1>2, <2>1, <3>1, <3>2, <3>3
  <2>4. CASE ~(TailEnd > plan.lo)
    BY <1>1, <1>4, <2>4 DEF BuildIncremental
  <2> QED
    BY <2>3, <2>4
<1>5. CASE Upload
  <2>1. PICK f \in staging : f = cur.file
    BY <1>5 DEF Upload, IInv, FilesInv, CurInv
  <2> QED
    BY <1>5, <2>1, OwnAfterPut DEF Upload
<1>6. CASE UploadLosesAck
  BY <1>6 DEF UploadLosesAck, Fault, NoLostAck
<1>7. CASE RecoverStaging
  <2>1. PICK f \in staging : f = OldestStaged
    BY <1>7, OneStaged DEF RecoverStaging
  <2> QED
    BY <1>7, <2>1, OwnAfterPut DEF RecoverStaging
<1>8. CASE UploadDone
  BY <1>1, <1>8 DEF UploadDone
<1>9. CASE CheckpointBumpBusy \/ CheckpointDone \/ Equivocation \/ UploadFails \/ BuildIncrementalError
  BY <1>1, <1>9 DEF CheckpointBumpBusy, CheckpointDone, Equivocation, UploadFails,
     BuildIncrementalError
<1>10. CASE Sync \/ CheckpointIfNeeded \/ CheckpointNow
  BY <1>1, <1>10 DEF Sync, CheckpointIfNeeded, CheckpointNow, BuildNext
<1>11. CASE AppWrites \/ AppCheckpoints \/ CheckpointStep
  BY <1>1, <1>11 DEF AppWrites, AppCheckpoints, CheckpointStep, syncVars
<1>12. CASE SnapshotReadWal \/ OverFold \/ RunCheckpoint \/ CheckpointReturn \/ CheckpointLocked
            \/ Crash \/ Open \/ OpenDone \/ OpenFails
  BY <1>1, <1>12 DEF SnapshotReadWal, OverFold, RunCheckpoint, CheckpointReturn,
     CheckpointLocked, Crash, Open, OpenDone, OpenFails
<1> QED
  BY <1>3, <1>4, <1>5, <1>6, <1>7, <1>8, <1>9, <1>10, <1>11, <1>12
  DEF Next, SyncerStep, FaultStep

LEMMA OwnHolds == ASSUME NoLostAck PROVE Spec => []OwnInv
<1>1. Init => OwnInv
  BY DEF Init, OwnInv
<1>2. IInv /\ OwnInv /\ [Next]_vars => OwnInv'
  <2> SUFFICES ASSUME IInv, OwnInv, [Next]_vars PROVE OwnInv'
    OBVIOUS
  <2>1. CASE Next
    BY <2>1, OwnStep
  <2>2. CASE UNCHANGED vars
    BY <2>2 DEF vars, syncVars, OwnInv, Stored
  <2> QED
    BY <2>1, <2>2
<1> QED
  BY <1>1, <1>2, IInvInit, IInvNext, PTL DEF Spec

\* Equivocation is raised against another writer, never against itself: through
\* crashes between upload, removal of the staged copy and new position, failed
\* uploads that are built again and recoveries (mod.rs: upload_ltx_file,
\* recover_staging), with every fault but an upload that is stored and not
\* acknowledged.
THEOREM NeverAgainstItself == ASSUME NoLostAck PROVE Spec => []NoSelfEquivocation
<1>1. IInv /\ OwnInv => NoSelfEquivocation
  <2> SUFFICES ASSUME IInv, OwnInv PROVE NoSelfEquivocation
    OBVIOUS
  <2>1. \A f \in staging : ~Conflict(f)
    BY DEF OwnInv, Conflict
  <2>2. ASSUME pc = "upload" PROVE ~Conflict(cur.file)
    BY <2>1, <2>2 DEF IInv, FilesInv, CurInv
  <2>3. ASSUME pc = "recover", staging # {} PROVE ~Conflict(OldestStaged)
    <3>1. PICK f \in staging : TRUE
      BY <2>3
    <3>2. OldestStaged = f
      BY <3>1, OneStaged
    <3> QED
      BY <2>1, <3>2
  <2> QED
    BY <2>2, <2>3 DEF NoSelfEquivocation
<1> QED
  BY <1>1, OwnHolds, IInvInit, IInvNext, PTL DEF Spec

(***************************************************************************)
(* No commit falls between two files.  The settings under which the code   *)
(* keeps that (README): either the application does not commit between     *)
(* build and PRAGMA, or only PASSIVE threshold checkpoints run.            *)
(***************************************************************************)
QuietWindow ==
  /\ ~WindowWrites
  /\ Faults \cap {"upload_ckpt", "upload_lost_ack", "bump_busy", "gap_checkpoint",
                  "down_checkpoint"} = {}
  /\ "crash" \notin Faults \/ "app_checkpoint" \notin Faults

PassiveOnly ==
  /\ WindowWrites /\ ~Timed /\ TruncateFrames >= MaxHead + 3
  /\ Faults \subseteq {"upload_sync", "ckpt_locked"}

ChainSettings == QuietWindow \/ PassiveOnly

LEMMA SettingsMean ==
  ASSUME ChainSettings
  PROVE  /\ NoLostAck
         /\ "upload_ckpt" \notin Faults /\ "bump_busy" \notin Faults
         /\ "gap_checkpoint" \notin Faults /\ "down_checkpoint" \notin Faults
         /\ "crash" \in Faults => "app_checkpoint" \notin Faults /\ ~WindowWrites
         /\ WindowWrites => /\ ~Timed /\ TruncateFrames >= MaxHead + 3
                            /\ "app_checkpoint" \notin Faults
BY DEF ChainSettings, QuietWindow, PassiveOnly, NoLostAck

\* The log and the database file hold everything after commit h: no commit
\* after h is in an older generation.  What is folded may be overwritten as
\* soon as the pin allows a restart.
Kept(h) ==
  /\ base <= h
  /\ pin.mark <= 0 \/ "app_checkpoint" \notin Faults => DbFile <= h

Keeps(h) == h > 0 => Kept(h)

\* The last commit captured by the operation in progress.
Got == IF cur = NoStaged THEN LastHi ELSE cur.file.hi

\* Where a file (or the plan of a snapshot) says that it ends in the WAL is where
\* it ends, if the log has not moved on.
FileAt(f) ==
  /\ f.gen <= gen /\ (f.gen = 0 => f.off = 0)
  /\ slots > 0 /\ f.gen = gen => f.hi = base + f.off
  /\ f.off <= f.hi /\ f.hi > 0

Fits(f) == f.lo <= LastHi /\ LastHi <= f.hi

ChainInv ==
  /\ ChainComplete
  /\ \A f \in staging : f.txid = Len(store) + 1 => Fits(f)

PlaceInv ==
  /\ slots > 0 => gen > 0
  /\ \A f \in staging : FileAt(f)
  /\ store # << >> => FileAt(store[Len(store)])
  /\ pc = "snap" => FileAt(plan)

PlanInv ==
  pc = "plan" /\ plan.kind = "incremental" =>
    /\ store # << >> /\ plan.lo <= LastHi
    /\ plan.gen > 0 /\ plan.gen <= gen /\ plan.off <= plan.lo
    /\ plan.off \in {0, pos.off}
    /\ plan.off > 0 => plan.lo = LastHi
    /\ slots > 0 /\ plan.gen = gen => plan.lo = base + plan.off

LocalInv ==
  /\ pc \in {"checkpoint", "checkpointing", "check"} => task \in CkptTasks
  /\ pc \in {"idle", "plan", "snap", "check"} => cur = NoStaged
  /\ pc = "plan" => task \in CkptTasks \cup {"sync"} /\ plan.kind # "none"

\* In the window between a checkpoint's first look at the WAL and its PRAGMA the
\* log is not restarted, and grows only if the application may write.
WindowInv ==
  pc \in {"plan", "snap"} /\ task \in CkptTasks =>
    IF WindowWrites
      THEN pc = "plan" /\ plan.kind = "incremental" /\ plan.gen = gen /\ slots > 0
      ELSE /\ plan.kind = "incremental" => plan.gen = gen
           /\ pc = "snap" => plan.hi = head

AtPragma == pc = "checkpoint" \/ (pc = "checkpointing" /\ call.at = "pragma")

CapInv ==
  AtPragma => IF WindowWrites THEN slots > 0 /\ Got = base + synced ELSE Got = head

\* Frames were folded that are not captured, and the snapshot that makes up for
\* it is on its way.
Excused ==
  /\ WindowWrites
  /\ \/ /\ task \in CkptTasks /\ OverFolded
        /\ \/ pc \in {"upload", "uploaded", "check"}
           \/ pc = "checkpointing" /\ call.at # "pragma"
     \/ task = "overfold" /\ pc = "snap"

KeepInv ==
  /\ Running => Keeps(Got) \/ Excused
  /\ pc = "snap" => Kept(plan.hi)
  /\ pc = "upload" /\ task = "sync" => Keeps(LastHi)
  /\ ~Running => (IF staging = {} THEN Keeps(LastHi) ELSE "crash" \in Faults)
  /\ "crash" \in Faults => \A f \in staging : DbFile <= f.hi

\* With writes in the window: every checkpoint is followed by a bump, so the log
\* is never fully folded when the next one begins.
RaceInv ==
  WindowWrites =>
    /\ call.at # "bump" => IF slots = 0 THEN gen = 0 ELSE backfill < Frames
    /\ task \in CkptTasks => task = "threshold"
    /\ pc = "checkpointing" => call.mode = "passive" /\ call.restart
    /\ head <= MaxHead + 2
    /\ task \in CkptTasks /\ (pc \in {"plan", "checkpoint"} \/ call.at \in {"pragma", "bump"})
         => head <= MaxHead

CompleteInv ==
  /\ ChainInv /\ PlaceInv /\ PlanInv /\ LocalInv
  /\ WindowInv /\ CapInv /\ KeepInv /\ RaceInv

CInv == IInv /\ OwnInv /\ CompleteInv

(***************************************************************************)
(* Numbers.                                                                *)
(***************************************************************************)
LEMMA WalNums ==
  ASSUME IInv
  PROVE  /\ head \in Nat /\ gen \in Nat /\ base \in Nat /\ backfill \in Nat /\ slots \in Nat
         /\ base > 0 /\ base + backfill <= head /\ head - base <= slots
         /\ pin.mark \in Nat \cup {-1} /\ (pin.held <=> pin.mark # -1)
BY DEF IInv, DbInv, WalInv, DbFile, Frames, PinInv, PinType, MarkInv, NoMark

LEMMA StoreNums ==
  ASSUME IInv
  PROVE  /\ store \in Seq(File) /\ Len(store) \in Nat
         /\ LastHi \in Nat /\ LastHi <= head
         /\ store = << >> => LastHi = 0
         /\ store # << >> => /\ Len(store) > 0 /\ store[Len(store)] \in File
                             /\ LastHi = store[Len(store)].hi
<1>1. store \in Seq(File) /\ Len(store) \in Nat /\ head \in Nat
  BY DEF IInv, SyncType, DbInv, WalInv
<1>2. CASE store = << >>
  BY <1>1, <1>2 DEF LastHi
<1>3. CASE store # << >>
  <2>1. Len(store) > 0 /\ store[Len(store)] \in File
    BY <1>1, <1>3
  <2>2. store[Len(store)].hi \in Nat /\ store[Len(store)].hi <= head
    BY <1>1, <2>1 DEF File, IInv, FilesInv, AtLeast
  <2> QED
    BY <1>1, <1>3, <2>1, <2>2 DEF LastHi
<1> QED
  BY <1>2, <1>3

LEMMA PlanNums ==
  ASSUME IInv
  PROVE  /\ plan.lo \in Nat /\ plan.hi \in Nat /\ plan.gen \in Nat /\ plan.off \in Nat
         /\ plan.len \in Nat
         /\ pos.off \in Nat /\ pos.gen \in Nat /\ pos.txid \in Nat /\ synced \in Nat
         /\ call.folded \in Nat \cup {-1}
BY DEF IInv, SyncType, Position, DbInv, CallInv, CallType

LEMMA GotNums ==
  ASSUME IInv
  PROVE  /\ Got \in Nat /\ Got <= head
         /\ cur # NoStaged => cur.file \in staging /\ Got = cur.file.hi
         /\ cur = NoStaged => Got = LastHi
<1>1. CASE cur = NoStaged
  BY <1>1, StoreNums DEF Got
<1>2. CASE cur # NoStaged
  <2>1. cur.file \in staging /\ cur.file \in File /\ cur.file.hi <= head
    BY <1>2 DEF IInv, FilesInv, CurInv, StagedInv, Sound, SyncType
  <2> QED
    BY <1>2, <2>1 DEF Got, File
<1> QED
  BY <1>1, <1>2

\* A staged file of a running syncer has the next TXID.
LEMMA StagedNext ==
  ASSUME IInv, NoLostAck, Running, pc # "uploaded", NEW f \in staging
  PROVE  f.txid = Len(store) + 1 /\ f \in File
BY RunsAtEnd DEF AtEnd, IInv, FilesInv, StagedInv, SyncType

\* The position is that of the last file.
LEMMA PositionIs ==
  ASSUME IInv, NoLostAck, Running, pc # "uploaded"
  PROVE  /\ pos.txid = Len(store)
         /\ store = << >> => pos.off = 0 /\ pos.txid = 0
         /\ store # << >> => /\ pos.off = store[Len(store)].off
                             /\ pos.gen = store[Len(store)].gen
                             /\ pos.txid > 0
BY RunsAtEnd, StoreNums DEF AtEnd, SamePlace, DerivePosition, DefaultPosition

(***************************************************************************)
(* What a step of the log leaves true.                                     *)
(***************************************************************************)

\* A generation keeps its base; a new one is the next.
PlaceMove ==
  /\ gen' \in {gen, gen + 1}
  /\ slots' > 0 /\ gen' = gen => slots > 0 /\ base' = base

\* The log moves on only to what the database file holds, and the file only
\* under a pin that keeps the log.
KeepMove ==
  /\ pin' = pin
  /\ base' = base \/ (pin.mark <= 0 /\ base' = DbFile)
  /\ DbFile' = DbFile \/ (pin.mark > 0 /\ "app_checkpoint" \in Faults)

LEMMA CommitMoves ==
  ASSUME IInv, NEW fresh \in BOOLEAN, Commit(fresh), pin' = pin
  PROVE  /\ PlaceMove /\ KeepMove /\ DbFile' = DbFile
         /\ head' = head + 1 /\ slots' > 0 /\ backfill' < Frames'
         /\ slots > 0 /\ backfill < Frames => gen' = gen /\ base' = base
<1>1. fresh => slots = 0 \/ CanRestart
  BY DEF Commit
<1>2. slots = 0 => base = head /\ backfill = 0
  BY WalNums
<1>3. CanRestart => backfill = head - base /\ pin.mark <= 0 /\ slots > 0
  BY WalNums DEF CanRestart, FullyBackfilled, BlocksReset, Frames
<1>4. /\ head' = head + 1 /\ gen' = (IF fresh THEN gen + 1 ELSE gen)
      /\ base' = (IF fresh THEN head ELSE base) /\ backfill' = (IF fresh THEN 0 ELSE backfill)
      /\ slots' >= head' - base' /\ slots' \in Int /\ (~fresh => slots > 0)
  <2>1. /\ head' = head + 1 /\ gen' = (IF fresh THEN gen + 1 ELSE gen)
        /\ base' = (IF fresh THEN head ELSE base) /\ backfill' = (IF fresh THEN 0 ELSE backfill)
        /\ slots' = Max2(slots, head' - base')
    BY DEF Commit
  <2>2. ~fresh => slots > 0
    <3>1. slots = 0 => fresh
      BY DEF Commit
    <3> QED
      BY <3>1, WalNums
  <2>3. slots' >= head' - base' /\ slots' \in Int
    BY <2>1, WalNums DEF Max2
  <2> QED
    BY <2>1, <2>2, <2>3
<1>5. head' - base' > 0 /\ backfill' < head' - base'
  BY <1>2, <1>3, <1>4, WalNums
<1>6. base' + backfill' = base + backfill
  BY <1>1, <1>2, <1>3, <1>4, WalNums
<1>7. PlaceMove
  BY <1>4, WalNums DEF PlaceMove
<1>8. base' = base \/ (pin.mark <= 0 /\ base' = base + backfill)
  BY <1>1, <1>2, <1>3, <1>4, WalNums
<1>9. slots > 0 /\ backfill < Frames => ~fresh
  BY <1>1, <1>3, WalNums DEF Frames
<1> QED
  BY <1>4, <1>5, <1>6, <1>7, <1>8, <1>9, WalNums DEF KeepMove, DbFile, Frames

LEMMA AppCheckpointMoves ==
  ASSUME IInv, pin.held, "app_checkpoint" \in Faults, AppCheckpoint
  PROVE  PlaceMove /\ KeepMove /\ UNCHANGED <<head, gen>>
<1>1. PICK k \in backfill + 1 .. FoldLimit : FoldTo(k)
  BY DEF AppCheckpoint
<1>2. pin.mark > 0
  BY <1>1, WalNums DEF FoldLimit, NoMark
<1> QED
  BY <1>1, <1>2, WalNums DEF FoldTo, PlaceMove, KeepMove, AppCheckpoint

LEMMA AppTruncateMoves ==
  ASSUME IInv, pin.held, AppTruncate
  PROVE  PlaceMove /\ KeepMove /\ UNCHANGED <<head, gen>>
<1>1. pin.mark = 0 /\ backfill = head - base
  BY WalNums DEF AppTruncate, BlocksReset, FoldLimit, NoMark, Frames
<1> QED
  BY <1>1, WalNums DEF AppTruncate, ResetLog, PlaceMove, KeepMove, DbFile

LEMMA FileAtMoves ==
  ASSUME IInv, PlaceMove, NEW f, f.gen \in Nat, FileAt(f)
  PROVE  FileAt(f)'
BY WalNums DEF PlaceMove, FileAt

LEMMA KeptMoves ==
  ASSUME IInv, KeepMove, NEW h \in Nat, Kept(h)
  PROVE  Kept(h)'
BY WalNums DEF KeepMove, Kept, DbFile

LEMMA KeptGrows ==
  ASSUME IInv, NEW h \in Nat, NEW k \in Nat, Kept(h), h <= k
  PROVE  Kept(k)
BY WalNums DEF Kept, DbFile

\* Everything committed is kept by a file that ends at the head.
LEMMA KeptHead == ASSUME IInv PROVE Kept(head)
BY WalNums DEF Kept, DbFile

\* Taking the pin: without it nothing that is folded was uncaptured.
LEMMA KeptAcquire ==
  ASSUME IInv, NEW h \in Nat, Kept(h), UNCHANGED walVars, AcquireReadLock
  PROVE  Kept(h)'
<1>1. CASE pin.held
  BY <1>1 DEF AcquireReadLock, Kept, walVars, DbFile
<1>2. CASE ~pin.held
  <2>1. DbFile <= h
    BY <1>2, WalNums DEF Kept
  <2> QED
    BY <2>1 DEF Kept, walVars, DbFile
<1> QED
  BY <1>1, <1>2

(***************************************************************************)
(* Frames.                                                                 *)
(***************************************************************************)
LEMMA ChainFrame ==
  ASSUME ChainInv, store' = store, staging' \subseteq staging
  PROVE  ChainInv'
BY DEF ChainInv, ChainComplete, PrevHi, Fits, LastHi

LEMMA PlaceFrame ==
  ASSUME PlaceInv, UNCHANGED <<walVars, store>>, staging' \subseteq staging,
         pc' # "snap" \/ (pc = "snap" /\ plan' = plan)
  PROVE  PlaceInv'
BY DEF PlaceInv, FileAt, walVars

LEMMA PlaceMoves ==
  ASSUME CInv, PlaceMove, UNCHANGED <<pc, plan, store, staging>>
  PROVE  PlaceInv'
<1> USE DEF CInv, CompleteInv
<1>1. \A f \in staging : FileAt(f)'
  BY FileAtMoves DEF PlaceInv, IInv, SyncType, File
<1>2. ASSUME store # << >> PROVE FileAt(store[Len(store)])'
  <2>1. PICK f \in File : f = store[Len(store)]
    BY <1>2, StoreNums
  <2>2. FileAt(f)'
    BY <1>2, <2>1, FileAtMoves DEF PlaceInv, File
  <2> QED
    BY <2>1, <2>2
<1>3. ASSUME pc = "snap" PROVE FileAt(plan)'
  <2>1. PICK f : f = plan
    OBVIOUS
  <2>2. FileAt(f)'
    BY <1>3, <2>1, FileAtMoves, PlanNums DEF PlaceInv
  <2> QED
    BY <2>1, <2>2
<1>4. slots' > 0 => gen' > 0
  BY WalNums DEF PlaceInv, PlaceMove
<1> QED
  BY <1>1, <1>2, <1>3, <1>4 DEF PlaceInv

\* The log moves under the chain: what was in place stays in place, what was
\* kept stays kept.
LEMMA LogMoves ==
  ASSUME CInv, PlaceMove, KeepMove, UNCHANGED <<pc, plan, cur, store, staging>>
  PROVE  /\ ChainInv' /\ PlaceInv' /\ LastHi' = LastHi /\ Got' = Got
         /\ Keeps(Got) => Keeps(Got)'
         /\ Keeps(LastHi) => Keeps(LastHi)'
         /\ Kept(plan.hi) => Kept(plan.hi)'
<1> USE DEF CInv, CompleteInv
<1>1. LastHi' = LastHi /\ Got' = Got
  BY DEF LastHi, Got
<1>2. ChainInv'
  BY ChainFrame
<1>3. PlaceInv'
  BY PlaceMoves
<1>4. \A h \in Nat : Kept(h) => Kept(h)'
  BY KeptMoves
<1>5. (Keeps(Got) => Keeps(Got)') /\ (Keeps(LastHi) => Keeps(LastHi)')
  <2>1. PICK h \in Nat, k \in Nat : h = Got /\ k = LastHi
    BY GotNums, StoreNums
  <2> QED
    BY <1>1, <1>4, <2>1 DEF Keeps, Kept
<1>6. Kept(plan.hi) => Kept(plan.hi)'
  <2>1. PICK h \in Nat : h = plan.hi
    BY PlanNums
  <2> QED
    BY <1>4, <2>1 DEF Kept
<1> QED
  BY <1>1, <1>2, <1>3, <1>5, <1>6

\* An operation returns with everything after the last file kept.
LEMMA ReturnCompletes ==
  ASSUME CInv, ChainSettings, Return, call.at = "none", Running, Keeps(LastHi),
         UNCHANGED <<walVars, pin, store>>, staging' \subseteq staging
  PROVE  CompleteInv'
<1>1. pc' = "idle" /\ task' = "sync" /\ cur' = NoStaged /\ call' = NoCall
  BY DEF Return
<1>2. ChainInv' /\ PlaceInv'
  BY <1>1, ChainFrame, PlaceFrame DEF CInv, CompleteInv
<1>3. PlanInv' /\ LocalInv' /\ WindowInv' /\ CapInv'
  BY <1>1 DEF PlanInv, LocalInv, WindowInv, CapInv, AtPragma
<1>4. KeepInv'
  <2>1. Got' = LastHi /\ LastHi' = LastHi
    BY <1>1 DEF Got, LastHi
  <2>2. Keeps(Got)'
    BY <2>1 DEF Keeps, Kept, walVars, DbFile
  <2> QED
    BY <1>1, <2>2 DEF KeepInv, CInv, CompleteInv, Running, walVars, DbFile
<1>5. RaceInv'
  BY <1>1 DEF RaceInv, CInv, CompleteInv, walVars, Frames, NoCall, CkptTasks
<1> QED
  BY <1>2, <1>3, <1>4, <1>5 DEF CompleteInv

\* Where nothing is in flight and nothing excused, the last file keeps the rest.
LEMMA LastKeeps ==
  ASSUME CInv, pc \in {"idle", "plan"} \/ (pc = "snap" /\ task # "overfold")
                 \/ (pc = "check" /\ ~OverFolded)
  PROVE  Keeps(LastHi) /\ cur = NoStaged
<1>1. cur = NoStaged /\ Running /\ (pc = "check" => task \in CkptTasks)
  BY DEF CInv, CompleteInv, LocalInv, Running
<1>2. ~Excused
  BY <1>1 DEF Excused, CkptTasks
<1> QED
  BY <1>1, <1>2, GotNums DEF CInv, CompleteInv, KeepInv

(***************************************************************************)
(* build_next.                                                             *)
(***************************************************************************)

\* Under writes in the window only a threshold checkpoint begins, and it
\* begins with a log that holds frames.
LEMMA RaceBegins ==
  ASSUME CInv, ChainSettings, WindowWrites, pc = "idle", pos.off > 0
  PROVE  slots > 0 /\ pos.off < TruncateFrames /\ store # << >>
<1> USE DEF CInv, CompleteInv
<1>1. Running /\ NoLostAck /\ call.at = "none"
  BY SettingsMean DEF Running, IInv, CtlInv
<1>2. store # << >> /\ pos.off = store[Len(store)].off
  BY <1>1, PositionIs
<1>3. FileAt(store[Len(store)]) /\ store[Len(store)] \in File
  BY <1>2, StoreNums DEF PlaceInv
<1>4. gen > 0 /\ pos.off <= LastHi
  <2>1. PICK f \in File : f = store[Len(store)]
    BY <1>3
  <2>2. f.gen \in Nat /\ f.off \in Nat /\ f.off = pos.off /\ f.hi = LastHi /\ FileAt(f)
    BY <1>2, <1>3, <2>1, StoreNums DEF File
  <2> QED
    BY <2>2, WalNums DEF FileAt
<1>5. slots > 0
  BY <1>1, <1>4, WalNums DEF RaceInv
<1>6. head <= MaxHead + 2 /\ TruncateFrames >= MaxHead + 3
  BY SettingsMean DEF RaceInv
<1>7. pos.off < TruncateFrames
  BY <1>4, <1>6, WalNums, StoreNums, PlanNums, SyncerAssumption, MaxHeadAssumption
<1> QED
  BY <1>2, <1>5, <1>7

\* plan(): the tail begins where the last file ends, or with the generation,
\* which is no later.
LEMMA PlanFollows ==
  ASSUME CInv, ChainSettings, pc = "idle", ~PlanSkips, ~PlanSnapshots
  PROVE  LET p == PlanNext IN
         /\ p.kind = "incremental" /\ slots > 0 /\ p.gen = gen
         /\ store # << >> /\ p.lo <= LastHi /\ p.gen > 0 /\ p.off <= p.lo
         /\ p.off \in {0, pos.off} /\ (p.off > 0 => p.lo = LastHi) /\ p.lo = base + p.off
<1> USE DEF CInv, CompleteInv
<1>1. Running /\ NoLostAck
  BY SettingsMean DEF Running
<1>2. pos.txid > 0 /\ slots > 0
  BY PlanNums, WalNums DEF PlanSkips, PlanSnapshots
<1>3. store # << >> /\ pos.off = store[Len(store)].off /\ pos.gen = store[Len(store)].gen
  BY <1>1, <1>2, PositionIs
<1>4. FileAt(store[Len(store)]) /\ LastHi = store[Len(store)].hi /\ LastHi \in Nat
  BY <1>3, StoreNums DEF PlaceInv
<1>5. LastHi > 0 /\ base <= LastHi /\ gen > 0
  BY <1>2, <1>4, LastKeeps DEF FileAt, Keeps, Kept, PlaceInv
<1>6. PlanOffset \in {0, pos.off} /\ (PlanOffset > 0 => base + PlanOffset = LastHi)
  <2>1. CASE pos.gen # gen \/ pos.off > slots
    BY <2>1 DEF PlanOffset
  <2>2. CASE ~(pos.gen # gen \/ pos.off > slots)
    <3>1. PlanOffset = pos.off
      BY <2>2 DEF PlanOffset
    <3>2. LastHi = base + pos.off
      BY <1>2, <1>3, <1>4, <2>2 DEF FileAt
    <3> QED
      BY <3>1, <3>2
  <2> QED
    BY <2>1, <2>2
<1>7. PlanNext = [kind |-> "incremental", lo |-> base + PlanOffset, hi |-> 0,
                  gen |-> gen, off |-> PlanOffset, len |-> slots]
  BY DEF PlanNext
<1>8. PlanOffset \in Nat /\ PlanOffset <= base + PlanOffset
  BY <1>6, PlanNums, WalNums
<1>9. base + PlanOffset <= LastHi
  BY <1>5, <1>6, <1>8, WalNums
<1> QED
  BY <1>2, <1>3, <1>5, <1>6, <1>7, <1>8, <1>9

LEMMA BuildNextCompletes ==
  ASSUME CInv, ChainSettings, NEW t \in CkptTasks \cup {"sync"}, BuildNext(t),
         t \in CkptTasks /\ WindowWrites => t = "threshold" /\ pos.off > 0 /\ head <= MaxHead
  PROVE  CompleteInv'
<1> USE DEF CInv, CompleteInv
<1>0. /\ pc = "idle" /\ AcquireReadLock
      /\ UNCHANGED <<walVars, pos, store, staging, dirty, faults>>
  BY DEF BuildNext
<1>1. /\ Running /\ call.at = "none" /\ Keeps(LastHi) /\ cur = NoStaged
  BY <1>0, LastKeeps DEF Running, IInv, CtlInv
<1>2. ChainInv'
  BY <1>0, ChainFrame
<1>3. LastHi' = LastHi /\ Keeps(LastHi)'
  <2>1. LastHi' = LastHi
    BY <1>0 DEF LastHi
  <2>2. PICK h \in Nat : h = LastHi
    BY StoreNums
  <2>3. h > 0 => Kept(h)'
    BY <1>0, <1>1, <2>2, KeptAcquire DEF Keeps
  <2> QED
    BY <2>1, <2>2, <2>3 DEF Keeps, Kept
<1>4. /\ "crash" \in Faults => \A f \in staging : DbFile <= f.hi
      /\ DbFile' = DbFile /\ staging' = staging
  BY <1>0 DEF KeepInv, walVars, DbFile
<1>5. CASE /\ ~PlanSkips /\ pc' = "plan" /\ task' = t /\ plan' = PlanNext
           /\ UNCHANGED <<cur, synced, call>>
  <2>1. PlaceInv'
    BY <1>0, <1>5, PlaceFrame
  <2>2. PlanInv'
    <3>1. CASE PlanSnapshots
      BY <1>5, <3>1 DEF PlanInv, PlanNext, NoPlan
    <3>2. CASE ~PlanSnapshots
      BY <1>0, <1>3, <1>5, <3>2, PlanFollows, WalNums DEF PlanInv, walVars
    <3> QED
      BY <3>1, <3>2
  <2>3. LocalInv'
    BY <1>1, <1>5 DEF LocalInv, PlanNext, NoPlan
  <2>4. WindowInv'
    <3>1. CASE PlanSnapshots
      <4>1. ~(t \in CkptTasks /\ WindowWrites)
        <5> SUFFICES ASSUME t \in CkptTasks, WindowWrites PROVE FALSE
          OBVIOUS
        <5>1. slots > 0 /\ store # << >>
          BY <1>0, RaceBegins
        <5>2. pos.txid > 0
          BY <1>0, <1>1, <5>1, PositionIs, SettingsMean
        <5> QED
          BY <3>1, <5>1, <5>2 DEF PlanSnapshots
      <4>2. plan'.kind = "snapshot"
        BY <1>5, <3>1 DEF PlanNext, NoPlan
      <4> QED
        BY <1>5, <4>1, <4>2 DEF WindowInv
    <3>2. CASE ~PlanSnapshots
      BY <1>0, <1>5, <3>2, PlanFollows DEF WindowInv, walVars
    <3> QED
      BY <3>1, <3>2
  <2>5. CapInv'
    BY <1>1, <1>5 DEF CapInv, AtPragma
  <2>6. KeepInv'
    <3>1. Got' = LastHi'
      BY <1>1, <1>5 DEF Got
    <3> QED
      BY <1>3, <1>4, <1>5, <3>1 DEF KeepInv, Running, Keeps, Kept
  <2>7. RaceInv'
    BY <1>0, <1>1, <1>5 DEF RaceInv, walVars, Frames
  <2> QED
    BY <1>2, <2>1, <2>2, <2>3, <2>4, <2>5, <2>6, <2>7
<1>6. CASE PlanSkips /\ Built(t, NoStaged)
  <2>1. pc' \in {"checkpoint", "idle"} /\ cur' = NoStaged /\ call'.at = "none"
        /\ (pc' = "checkpoint" <=> t \in CkptTasks) /\ (pc' = "checkpoint" => task' = t)
        /\ (pc' = "idle" => task' = "sync")
    BY <1>1, <1>6 DEF Built, Return, NoCall
  <2>2. PlaceInv'
    BY <1>0, <2>1, PlaceFrame
  <2>3. PlanInv' /\ LocalInv' /\ WindowInv'
    BY <2>1 DEF PlanInv, LocalInv, WindowInv
  <2>4. Got' = LastHi
    BY <1>3, <2>1 DEF Got
  <2>5. KeepInv'
    BY <1>3, <1>4, <2>1, <2>4 DEF KeepInv, Running, Keeps, Kept
  <2>6. pc' = "checkpoint" => ~WindowWrites
    <3> SUFFICES ASSUME pc' = "checkpoint", WindowWrites PROVE FALSE
      OBVIOUS
    <3>1. slots > 0
      BY <1>0, <2>1, RaceBegins
    <3> QED
      BY <1>6, <3>1 DEF PlanSkips
  <2>7. LastHi = head
    <3>1. base = head /\ store # << >>
      BY <1>0, <1>1, <1>6, WalNums, PositionIs, SettingsMean DEF PlanSkips
    <3>2. LastHi > 0
      BY <3>1, StoreNums DEF PlaceInv, FileAt
    <3> QED
      BY <1>1, <3>1, <3>2, StoreNums, WalNums DEF Keeps, Kept
  <2>8. CapInv'
    BY <1>0, <2>1, <2>4, <2>6, <2>7 DEF CapInv, AtPragma, walVars
  <2>9. RaceInv'
    BY <1>0, <1>1, <2>1, <2>6 DEF RaceInv, walVars, Frames, CkptTasks
  <2> QED
    BY <1>2, <2>2, <2>3, <2>5, <2>8, <2>9
<1> QED
  BY <1>5, <1>6 DEF BuildNext

(***************************************************************************)
(* build_snapshot.                                                         *)
(***************************************************************************)
LEMMA ReadWalCompletes ==
  ASSUME CInv, ReadWal, pc \in {"plan", "check"}, pc' = "snap",
         UNCHANGED <<dbVars, pos, store, staging, cur>>
  PROVE  /\ ChainInv' /\ PlaceInv' /\ PlanInv' /\ LocalInv' /\ CapInv'
         /\ Kept(plan.hi)' /\ plan'.kind = "snapshot" /\ plan'.hi = head
         /\ LastHi' = LastHi /\ Got' = Got /\ DbFile' = DbFile
<1> USE DEF CInv, CompleteInv
<1>1. UNCHANGED <<walVars, pin, call>>
  BY DEF dbVars, walVars
<1>2. ChainInv'
  BY ChainFrame
<1>3. FileAt(plan)'
  <2>1. slots > 0 => gen > 0
    BY DEF PlaceInv
  <2>2. plan'.hi = head /\ (slots = 0 => plan'.gen = 0 /\ plan'.off = 0)
        /\ (slots # 0 => plan'.gen = gen /\ plan'.off = head - base)
    BY DEF ReadWal, Frames
  <2>3. gen' = gen /\ slots' = slots /\ base' = base
    BY <1>1 DEF walVars
  <2> QED
    BY <2>1, <2>2, <2>3, WalNums DEF FileAt
<1>4. PlaceInv'
  BY <1>1, <1>3 DEF PlaceInv, FileAt, walVars
<1>5. PlanInv' /\ LocalInv' /\ CapInv'
  BY DEF PlanInv, LocalInv, CapInv, AtPragma
<1>6. plan'.kind = "snapshot" /\ plan'.hi = head
  BY DEF ReadWal
<1>7. Kept(plan.hi)'
  BY <1>1, <1>6, KeptHead DEF Kept, walVars, DbFile
<1> QED
  BY <1>1, <1>2, <1>4, <1>5, <1>6, <1>7 DEF LastHi, Got, walVars, DbFile

LEMMA SnapshotReadWalCompletes ==
  ASSUME CInv, SnapshotReadWal PROVE CompleteInv'
<1> USE DEF CInv, CompleteInv
<1>1. /\ pc = "plan" /\ plan.kind = "snapshot" /\ ReadWal /\ pc' = "snap" /\ task' = task
      /\ UNCHANGED <<dbVars, pos, store, staging, cur>>
  BY DEF SnapshotReadWal
<1>2. UNCHANGED <<walVars, pin, call>>
  BY <1>1 DEF dbVars, walVars
<1>3. Running /\ call.at = "none" /\ Keeps(LastHi) /\ cur = NoStaged
  BY <1>1, LastKeeps DEF Running, IInv, CtlInv
<1>4. WindowInv'
  BY <1>1, <1>2, ReadWalCompletes DEF WindowInv, walVars
<1>5. KeepInv'
  <2>1. Keeps(Got)'
    BY <1>1, <1>2, <1>3, ReadWalCompletes, GotNums DEF Keeps, Kept, walVars
  <2> QED
    BY <1>1, <2>1, ReadWalCompletes DEF KeepInv, Running
<1>6. RaceInv'
  BY <1>1, <1>2, <1>3 DEF RaceInv, walVars, Frames
<1> QED
  BY <1>1, <1>4, <1>5, <1>6, ReadWalCompletes

LEMMA OverFoldCompletes ==
  ASSUME CInv, OverFold PROVE CompleteInv'
<1> USE DEF CInv, CompleteInv
<1>1. /\ pc = "check" /\ ReadWal /\ pc' = "snap" /\ task' = "overfold"
      /\ UNCHANGED <<dbVars, pos, store, staging, cur>>
  BY DEF OverFold
<1>2. UNCHANGED <<walVars, pin, call>>
  BY <1>1 DEF dbVars, walVars
<1>3. Running /\ call.at = "none"
  BY <1>1 DEF Running, IInv, CtlInv
<1>4. WindowInv'
  BY <1>1 DEF WindowInv, CkptTasks
<1>5. KeepInv'
  <2>1. CASE WindowWrites
    <3>1. Excused'
      BY <1>1, <2>1 DEF Excused
    <3> QED
      BY <1>1, <3>1, ReadWalCompletes DEF KeepInv, Running
  <2>2. CASE ~WindowWrites
    <3>1. Keeps(Got)
      BY <1>3, <2>2 DEF KeepInv, Excused
    <3>2. Keeps(Got)'
      BY <1>1, <1>2, <3>1, ReadWalCompletes DEF Keeps, Kept, walVars
    <3> QED
      BY <1>1, <3>2, ReadWalCompletes DEF KeepInv, Running
  <2> QED
    BY <2>1, <2>2
<1>6. RaceInv'
  BY <1>1, <1>2, <1>3 DEF RaceInv, walVars, Frames, CkptTasks
<1> QED
  BY <1>1, <1>4, <1>5, <1>6, ReadWalCompletes

\* build_next hands a file on: to the upload, or to the checkpoint.
Handed(x, e) ==
  /\ cur' = [file |-> x, toEnd |-> e] /\ task' = task /\ call' = call
  /\ task \in CkptTasks => pc' = "checkpoint" /\ synced' = x.off
  /\ task \notin CkptTasks => pc' = "upload"

\* A file is staged that extends the chain.
LEMMA StagedCompletes ==
  ASSUME CInv, ChainSettings, pc \in {"plan", "snap"},
         NEW x \in File, x.txid = Len(store) + 1, Fits(x), FileAt(x), Kept(x.hi),
         NEW e \in BOOLEAN, staging' = {x}, Handed(x, e),
         UNCHANGED <<walVars, pin, pos, store>>,
         task \in CkptTasks =>
           IF WindowWrites THEN pc = "plan" /\ slots > 0 /\ x.hi = base + x.off ELSE x.hi = head
  PROVE  CompleteInv'
<1> USE DEF CInv, CompleteInv
<1>1. /\ Running /\ call.at = "none" /\ cur = NoStaged
  BY DEF Running, IInv, CtlInv, LocalInv
<1>2. x.txid > 0 /\ x.hi \in Nat /\ x.off \in Nat
  BY StoreNums DEF File
<1>3. [file |-> x, toEnd |-> e] # NoStaged
  BY <1>2 DEF NoStaged, NoFile
<1>4. /\ cur' = [file |-> x, toEnd |-> e] /\ cur' # NoStaged /\ cur'.file = x
      /\ task' = task /\ call' = call
      /\ task \in CkptTasks => pc' = "checkpoint" /\ synced' = x.off
      /\ task \notin CkptTasks => pc' = "upload"
  BY <1>3 DEF Handed
<1>5. pc' \in {"checkpoint", "upload"}
  BY <1>4
<1>6. LastHi' = LastHi /\ Got' = x.hi
  BY <1>4 DEF LastHi, Got
<1>7. ChainInv'
  BY <1>6 DEF ChainInv, ChainComplete, PrevHi, Fits
<1>8. PlaceInv'
  BY <1>5 DEF PlaceInv, FileAt, walVars
<1>9. PlanInv' /\ LocalInv' /\ WindowInv'
  BY <1>4, <1>5 DEF PlanInv, LocalInv, WindowInv
<1>10. CapInv'
  <2>1. AtPragma' => task \in CkptTasks /\ pc' = "checkpoint" /\ synced' = x.off
    BY <1>4, <1>5 DEF AtPragma
  <2> QED
    BY <1>6, <2>1 DEF CapInv, walVars
<1>11. KeepInv'
  <2>1. Keeps(Got)'
    BY <1>6 DEF Keeps, Kept, walVars, DbFile
  <2>2. task = "sync" => Keeps(LastHi)'
    BY <1>6, LastKeeps DEF Keeps, Kept, walVars, DbFile
  <2>3. "crash" \in Faults => DbFile' <= x.hi
    BY SettingsMean DEF Kept, walVars, DbFile
  <2> QED
    BY <1>4, <1>5, <2>1, <2>2, <2>3 DEF KeepInv, Running
<1>12. RaceInv'
  BY <1>1, <1>4, <1>5 DEF RaceInv, walVars, Frames
<1> QED
  BY <1>7, <1>8, <1>9, <1>10, <1>11, <1>12

LEMMA BuildSnapshotCompletes ==
  ASSUME CInv, ChainSettings, BuildSnapshot PROVE CompleteInv'
<1> USE DEF CInv, CompleteInv
<1>1. /\ pc = "snap" /\ Stage(0, plan.hi, plan.gen, plan.off, plan.off >= plan.len)
      /\ UNCHANGED <<walVars, pin, pos, store>>
  BY DEF BuildSnapshot
<1>2. (plan.off >= plan.len) \in BOOLEAN
  BY PlanNums
<1>3. PICK e \in BOOLEAN : e = (plan.off >= plan.len)
  BY <1>2
<1>4. PICK x \in File : /\ x.txid = Len(store) + 1 /\ x.lo = 0 /\ x.hi = plan.hi
                        /\ x.gen = plan.gen /\ x.off = plan.off
                        /\ staging' = {x} /\ Handed(x, e)
  <2>1. PICK h \in Nat, g \in Nat, o \in Nat : h = plan.hi /\ g = plan.gen /\ o = plan.off
    BY PlanNums
  <2>2. Stage(0, h, g, o, e)
    BY <1>1, <1>3, <2>1 DEF Stage
  <2>3. NoLostAck /\ pc \in {"plan", "snap"} /\ IInv /\ 0 \in Nat
    BY <1>1, SettingsMean
  <2>4. PICK x \in File :
          /\ x.txid = Len(store) + 1 /\ x.lo = 0 /\ x.hi = h /\ x.gen = g /\ x.off = o
          /\ staging' = {x} /\ Handed(x, e)
    BY <2>2, <2>3, StageIs DEF Handed
  <2> QED
    BY <2>1, <2>4 DEF Handed
<1>5. FileAt(x) /\ Kept(x.hi)
  BY <1>1, <1>4 DEF PlaceInv, FileAt, KeepInv
<1>6. Fits(x)
  <2>1. AtLeast(plan.hi)
    BY <1>1 DEF IInv, SnapInv
  <2>2. LastHi <= plan.hi
    BY <2>1, StoreNums, PlanNums DEF AtLeast
  <2> QED
    BY <1>4, <2>2, StoreNums DEF Fits
<1>7. task \in CkptTasks => ~WindowWrites /\ x.hi = head
  BY <1>1, <1>4 DEF WindowInv
<1> QED
  BY <1>1, <1>4, <1>5, <1>6, <1>7, StagedCompletes

(***************************************************************************)
(* build_incremental.                                                      *)
(***************************************************************************)
LEMMA BuildIncrementalErrorCompletes ==
  ASSUME CInv, ChainSettings, BuildIncrementalError PROVE CompleteInv'
<1>1. /\ pc = "plan" /\ Return /\ UNCHANGED <<walVars, pin, store>> /\ staging' = staging
  BY DEF BuildIncrementalError
<1>2. call.at = "none" /\ Running /\ Keeps(LastHi)
  BY <1>1, LastKeeps DEF CInv, IInv, CtlInv, Running
<1> QED
  BY <1>1, <1>2, ReturnCompletes

LEMMA BuildIncrementalCompletes ==
  ASSUME CInv, ChainSettings, BuildIncremental PROVE CompleteInv'
<1> USE DEF CInv, CompleteInv
<1>1. /\ pc = "plan" /\ plan.kind = "incremental" /\ UNCHANGED <<walVars, pin, pos, store>>
  BY DEF BuildIncremental
<1>2. /\ Running /\ call.at = "none" /\ Keeps(LastHi) /\ cur = NoStaged
  BY <1>1, LastKeeps DEF Running, IInv, CtlInv
<1>3. /\ store # << >> /\ plan.lo <= LastHi /\ plan.lo > 0
      /\ plan.gen > 0 /\ plan.gen <= gen /\ plan.off <= plan.lo
      /\ plan.off \in {0, pos.off} /\ (plan.off > 0 => plan.lo = LastHi)
      /\ slots > 0 /\ plan.gen = gen => plan.lo = base + plan.off
  BY <1>1 DEF PlanInv, IInv, SnapInv
<1>4. base <= LastHi /\ LastHi > 0
  BY <1>2, <1>3, StoreNums, PlanNums DEF Keeps, Kept
<1>5. CASE TailEnd > plan.lo
  <2>1. plan.gen = gen /\ slots > 0 /\ TailEnd = head
    <3>1. CASE plan.gen = gen /\ slots > 0
      BY <3>1 DEF TailEnd
    <3>2. CASE ~(plan.gen = gen /\ slots > 0) /\ plan.gen # gen /\ plan.off > 0
      <4>1. TailEnd = base
        BY <3>2 DEF TailEnd
      <4> QED
        BY <1>3, <1>4, <1>5, <3>2, <4>1, StoreNums, WalNums, PlanNums
    <3>3. CASE ~(plan.gen = gen /\ slots > 0) /\ ~(plan.gen # gen /\ plan.off > 0)
      <4>1. TailEnd = plan.lo
        BY <3>3 DEF TailEnd
      <4> QED
        BY <1>5, <4>1, PlanNums
    <3> QED
      BY <3>1, <3>2, <3>3
  <2> DEFINE off == plan.off + (TailEnd - plan.lo)
  <2>2. off = head - base /\ off \in Nat /\ plan.lo = base + plan.off
    <3>1. plan.lo = base + plan.off
      BY <1>3, <2>1
    <3>2. off = plan.off + (head - plan.lo)
      BY <2>1
    <3> QED
      BY <3>1, <3>2, WalNums, PlanNums
  <2>3. Stage(plan.lo, TailEnd, plan.gen, off, off >= plan.len)
    BY <1>5, Zenon DEF BuildIncremental
  <2> HIDE DEF off
  <2>4. (off >= plan.len) \in BOOLEAN
    BY <2>2, PlanNums
  <2>5. PICK e \in BOOLEAN : e = (off >= plan.len)
    BY <2>4
  <2>6. PICK x \in File : /\ x.txid = Len(store) + 1 /\ x.lo = plan.lo /\ x.hi = head
                          /\ x.gen = gen /\ x.off = head - base
                          /\ staging' = {x} /\ Handed(x, e)
    <3>1. PICK l \in Nat, h \in Nat, g \in Nat, o \in Nat :
            l = plan.lo /\ h = head /\ g = gen /\ o = off
      BY <2>2, PlanNums, WalNums
    <3>2. Stage(l, h, g, o, e)
      BY <2>1, <2>3, <2>5, <3>1 DEF Stage
    <3>3. NoLostAck /\ pc \in {"plan", "snap"} /\ IInv
      BY <1>1, SettingsMean
    <3>4. PICK x \in File :
            /\ x.txid = Len(store) + 1 /\ x.lo = l /\ x.hi = h /\ x.gen = g /\ x.off = o
            /\ staging' = {x} /\ Handed(x, e)
      BY <3>2, <3>3, StageIs DEF Handed
    <3> QED
      BY <2>2, <3>1, <3>4 DEF Handed
  <2>7. FileAt(x)
    BY <1>3, <2>1, <2>6, WalNums DEF FileAt
  <2>8. Fits(x)
    BY <1>3, <2>6, StoreNums DEF Fits
  <2>9. Kept(x.hi)
    BY <2>6, KeptHead
  <2>10. x.hi = base + x.off
    BY <2>6, WalNums
  <2> QED
    BY <1>1, <2>1, <2>6, <2>7, <2>8, <2>9, <2>10, StagedCompletes
<1>6. CASE ~(TailEnd > plan.lo)
  <2>1. Built(task, NoStaged) /\ staging' = staging
    BY <1>6 DEF BuildIncremental
  <2>2. CASE task \notin CkptTasks
    <3>1. Return
      BY <2>1, <2>2 DEF Built
    <3> QED
      BY <1>1, <1>2, <2>1, <3>1, ReturnCompletes
  <2>3. CASE task \in CkptTasks
    <3>1. /\ pc' = "checkpoint" /\ task' = task /\ cur' = NoStaged /\ call' = call
          /\ synced' = pos.off
      BY <2>1, <2>3 DEF Built
    <3>2. LastHi' = LastHi /\ Got' = LastHi
      BY <1>1, <3>1 DEF LastHi, Got
    <3>3. ChainInv' /\ PlaceInv'
      BY <1>1, <2>1, <3>1, ChainFrame, PlaceFrame
    <3>4. PlanInv' /\ LocalInv' /\ WindowInv'
      BY <2>3, <3>1 DEF PlanInv, LocalInv, WindowInv
    <3>5. plan.gen = gen /\ (WindowWrites => slots > 0)
      BY <1>1, <2>3 DEF WindowInv
    <3>6. LastHi = head
      <4>1. CASE slots > 0
        <5>1. TailEnd = head
          BY <3>5, <4>1 DEF TailEnd
        <5>2. ~(head > plan.lo)
          BY <1>6, <5>1
        <5>3. plan.lo <= LastHi
          BY <1>3
        <5>4. PICK h \in Nat, l \in Nat, p \in Nat : h = head /\ l = LastHi /\ p = plan.lo
          BY StoreNums, WalNums, PlanNums
        <5>5. l <= h /\ p <= l /\ ~(h > p)
          BY <5>2, <5>3, <5>4, StoreNums
        <5>6. l = h
          BY <5>5
        <5> QED
          BY <5>4, <5>6
      <4>2. CASE slots = 0
        BY <1>4, <4>2, StoreNums, WalNums
      <4> QED
        BY <4>1, <4>2, WalNums
    <3>7. WindowWrites => slots > 0 /\ LastHi = base + pos.off
      <4> SUFFICES ASSUME WindowWrites PROVE slots > 0 /\ LastHi = base + pos.off
        OBVIOUS
      <4>1. slots > 0 /\ backfill < head - base
        BY <1>2, <3>5, WalNums DEF RaceInv, Frames
      <4>2. TailEnd = head /\ plan.lo = base + plan.off
        BY <1>3, <3>5, <4>1 DEF TailEnd
      <4>3. LastHi = base + plan.off
        BY <1>3, <1>6, <3>6, <4>2, StoreNums, WalNums, PlanNums
      <4>4. plan.off # 0
        BY <3>6, <4>1, <4>3, WalNums
      <4> QED
        BY <1>3, <4>1, <4>3, <4>4
    <3>8. CapInv'
      BY <1>1, <3>1, <3>2, <3>6, <3>7 DEF CapInv, walVars
    <3>9. KeepInv'
      <4>1. Keeps(Got)'
        BY <1>1, <1>2, <3>2 DEF Keeps, Kept, walVars, DbFile
      <4> QED
        BY <1>1, <2>1, <3>1, <4>1 DEF KeepInv, Running, walVars, DbFile
    <3>10. RaceInv'
      BY <1>1, <1>2, <3>1 DEF RaceInv, walVars, Frames
    <3> QED
      BY <3>3, <3>4, <3>8, <3>9, <3>10
  <2> QED
    BY <2>2, <2>3
<1> QED
  BY <1>5, <1>6

(***************************************************************************)
(* run_checkpoint.                                                         *)
(***************************************************************************)

\* What the pragma may fold: nothing above what is captured, or the fold is
\* noticed.  A staged file left by a failed upload is as new as the capture.
LEMMA StagedAhead ==
  ASSUME CInv, ChainSettings, Running, pc # "uploaded", Got = head
  PROVE  \A f \in staging : f.hi = head
<1> SUFFICES ASSUME NEW f \in staging PROVE f.hi = head
  OBVIOUS
<1>1. f.txid = Len(store) + 1 /\ f \in File
  BY StagedNext, SettingsMean DEF CInv
<1>2. f.hi <= head /\ f.hi \in Nat /\ LastHi <= f.hi
  BY <1>1 DEF CInv, CompleteInv, ChainInv, Fits, IInv, FilesInv, StagedInv, Sound, File
<1>3. CASE cur = NoStaged
  BY <1>2, <1>3, GotNums, StoreNums DEF CInv
<1>4. CASE cur # NoStaged
  BY <1>4, GotNums, OneStaged DEF CInv
<1> QED
  BY <1>3, <1>4

LEMMA RunCheckpointCompletes ==
  ASSUME CInv, ChainSettings, RunCheckpoint PROVE CompleteInv'
<1> USE DEF CInv, CompleteInv
<1>1. /\ pc = "checkpoint" /\ pc' = "checkpointing" /\ call.at = "none"
      /\ UNCHANGED <<walVars, task, cur, synced, pos, store, staging>>
      /\ pin' = Unpinned
      /\ call' = [at |-> "pragma", mode |-> IF task = "truncate" THEN "truncate" ELSE "passive",
                  restart |-> task # "timed", hadLock |-> pin.held, folded |-> 0]
  BY DEF RunCheckpoint, CheckpointBegin, ReleaseReadLock, locals
<1>2. task \in CkptTasks /\ Running /\ AtPragma
  BY <1>1 DEF LocalInv, Running, AtPragma
<1>3. call'.at = "pragma" /\ pin'.mark = -1
  BY <1>1 DEF Unpinned, NoMark
<1>4. ChainInv' /\ PlaceInv'
  BY <1>1, ChainFrame, PlaceFrame
<1>5. PlanInv' /\ LocalInv' /\ WindowInv'
  BY <1>1, <1>2 DEF PlanInv, LocalInv, WindowInv
<1>6. LastHi' = LastHi /\ Got' = Got
  BY <1>1 DEF LastHi, Got
<1>7. CapInv'
  BY <1>1, <1>2, <1>6 DEF CapInv, walVars
<1>8. Keeps(Got)'
  <2>1. CASE WindowWrites
    <3>1. Keeps(Got) /\ "app_checkpoint" \notin Faults
      BY <1>1, <1>2, <2>1, SettingsMean DEF KeepInv, Excused, CkptTasks
    <3> QED
      BY <1>1, <1>6, <3>1 DEF Keeps, Kept, walVars, DbFile
  <2>2. CASE ~WindowWrites
    <3>1. Got = head
      BY <1>2, <2>2 DEF CapInv
    <3> QED
      BY <1>1, <1>6, <3>1, WalNums DEF Keeps, Kept, walVars, DbFile
  <2> QED
    BY <2>1, <2>2
<1>9. KeepInv'
  BY <1>1, <1>8 DEF KeepInv, Running, walVars, DbFile
<1>10. RaceInv'
  <2> SUFFICES ASSUME WindowWrites PROVE RaceInv'
    BY DEF RaceInv
  <2>1. task = "threshold" /\ head <= MaxHead
    BY <1>1, <1>2 DEF RaceInv
  <2>2. call'.mode = "passive" /\ call'.restart
    BY <1>1, <2>1
  <2> QED
    BY <1>1, <1>3, <2>1, <2>2 DEF RaceInv, walVars, Frames
<1> QED
  BY <1>4, <1>5, <1>7, <1>9, <1>10

\* A PRAGMA of the call: the log loses frames only to the database file.
LEMMA PragmaCompletes ==
  ASSUME CInv, ChainSettings, pc = "checkpointing", call.at = "pragma",
         UNCHANGED syncVars, pin' = pin, call'.at \in {"bump", "acquire"},
         call'.mode = call.mode, call'.restart = call.restart,
         PlaceMove, gen' = gen, head' = head, base' \in Nat, backfill' \in Nat,
         DbFile' <= head, base' = base \/ ~WindowWrites,
         WindowWrites =>
           /\ DbFile' <= Got \/ OverFolded'
           /\ call'.at = "bump" \/ UNCHANGED walVars
  PROVE  CompleteInv'
<1> USE DEF CInv, CompleteInv
<1>1. UNCHANGED <<pc, task, pos, store, staging, plan, cur, synced>>
  BY DEF syncVars
<1>2. task \in CkptTasks /\ Running /\ AtPragma
  BY DEF LocalInv, Running, AtPragma
<1>3. LastHi' = LastHi /\ Got' = Got
  BY <1>1 DEF LastHi, Got
<1>4. ChainInv'
  BY <1>1, ChainFrame
<1>5. PlaceInv'
  BY <1>1, PlaceMoves
<1>6. PlanInv' /\ LocalInv' /\ WindowInv' /\ CapInv'
  BY <1>1, <1>2 DEF PlanInv, LocalInv, WindowInv, CapInv, AtPragma
<1>7. base' <= DbFile' /\ DbFile' \in Nat
  <2>1. PICK b \in Nat, k \in Nat : b = base' /\ k = backfill'
    OBVIOUS
  <2>2. b <= b + k /\ b + k \in Nat
    OBVIOUS
  <2> QED
    BY <2>1, <2>2 DEF DbFile
<1>8. KeepInv'
  <2>1. CASE WindowWrites
    <3>1. Keeps(Got) /\ "crash" \notin Faults
      BY <1>2, <2>1, SettingsMean DEF KeepInv, Excused, CkptTasks
    <3>2. Keeps(Got)' \/ Excused'
      <4>1. CASE DbFile' <= Got
        BY <1>3, <1>7, <4>1, GotNums DEF Keeps, Kept
      <4>2. CASE OverFolded'
        BY <1>1, <1>2, <2>1, <4>2 DEF Excused
      <4> QED
        BY <2>1, <4>1, <4>2
    <3> QED
      BY <1>1, <3>1, <3>2 DEF KeepInv, Running
  <2>2. CASE ~WindowWrites
    <3>1. Got = head
      BY <1>2, <2>2 DEF CapInv
    <3>2. Keeps(Got)'
      BY <1>3, <1>7, <3>1, WalNums DEF Keeps, Kept
    <3>3. \A f \in staging : f.hi = head
      BY <1>2, <3>1, StagedAhead
    <3> QED
      BY <1>1, <3>2, <3>3 DEF KeepInv, Running
  <2> QED
    BY <2>1, <2>2
<1>9. RaceInv'
  <2> SUFFICES ASSUME WindowWrites PROVE RaceInv'
    BY DEF RaceInv
  <2>1. head <= MaxHead /\ call.mode = "passive" /\ call.restart
    BY <1>2 DEF RaceInv
  <2>2. call'.at # "bump" => IF slots' = 0 THEN gen' = 0 ELSE backfill' < Frames'
    BY DEF RaceInv, walVars, Frames
  <2> QED
    BY <1>1, <2>1, <2>2 DEF RaceInv
<1> QED
  BY <1>4, <1>5, <1>6, <1>8, <1>9

LEMMA CheckpointLockedCompletes ==
  ASSUME CInv, ChainSettings, CheckpointLocked PROVE CompleteInv'
<1>1. /\ pc = "checkpointing" /\ call.at = "pragma" /\ UNCHANGED <<walVars, pin>>
      /\ PragmaDone(TRUE, -1)
      /\ UNCHANGED <<pc, task, plan, cur, synced, pos, store, staging, dirty>>
  BY DEF CheckpointLocked, PragmaLocked, locals
<1>2. /\ call'.at = "acquire" /\ call'.mode = call.mode /\ call'.restart = call.restart
      /\ call'.folded = -1
  BY <1>1 DEF PragmaDone, CInv, IInv, DbInv, CallInv, CallType
<1> USE DEF CInv, CompleteInv
<1>3. task \in CkptTasks /\ Running
  BY <1>1 DEF LocalInv, Running
<1>4. ChainInv' /\ PlaceInv'
  BY <1>1, ChainFrame, PlaceFrame
<1>5. PlanInv' /\ LocalInv' /\ WindowInv' /\ CapInv'
  BY <1>1, <1>2, <1>3 DEF PlanInv, LocalInv, WindowInv, CapInv, AtPragma
<1>6. KeepInv'
  <2>1. Keeps(Got)
    BY <1>1, <1>3 DEF KeepInv, Excused, CkptTasks
  <2>2. Keeps(Got)'
    BY <1>1, <2>1 DEF Keeps, Kept, Got, LastHi, walVars, DbFile
  <2> QED
    BY <1>1, <2>2 DEF KeepInv, Running, walVars, DbFile
<1>7. RaceInv'
  BY <1>1, <1>2 DEF RaceInv, walVars, Frames
<1> QED
  BY <1>4, <1>5, <1>6, <1>7

LEMMA CheckpointStepCompletes ==
  ASSUME CInv, ChainSettings, CheckpointStep PROVE CompleteInv'
<1> USE DEF CInv, CompleteInv
<1>1. pc = "checkpointing" /\ UNCHANGED syncVars
  BY DEF CheckpointStep
<1>2. task \in CkptTasks /\ Running /\ CallType
  BY <1>1 DEF LocalInv, Running, IInv, DbInv, CallInv
<1>3. WindowWrites => call.mode = "passive" /\ call.restart
  BY <1>1 DEF RaceInv
<1>4. ASSUME call.at = "pragma", NEW k \in backfill .. Frames, FoldTo(k), pin' = pin,
             NEW busy \in BOOLEAN, PragmaDone(busy, k),
             WindowWrites => ~busy
      PROVE  CompleteInv'
  <2>1. /\ call'.at \in {"bump", "acquire"} /\ call'.mode = call.mode
        /\ call'.restart = call.restart /\ call'.folded = k
        /\ WindowWrites => call'.at = "bump"
    BY <1>2, <1>3, <1>4 DEF PragmaDone, CallType
  <2>2. /\ head' = head /\ gen' = gen /\ base' = base /\ slots' = slots /\ backfill' = k
        /\ k \in Nat /\ base + k <= head
    BY <1>4, WalNums DEF FoldTo, Frames
  <2>3. PlaceMove /\ DbFile' = base + k
    BY <2>2 DEF PlaceMove, DbFile
  <2>4. WindowWrites => DbFile' <= Got \/ OverFolded'
    <3> SUFFICES ASSUME WindowWrites PROVE DbFile' <= Got \/ OverFolded'
      OBVIOUS
    <3>1. Got = base + synced
      BY <1>1, <1>4 DEF CapInv, AtPragma
    <3>2. OverFolded' <=> k > synced
      BY <1>1, <2>1, <2>2 DEF OverFolded, syncVars
    <3> QED
      BY <2>2, <2>3, <3>1, <3>2, WalNums, PlanNums
  <2> QED
    BY <1>1, <1>4, <2>1, <2>2, <2>3, <2>4, WalNums, PragmaCompletes
<1>5. CASE PragmaPassive
  <2>1. PICK k \in backfill .. Frames : FoldTo(k) /\ PragmaDone(FALSE, k)
    BY <1>5 DEF PragmaPassive
  <2> QED
    BY <1>4, <1>5, <2>1 DEF PragmaPassive
<1>6. CASE PragmaTruncateBusy
  <2>1. PICK k \in backfill .. Frames : FoldTo(k) /\ PragmaDone(TRUE, k)
    BY <1>6 DEF PragmaTruncateBusy
  <2> QED
    BY <1>3, <1>4, <1>6, <2>1 DEF PragmaTruncateBusy
<1>7. CASE PragmaTruncate
  <2>1. ~WindowWrites
    BY <1>3, <1>7 DEF PragmaTruncate
  <2>2. /\ call.at = "pragma" /\ call'.at = "acquire" /\ call'.mode = call.mode
        /\ call'.restart = call.restart /\ pin' = pin
    BY <1>2, <1>7 DEF PragmaTruncate, PragmaDone, CallType
  <2>3. base' = head /\ backfill' = 0 /\ slots' = 0 /\ head' = head /\ gen' = gen
    BY <1>7 DEF PragmaTruncate, ResetLog
  <2>4. PlaceMove /\ DbFile' = head
    BY <2>3, WalNums DEF PlaceMove, DbFile
  <2> QED
    BY <1>1, <2>1, <2>2, <2>3, <2>4, WalNums, PragmaCompletes
<1>8. CASE BumpSeq
  <2>1. PICK fresh \in BOOLEAN : Commit(fresh)
    BY <1>8 DEF BumpSeq
  <2>2. /\ call.at = "bump" /\ call'.at = "acquire" /\ call'.mode = call.mode
        /\ call'.restart = call.restart /\ call'.folded = call.folded /\ pin' = pin
    BY <1>2, <1>8 DEF BumpSeq, CallType
  <2>3. /\ PlaceMove /\ KeepMove /\ DbFile' = DbFile /\ head' = head + 1
        /\ slots' > 0 /\ backfill' < Frames'
    BY <2>1, <2>2, CommitMoves
  <2>4. /\ ChainInv' /\ PlaceInv' /\ LastHi' = LastHi /\ Got' = Got
        /\ Keeps(Got) => Keeps(Got)'
    BY <1>1, <2>3, LogMoves DEF syncVars
  <2>5. PlanInv' /\ LocalInv' /\ WindowInv' /\ CapInv'
    BY <1>1, <1>2, <2>2 DEF PlanInv, LocalInv, WindowInv, CapInv, AtPragma, syncVars
  <2>6. KeepInv'
    <3>1. Excused => Excused'
      BY <1>1, <2>2 DEF Excused, OverFolded, syncVars
    <3> QED
      BY <1>1, <1>2, <2>3, <2>4, <3>1 DEF KeepInv, Running, syncVars
  <2>7. RaceInv'
    <3> SUFFICES ASSUME WindowWrites PROVE RaceInv'
      BY DEF RaceInv
    <3>1. head <= MaxHead
      BY <1>2, <2>2 DEF RaceInv
    <3> QED
      BY <1>1, <2>2, <2>3, <3>1, WalNums, MaxHeadAssumption DEF RaceInv, syncVars
  <2> QED
    BY <2>4, <2>5, <2>6, <2>7
<1> QED
  BY <1>5, <1>6, <1>7, <1>8 DEF CheckpointStep

LEMMA CheckpointReturnCompletes ==
  ASSUME CInv, ChainSettings, CheckpointReturn PROVE CompleteInv'
<1> USE DEF CInv, CompleteInv
<1>1. /\ pc = "checkpointing" /\ call.at = "acquire" /\ UNCHANGED walVars
      /\ call' = [call EXCEPT !.at = "none"] /\ AcquireReadLock
      /\ pc' = (IF cur = NoStaged THEN "check" ELSE "upload")
      /\ UNCHANGED <<task, plan, cur, synced, pos, store, staging>>
  BY DEF CheckpointReturn, CheckpointEnd, locals, IInv, CtlInv
<1>2. task \in CkptTasks /\ Running /\ CallType
  BY <1>1 DEF LocalInv, Running, IInv, DbInv, CallInv
<1>3. /\ call'.at = "none" /\ call'.folded = call.folded
      /\ pc' \in {"check", "upload"} /\ (pc' = "check" => cur = NoStaged)
  BY <1>1, <1>2 DEF CallType
<1>4. ChainInv' /\ PlaceInv'
  BY <1>1, <1>3, ChainFrame, PlaceFrame
<1>5. PlanInv' /\ LocalInv' /\ WindowInv' /\ CapInv'
  BY <1>1, <1>2, <1>3 DEF PlanInv, LocalInv, WindowInv, CapInv, AtPragma
<1>6. Keeps(Got) => Keeps(Got)'
  <2>1. PICK h \in Nat : h = Got
    BY GotNums
  <2>2. Got' = h
    BY <1>1, <2>1 DEF Got, LastHi
  <2>3. Kept(h) => Kept(h)'
    BY <1>1, KeptAcquire
  <2> QED
    BY <2>1, <2>2, <2>3 DEF Keeps, Kept
<1>7. KeepInv'
  <2>1. Excused => Excused'
    BY <1>1, <1>2, <1>3 DEF Excused, OverFolded
  <2> QED
    BY <1>1, <1>2, <1>3, <1>6, <2>1 DEF KeepInv, Running, CkptTasks, walVars, DbFile
<1>8. RaceInv'
  BY <1>1, <1>2, <1>3 DEF RaceInv, walVars, Frames
<1> QED
  BY <1>4, <1>5, <1>7, <1>8

LEMMA CheckpointDoneCompletes ==
  ASSUME CInv, ChainSettings, CheckpointDone PROVE CompleteInv'
<1>1. pc = "check" /\ ~OverFolded /\ Return /\ UNCHANGED <<walVars, pin, store>> /\ staging' = staging
  BY DEF CheckpointDone
<1>2. call.at = "none" /\ Running /\ Keeps(LastHi)
  BY <1>1, LastKeeps DEF CInv, IInv, CtlInv, Running
<1> QED
  BY <1>1, <1>2, ReturnCompletes

(***************************************************************************)
(* upload_staged.                                                          *)
(***************************************************************************)

\* The chain grows by a file that fits, which is then no longer ahead of it.
LEMMA ChainGrows ==
  ASSUME CInv, NEW f \in staging, store' = Append(store, f), Fits(f), f.txid = Len(store) + 1,
         staging' \subseteq staging
  PROVE  ChainInv' /\ store' # << >> /\ store'[Len(store')] = f /\ LastHi' = f.hi
<1> USE DEF CInv, CompleteInv
<1>1. f \in File /\ staging = {f} /\ store \in Seq(File) /\ Len(store) \in Nat
  BY OneStaged, StoreNums
<1>2. /\ Len(store') = Len(store) + 1 /\ store'[Len(store) + 1] = f
      /\ \A n \in 1 .. Len(store) : store'[n] = store[n]
      /\ store' # << >>
  BY <1>1
<1>3. LastHi' = f.hi
  BY <1>2 DEF LastHi
<1>4. ASSUME NEW n \in Nat, n = Len(store) + 1 PROVE PrevHi(n)' = LastHi
  <2>1. CASE store = << >>
    <3>1. n = 1 /\ LastHi = 0
      BY <1>4, <2>1, StoreNums
    <3> QED
      BY <3>1 DEF PrevHi
  <2>2. CASE store # << >>
    <3>1. n # 1 /\ n - 1 = Len(store) /\ Len(store) \in 1 .. Len(store)
      BY <1>4, <2>2, StoreNums
    <3>2. store'[n - 1] = store[Len(store)]
      BY <1>2, <3>1
    <3> QED
      BY <2>2, <3>1, <3>2, StoreNums DEF PrevHi
  <2> QED
    BY <2>1, <2>2
<1>5. ASSUME NEW n \in 1 .. Len(store)
      PROVE  store'[n].lo <= PrevHi(n)' /\ PrevHi(n)' <= store'[n].hi
  <2>1. store'[n] = store[n] /\ (n # 1 => n - 1 \in 1 .. Len(store))
    BY <1>1, <1>2
  <2>2. PrevHi(n)' = PrevHi(n)
    BY <1>2, <2>1 DEF PrevHi
  <2> QED
    BY <2>1, <2>2 DEF ChainInv, ChainComplete
<1>6. ChainComplete'
  <2> SUFFICES ASSUME NEW n \in 1 .. Len(store) + 1
               PROVE  store'[n].lo <= PrevHi(n)' /\ PrevHi(n)' <= store'[n].hi
    BY <1>2 DEF ChainComplete
  <2>1. CASE n = Len(store) + 1
    <3>1. PrevHi(n)' = LastHi /\ store'[n] = f
      BY <1>1, <1>2, <1>4, <2>1
    <3> QED
      BY <3>1 DEF Fits
  <2>2. CASE n # Len(store) + 1
    <3>1. n \in 1 .. Len(store)
      BY <1>1, <2>2
    <3> QED
      BY <1>5, <3>1
  <2> QED
    BY <2>1, <2>2
<1>7. \A g \in staging' : g.txid # Len(store') + 1
  BY <1>1, <1>2
<1> QED
  BY <1>2, <1>3, <1>6, <1>7 DEF ChainInv

LEMMA UploadCompletes ==
  ASSUME CInv, ChainSettings, Upload PROVE CompleteInv'
<1> USE DEF CInv, CompleteInv
<1>1. /\ pc = "upload" /\ pc' = "uploaded" /\ Put(cur.file)
      /\ UNCHANGED <<walVars, pin, call, task, plan, cur, synced, pos, staging>>
  BY DEF Upload, locals, dbVars, walVars
<1>2. Running /\ call.at = "none" /\ cur # NoStaged
  BY <1>1 DEF Running, IInv, CtlInv, FilesInv, CurInv
<1>3. PICK f \in staging : f = cur.file
  BY <1>2, GotNums
<1>4. f.txid = Len(store) + 1 /\ f \in File /\ Len(store) \in Nat
  BY <1>1, <1>2, StagedNext, SettingsMean, StoreNums
<1>5. store' = Append(store, f)
  BY <1>1, <1>3, <1>4, PutIs
<1>6. Fits(f) /\ FileAt(f)
  BY <1>4 DEF ChainInv, PlaceInv
<1>7. ChainInv' /\ store' # << >> /\ store'[Len(store')] = f
  BY <1>1, <1>4, <1>5, <1>6, ChainGrows
<1>8. PlaceInv'
  BY <1>1, <1>6, <1>7 DEF PlaceInv, FileAt, walVars
<1>9. PlanInv' /\ LocalInv' /\ WindowInv' /\ CapInv'
  BY <1>1 DEF PlanInv, LocalInv, WindowInv, CapInv, AtPragma
<1>10. Got' = Got
  BY <1>1, <1>2 DEF Got
<1>11. KeepInv'
  <2>1. Excused => Excused'
    BY <1>1 DEF Excused, OverFolded
  <2>2. Keeps(Got) => Keeps(Got)'
    BY <1>1, <1>10 DEF Keeps, Kept, walVars, DbFile
  <2> QED
    BY <1>1, <1>2, <2>1, <2>2 DEF KeepInv, Running, walVars, DbFile
<1>12. RaceInv'
  BY <1>1, <1>2 DEF RaceInv, walVars, Frames
<1> QED
  BY <1>7, <1>8, <1>9, <1>11, <1>12

\* Only a sync's upload fails: its last file still keeps the rest.
LEMMA UploadFailsCompletes ==
  ASSUME CInv, ChainSettings, UploadFails PROVE CompleteInv'
<1>1. /\ pc = "upload" /\ Return /\ UNCHANGED <<walVars, pin, store>> /\ staging' = staging
      /\ task = "sync"
  BY SettingsMean DEF UploadFails, Fault
<1>2. call.at = "none" /\ Running /\ Keeps(LastHi)
  BY <1>1 DEF CInv, CompleteInv, KeepInv, IInv, CtlInv, Running
<1> QED
  BY <1>1, <1>2, ReturnCompletes

LEMMA UploadDoneCompletes ==
  ASSUME CInv, ChainSettings, UploadDone PROVE CompleteInv'
<1> USE DEF CInv, CompleteInv
<1>1. /\ pc = "uploaded" /\ staging' \subseteq staging
      /\ UNCHANGED <<walVars, pin, store>>
  BY DEF UploadDone
<1>2. Running /\ call.at = "none" /\ cur # NoStaged
  BY <1>1 DEF Running, IInv, CtlInv, FilesInv, CurInv
<1>3. Got = LastHi /\ store # << >>
  <2>1. store[Len(store)] = cur.file /\ pos.txid + 1 = Len(store)
    BY <1>1, <1>2, SettingsMean DEF IInv, FilesInv, PosInv, NoLostAck
  <2>2. store # << >>
    BY <2>1, PlanNums
  <2> QED
    BY <1>2, <2>1, <2>2 DEF Got, LastHi
<1>4. CASE task \notin CkptTasks
  <2>1. Return
    BY <1>4 DEF UploadDone
  <2>2. Keeps(LastHi)
    BY <1>1, <1>2, <1>3, <1>4 DEF KeepInv, Excused
  <2> QED
    BY <1>1, <1>2, <2>1, <2>2, ReturnCompletes
<1>5. CASE task \in CkptTasks
  <2>1. pc' = "check" /\ cur' = NoStaged /\ UNCHANGED <<task, plan, synced, call>>
    BY <1>5 DEF UploadDone
  <2>2. LastHi' = LastHi /\ Got' = Got
    BY <1>1, <1>3, <2>1 DEF LastHi, Got
  <2>3. ChainInv' /\ PlaceInv'
    BY <1>1, <2>1, ChainFrame, PlaceFrame
  <2>4. PlanInv' /\ LocalInv' /\ WindowInv' /\ CapInv'
    BY <1>5, <2>1 DEF PlanInv, LocalInv, WindowInv, CapInv, AtPragma
  <2>5. KeepInv'
    <3>1. Excused => Excused'
      BY <1>1, <1>5, <2>1 DEF Excused, OverFolded
    <3>2. Keeps(Got) => Keeps(Got)'
      BY <1>1, <2>2 DEF Keeps, Kept, walVars, DbFile
    <3> QED
      BY <1>1, <1>2, <2>1, <3>1, <3>2 DEF KeepInv, Running, walVars, DbFile
  <2>6. RaceInv'
    BY <1>1, <1>2, <2>1 DEF RaceInv, walVars, Frames
  <2> QED
    BY <2>3, <2>4, <2>5, <2>6
<1> QED
  BY <1>4, <1>5

(***************************************************************************)
(* Restarts.                                                               *)
(***************************************************************************)
LEMMA CrashCompletes ==
  ASSUME CInv, ChainSettings, Crash PROVE CompleteInv'
<1> USE DEF CInv, CompleteInv
<1>1. /\ pc' = "down" /\ call' = NoCall /\ task' = "sync" /\ cur' = NoStaged
      /\ UNCHANGED <<walVars, store, staging>>
      /\ "crash" \in Faults
  BY DEF Crash, Fault
<1>2. "app_checkpoint" \notin Faults /\ ~WindowWrites
  BY <1>1, SettingsMean
<1>3. ChainInv' /\ PlaceInv'
  BY <1>1, ChainFrame, PlaceFrame
<1>4. PlanInv' /\ LocalInv' /\ WindowInv' /\ CapInv'
  BY <1>1 DEF PlanInv, LocalInv, WindowInv, CapInv, AtPragma
<1>5. staging = {} => Keeps(LastHi)
  <2> SUFFICES ASSUME staging = {} PROVE Keeps(LastHi)
    OBVIOUS
  <2>1. CASE Running
    BY <1>2, <2>1, GotNums DEF KeepInv, Excused
  <2>2. CASE ~Running
    BY <2>2 DEF KeepInv
  <2> QED
    BY <2>1, <2>2
<1>6. LastHi' = LastHi
  BY <1>1 DEF LastHi
<1>7. staging = {} => Keeps(LastHi)'
  BY <1>1, <1>2, <1>5, <1>6 DEF Keeps, Kept, walVars, DbFile
<1>8. KeepInv'
  BY <1>1, <1>7 DEF KeepInv, Running, walVars, DbFile
<1>9. RaceInv'
  BY <1>2 DEF RaceInv
<1> QED
  BY <1>3, <1>4, <1>8, <1>9

LEMMA DownCompletes ==
  ASSUME CInv, Open \/ OpenFails PROVE CompleteInv'
<1> USE DEF CInv, CompleteInv
<1>1. /\ pc \in {"down", "recover"} /\ pc' \in {"down", "recover"}
      /\ UNCHANGED <<walVars, pin, call, task, plan, cur, synced, pos, store, staging>>
  BY DEF Open, OpenFails, locals, dbVars, walVars
<1>2. ~Running /\ call.at = "none"
  BY <1>1 DEF Running, IInv, CtlInv
<1>3. ChainInv' /\ PlaceInv'
  BY <1>1, ChainFrame, PlaceFrame
<1>4. PlanInv' /\ LocalInv' /\ WindowInv' /\ CapInv'
  BY <1>1 DEF PlanInv, LocalInv, WindowInv, CapInv, AtPragma
<1>5. KeepInv'
  <2>1. Keeps(LastHi) => Keeps(LastHi)'
    BY <1>1 DEF Keeps, Kept, LastHi, walVars, DbFile
  <2> QED
    BY <1>1, <1>2, <2>1 DEF KeepInv, Running, walVars, DbFile
<1>6. RaceInv'
  BY <1>1, <1>2 DEF RaceInv, walVars, Frames
<1> QED
  BY <1>3, <1>4, <1>5, <1>6

\* recover_staging: the staged file extends the chain or is its last file, and
\* nothing is folded that it does not hold.
LEMMA RecoverStagingCompletes ==
  ASSUME CInv, ChainSettings, RecoverStaging PROVE CompleteInv'
<1> USE DEF CInv, CompleteInv
<1>1. /\ pc = "recover" /\ pc' = "recover" /\ staging # {} /\ Put(OldestStaged)
      /\ staging' = staging \ {OldestStaged}
      /\ UNCHANGED <<walVars, pin, call, task, plan, cur, synced, pos>>
  BY DEF RecoverStaging, locals, dbVars, walVars
<1>2. ~Running /\ call.at = "none"
  BY <1>1 DEF Running, IInv, CtlInv
<1>3. PICK f \in staging : TRUE
  BY <1>1
<1>4. OldestStaged = f /\ staging = {f} /\ f \in File
  BY OneStaged
<1>5. staging' = {} /\ Put(f) /\ "crash" \in Faults /\ DbFile <= f.hi /\ FileAt(f)
  BY <1>1, <1>2, <1>4 DEF KeepInv, PlaceInv
<1>6. ChainInv' /\ store' # << >> /\ store'[Len(store')] = f /\ LastHi' = f.hi
  <2>1. CASE f.txid = Len(store) + 1 /\ store' = Append(store, f)
    <3>1. Fits(f)
      BY <2>1 DEF ChainInv
    <3> QED
      BY <1>5, <2>1, <3>1, ChainGrows
  <2>2. CASE f.txid = Len(store) /\ f.txid > 0 /\ store[f.txid] = f /\ store' = store
    <3>1. ChainInv'
      BY <1>5, <2>2, ChainFrame
    <3> QED
      BY <2>2, <3>1, StoreNums DEF LastHi
  <2> QED
    BY <1>5, <2>1, <2>2, PutIs
<1>7. PlaceInv'
  BY <1>1, <1>5, <1>6 DEF PlaceInv, FileAt, walVars
<1>8. PlanInv' /\ LocalInv' /\ WindowInv' /\ CapInv'
  BY <1>1 DEF PlanInv, LocalInv, WindowInv, CapInv, AtPragma
<1>9. KeepInv'
  <2>1. f.hi \in Nat /\ base <= DbFile
    BY <1>4, WalNums DEF File, DbFile
  <2>2. Keeps(LastHi)'
    BY <1>1, <1>5, <1>6, <2>1, WalNums DEF Keeps, Kept, walVars, DbFile
  <2> QED
    BY <1>1, <1>5, <2>2 DEF KeepInv, Running
<1>10. RaceInv'
  BY <1>1, <1>2 DEF RaceInv, walVars, Frames
<1> QED
  BY <1>6, <1>7, <1>8, <1>9, <1>10

LEMMA OpenDoneCompletes ==
  ASSUME CInv, OpenDone PROVE CompleteInv'
<1> USE DEF CInv, CompleteInv
<1>1. /\ pc = "recover" /\ pc' = "idle" /\ staging = {} /\ AcquireReadLock
      /\ UNCHANGED <<walVars, call, task, plan, cur, synced, store, staging>>
  BY DEF OpenDone, locals
<1>2. ~Running /\ call.at = "none" /\ cur = NoStaged /\ Keeps(LastHi)
  BY <1>1 DEF Running, IInv, CtlInv, FilesInv, CurInv, KeepInv
<1>3. ChainInv' /\ PlaceInv'
  BY <1>1, ChainFrame, PlaceFrame
<1>4. PlanInv' /\ LocalInv' /\ WindowInv' /\ CapInv'
  BY <1>1, <1>2 DEF PlanInv, LocalInv, WindowInv, CapInv, AtPragma
<1>5. Keeps(Got)'
  <2>1. PICK h \in Nat : h = LastHi
    BY StoreNums
  <2>2. Got' = h
    BY <1>1, <1>2, <2>1 DEF Got, LastHi
  <2>3. Kept(h) => Kept(h)'
    BY <1>1, KeptAcquire
  <2> QED
    BY <1>2, <2>1, <2>2, <2>3 DEF Keeps, Kept
<1>6. KeepInv'
  BY <1>1, <1>5 DEF KeepInv, Running
<1>7. RaceInv'
  BY <1>1, <1>2 DEF RaceInv, walVars, Frames
<1> QED
  BY <1>3, <1>4, <1>6, <1>7

(***************************************************************************)
(* The application.                                                        *)
(***************************************************************************)
LEMMA AppWritesCompletes ==
  ASSUME CInv, ChainSettings, AppWrites PROVE CompleteInv'
<1> USE DEF CInv, CompleteInv
<1>1. /\ WindowWrites \/ ~InWindow
      /\ head < MaxHead /\ pin' = pin /\ call' = call
      /\ UNCHANGED <<pc, task, pos, store, staging, plan, cur, synced>>
  BY DEF AppWrites, AppCommit, syncVars
<1>2. PICK fresh \in BOOLEAN : Commit(fresh)
  BY DEF AppWrites, AppCommit
<1>3. /\ PlaceMove /\ KeepMove /\ DbFile' = DbFile /\ head' = head + 1
      /\ slots' > 0 /\ backfill' < Frames'
      /\ slots > 0 /\ backfill < Frames => gen' = gen /\ base' = base
  BY <1>1, <1>2, CommitMoves
<1>4. /\ ChainInv' /\ PlaceInv' /\ LastHi' = LastHi /\ Got' = Got
      /\ Keeps(Got) => Keeps(Got)'
      /\ Keeps(LastHi) => Keeps(LastHi)'
      /\ Kept(plan.hi) => Kept(plan.hi)'
  BY <1>1, <1>3, LogMoves
<1>5. PlanInv'
  <2> SUFFICES ASSUME pc = "plan", plan.kind = "incremental" PROVE PlanInv'
    BY <1>1 DEF PlanInv
  <2>1. plan.gen <= gen'
    <3>1. plan.gen <= gen /\ gen' \in {gen, gen + 1}
      BY <1>3 DEF PlanInv, PlaceMove
    <3> QED
      BY <3>1, WalNums, PlanNums
  <2>2. slots' > 0 /\ plan.gen = gen' => plan.lo = base' + plan.off
    <3> SUFFICES ASSUME plan.gen = gen' PROVE plan.lo = base' + plan.off
      OBVIOUS
    <3>1. plan.gen <= gen
      BY DEF PlanInv
    <3>2. gen' = gen
      BY <1>3, <3>1, WalNums DEF PlaceMove
    <3> QED
      BY <1>3, <3>2 DEF PlanInv, PlaceMove
  <2> QED
    BY <1>1, <1>4, <2>1, <2>2 DEF PlanInv
<1>6. LocalInv'
  BY <1>1 DEF LocalInv
<1>7. WindowWrites /\ call.at # "bump" /\ slots > 0 => gen' = gen /\ base' = base
  BY <1>3 DEF RaceInv
<1>8. WindowInv'
  <2> SUFFICES ASSUME pc \in {"plan", "snap"}, task \in CkptTasks PROVE WindowInv'
    BY <1>1 DEF WindowInv
  <2>1. WindowWrites
    BY <1>1 DEF InWindow
  <2>2. /\ pc = "plan" /\ plan.kind = "incremental" /\ plan.gen = gen /\ slots > 0
        /\ call.at = "none"
    BY <2>1 DEF WindowInv, IInv, CtlInv
  <2> QED
    BY <1>1, <1>3, <1>7, <2>1, <2>2 DEF WindowInv
<1>9. CapInv'
  <2> SUFFICES ASSUME AtPragma PROVE CapInv'
    BY <1>1 DEF CapInv, AtPragma
  <2>1. WindowWrites
    BY <1>1 DEF InWindow, AtPragma
  <2>2. slots > 0 /\ Got = base + synced /\ call.at # "bump"
    BY <2>1 DEF CapInv, AtPragma, IInv, CtlInv
  <2> QED
    BY <1>1, <1>3, <1>4, <1>7, <2>1, <2>2 DEF CapInv
<1>10. KeepInv'
  <2>1. Excused => Excused'
    BY <1>1 DEF Excused, OverFolded
  <2> QED
    BY <1>1, <1>3, <1>4, <2>1 DEF KeepInv, Running
<1>11. RaceInv'
  <2>1. head' <= MaxHead /\ head' <= MaxHead + 2
    BY <1>1, <1>3, WalNums, MaxHeadAssumption
  <2> QED
    BY <1>1, <1>3, <2>1 DEF RaceInv
<1> QED
  BY <1>4, <1>5, <1>6, <1>8, <1>9, <1>10, <1>11

\* Other connections checkpoint only under the pin.
LEMMA AppCheckpointsCompletes ==
  ASSUME CInv, ChainSettings, AppCheckpoints PROVE CompleteInv'
<1> USE DEF CInv, CompleteInv
<1>1. /\ pin' = pin /\ call' = call
      /\ UNCHANGED <<pc, task, pos, store, staging, plan, cur, synced>>
  BY DEF AppCheckpoints, AppCheckpoint, AppTruncate, syncVars
<1>2. pin.held /\ "app_checkpoint" \in Faults /\ ~WindowWrites /\ "crash" \notin Faults
  BY SettingsMean DEF AppCheckpoints, CheckpointFault
<1>3. PlaceMove /\ KeepMove /\ UNCHANGED <<head, gen>>
  BY <1>2, AppCheckpointMoves, AppTruncateMoves DEF AppCheckpoints
<1>4. /\ ChainInv' /\ PlaceInv' /\ LastHi' = LastHi /\ Got' = Got
      /\ Keeps(Got) => Keeps(Got)'
      /\ Keeps(LastHi) => Keeps(LastHi)'
      /\ Kept(plan.hi) => Kept(plan.hi)'
  BY <1>1, <1>3, LogMoves
<1>5. PlanInv' /\ LocalInv'
  BY <1>1, <1>3, <1>4 DEF PlanInv, LocalInv, PlaceMove
<1>6. WindowInv' /\ CapInv'
  BY <1>1, <1>2, <1>3, <1>4 DEF WindowInv, CapInv, AtPragma
<1>7. KeepInv'
  BY <1>1, <1>2, <1>4 DEF KeepInv, Running, Excused
<1>8. RaceInv'
  BY <1>2 DEF RaceInv
<1> QED
  BY <1>4, <1>5, <1>6, <1>7, <1>8

(***************************************************************************)
(* The invariant, and what it means.                                       *)
(***************************************************************************)
LEMMA CompleteInit == Init => CompleteInv
<1> SUFFICES ASSUME Init PROVE CompleteInv
  OBVIOUS
<1>1. /\ base = 1 /\ backfill = 0 /\ call.at = "none"
      /\ (head = 2 /\ gen = 1 /\ slots = 1) \/ (head = 1 /\ gen = 0 /\ slots = 0)
  BY DEF Init, DbInit, NoCall
<1>2. pc = "down" /\ task = "sync" /\ store = << >> /\ staging = {} /\ cur = NoStaged
  BY DEF Init
<1>3. ChainInv
  BY <1>2 DEF ChainInv, ChainComplete
<1>4. PlaceInv
  BY <1>1, <1>2 DEF PlaceInv
<1>5. PlanInv /\ LocalInv /\ WindowInv /\ CapInv
  BY <1>2 DEF PlanInv, LocalInv, WindowInv, CapInv, AtPragma
<1>6. KeepInv
  BY <1>2 DEF KeepInv, Running, Keeps, LastHi
<1>7. RaceInv
  BY <1>1, <1>2, MaxHeadAssumption DEF RaceInv, Frames, CkptTasks
<1> QED
  BY <1>3, <1>4, <1>5, <1>6, <1>7 DEF CompleteInv

LEMMA CompleteStep ==
  ASSUME CInv, ChainSettings, Next PROVE CompleteInv'
<1>1. CASE Sync
  BY <1>1, BuildNextCompletes DEF Sync, CkptTasks
<1>2. CASE CheckpointIfNeeded
  <2>1. PICK t \in {"threshold", "truncate"} :
          t = (IF LiveWalFrames >= TruncateFrames THEN "truncate" ELSE "threshold")
    OBVIOUS
  <2>2. BuildNext(t) /\ pos.off >= MinFrames /\ head < MaxHead /\ pc = "idle"
    BY <1>2, <2>1 DEF CheckpointIfNeeded, BuildNext, LiveWalFrames
  <2>3. pos.off > 0 /\ pos.off \in Nat /\ head <= MaxHead /\ TruncateFrames \in Nat
    BY <2>2, PlanNums, WalNums, SyncerAssumption, MaxHeadAssumption DEF CInv
  <2>4. WindowWrites => t = "threshold"
    <3> SUFFICES ASSUME WindowWrites PROVE t = "threshold"
      OBVIOUS
    <3>1. pos.off < TruncateFrames
      BY <2>2, <2>3, RaceBegins
    <3> QED
      BY <2>1, <2>3, <3>1 DEF LiveWalFrames
  <2> QED
    BY <2>2, <2>3, <2>4, BuildNextCompletes DEF CkptTasks
<1>3. CASE CheckpointNow
  <2>1. ~WindowWrites /\ BuildNext("timed")
    BY <1>3, SettingsMean DEF CheckpointNow
  <2> QED
    BY <2>1, BuildNextCompletes DEF CkptTasks
<1>4. CASE Equivocation
  <2>1. pc = "upload" /\ Conflict(cur.file)
    BY <1>4 DEF Equivocation
  <2>2. cur.file \in staging
    BY <2>1 DEF CInv, IInv, FilesInv, CurInv
  <2> QED
    BY <2>1, <2>2 DEF CInv, OwnInv, Conflict
<1>5. CASE UploadLosesAck \/ CheckpointBumpBusy
  BY <1>5, SettingsMean DEF UploadLosesAck, CheckpointBumpBusy, Fault, NoLostAck
<1> QED
  BY <1>1, <1>2, <1>3, <1>4, <1>5, SnapshotReadWalCompletes, BuildSnapshotCompletes,
     BuildIncrementalCompletes, BuildIncrementalErrorCompletes, RunCheckpointCompletes,
     CheckpointStepCompletes, CheckpointReturnCompletes, OverFoldCompletes,
     CheckpointDoneCompletes, UploadCompletes, UploadDoneCompletes, DownCompletes,
     RecoverStagingCompletes, OpenDoneCompletes, CrashCompletes, UploadFailsCompletes,
     CheckpointLockedCompletes, AppWritesCompletes, AppCheckpointsCompletes
  DEF Next, SyncerStep, FaultStep

LEMMA CompleteStutter ==
  ASSUME CompleteInv, UNCHANGED vars PROVE CompleteInv'
<1>1. UNCHANGED <<walVars, pin, call, pc, task, pos, store, staging, plan, cur, synced>>
  BY DEF vars, syncVars, dbVars, walVars
<1>2. ChainInv' /\ PlaceInv'
  BY <1>1, ChainFrame, PlaceFrame DEF CompleteInv
<1>3. LastHi' = LastHi /\ Got' = Got
  BY <1>1 DEF LastHi, Got
<1>4. PlanInv' /\ LocalInv' /\ WindowInv' /\ CapInv'
  BY <1>1, <1>3 DEF CompleteInv, PlanInv, LocalInv, WindowInv, CapInv, AtPragma, walVars
<1>5. KeepInv' /\ RaceInv'
  BY <1>1, <1>3 DEF CompleteInv, KeepInv, RaceInv, Running, Keeps, Kept, Excused, OverFolded,
     walVars, DbFile, Frames
<1> QED
  BY <1>2, <1>4, <1>5 DEF CompleteInv

LEMMA CInvHolds == ASSUME ChainSettings PROVE Spec => []CInv
<1>1. Init => CInv
  BY CompleteInit, IInvInit DEF CInv, Init, OwnInv
<1>2. CInv /\ [Next]_vars => CInv'
  <2> SUFFICES ASSUME CInv, [Next]_vars PROVE CInv'
    OBVIOUS
  <2>1. IInv'
    BY IInvNext DEF CInv
  <2>2. CASE Next
    BY <2>1, <2>2, OwnStep, CompleteStep, SettingsMean DEF CInv
  <2>3. CASE UNCHANGED vars
    <3>1. OwnInv'
      BY <2>3 DEF vars, syncVars, OwnInv, Stored, CInv
    <3> QED
      BY <2>1, <2>3, <3>1, CompleteStutter DEF CInv
  <2> QED
    BY <2>2, <2>3
<1> QED
  BY <1>1, <1>2, PTL DEF Spec

\* Every published TXID restores to a committed state, for every number of
\* commits, files, checkpoints and faults: through restarts of the log by the
\* application under the pin, failed uploads, crashes with a staged file, and
\* over-folds when the application writes between build and PRAGMA (mod.rs:
\* build_next, plan, run_checkpoint, recover_staging).
THEOREM ChainStaysComplete == ASSUME ChainSettings PROVE Spec => []ChainComplete
<1>1. CInv => ChainComplete
  BY DEF CInv, CompleteInv, ChainInv
<1> QED
  BY <1>1, CInvHolds, PTL

\* A sync that finds an empty WAL and skips (plan(): to_end and no frames) has
\* nothing left to replicate, under the same settings.
THEOREM SkipsAreComplete == ASSUME ChainSettings PROVE Spec => []SkipIsComplete
<1>1. CInv => SkipIsComplete
  <2> SUFFICES ASSUME CInv, pc = "idle", PlanSkips PROVE LastHi = head
    BY DEF SkipIsComplete
  <2>1. Keeps(LastHi) /\ Running /\ NoLostAck
    BY LastKeeps, SettingsMean DEF Running
  <2>2. base = head /\ store # << >>
    BY <2>1, WalNums, PositionIs DEF PlanSkips, CInv
  <2>3. LastHi > 0
    BY <2>2, StoreNums DEF CInv, CompleteInv, PlaceInv, FileAt
  <2> QED
    BY <2>1, <2>2, <2>3, StoreNums, WalNums DEF Keeps, Kept, CInv
<1> QED
  BY <1>1, CInvHolds, PTL

(***************************************************************************)
(* The abstract replica.                                                   *)
(***************************************************************************)

\* A step commits once, publishes one file that fits, or does neither.
Publishes ==
  \E f \in staging : store' = Append(store, f) /\ Fits(f) /\ f.hi \in 1 .. head

LEMMA StepPublishes ==
  ASSUME CInv, ChainSettings, Next
  PROVE  \/ head' = head /\ store' = store
         \/ head' = head + 1 /\ store' = store
         \/ head' = head /\ Publishes
<1> USE DEF CInv, CompleteInv
<1>1. ASSUME NEW f \in staging, Put(f), head' = head
      PROVE  head' = head /\ (store' = store \/ Publishes)
  <2>1. CASE store' = Append(store, f) /\ f.txid = Len(store) + 1
    <3>1. Fits(f) /\ f \in File /\ f.hi <= head /\ f.hi > 0
      BY <2>1, OneStaged DEF ChainInv, PlaceInv, FileAt, IInv, FilesInv, StagedInv, Sound
    <3>2. f.hi \in 1 .. head
      BY <3>1, WalNums DEF File
    <3> QED
      BY <1>1, <2>1, <3>1, <3>2 DEF Publishes
  <2> QED
    BY <1>1, <2>1, PutIs
<1>2. CASE Upload
  <2>1. PICK f \in staging : f = cur.file
    BY <1>2 DEF Upload, IInv, FilesInv, CurInv
  <2> QED
    BY <1>1, <1>2, <2>1 DEF Upload, dbVars
<1>3. CASE RecoverStaging
  <2>1. PICK f \in staging : f = OldestStaged
    BY <1>3, OneStaged DEF RecoverStaging
  <2> QED
    BY <1>1, <1>3, <2>1 DEF RecoverStaging, dbVars
<1>4. CASE UploadLosesAck
  BY <1>4, SettingsMean DEF UploadLosesAck, Fault, NoLostAck
<1>5. CASE AppWrites \/ AppCheckpoints
  BY <1>5 DEF AppWrites, AppCheckpoints, AppCommit, Commit, AppCheckpoint, AppTruncate, FoldTo,
     ResetLog, syncVars
<1>6. CASE CheckpointStep
  BY <1>6 DEF CheckpointStep, PragmaPassive, PragmaTruncate, PragmaTruncateBusy, BumpSeq, Commit,
     FoldTo, ResetLog, syncVars
<1>7. CASE Sync \/ CheckpointIfNeeded \/ CheckpointNow
  BY <1>7 DEF Sync, CheckpointIfNeeded, CheckpointNow, BuildNext, walVars
<1>8. CASE SnapshotReadWal \/ OverFold \/ CheckpointDone \/ Equivocation \/ UploadDone
  BY <1>8 DEF SnapshotReadWal, OverFold, CheckpointDone, Equivocation, UploadDone, dbVars, walVars
<1>9. CASE BuildSnapshot \/ BuildIncremental \/ BuildIncrementalError
  BY <1>9 DEF BuildSnapshot, BuildIncremental, BuildIncrementalError, walVars
<1>10. CASE RunCheckpoint \/ CheckpointReturn \/ CheckpointLocked \/ CheckpointBumpBusy
  BY <1>10 DEF RunCheckpoint, CheckpointBegin, CheckpointReturn, CheckpointEnd, CheckpointLocked,
     PragmaLocked, CheckpointBumpBusy, BumpSeqBusy, walVars
<1>11. CASE Crash \/ Open \/ OpenDone \/ OpenFails \/ UploadFails
  BY <1>11 DEF Crash, Open, OpenDone, OpenFails, UploadFails, dbVars, walVars
<1> QED
  BY <1>2, <1>3, <1>4, <1>5, <1>6, <1>7, <1>8, <1>9, <1>10, <1>11
  DEF Next, SyncerStep, FaultStep

\* In a complete chain every TXID restores to what its file ends with.
States == [n \in 1 .. Len(store) |-> RestoresTo(n)]

AreEnds ==
  /\ States = [n \in 1 .. Len(store) |-> store[n].hi]
  /\ States \in Seq(Nat) /\ Len(States) = Len(store)

LEMMA StatesAre == CInv => AreEnds
<1> SUFFICES ASSUME IInv, ChainComplete PROVE AreEnds
  BY DEF CInv, CompleteInv, ChainInv
<1>1. /\ store \in Seq(File) /\ Len(store) \in Nat
      /\ \A n \in 1 .. Len(store) : store[n] \in File /\ store[n].hi \in Nat
  <2>1. store \in Seq(File)
    BY StoreNums
  <2>2. Len(store) \in Nat /\ \A n \in 1 .. Len(store) : store[n] \in File
    BY <2>1, StoredFile
  <2> QED
    BY <2>1, <2>2 DEF File
<1>2. ASSUME NEW n \in 1 .. Len(store) PROVE RestoresTo(n) = store[n].hi
  <2>1. \A m \in 1 .. n : m \in 1 .. Len(store)
    BY <1>1
  <2> QED
    BY <2>1 DEF RestoresTo, ChainComplete
<1>3. States = [n \in 1 .. Len(store) |-> store[n].hi]
  BY <1>2 DEF States
<1>4. States \in [1 .. Len(store) -> Nat]
  BY <1>1, <1>3
<1> QED
  BY <1>1, <1>3, <1>4 DEF AreEnds

LEMMA StatesGrow ==
  ASSUME CInv, CInv', NEW f \in staging, store' = Append(store, f)
  PROVE  States' = Append(States, f.hi)
<1>1. /\ States = [n \in 1 .. Len(store) |-> store[n].hi]
      /\ States \in Seq(Nat) /\ Len(States) = Len(store)
  BY StatesAre DEF AreEnds
<1>2. States' = [n \in 1 .. Len(store') |-> store'[n].hi]
  <2>1. AreEnds'
    BY StatesAre, PTL
  <2> QED
    BY <2>1 DEF AreEnds
<1>3. store \in Seq(File) /\ Len(store) \in Nat /\ f \in File /\ f.hi \in Nat
  BY StoreNums, OneStaged DEF CInv, File
<1>4. Len(store') = Len(store) + 1
  BY <1>3
<1>5. ASSUME NEW n \in 1 .. Len(store) + 1
      PROVE  store'[n].hi = (IF n = Len(store) + 1 THEN f.hi ELSE States[n])
  BY <1>1, <1>3
<1>6. Append(States, f.hi) =
        [n \in 1 .. Len(store) + 1 |-> IF n = Len(store) + 1 THEN f.hi ELSE States[n]]
  BY <1>1, <1>3
<1> QED
  BY <1>2, <1>4, <1>5, <1>6

\* The syncer implements the abstract replica's safety part: published states
\* are states the database had, in order, final, one more per publishing step.
THEOREM SyncerImplementsReplica ==
  ASSUME ChainSettings PROVE Spec => Abstract!ReplicaSafe
<1>1. Init => Abstract!ReplicaInit
  <2> SUFFICES ASSUME Init PROVE Abstract!ReplicaInit
    OBVIOUS
  <2>1. head \in Nat \ {0} /\ store = << >>
    BY DEF Init, DbInit
  <2>2. States = << >>
    BY <2>1 DEF States
  <2> QED
    BY <2>1, <2>2 DEF Abstract!ReplicaInit, States
<1>2. CInv /\ CInv' /\ [Next]_vars => [Abstract!ReplicaNext]_(Abstract!replicaVars)
  <2> SUFFICES ASSUME CInv, CInv', [Next]_vars
               PROVE  \/ Abstract!ReplicaNext
                      \/ head' = head /\ States' = States
    BY DEF Abstract!replicaVars, States
  <2>1. CASE store' = store
    <3>1. States' = States
      BY <2>1 DEF States, RestoresTo, PrevHi
    <3>2. head' = head \/ head' = head + 1
      <4>1. CASE Next
        BY <2>1, <4>1, StepPublishes, StoreNums DEF Publishes, CInv
      <4>2. CASE UNCHANGED vars
        BY <4>2 DEF vars, dbVars
      <4> QED
        BY <4>1, <4>2
    <3>3. CASE head' = head + 1
      BY <3>1, <3>3 DEF Abstract!ReplicaNext, Abstract!CommitOne, States
    <3> QED
      BY <3>1, <3>2, <3>3
  <2>2. CASE store' # store
    <3>1. Next
      BY <2>2 DEF vars, syncVars
    <3>2. head' = head /\ Publishes
      BY <2>2, <3>1, StepPublishes
    <3>3. PICK f \in staging : store' = Append(store, f) /\ Fits(f) /\ f.hi \in 1 .. head
      BY <3>2 DEF Publishes
    <3>4. States' = Append(States, f.hi)
      BY <3>3, StatesGrow
    <3>5. Abstract!Publish(f.hi)
      BY <3>2, <3>4 DEF Abstract!Publish, States
    <3>6. Abstract!LastPublished = LastHi
      <4>1. /\ States = [n \in 1 .. Len(store) |-> store[n].hi]
            /\ States \in Seq(Nat) /\ Len(States) = Len(store)
        BY StatesAre DEF AreEnds
      <4>2. Abstract!LastPublished = IF States = << >> THEN 0 ELSE States[Len(States)]
        BY DEF Abstract!LastPublished, States
      <4> QED
        BY <4>1, <4>2, StoreNums DEF CInv
    <3>7. LastHi \in Nat /\ LastHi <= f.hi /\ f.hi \in Nat /\ f.hi > 0 /\ f.hi <= head /\ head \in Nat
      BY <3>3, StoreNums, WalNums DEF CInv, Fits
    <3>8. CASE LastHi = f.hi
      BY <3>5, <3>6, <3>7, <3>8 DEF Abstract!ReplicaNext, Abstract!Republish
    <3>9. CASE LastHi # f.hi
      <4>1. f.hi \in LastHi + 1 .. head
        BY <3>7, <3>9
      <4> QED
        BY <3>5, <3>6, <4>1 DEF Abstract!ReplicaNext, Abstract!Advance
    <3> QED
      BY <3>8, <3>9
  <2> QED
    BY <2>1, <2>2
<1> QED
  BY <1>1, <1>2, CInvHolds, PTL DEF Spec, Abstract!ReplicaSafe
=============================================================================
