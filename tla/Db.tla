--------------------------------- MODULE Db ---------------------------------
(***************************************************************************)
(* The SQLite database literstream replicates, and the control literstream *)
(* has over it (src/db/mod.rs): the pinned read transaction and the manual *)
(* checkpoint.                                                             *)
(*                                                                         *)
(* Data abstraction.  Commits are numbered 1, 2, 3, ...; a database state  *)
(* is the number of the last commit in it; one commit is one WAL frame.    *)
(* Commit 1 stands for everything the database file held when the story    *)
(* begins.  The WAL header's salt pair is the number of the WAL generation *)
(* (how often a header has been written).  Pages, frames of a transaction  *)
(* and checksums are not part of this module.                              *)
(*                                                                         *)
(* How SQLite itself behaves (wal.c) is external to the repository and is  *)
(* modelled from the way src/db and src/sync use it:                       *)
(*   - a checkpoint copies frames of the current generation into the       *)
(*     database file, never past a frame another reader still needs;       *)
(*   - a commit that finds every frame copied may restart the log: new     *)
(*     salts, first slot of the file, the file keeps its length;           *)
(*   - a reader that starts when every frame is copied reads the database  *)
(*     file alone (read lock 0): it keeps other connections from copying   *)
(*     frames, but not from restarting or truncating the log.              *)
(***************************************************************************)
EXTENDS Integers

CONSTANT MaxHead   \* bound: the application stops committing here

ASSUME MaxHeadAssumption == MaxHead \in Nat

VARIABLES
  head,      \* number of the last commit
  gen,       \* number of the WAL generation (the salts of the last header)
  base,      \* last commit before the current generation
  backfill,  \* frames of the current generation copied into the database file
  slots,     \* length of the -wal file, in frames (0: empty, no header)
  pin,       \* Db's pinned read transaction
  call       \* the Db::checkpoint call in progress, and its last result

dbVars == <<head, gen, base, backfill, slots, pin, call>>
walVars == <<head, gen, base, backfill, slots>>

Max2(a, b) == IF a >= b THEN a ELSE b

\* Frames of the current generation, and the state the database file holds.
Frames == head - base
DbFile == base + backfill
FullyBackfilled == backfill = Frames

(***************************************************************************)
(* CheckpointMode (the two the syncer uses), the steps of Db::checkpoint,  *)
(* and the pin: Db's read_lock_held flag, and the read mark SQLite holds   *)
(* for the transaction (-1: none, 0: read lock 0).  pin.at and pin.gen are *)
(* history: head and gen when the pin was taken.                           *)
(***************************************************************************)
Modes == {"passive", "truncate"}
Steps == {"none", "pragma", "bump", "acquire"}
NoMark == -1
Unpinned == [held |-> FALSE, mark |-> NoMark, at |-> 0, gen |-> 0]
NoCall == [at |-> "none", mode |-> "passive", restart |-> FALSE,
           hadLock |-> FALSE, folded |-> 0]

DbTypeOK ==
  /\ head \in Nat /\ gen \in Nat /\ base \in Nat
  /\ backfill \in Nat /\ slots \in Nat
  /\ pin \in [held : BOOLEAN, mark : Nat \cup {NoMark}, at : Nat, gen : Nat]
  /\ call \in [at : Steps, mode : Modes, restart : BOOLEAN,
               hadLock : BOOLEAN, folded : Nat \cup {-1}]

\* The database as Db::open leaves it: either it just committed the
\* _literstream_seq table, or it found the table in a file with no WAL.
DbInit ==
  /\ base = 1 /\ backfill = 0
  /\ \/ head = 2 /\ gen = 1 /\ slots = 1
     \/ head = 1 /\ gen = 0 /\ slots = 0
  /\ pin = Unpinned
  /\ call = NoCall

(***************************************************************************)
(* SQLite, external.                                                       *)
(***************************************************************************)

\* A reader with a mark above 0 needs the frames up to its mark, and keeps
\* the log from being restarted or truncated.
BlocksReset == pin.mark > 0

\* How many frames another connection's checkpoint may copy.
FoldLimit ==
  CASE pin.mark = NoMark -> Frames
    [] pin.mark = 0      -> backfill
    [] OTHER             -> pin.mark

CanRestart == slots > 0 /\ FullyBackfilled /\ ~BlocksReset

\* A commit.  It opens a new generation when the file is empty, or when the
\* log may be restarted and no application reader is in the way (fresh).
Commit(fresh) ==
  /\ fresh \in IF slots = 0 THEN {TRUE} ELSE {FALSE, CanRestart}
  /\ head' = head + 1
  /\ gen' = IF fresh THEN gen + 1 ELSE gen
  /\ base' = IF fresh THEN head ELSE base
  /\ backfill' = IF fresh THEN 0 ELSE backfill
  /\ slots' = Max2(slots, head' - base')

\* The log is emptied; everything in it is in the database file.
ResetLog ==
  /\ base' = head /\ backfill' = 0 /\ slots' = 0
  /\ UNCHANGED <<head, gen>>

FoldTo(k) ==
  /\ backfill' = k
  /\ UNCHANGED <<head, gen, base, slots>>

\* The application: another connection commits, runs a PASSIVE checkpoint
\* (its own wal_autocheckpoint) or a TRUNCATE one.
AppCommit ==
  /\ head < MaxHead
  /\ \E fresh \in BOOLEAN : Commit(fresh)
  /\ UNCHANGED <<pin, call>>

AppCheckpoint ==
  /\ \E k \in backfill + 1 .. FoldLimit : FoldTo(k)
  /\ UNCHANGED <<pin, call>>

AppTruncate ==
  /\ slots > 0 /\ ~BlocksReset /\ FoldLimit = Frames
  /\ ResetLog
  /\ UNCHANGED <<pin, call>>

(***************************************************************************)
(* Db: the pinned read transaction.                                        *)
(***************************************************************************)
\* Mutation: BEGIN alone, without reading a row, takes no read mark.
MutTakeReadMark ==
  [held |-> TRUE, mark |-> NoMark, at |-> head, gen |-> gen]

TakeReadMark ==
  [held |-> TRUE, mark |-> IF FullyBackfilled THEN 0 ELSE Frames,
   at |-> head, gen |-> gen]

AcquireReadLock == pin' = IF pin.held THEN pin ELSE TakeReadMark

\* Mutation: the flag is not cleared, so the next acquire does nothing.
MutReleaseReadLock == pin' = [pin EXCEPT !.mark = NoMark]

ReleaseReadLock == pin' = Unpinned

(***************************************************************************)
(* Db::checkpoint(mode, restart_wal), one action per step other            *)
(* connections can interleave with.  The result's checkpointed_frames is   *)
(* call.folded.                                                            *)
(***************************************************************************)
CheckpointBegin(mode, restart) ==
  /\ call.at = "none"
  /\ call' = [at |-> "pragma", mode |-> mode, restart |-> restart,
              hadLock |-> pin.held, folded |-> 0]
  /\ ReleaseReadLock
  /\ UNCHANGED walVars

\* PRAGMA wal_checkpoint returned.  Only a PASSIVE checkpoint that was not
\* busy goes on to bump_seq, and only when asked to restart the WAL.
PragmaDone(busy, folded) ==
  call' = [call EXCEPT
             !.at = IF call.restart /\ call.mode = "passive" /\ ~busy
                      THEN "bump" ELSE "acquire",
             !.folded = folded]

\* PASSIVE copies what the application's readers allow and reports the
\* frames of the generation that are now copied.
PragmaPassive ==
  /\ call.at = "pragma" /\ call.mode = "passive"
  /\ \E k \in backfill .. Frames : FoldTo(k) /\ PragmaDone(FALSE, k)
  /\ UNCHANGED pin

\* TRUNCATE with no reader left: the log is emptied, the reported counts are
\* those of the emptied log.
PragmaTruncate ==
  /\ call.at = "pragma" /\ call.mode = "truncate"
  /\ ResetLog
  /\ PragmaDone(FALSE, 0)
  /\ UNCHANGED pin

\* TRUNCATE timed out on an application reader after copying some frames.
PragmaTruncateBusy ==
  /\ call.at = "pragma" /\ call.mode = "truncate"
  /\ \E k \in backfill .. Frames : FoldTo(k) /\ PragmaDone(TRUE, k)
  /\ UNCHANGED pin

\* Another connection is checkpointing: busy, and both counts are -1.
PragmaLocked ==
  /\ call.at = "pragma"
  /\ PragmaDone(TRUE, -1)
  /\ UNCHANGED <<walVars, pin>>

\* bump_seq is a commit like any other.
BumpSeq ==
  /\ call.at = "bump"
  /\ \E fresh \in BOOLEAN : Commit(fresh)
  /\ call' = [call EXCEPT !.at = "acquire"]
  /\ UNCHANGED pin

\* bump_seq failed (SQLITE_BUSY): the call returns the error, and the read
\* lock it had released stays released.
BumpSeqBusy ==
  /\ call.at = "bump"
  /\ call' = NoCall
  /\ UNCHANGED <<walVars, pin>>

CheckpointEnd ==
  /\ call.at = "acquire"
  /\ call' = [call EXCEPT !.at = "none"]
  /\ IF call.hadLock THEN AcquireReadLock ELSE UNCHANGED pin
  /\ UNCHANGED walVars

(***************************************************************************)
(* The component on its own: any order of calls its interface admits.      *)
(***************************************************************************)
Acquire == call.at = "none" /\ AcquireReadLock /\ UNCHANGED <<walVars, call>>
Release == call.at = "none" /\ ReleaseReadLock /\ UNCHANGED <<walVars, call>>

DbCheckpointStep ==
  \/ PragmaPassive \/ PragmaTruncate \/ PragmaTruncateBusy \/ PragmaLocked
  \/ BumpSeq \/ BumpSeqBusy \/ CheckpointEnd

AppStep == AppCommit \/ AppCheckpoint \/ AppTruncate

DbNext ==
  \/ AppStep
  \/ Acquire \/ Release
  \/ \E mode \in Modes, restart \in BOOLEAN :
       head < MaxHead /\ CheckpointBegin(mode, restart)
  \/ DbCheckpointStep

DbSpec == DbInit /\ [][DbNext]_dbVars

(***************************************************************************)
(* Properties.                                                             *)
(***************************************************************************)

\* While read_lock_held is set, nothing committed since the pin was taken has
\* been copied into the database file: every such commit is still in the
\* log, whatever other connections do, and a reader of the file sees the
\* state of the pin.  (acquire_read_lock / release_read_lock / checkpoint.)
PinKeepsFrames == pin.held => DbFile <= pin.at

\* While read_lock_held is set, the salts change at most once: a header read
\* under the pin is the current one or the one just before it.
OneRestartWhilePinned == pin.held => gen <= pin.gen + 1
=============================================================================
