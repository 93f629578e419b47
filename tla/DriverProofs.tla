---------------------------- MODULE DriverProofs ----------------------------
(***************************************************************************)
(* What Driver keeps for every configuration of levels and intervals, with *)
(* every fault: its type, and that no job runs twice for one boundary.     *)
(* And, where a bump alone stays below the checkpoint threshold, that an   *)
(* idle database costs at most three more files and one for each refused   *)
(* PRAGMA, and that its log is folded in time unless an over-fold snapshot *)
(* was taken.  And, where intervals are long enough, that no job starves   *)
(* behind jobs that fail.                                                  *)
(***************************************************************************)
EXTENDS Driver, SequenceTheorems, FiniteSetTheorems, FunctionTheorems, TLAPS

\* The jobs of a tick are the levels above 0, the snapshot and the retention.
LEMMA JobsAre ==
  /\ max_level \in Nat
  /\ SnapshotJob = max_level + 1 /\ RetentionJob = max_level + 2
  /\ Jobs = 1 .. max_level + 2
BY DriverAssumption DEF max_level, SnapshotJob, RetentionJob, Jobs, validate

\* Every job has an interval (level.rs: validate; driver.rs: the settings).
LEMMA IntervalType == ASSUME NEW j \in Jobs PROVE IntervalOf(j) \in Nat
<1>1. j \in 1 .. max_level + 2
  BY JobsAre
<1>2. CASE j <= max_level
  <2>1. j + 1 \in 1 .. Len(Levels)
    BY <1>1, <1>2, DriverAssumption, JobsAre DEF max_level
  <2>2. Levels[j + 1] \in [level : Nat, interval : Nat]
    <3> DEFINE L == [level : Nat, interval : Nat]
    <3>1. Levels \in Seq(L)
      BY DriverAssumption
    <3> HIDE DEF L
    <3>2. Levels[j + 1] \in L
      BY <2>1, <3>1, ElementOfSeq
    <3> QED
      BY <3>2 DEF L
  <2> QED
    BY <1>2, <2>2 DEF IntervalOf
<1>3. CASE j = max_level + 1
  BY <1>3, JobsAre, DriverAssumption DEF IntervalOf
<1>4. CASE j = max_level + 2
  BY <1>4, JobsAre, DriverAssumption DEF IntervalOf
<1> QED
  BY <1>1, <1>2, <1>3, <1>4, JobsAre

\* level.rs truncate: a time floored to an interval is a time not after it.
LEMMA TruncateType ==
  ASSUME NEW t \in Nat, NEW i \in Nat
  PROVE  truncate(t, i) \in Nat
<1>1. CASE i = 0
  BY <1>1 DEF truncate
<1>2. CASE i # 0
  <2>1. t \div i \in Nat
    BY <1>2
  <2>2. (t \div i) * i \in Nat
    BY <2>1
  <2> QED
    BY <1>2, <2>2 DEF truncate
<1> QED
  BY <1>1, <1>2

LEMMA TypeInit == Init => TypeOK
<1> SUFFICES ASSUME Init PROVE TypeOK
  OBVIOUS
<1>1. Start \in Nat /\ 1 \in Jobs
  BY DriverAssumption, JobsAre
<1>2. wal \in [gen : Nat, frames : Nat, folded : Nat, len : Nat]
  BY DEF Init
<1>3. pos \in Position
  <2>1. PICK g \in {0, 1}, n \in {0, 1} : pos = [gen |-> g, frames |-> g * n, toEnd |-> FALSE]
    BY DEF Init
  <2> QED
    BY <2>1 DEF Position
<1>4. since \in [files : Nat, snapshots : Nat, refused : Nat, at : Nat]
  BY <1>1 DEF Init
<1>5. work \in [mode : {"none", "passive", "truncate", "timed"}, file : BOOLEAN, to : Position,
                folded : Int]
  BY DEF Init, NoWork, Position
<1> QED
  BY <1>1, <1>2, <1>3, <1>4, <1>5 DEF Init, TypeOK

\* The step after a job stays within the tick.
LEMMA AdvanceType ==
  ASSUME TypeOK, pc = "jobs", Advance
  PROVE  pc' \in {"idle", "jobs"} /\ job' \in Jobs
<1>1. job \in 1 .. max_level + 2 /\ max_level \in Nat /\ RetentionJob = max_level + 2
  BY JobsAre DEF TypeOK
<1>2. Jobs = 1 .. max_level + 2
  BY JobsAre
<1>3. CASE job = RetentionJob
  BY <1>1, <1>2, <1>3 DEF Advance, Return
<1>4. CASE job # RetentionJob
  BY <1>1, <1>2, <1>4 DEF Advance
<1> QED
  BY <1>3, <1>4

LEMMA RecordedType ==
  ASSUME TypeOK, NEW ok \in BOOLEAN
  PROVE  Recorded(ok) \in [Jobs -> Nat]
<1>1. truncate(now, IntervalOf(job)) \in Nat
  BY IntervalType, TruncateType DEF TypeOK
<1> QED
  BY <1>1 DEF Recorded, TypeOK


(***************************************************************************)
(* The type.                                                               *)
(***************************************************************************)
Log == [gen : Nat, frames : Nat, folded : Nat, len : Nat]
Since == [files : Nat, snapshots : Nat, refused : Nat, at : Nat]
Work == [mode : {"none", "passive", "truncate", "timed"}, file : BOOLEAN, to : Position,
         folded : Int]

\* The fields of the records.
LEMMA LogFields ==
  ASSUME TypeOK
  PROVE  /\ wal.gen \in Nat /\ wal.frames \in Nat /\ wal.folded \in Nat /\ wal.len \in Nat
         /\ pos.gen \in Nat /\ pos.frames \in Nat /\ pos.toEnd \in BOOLEAN
         /\ work.to.gen \in Nat /\ work.to.frames \in Nat /\ work.to.toEnd \in BOOLEAN
         /\ work.file \in BOOLEAN /\ work.folded \in Int
         /\ since.files \in Nat /\ since.snapshots \in Nat /\ since.refused \in Nat
         /\ since.at \in Nat
<1>1. work \in Work /\ since \in Since
  BY DEF TypeOK, Work, Since
<1>2. work.to \in Position
  BY <1>1 DEF Work
<1> QED
  BY <1>1, <1>2 DEF TypeOK, Position, Work, Since

LEMMA SnapshotType == ASSUME TypeOK PROVE Snapshot \in Position
BY LogFields DEF Snapshot, Position

LEMMA NoWorkType == NoWork \in Work
BY DEF NoWork, Work, Position

LEMMA BuiltType == ASSUME TypeOK, NEW mode \in {"none", "passive", "truncate", "timed"}, Built(mode)
                   PROVE  work' \in Work
<1>1. Snapshot \in Position /\ pos \in Position
  BY SnapshotType DEF TypeOK
<1> DEFINE to == IF Finds(pos) THEN Snapshot ELSE pos
<1>2. to \in Position
  BY <1>1
<1>3. Finds(pos) \in BOOLEAN
  BY LogFields DEF Finds
<1>4. work' = [mode |-> mode, file |-> Finds(pos), to |-> to, folded |-> 0]
  BY DEF Built
<1> HIDE DEF to
<1> QED
  BY <1>2, <1>3, <1>4 DEF Work

LEMMA ReportedType == ASSUME TypeOK, NEW n \in Int, Reported(n) PROVE work' \in Work
<1>1. work \in Work
  BY DEF TypeOK, Work
<1> QED
  BY <1>1 DEF Reported, Work

LEMMA AppendedType == ASSUME TypeOK, NEW fresh \in BOOLEAN PROVE Appended(fresh) \in Log
BY LogFields DEF Appended, Log

LEMMA FoldedType == ASSUME TypeOK, NEW n \in Foldable
                    PROVE  n \in Nat /\ [wal EXCEPT !.folded = n] \in Log
<1>1. n \in Nat
  BY LogFields DEF Foldable
<1>2. wal \in Log
  BY DEF TypeOK, Log
<1> QED
  BY <1>1, <1>2 DEF Log

\* An upload moves the position and is counted.
LEMMA UploadedType ==
  ASSUME TypeOK, Uploaded
  PROVE  /\ pos' = work.to /\ pos' \in Position
         /\ work' = [work EXCEPT !.file = FALSE] /\ work' \in Work
         /\ since' \in Since
         /\ since' = [since EXCEPT !.files = since.files + 1]
<1>1. work \in Work /\ since \in Since
  BY DEF TypeOK, Work, Since
<1>2. pos' = work.to /\ pos' \in Position
  BY <1>1 DEF Uploaded, Work
<1>3. work' = [work EXCEPT !.file = FALSE] /\ work' \in Work
  BY <1>1 DEF Uploaded, Work
<1>4. since' = [since EXCEPT !.files = since.files + 1]
  BY DEF Uploaded
<1>5. since' \in Since
  BY <1>1, <1>4 DEF Since
<1> QED
  BY <1>2, <1>3, <1>4, <1>5

LEMMA FaultType == ASSUME TypeOK, NEW kind, Fault(kind) PROVE faults' \in Nat
BY DEF TypeOK, Fault

\* The driver's part and the log's part of the type.
DriverType ==
  /\ now \in Nat /\ job \in Jobs
  /\ last \in [Jobs -> Nat] /\ lastCheckpoint \in Nat /\ syncedSince \in BOOLEAN
  /\ commits \in Nat /\ faults \in Nat
  /\ waiting \in [Jobs -> SUBSET [job : Jobs, at : Nat]] /\ runs \in [Jobs -> Nat]
  /\ latest \in Nat /\ untroubled \in BOOLEAN

Steps == {"idle", "sync", "upload", "checkpoint", "pragma", "bump", "store", "overfold",
          "resnapshot", "jobs"}

LEMMA TypeParts ==
  TypeOK <=> /\ DriverType /\ pc \in Steps
             /\ work \in Work /\ wal \in Log /\ pos \in Position /\ since \in Since
BY DEF TypeOK, DriverType, Steps, Work, Log, Since

\* A sync or checkpoint step: of the driver's fields it may change the two of
\* the checkpoint and the number of faults.
LEMMA SyncType ==
  ASSUME TypeOK, UNCHANGED <<now, job, jobVars, commits, latest>>,
         faults' \in Nat, lastCheckpoint' \in Nat, syncedSince' \in BOOLEAN,
         untroubled' \in BOOLEAN
  PROVE  DriverType'
BY DEF TypeOK, DriverType, jobVars

LEMMA CheckpointType == ASSUME TypeOK, Checkpoint PROVE TypeOK'
<1>0. /\ DriverType /\ work \in Work /\ wal \in Log /\ pos \in Position /\ since \in Since
      /\ faults \in Nat /\ lastCheckpoint \in Nat /\ syncedSince \in BOOLEAN /\ now \in Nat
      /\ untroubled \in BOOLEAN /\ 1 \in Jobs
  BY TypeParts, JobsAre DEF DriverType
<1>1. CASE NoCheckpoint
  <2>1. DriverType'
    BY <1>0, <1>1, SyncType DEF NoCheckpoint
  <2> QED
    BY <1>0, <1>1, <2>1, NoWorkType, TypeParts DEF NoCheckpoint, TypeOK, DriverType, Work, Log, Since
<1>2. CASE BuildNext
  <2>1. DriverType'
    BY <1>0, <1>2, SyncType DEF BuildNext
  <2>2. work' \in Work
    BY <1>2, BuiltType DEF BuildNext, Mode, TimedMode
  <2> QED
    BY <1>0, <1>2, <2>1, <2>2 DEF BuildNext, TypeOK, DriverType, Work, Log, Since
<1>3. CASE PragmaPassive
  <2>1. DriverType'
    BY <1>0, <1>3, SyncType DEF PragmaPassive
  <2>2. PICK n \in Foldable : wal' = [wal EXCEPT !.folded = n] /\ Reported(n)
    BY <1>3 DEF PragmaPassive
  <2>3. wal' \in Log /\ work' \in Work
    BY <2>2, FoldedType, ReportedType
  <2> QED
    BY <1>0, <1>3, <2>1, <2>3
    DEF PragmaPassive, AfterCheckpoint, TypeOK, DriverType, Work, Log, Since
<1>4. CASE PragmaTruncate
  <2>1. DriverType'
    BY <1>0, <1>4, SyncType DEF PragmaTruncate
  <2>2. CASE wal' = Emptied /\ Reported(0)
    <3>1. work' \in Work
      BY <2>2, ReportedType
    <3>2. wal' \in Log
      BY <1>0, <2>2 DEF Emptied, Log
    <3> QED
      BY <1>0, <1>4, <2>1, <3>1, <3>2
      DEF PragmaTruncate, AfterCheckpoint, TypeOK, DriverType, Work, Log, Since
  <2>3. CASE \E n \in Foldable : wal' = [wal EXCEPT !.folded = n] /\ Reported(n)
    <3>1. PICK n \in Foldable : wal' = [wal EXCEPT !.folded = n] /\ Reported(n)
      BY <2>3
    <3>2. wal' \in Log /\ work' \in Work
      BY <3>1, FoldedType, ReportedType
    <3> QED
      BY <1>0, <1>4, <2>1, <3>2
      DEF PragmaTruncate, AfterCheckpoint, TypeOK, DriverType, Work, Log, Since
  <2> QED
    BY <1>4, <2>2, <2>3 DEF PragmaTruncate
<1>5. CASE PragmaRefused
  <2>1. DriverType'
    BY <1>0, <1>5, FaultType, SyncType DEF PragmaRefused
  <2>2. work' \in Work
    BY <1>5, ReportedType DEF PragmaRefused
  <2>3. since' \in Since
    BY <1>0, <1>5 DEF PragmaRefused, Since
  <2> QED
    BY <1>0, <1>5, <2>1, <2>2, <2>3
    DEF PragmaRefused, AfterCheckpoint, TypeOK, DriverType, Work, Log, Since
<1>6. CASE Bump
  <2>1. DriverType'
    BY <1>0, <1>6, SyncType DEF Bump
  <2>2. wal' \in Log
    BY <1>6, AppendedType DEF Bump, FullyFolded
  <2> QED
    BY <1>0, <1>6, <2>1, <2>2 DEF Bump, AfterCheckpoint, TypeOK, DriverType, Work, Log, Since
<1>7. CASE Store
  <2>1. DriverType'
    BY <1>0, <1>7, SyncType DEF Store
  <2> QED
    BY <1>0, <1>7, <2>1, UploadedType DEF Store, TypeOK, DriverType, Work, Log, Since
<1>8. CASE CheckpointDone
  <2>1. DriverType'
    BY <1>0, <1>8, SyncType DEF CheckpointDone, Checkpointed
  <2> QED
    BY <1>0, <1>8, <2>1, NoWorkType
    DEF CheckpointDone, Checkpointed, TypeOK, DriverType, Work, Log, Since
<1>9. CASE Resnapshot
  <2>1. DriverType'
    BY <1>0, <1>9, SyncType DEF Resnapshot
  <2>2. work' \in Work
    BY <1>0, <1>9, SnapshotType DEF Resnapshot, Work
  <2>3. since' \in Since
    BY <1>0, <1>9 DEF Resnapshot, Since
  <2> QED
    BY <1>0, <1>9, <2>1, <2>2, <2>3 DEF Resnapshot, TypeOK, DriverType, Work, Log, Since
<1>10. CASE ResnapshotDone
  <2>1. DriverType'
    BY <1>0, <1>10, SyncType DEF ResnapshotDone, Checkpointed
  <2>2. since' \in Since /\ pos' \in Position
    BY <1>0, <1>10 DEF ResnapshotDone, Since, Work
  <2> QED
    BY <1>0, <1>10, <2>1, <2>2, NoWorkType
    DEF ResnapshotDone, Checkpointed, TypeOK, DriverType, Work, Log, Since
<1>11. CASE CheckpointFails
  <2>1. DriverType'
    BY <1>0, <1>11, FaultType DEF CheckpointFails, Return, DriverType, jobVars
  <2> QED
    BY <1>0, <1>11, <2>1, NoWorkType
    DEF CheckpointFails, Return, TypeOK, DriverType, Work, Log, Since
<1> QED
  BY <1>1, <1>2, <1>3, <1>4, <1>5, <1>6, <1>7, <1>8, <1>9, <1>10, <1>11 DEF Checkpoint

LEMMA TypeStep == TypeOK /\ [Next]_vars => TypeOK'
<1> SUFFICES ASSUME TypeOK, [Next]_vars PROVE TypeOK'
  OBVIOUS
<1>0. /\ 1 \in Jobs /\ DriverType /\ pc \in Steps /\ work \in Work /\ wal \in Log
      /\ pos \in Position /\ since \in Since
  BY JobsAre, TypeParts
<1>1. CASE AppCommit
  <2>1. PICK fresh \in BOOLEAN : wal' = Appended(fresh)
    BY <1>1, LogFields DEF AppCommit, FullyFolded
  <2>2. wal' \in Log
    BY <2>1, AppendedType
  <2>3. since' \in Since
    BY <1>0, <1>1 DEF AppCommit, Since, DriverType
  <2>4. DriverType'
    BY <1>0, <1>1 DEF AppCommit, DriverType, jobVars
  <2> QED
    BY <1>0, <1>1, <2>2, <2>3, <2>4
    DEF AppCommit, TypeOK, DriverType, Work, Log, Since, Steps
<1>2. CASE TickAt
  <2>1. PICK t \in now + 1 .. now + MaxGap :
          now' = t /\ latest' = IF t > latest THEN t ELSE latest
    BY <1>2 DEF TickAt
  <2>2. now' \in Nat /\ latest' \in Nat
    BY <1>0, <2>1, DriverAssumption DEF DriverType
  <2> QED
    BY <1>2, <2>2 DEF TickAt, TypeOK, logVars, jobVars
<1>3. CASE ClockBack
  <2>1. now' \in Nat
    BY <1>3, DriverAssumption DEF ClockBack, TypeOK
  <2>2. faults' \in Nat
    BY <1>3, FaultType DEF ClockBack
  <2> QED
    BY <1>3, <2>1, <2>2 DEF ClockBack, TypeOK, logVars
<1>4. CASE Sync
  <2>1. DriverType'
    BY <1>0, <1>4, SyncType DEF Sync, DriverType
  <2>2. work' \in Work
    BY <1>4, BuiltType DEF Sync
  <2> QED
    BY <1>0, <1>4, <2>1, <2>2 DEF Sync, TypeOK, DriverType, Work, Log, Since
<1>5. CASE Upload
  <2>1. DriverType'
    BY <1>0, <1>5, SyncType DEF Upload, SyncedSince, DriverType
  <2> QED
    BY <1>0, <1>5, <2>1, UploadedType DEF Upload, TypeOK, DriverType, Work, Log, Since
<1>6. CASE SyncFails
  <2>1. DriverType'
    BY <1>0, <1>6, FaultType DEF SyncFails, Return, DriverType, jobVars
  <2> QED
    BY <1>0, <1>6, <2>1, NoWorkType DEF SyncFails, Return, TypeOK, DriverType, Work, Log, Since
<1>7. CASE Checkpoint
  BY <1>7, CheckpointType
<1>11. CASE SkipJob
  <2>1. pc' \in {"idle", "jobs"} /\ job' \in Jobs
    BY <1>11, AdvanceType DEF SkipJob
  <2> QED
    BY <1>11, <2>1 DEF SkipJob, TypeOK, logVars, jobVars
<1>12. CASE RunJob
  <2>1. pc' \in {"idle", "jobs"} /\ job' \in Jobs
    BY <1>12, AdvanceType DEF RunJob
  <2>2. last' \in [Jobs -> Nat]
    BY <1>12, RecordedType DEF RunJob
  <2>3. waiting' \in [Jobs -> SUBSET [job : Jobs, at : Nat]] /\ runs' \in [Jobs -> Nat]
    BY <1>12 DEF RunJob, TypeOK
  <2> QED
    BY <1>12, <2>1, <2>2, <2>3 DEF RunJob, TypeOK, logVars
<1>13. CASE JobFails
  <2>1. last' \in [Jobs -> Nat]
    BY <1>13, RecordedType DEF JobFails
  <2>2. waiting' \in [Jobs -> SUBSET [job : Jobs, at : Nat]] /\ runs' \in [Jobs -> Nat]
    BY <1>13 DEF JobFails, TypeOK
  <2> QED
    BY <1>0, <1>13, <2>1, <2>2 DEF JobFails, Return, TypeOK, logVars
<1>14. CASE UNCHANGED vars
  BY <1>14 DEF vars, logVars, jobVars, TypeOK
<1> QED
  BY <1>1, <1>2, <1>3, <1>4, <1>5, <1>6, <1>7, <1>11, <1>12, <1>13, <1>14 DEF Next, Tick

\* The driver's state keeps its type: every tick ends, whatever fails in it,
\* with a job of the configured levels.
THEOREM DriverTypeCorrect == Spec => []TypeOK
<1> QED
  BY TypeInit, TypeStep, PTL DEF Spec

(***************************************************************************)
(* No job runs twice for one boundary.                                     *)
(***************************************************************************)
\* A time floored to an interval is the multiple at or before it.
LEMMA TruncateIs ==
  ASSUME NEW t \in Nat, NEW i \in Nat \ {0}
  PROVE  \E q \in Nat : truncate(t, i) = q * i /\ q * i <= t /\ t < q * i + i
<1>1. PICK q \in Nat : q = t \div i
  <2>1. t \div i \in Nat
    OBVIOUS
  <2> QED
    BY <2>1
<1>2. q * i <= t
  BY <1>1
<1>3. t < q * i + i
  BY <1>1
<1>4. truncate(t, i) = q * i
  BY <1>1 DEF truncate
<1> QED
  BY <1>2, <1>3, <1>4

\* Multiples of an interval are an interval apart.
LEMMA Multiples ==
  ASSUME NEW i \in Nat \ {0}, NEW p \in Nat, NEW q \in Nat, p < q
  PROVE  p * i + i <= q * i
<1>1. PICK d \in Nat : q = p + 1 + d
  <2>1. q - p - 1 \in Nat /\ q = p + 1 + (q - p - 1)
    OBVIOUS
  <2> QED
    BY <2>1
<1>2. q * i = p * i + i + d * i /\ d * i \in Nat /\ p * i \in Nat
  BY <1>1
<1> QED
  BY <1>2

\* Boundaries do not go back.
LEMMA TruncateGrows ==
  ASSUME NEW t \in Nat, NEW u \in Nat, t <= u, NEW i \in Nat
  PROVE  truncate(t, i) <= truncate(u, i)
<1>1. CASE i = 0
  BY <1>1 DEF truncate
<1>2. CASE i # 0
  <2>1. PICK p \in Nat : truncate(t, i) = p * i /\ p * i <= t /\ t < p * i + i
    BY <1>2, TruncateIs
  <2>2. PICK q \in Nat : truncate(u, i) = q * i /\ q * i <= u /\ u < q * i + i
    BY <1>2, TruncateIs
  <2>3. p * i \in Nat /\ q * i \in Nat
    OBVIOUS
  <2>4. ~(q < p)
    <3> SUFFICES ASSUME q < p PROVE FALSE
      OBVIOUS
    <3>1. q * i + i <= p * i
      BY <1>2, Multiples
    <3> QED
      BY <2>1, <2>2, <2>3, <3>1
  <2>5. CASE p = q
    BY <2>1, <2>2, <2>3, <2>5
  <2>6. CASE p < q
    <3>1. p * i + i <= q * i
      BY <1>2, <2>6, Multiples
    <3> QED
      BY <2>1, <2>2, <2>3, <3>1
  <2> QED
    BY <2>4, <2>5, <2>6
<1> QED
  BY <1>1, <1>2

\* The number of a boundary.
LEMMA BoundaryNumber ==
  ASSUME NEW t \in Nat, NEW i \in Nat \ {0}
  PROVE  t \div i \in Nat /\ truncate(t, i) = (t \div i) * i
<1>1. t \div i \in Nat
  OBVIOUS
<1> QED
  BY <1>1 DEF truncate

LEMMA MultiplesGrow ==
  ASSUME NEW i \in Nat \ {0}, NEW p \in Nat, NEW q \in Nat, p * i < q * i
  PROVE  p < q
<1> SUFFICES ASSUME ~(p < q) PROVE FALSE
  OBVIOUS
<1>1. CASE p = q
  BY <1>1
<1>2. CASE q < p
  <2>1. q * i + i <= p * i
    BY <1>2, Multiples
  <2>2. q * i \in Nat /\ p * i \in Nat
    OBVIOUS
  <2> QED
    BY <2>1, <2>2
<1> QED
  BY <1>1, <1>2

LEMMA BoundaryNumbersGrow ==
  ASSUME NEW t \in Nat, NEW u \in Nat, t <= u, NEW i \in Nat \ {0}
  PROVE  t \div i <= u \div i
<1> DEFINE p == t \div i
           q == u \div i
<1>1. p \in Nat /\ q \in Nat /\ p * i <= q * i
  BY BoundaryNumber, TruncateGrows
<1> HIDE DEF p, q
<1>2. ~(q < p)
  <2> SUFFICES ASSUME q < p PROVE FALSE
    OBVIOUS
  <2>1. q * i + i <= p * i
    BY <1>1, Multiples
  <2>2. q * i \in Nat /\ p * i \in Nat
    BY <1>1
  <2> QED
    BY <1>1, <2>1, <2>2
<1>3. p <= q
  BY <1>1, <1>2
<1> QED
  BY <1>3 DEF p, q

\* The boundaries a job has run for are numbered upwards from that of the start,
\* and the last of them is recorded.
Counted(j) ==
  LET i == IntervalOf(j)
  IN  i # 0 =>
        \/ runs[j] = 0 /\ last[j] = 0
        \/ \E q \in Nat : /\ last[j] = q * i /\ Start \div i <= q /\ q <= latest \div i
                          /\ runs[j] <= q - (Start \div i) + 1

OnceInv == Start <= now /\ now <= latest /\ \A j \in Jobs : Counted(j)

\* A job that is due runs for a boundary after the recorded one.
LEMMA CountedOnce ==
  ASSUME TypeOK, OnceInv, NEW ok \in BOOLEAN, Due(job), last' = Recorded(ok),
         runs' = [runs EXCEPT ![job] = @ + 1], UNCHANGED <<now, latest>>
  PROVE  OnceInv'
<1>1. SUFFICES ASSUME NEW j \in Jobs PROVE Counted(j)'
  BY DEF OnceInv
<1>2. Counted(j)
  BY <1>1 DEF OnceInv
<1>3. CASE j # job
  <2>1. last'[j] = last[j] /\ runs'[j] = runs[j]
    BY <1>1, <1>3 DEF Recorded, TypeOK
  <2> QED
    BY <1>2, <2>1 DEF Counted
<1>4. CASE j = job
  <2> DEFINE i == IntervalOf(j)
             s == Start \div i
             b == now \div i
             m == latest \div i
  <2>1. SUFFICES ASSUME i # 0 PROVE Counted(j)'
    BY DEF Counted
  <2>2. i \in Nat \ {0} /\ now \in Nat /\ latest \in Nat /\ Start \in Nat
        /\ runs[j] \in Nat /\ last[j] \in Nat
    BY <1>1, <2>1, IntervalType, DriverAssumption DEF TypeOK
  <2>3. s \in Nat /\ b \in Nat /\ m \in Nat /\ truncate(now, i) = b * i
    BY <2>2, BoundaryNumber
  <2>4. s <= b /\ b <= m
    BY <2>2, BoundaryNumbersGrow DEF OnceInv
  <2>5. last'[j] = b * i /\ runs'[j] = runs[j] + 1 /\ b * i > last[j]
    BY <1>1, <1>4, <2>3 DEF Recorded, Due, TypeOK
  <2>6. runs'[j] <= b - s + 1
    <3>1. CASE runs[j] = 0 /\ last[j] = 0
      <4> HIDE DEF s, b
      <4> QED
        BY <2>3, <2>4, <2>5, <3>1
    <3>2. CASE \E q \in Nat : /\ last[j] = q * i /\ s <= q /\ q <= m
                              /\ runs[j] <= q - s + 1
      <4>1. PICK q \in Nat : last[j] = q * i /\ s <= q /\ runs[j] <= q - s + 1
        BY <3>2
      <4> HIDE DEF s, b, i
      <4>2. q * i < b * i
        BY <2>2, <2>3, <2>5, <4>1
      <4>3. q < b
        BY <2>2, <2>3, <4>2, MultiplesGrow
      <4> QED
        BY <2>2, <2>3, <2>5, <4>1, <4>3
    <3> QED
      BY <1>2, <2>1, <3>1, <3>2 DEF Counted
  <2>7. latest' \div i = m
    OBVIOUS
  <2> HIDE DEF s, b, m
  <2>8. \E q \in Nat : /\ last'[j] = q * i /\ s <= q /\ q <= m
                       /\ runs'[j] <= q - s + 1
    BY <2>3, <2>4, <2>5, <2>6
  <2> QED
    BY <2>7, <2>8 DEF Counted, s
<1> QED
  BY <1>3, <1>4

LEMMA OnceStep ==
  ASSUME TypeOK, OnceInv, [Next]_vars
  PROVE  OnceInv'
<1>0. /\ Start \in Nat /\ now \in Nat /\ latest \in Nat /\ MaxGap \in Nat
      /\ Start <= now /\ now <= latest
  BY DriverAssumption DEF TypeOK, OnceInv
<1>1. CASE RunJob
  BY <1>1, CountedOnce DEF RunJob
<1>2. CASE JobFails
  BY <1>2, CountedOnce DEF JobFails
<1>3. CASE TickAt
  <2>1. PICK t \in now + 1 .. now + MaxGap :
          now' = t /\ latest' = IF t > latest THEN t ELSE latest
    BY <1>3 DEF TickAt
  <2>2. /\ Start <= now' /\ now' <= latest' /\ latest <= latest' /\ latest' \in Nat
    BY <1>0, <2>1
  <2>3. last' = last /\ runs' = runs
    BY <1>3 DEF TickAt, jobVars
  <2>4. ASSUME NEW j \in Jobs PROVE Counted(j)'
    <3> DEFINE i == IntervalOf(j)
    <3>1. SUFFICES ASSUME i # 0 PROVE Counted(j)'
      BY DEF Counted
    <3>2. i \in Nat \ {0}
      BY <3>1, IntervalType
    <3>3. latest \div i \in Nat /\ latest' \div i \in Nat /\ latest \div i <= latest' \div i
      BY <1>0, <2>2, <3>2, BoundaryNumber, BoundaryNumbersGrow
    <3>4. Counted(j)
      BY DEF OnceInv
    <3>5. CASE runs[j] = 0 /\ last[j] = 0
      BY <2>3, <3>5 DEF Counted
    <3>6. CASE \E q \in Nat : /\ last[j] = q * i /\ Start \div i <= q /\ q <= latest \div i
                              /\ runs[j] <= q - (Start \div i) + 1
      <4>1. PICK q \in Nat : /\ last[j] = q * i /\ Start \div i <= q /\ q <= latest \div i
                             /\ runs[j] <= q - (Start \div i) + 1
        BY <3>6
      <4>2. q <= latest' \div i
        <5> DEFINE m == latest \div i
                   n == latest' \div i
        <5>1. m \in Nat /\ n \in Nat /\ m <= n /\ q <= m
          BY <3>3, <4>1
        <5> HIDE DEF m, n
        <5>2. q <= n
          BY <5>1
        <5> QED
          BY <5>2 DEF n
      <4> QED
        BY <2>3, <4>1, <4>2 DEF Counted
    <3> QED
      BY <3>1, <3>4, <3>5, <3>6 DEF Counted
  <2> QED
    BY <2>2, <2>4 DEF OnceInv
<1>4. CASE ClockBack
  <2>1. PICK t \in Start .. now - 1 : now' = t
    BY <1>4 DEF ClockBack
  <2>2. Start <= now' /\ now' <= latest' /\ UNCHANGED <<latest, last, runs>>
    BY <1>0, <1>4, <2>1 DEF ClockBack
  <2> QED
    BY <2>2 DEF OnceInv, Counted
<1>5. CASE UNCHANGED <<now, latest, last, runs>>
  BY <1>5 DEF OnceInv, Counted
<1>6. \/ RunJob \/ JobFails \/ TickAt \/ ClockBack \/ UNCHANGED <<now, latest, last, runs>>
  BY DEF Next, Tick, vars, jobVars, AppCommit, Sync, Upload, SyncFails, SkipJob, Checkpoint,
     NoCheckpoint, BuildNext, PragmaPassive, PragmaTruncate, PragmaRefused, Bump, Store,
     CheckpointDone, Resnapshot, ResnapshotDone, CheckpointFails
<1> QED
  BY <1>1, <1>2, <1>3, <1>4, <1>5, <1>6

LEMMA OnceInit == Init => OnceInv
<1> SUFFICES ASSUME Init PROVE OnceInv
  OBVIOUS
<1>1. Start \in Nat /\ now = Start /\ latest = Start
  BY DriverAssumption DEF Init
<1>2. ASSUME NEW j \in Jobs PROVE runs[j] = 0 /\ last[j] = 0
  BY DEF Init
<1> QED
  BY <1>1, <1>2 DEF OnceInv, Counted

LEMMA CountedEnough ==
  ASSUME TypeOK, OnceInv
  PROVE  OncePerBoundary
<1> SUFFICES ASSUME NEW j \in Jobs, IntervalOf(j) # 0
             PROVE  runs[j] <= (latest \div IntervalOf(j)) - (Start \div IntervalOf(j)) + 1
  BY DEF OncePerBoundary
<1> DEFINE i == IntervalOf(j)
           s == Start \div i
           m == latest \div i
<1>1. i \in Nat \ {0} /\ Start \in Nat /\ latest \in Nat /\ Start <= latest /\ runs[j] \in Nat
  BY IntervalType, DriverAssumption DEF TypeOK, OnceInv
<1>2. s \in Nat /\ m \in Nat /\ s <= m
  BY <1>1, BoundaryNumber, BoundaryNumbersGrow
<1>3. \/ runs[j] = 0
      \/ \E q \in Nat : s <= q /\ q <= m /\ runs[j] <= q - s + 1
  BY DEF OnceInv, Counted
<1> HIDE DEF s, m
<1>4. runs[j] <= m - s + 1
  BY <1>1, <1>2, <1>3
<1> QED
  BY <1>4 DEF s, m

\* No job of driver.rs runs twice for one boundary: however the clock is set
\* back and forth and whatever fails, a job has run at most once for each
\* boundary from that of the start to the latest the clock has reached.
THEOREM JobsRunOncePerBoundary == Spec => []OncePerBoundary
<1>1. TypeOK /\ OnceInv /\ [Next]_vars => OnceInv'
  BY OnceStep
<1>2. TypeOK /\ OnceInv => OncePerBoundary
  BY CountedEnough
<1> QED
  BY <1>1, <1>2, OnceInit, DriverTypeCorrect, PTL DEF Spec

(***************************************************************************)
(* What is left to do for an idle database.  A bump of the sequence row    *)
(* alone must stay below the threshold, and no long reader may keep a      *)
(* PASSIVE checkpoint from folding the log (README).                       *)
(***************************************************************************)
BumpsSettle == MinFrames >= 2 /\ "reader" \notin Faults

Checkpointing == pc \in {"pragma", "bump", "store", "overfold", "resnapshot"}

\* A position is never ahead of the log.
Behind(p) == p.gen <= wal.gen /\ (p.gen = wal.gen /\ wal.len > 0 => p.frames <= wal.frames)

\* The log, the positions and the staged file fit together.  Between PRAGMA and
\* bump a log that is not all folded holds a commit that was not staged.
LogInv ==
  /\ wal.frames <= wal.len /\ wal.folded <= wal.frames /\ (wal.len > 0 => wal.frames > 0)
  /\ Behind(pos) /\ Behind(work.to)
  /\ pc \in {"upload", "store", "resnapshot"} => work.file
  /\ Checkpointing /\ ~work.file => work.to = pos
  /\ pc = "overfold" => work.to = pos
  /\ pc = "bump" => work.mode = "passive"
  /\ Checkpointing /\ work.mode = "passive" => MinFrames < TruncateFrames
  /\ pc = "bump" /\ ~Finds(work.to) => FullyFolded /\ work.folded = wal.frames

LEMMA LogInit == ASSUME Init PROVE LogInv
<1>1. PICK n \in {0, 1} : wal = [gen |-> 1, frames |-> n, folded |-> 0, len |-> n]
  BY DEF Init
<1>2. PICK g \in {0, 1}, k \in {0, 1} : pos = [gen |-> g, frames |-> g * k, toEnd |-> FALSE]
  BY DEF Init
<1>3. Behind(pos)
  <2>1. CASE n = 1
    BY <1>1, <1>2, <2>1 DEF Behind
  <2>2. CASE n = 0
    BY <1>1, <1>2, <2>2 DEF Behind
  <2> QED
    BY <2>1, <2>2
<1> QED
  BY <1>1, <1>3 DEF Init, LogInv, Behind, NoWork, Checkpointing

\* What a build leads to is the log as it is.
LEMMA SnapshotFits ==
  ASSUME TypeOK, LogInv
  PROVE  /\ Behind(Snapshot) /\ ~Finds(Snapshot)
         /\ Snapshot.frames = (IF wal.len = 0 THEN 0 ELSE wal.frames)
BY LogFields DEF LogInv, Snapshot, Behind, Finds

\* A log that grew has something for a position that was not ahead of it.
LEMMA AppendedFits ==
  ASSUME TypeOK, LogInv, NEW fresh \in BOOLEAN, wal' = Appended(fresh),
         wal.len = 0 => fresh
  PROVE  /\ wal'.frames <= wal'.len /\ wal'.folded <= wal'.frames /\ wal'.len > 0
         /\ wal'.frames > 0 /\ wal'.gen >= wal.gen
         /\ wal'.folded # wal'.frames
         /\ fresh => wal'.gen = wal.gen + 1 /\ wal'.frames = 1
         /\ \A p \in Position : Behind(p) => /\ p.gen <= wal'.gen
                                             /\ p.gen = wal'.gen => p.frames < wal'.frames
<1>1. wal' = [gen |-> IF fresh THEN wal.gen + 1 ELSE wal.gen,
              frames |-> IF fresh THEN 1 ELSE wal.frames + 1,
              folded |-> IF fresh THEN 0 ELSE wal.folded,
              len |-> IF (IF fresh THEN 1 ELSE wal.frames + 1) > wal.len
                      THEN IF fresh THEN 1 ELSE wal.frames + 1 ELSE wal.len]
  BY DEF Appended
<1>2. CASE fresh
  BY <1>1, <1>2, LogFields DEF Behind, Position
<1>3. CASE ~fresh
  BY <1>1, <1>3, LogFields DEF Behind, Position, LogInv
<1> QED
  BY <1>2, <1>3

\* The position that a build leads to.
LEMMA BuiltFits ==
  ASSUME TypeOK, LogInv, NEW mode, Built(mode)
  PROVE  /\ work'.mode = mode /\ work'.file = Finds(pos) /\ work'.folded = 0
         /\ Finds(pos) => work'.to = Snapshot
         /\ ~Finds(pos) => work'.to = pos
         /\ Behind(work'.to) /\ ~Finds(work'.to)
<1>1. work' = [mode |-> mode, file |-> Finds(pos), to |-> IF Finds(pos) THEN Snapshot ELSE pos,
               folded |-> 0]
  BY DEF Built
<1> QED
  BY <1>1, SnapshotFits DEF LogInv

LEMMA ReportedFits ==
  ASSUME TypeOK, NEW n \in Int, Reported(n)
  PROVE  work'.mode = work.mode /\ work'.file = work.file /\ work'.to = work.to /\ work'.folded = n
BY DEF TypeOK, Reported

LEMMA FoldedFits ==
  ASSUME TypeOK, BumpsSettle, NEW n \in Foldable, wal' = [wal EXCEPT !.folded = n]
  PROVE  n = wal.frames /\ wal'.gen = wal.gen /\ wal'.frames = wal.frames /\ wal'.len = wal.len
         /\ wal'.folded = wal.frames
BY DEF BumpsSettle, Foldable, TypeOK

LEMMA LogStep ==
  ASSUME TypeOK, TypeOK', BumpsSettle, LogInv, Next
  PROVE  LogInv'
<1>1. CASE AppCommit
  <2>1. PICK fresh \in BOOLEAN : wal' = Appended(fresh) /\ (wal.len = 0 => fresh)
    BY <1>1, LogFields DEF AppCommit, FullyFolded
  <2>2. UNCHANGED <<pos, work, pc>>
    BY <1>1 DEF AppCommit
  <2>3. pos \in Position /\ work.to \in Position
    BY DEF TypeOK
  <2>4. /\ pos.gen <= wal'.gen /\ (pos.gen = wal'.gen => pos.frames < wal'.frames)
        /\ work.to.gen <= wal'.gen /\ (work.to.gen = wal'.gen => work.to.frames < wal'.frames)
    BY <2>1, <2>3, AppendedFits DEF LogInv
  <2>5. Finds(work.to)'
    BY <2>1, <2>2, <2>4, AppendedFits, LogFields DEF Finds
  <2> QED
    BY <2>1, <2>2, <2>4, <2>5, AppendedFits, LogFields, TypeOK' DEF LogInv, Behind, Checkpointing, TypeOK
<1>2. CASE UNCHANGED <<wal, pos, work>> /\ (pc' = pc \/ pc' \in {"idle", "sync", "checkpoint", "jobs"})
  BY <1>2 DEF LogInv, Behind, Checkpointing, Finds, FullyFolded
<1>3. CASE UNCHANGED <<wal, pos>> /\ work' = NoWork /\ pc' \in {"idle", "jobs"}
  BY <1>3, LogFields DEF LogInv, Behind, Checkpointing, NoWork
<1>4. CASE Sync
  BY <1>4, BuiltFits DEF Sync, LogInv, Behind, Checkpointing
<1>5. CASE Upload
  <2>1. pos' = work.to /\ work'.to = work.to /\ wal' = wal /\ pc' = "checkpoint"
    BY <1>5, UploadedType DEF Upload, TypeOK
  <2> QED
    BY <2>1 DEF LogInv, Behind, Checkpointing
<1>6. CASE BuildNext
  <2>1. Mode = "passive" => MinFrames < TruncateFrames
    <3>1. Mode = "passive" => Passive
      BY DEF Mode, TimedMode
    <3> QED
      BY <3>1, LogFields, DriverAssumption DEF Passive, Truncates, live_wal_frames
  <2> QED
    BY <1>6, <2>1, BuiltFits DEF BuildNext, LogInv, Behind, Checkpointing
<1>7. CASE PragmaPassive
  <2>1. PICK n \in Foldable : wal' = [wal EXCEPT !.folded = n] /\ Reported(n)
    BY <1>7 DEF PragmaPassive
  <2>2. n \in Nat
    BY FoldedType
  <2>3. /\ work'.mode = work.mode /\ work'.file = work.file /\ work'.to = work.to
        /\ work'.folded = wal.frames /\ wal'.gen = wal.gen /\ wal'.frames = wal.frames
        /\ wal'.len = wal.len /\ wal'.folded = wal.frames /\ pos' = pos
    BY <1>7, <2>1, <2>2, ReportedFits, FoldedFits DEF PragmaPassive
  <2>4. pc = "pragma" /\ (pc' = "bump" => work.mode = "passive")
        /\ (pc' = "store" => work.file) /\ (pc' = "overfold" => ~work.file)
        /\ pc' \in {"bump", "store", "overfold"}
    BY <1>7 DEF PragmaPassive, AfterCheckpoint
  <2> QED
    BY <2>3, <2>4, LogFields DEF LogInv, Behind, Checkpointing, FullyFolded
<1>8. CASE PragmaTruncate
  <2>1. wal' = Emptied /\ Reported(0)
    BY <1>8, LogFields DEF PragmaTruncate, BumpsSettle
  <2>2. /\ work'.mode = work.mode /\ work'.file = work.file /\ work'.to = work.to
        /\ work'.folded = 0 /\ pos' = pos
    BY <1>8, <2>1, ReportedFits DEF PragmaTruncate
  <2>3. wal'.gen = wal.gen /\ wal'.frames = 0 /\ wal'.len = 0 /\ wal'.folded = 0
    BY <2>1 DEF Emptied, TypeOK
  <2>4. pc = "pragma" /\ (pc' = "store" => work.file) /\ (pc' = "overfold" => ~work.file)
        /\ pc' \in {"store", "overfold"}
    BY <1>8 DEF PragmaTruncate, AfterCheckpoint
  <2> QED
    BY <2>2, <2>3, <2>4, LogFields DEF LogInv, Behind, Checkpointing
<1>9. CASE PragmaRefused
  <2>1. /\ work'.mode = work.mode /\ work'.file = work.file /\ work'.to = work.to
        /\ UNCHANGED <<wal, pos>>
    BY <1>9, ReportedFits DEF PragmaRefused
  <2>2. pc = "pragma" /\ (pc' = "store" => work.file) /\ (pc' = "overfold" => ~work.file)
        /\ pc' \in {"store", "overfold"}
    BY <1>9 DEF PragmaRefused, AfterCheckpoint
  <2> QED
    BY <2>1, <2>2, LogFields DEF LogInv, Behind, Checkpointing
<1>10. CASE Bump
  <2>1. wal' = Appended(FullyFolded) /\ FullyFolded \in BOOLEAN /\ UNCHANGED <<pos, work>>
    BY <1>10 DEF Bump, FullyFolded
  <2>2. wal.len = 0 => FullyFolded
    BY LogFields DEF LogInv, FullyFolded
  <2>3. pos \in Position /\ work.to \in Position
    BY DEF TypeOK
  <2>4. /\ pos.gen <= wal'.gen /\ (pos.gen = wal'.gen => pos.frames < wal'.frames)
        /\ work.to.gen <= wal'.gen /\ (work.to.gen = wal'.gen => work.to.frames < wal'.frames)
    BY <2>1, <2>2, <2>3, AppendedFits DEF LogInv
  <2>5. pc = "bump" /\ (pc' = "store" => work.file) /\ (pc' = "overfold" => ~work.file)
        /\ pc' \in {"store", "overfold"}
    BY <1>10 DEF Bump, AfterCheckpoint
  <2>6. wal'.frames <= wal'.len /\ wal'.folded <= wal'.frames /\ wal'.len > 0 /\ wal'.frames > 0
    BY <2>1, <2>2, AppendedFits
  <2> QED
    BY <2>1, <2>4, <2>5, <2>6, LogFields, TypeOK' DEF LogInv, Behind, Checkpointing, TypeOK
<1>11. CASE Store
  <2>1. pos' = work.to /\ work'.to = work.to /\ work'.mode = work.mode /\ wal' = wal
        /\ pc = "store" /\ pc' = "overfold"
    BY <1>11, UploadedType DEF Store, TypeOK
  <2> QED
    BY <2>1 DEF LogInv, Behind, Checkpointing
<1>12. CASE Resnapshot
  <2>1. work'.file /\ work'.to = Snapshot /\ work'.mode = work.mode /\ UNCHANGED <<pos, wal>>
        /\ pc = "overfold" /\ pc' = "resnapshot"
    BY <1>12 DEF Resnapshot, TypeOK
  <2>2. Behind(Snapshot)'
    BY <2>1, SnapshotFits DEF Behind, Snapshot
  <2> QED
    BY <2>1, SnapshotFits DEF LogInv, Behind, Checkpointing
<1>13. CASE ResnapshotDone
  BY <1>13, LogFields DEF ResnapshotDone, Checkpointed, LogInv, Behind, Checkpointing, NoWork
<1> QED
  BY <1>1, <1>2, <1>3, <1>4, <1>5, <1>6, <1>7, <1>8, <1>9, <1>10, <1>11, <1>12, <1>13
  DEF Next, Tick, Checkpoint, TickAt, ClockBack, SyncFails, NoCheckpoint, CheckpointDone,
      Checkpointed, CheckpointFails, SkipJob, RunJob, JobFails, Advance, Return, logVars

\* The frames the position will count after the next sync.
Cap(p) == IF Finds(p) THEN Snapshot.frames ELSE p.frames

\* A position that counts n frames asks for a bump, or for a TRUNCATE that has
\* something to do.
Bumps(n) == MinFrames <= n /\ n < TruncateFrames
Asks(n) == Bumps(n) \/ (n >= TruncateFrames /\ wal.len > 0)

\* Every file still to come is paid for: one for what the position has not
\* captured, one for the bump of a checkpoint that is asked for.  LeftNow: the
\* checkpoint of this tick has not asked yet.
Left(p) == (IF Finds(p) THEN 1 ELSE 0) + (IF Asks(Cap(p)) THEN 1 ELSE 0)
LeftNow(p) == (IF Finds(p) THEN 1 ELSE 0) + (IF Asks(p.frames) \/ Asks(Cap(p)) THEN 1 ELSE 0)

\* The bump is still to come, or a snapshot for an over-fold.
BumpDue ==
  pc \in {"pragma", "bump"} /\ (work.mode = "passive" \/ (work.mode = "truncate" /\ wal.len > 0))
ResnapshotDue == pc \in {"store", "overfold"} /\ OverFolded

Staged == IF work.file THEN 1 ELSE 0

ToCome ==
  IF pc \in {"idle", "sync", "jobs"} THEN Left(pos)
  ELSE IF pc = "checkpoint" THEN LeftNow(pos)
  ELSE IF pc = "upload" THEN 1 + LeftNow(work.to)
  ELSE IF BumpDue THEN Staged + (IF Finds(work.to) THEN 1 ELSE 0) + 1
  ELSE IF ResnapshotDue THEN Staged + 1 + (IF Asks(wal.frames) THEN 1 ELSE 0)
  ELSE Staged + Left(work.to)

QuietInv == since.files + ToCome <= 3 + since.refused

LEMMA ToComeBound == ASSUME TypeOK PROVE ToCome \in 0 .. 3
BY LogFields DEF ToCome, Left, LeftNow, Staged

\* The same of the next state.
LEMMA ToComeBoundNext ==
  ASSUME TypeOK'
  PROVE  /\ ToCome' \in 0 .. 3
         /\ since'.files \in Nat /\ since'.refused \in Nat
BY DEF TypeOK, ToCome, Left, LeftNow, Staged

\* A position that is not behind counts the frames of the log.
LEMMA CapIs ==
  ASSUME TypeOK, BumpsSettle, LogInv, NEW p \in Position, Behind(p)
  PROVE  /\ Finds(p) => (Asks(Cap(p)) <=> Asks(wal.frames))
         /\ ~Finds(p) => Cap(p) = p.frames
         /\ ~Finds(p) /\ wal.len > 0 => p.frames = wal.frames
         /\ wal.len = 0 => ~Asks(wal.frames) /\ wal.frames = 0
<1>1. p.gen \in Nat /\ p.frames \in Nat /\ MinFrames \in Nat /\ MinFrames >= 2
  BY DriverAssumption DEF Position, BumpsSettle
<1>2. wal.len = 0 => ~Asks(wal.frames) /\ wal.frames = 0
  BY <1>1, LogFields, DriverAssumption DEF LogInv, Asks, Bumps
<1>3. ~Finds(p) /\ wal.len > 0 => p.frames = wal.frames
  BY <1>1, LogFields DEF Finds, Behind
<1>4. Snapshot.frames = wal.frames
  BY <1>2, SnapshotFits
<1> QED
  BY <1>2, <1>3, <1>4 DEF Cap

\* A tick that ends early owes no more than it did.
LEMMA EndsEarly ==
  ASSUME TypeOK, BumpsSettle, LogInv
  PROVE  Left(pos) <= ToCome
<1>0. /\ Finds(pos) => (Asks(Cap(pos)) <=> Asks(wal.frames))
      /\ ~Finds(pos) => Cap(pos) = pos.frames
      /\ ~Finds(pos) /\ wal.len > 0 => pos.frames = wal.frames
      /\ wal.len = 0 => ~Asks(wal.frames)
  BY CapIs DEF TypeOK, LogInv
<1>1. work.to \in Position /\ Behind(work.to)
  BY DEF TypeOK, LogInv
<1>2. /\ Finds(work.to) => (Asks(Cap(work.to)) <=> Asks(wal.frames))
      /\ ~Finds(work.to) => Cap(work.to) = work.to.frames
      /\ ~Finds(work.to) /\ wal.len > 0 => work.to.frames = wal.frames
  BY <1>1, CapIs
<1>3. Left(pos) \in 0 .. 2 /\ (~Finds(pos) => Left(pos) <= 1)
  BY DEF Left
<1>4. CASE pc \in {"idle", "sync", "jobs", "checkpoint"}
  BY <1>4 DEF ToCome, Left, LeftNow
<1>5. CASE pc = "upload"
  <2>1. ToCome = 1 + LeftNow(work.to) /\ LeftNow(work.to) \in 0 .. 2
    BY <1>5 DEF ToCome, LeftNow
  <2>2. CASE ~Finds(pos)
    BY <1>3, <2>1, <2>2
  <2>3. CASE Finds(pos) /\ ~Asks(wal.frames)
    <3>1. Left(pos) = 1
      BY <1>0, <2>3 DEF Left
    <3> QED
      BY <2>1, <3>1
  <2>4. CASE Finds(pos) /\ Asks(wal.frames)
    <3>1. Finds(work.to) \/ Asks(work.to.frames)
      BY <1>0, <1>2, <2>4, LogFields
    <3>2. LeftNow(work.to) >= 1
      BY <3>1 DEF LeftNow
    <3> QED
      BY <1>3, <2>1, <3>2
  <2> QED
    BY <2>2, <2>3, <2>4
<1>6. CASE Checkpointing
  <2>1. ~work.file => work.to = pos
    BY <1>6 DEF LogInv
  <2>2. CASE BumpDue
    <3>1. ToCome = Staged + (IF Finds(work.to) THEN 1 ELSE 0) + 1
      BY <1>6, <2>2 DEF ToCome, Checkpointing
    <3> QED
      BY <1>3, <2>1, <3>1, LogFields DEF Staged
  <2>3. CASE ~BumpDue /\ ResnapshotDue
    <3>1. ToCome = Staged + 1 + (IF Asks(wal.frames) THEN 1 ELSE 0)
      BY <1>6, <2>3 DEF ToCome, Checkpointing
    <3> QED
      BY <1>0, <3>1, LogFields DEF Staged, Left
  <2>4. CASE ~BumpDue /\ ~ResnapshotDue
    <3>1. ToCome = Staged + Left(work.to)
      BY <1>6, <2>4 DEF ToCome, Checkpointing
    <3> QED
      BY <1>0, <1>2, <2>1, <3>1, LogFields DEF Staged, Left
  <2> QED
    BY <2>2, <2>3, <2>4
<1> QED
  BY <1>4, <1>5, <1>6 DEF TypeOK, Checkpointing

\* An application commit starts the count anew.
LEMMA QuietCommit ==
  ASSUME TypeOK', AppCommit
  PROVE  QuietInv'
<1>1. since'.files = 0 /\ since'.refused = 0
  BY DEF AppCommit
<1>2. ToCome' \in 0 .. 3
  BY ToComeBoundNext
<1>3. \A t \in 0 .. 3 : 0 + t <= 3 + 0
  OBVIOUS
<1> QED
  BY <1>1, <1>2, <1>3, Zenon DEF QuietInv

\* Steps that owe no more and publish nothing.
LEMMA QuietKept ==
  ASSUME TypeOK, TypeOK', QuietInv, since'.files = since.files, since'.refused >= since.refused,
         ToCome' <= ToCome + (since'.refused - since.refused)
  PROVE  QuietInv'
<1>1. ToCome \in 0 .. 3 /\ ToCome' \in 0 .. 3 /\ since'.refused \in Nat
  BY ToComeBound, ToComeBoundNext
<1> QED
  BY <1>1, LogFields DEF QuietInv

LEMMA QuietSame ==
  ASSUME TypeOK, TypeOK', QuietInv, since'.files = since.files, since'.refused = since.refused,
         ToCome' <= ToCome
  PROVE  QuietInv'
<1>1. ToCome \in 0 .. 3 /\ ToCome' \in 0 .. 3
  BY ToComeBound, ToComeBoundNext
<1>2. \A f, r \in Nat, t, u \in 0 .. 3 : f + t <= 3 + r /\ u <= t => f + u <= 3 + r
  OBVIOUS
<1>3. since.files + ToCome <= 3 + since.refused
  BY DEF QuietInv
<1>4. since.files + ToCome' <= 3 + since.refused
  BY <1>1, <1>2, <1>3, LogFields, Zenon
<1> QED
  BY <1>4, Zenon DEF QuietInv

\* Steps that publish a file that was paid for.
LEMMA QuietPaid ==
  ASSUME TypeOK, TypeOK', QuietInv, since'.files = since.files + 1, since'.refused = since.refused,
         ToCome' + 1 <= ToCome
  PROVE  QuietInv'
<1>1. ToCome \in 0 .. 3 /\ ToCome' \in 0 .. 3 /\ since'.files \in Nat
  BY ToComeBound, ToComeBoundNext
<1>2. since.files + ToCome <= 3 + since.refused
  BY DEF QuietInv
<1>3. \A f, r \in Nat, t, u \in 0 .. 3 : f + t <= 3 + r /\ u + 1 <= t => (f + 1) + u <= 3 + r
  OBVIOUS
<1>4. (since.files + 1) + ToCome' <= 3 + since.refused
  BY <1>1, <1>2, <1>3, LogFields, Zenon
<1> QED
  BY <1>4, Zenon DEF QuietInv

\* What is left of a position that the next state keeps, or moves to.
SameExtent == wal'.gen = wal.gen /\ wal'.frames = wal.frames /\ wal'.len = wal.len

LEMMA LeftOfPos ==
  ASSUME SameExtent, NEW p, pos' = p
  PROVE  Left(pos)' = Left(p) /\ LeftNow(pos)' = LeftNow(p)
BY DEF SameExtent, Left, LeftNow, Cap, Finds, Snapshot, Asks, Bumps

LEMMA LeftOfWork ==
  ASSUME SameExtent, NEW p, work'.to = p
  PROVE  /\ Left(work.to)' = Left(p) /\ LeftNow(work.to)' = LeftNow(p)
         /\ Finds(work.to)' <=> Finds(p)
BY DEF SameExtent, Left, LeftNow, Cap, Finds, Snapshot, Asks, Bumps

\* Nothing is left of a position that was just built, but a checkpoint.
LEMMA LeftOfSnapshot ==
  ASSUME TypeOK, BumpsSettle, LogInv
  PROVE  /\ ~Finds(Snapshot) /\ LeftNow(Snapshot) = Left(Snapshot)
         /\ Left(Snapshot) = IF Asks(wal.frames) THEN 1 ELSE 0
         /\ Finds(pos) => Left(pos) = 1 + Left(Snapshot) /\ LeftNow(pos) >= Left(pos)
<1>1. ~Finds(Snapshot) /\ Snapshot.frames = wal.frames
  BY SnapshotFits, LogFields DEF LogInv
<1>2. Cap(Snapshot) = wal.frames
  BY <1>1 DEF Cap
<1>3. Finds(pos) => (Asks(Cap(pos)) <=> Asks(wal.frames))
  BY CapIs DEF TypeOK, LogInv
<1> QED
  BY <1>1, <1>2, <1>3 DEF Left, LeftNow

LEMMA LeftTypes ==
  ASSUME NEW p
  PROVE  /\ Left(p) \in 0 .. 2 /\ LeftNow(p) \in 0 .. 2 /\ Left(p) <= LeftNow(p)
         /\ ~Finds(p) => Left(p) <= 1
         /\ Finds(p) => Left(p) >= 1
BY DEF Left, LeftNow

LEMMA QuietSync ==
  ASSUME TypeOK, TypeOK', BumpsSettle, LogInv, QuietInv, Sync
  PROVE  QuietInv'
<1>1. /\ pc = "sync" /\ UNCHANGED <<wal, pos, since>>
      /\ pc' = IF Finds(pos) THEN "upload" ELSE "checkpoint"
      /\ Finds(pos) => work'.to = Snapshot
  BY BuiltFits DEF Sync
<1>2. ToCome = Left(pos)
  BY <1>1 DEF ToCome
<1>3. CASE Finds(pos)
  <2>1. ToCome' = 1 + LeftNow(Snapshot)
    BY <1>1, <1>3, LeftOfWork DEF ToCome, SameExtent
  <2>2. ToCome' = ToCome
    BY <1>2, <1>3, <2>1, LeftOfSnapshot
  <2> QED
    BY <1>1, <2>2 DEF QuietInv
<1>4. CASE ~Finds(pos)
  <2>1. ToCome' = LeftNow(pos)
    BY <1>1, <1>4, LeftOfPos DEF ToCome, SameExtent
  <2>2. LeftNow(pos) = Left(pos)
    BY <1>4 DEF LeftNow, Left, Cap
  <2> QED
    BY <1>1, <1>2, <2>1, <2>2 DEF QuietInv
<1> QED
  BY <1>3, <1>4

\* A file that was staged is stored: it was paid for.
LEMMA QuietUpload ==
  ASSUME TypeOK, TypeOK', LogInv, QuietInv, Upload
  PROVE  QuietInv'
<1>1. /\ pc = "upload" /\ pc' = "checkpoint" /\ UNCHANGED wal /\ pos' = work.to
      /\ since' = [since EXCEPT !.files = since.files + 1]
  BY UploadedType DEF Upload
<1>2. ToCome = 1 + LeftNow(work.to)
  BY <1>1 DEF ToCome
<1>3. ToCome' = LeftNow(work.to)
  BY <1>1, LeftOfPos DEF ToCome, SameExtent
<1>4. since'.files = since.files + 1 /\ since'.refused = since.refused
  BY <1>1 DEF TypeOK
<1>5. LeftNow(work.to) \in 0 .. 2
  BY LeftTypes
<1>6. ToCome' + 1 <= ToCome
  <2>1. LeftNow(work.to) + 1 <= 1 + LeftNow(work.to)
    BY <1>5
  <2> QED
    BY <1>2, <1>3, <2>1, Zenon
<1> QED
  BY <1>4, <1>6, QuietPaid

LEMMA QuietBuild ==
  ASSUME TypeOK, TypeOK', BumpsSettle, LogInv, QuietInv, BuildNext
  PROVE  QuietInv'
<1>1. /\ pc = "checkpoint" /\ pc' = "pragma" /\ UNCHANGED <<wal, pos, since>>
      /\ Mode # "none" /\ work'.mode = Mode /\ (work'.file <=> Finds(pos))
      /\ work'.to = (IF Finds(pos) THEN Snapshot ELSE pos)
  BY BuiltFits DEF BuildNext
<1>2. ToCome = LeftNow(pos)
  BY <1>1 DEF ToCome
<1> DEFINE to == IF Finds(pos) THEN Snapshot ELSE pos
<1>3. ~Finds(to)
  BY SnapshotFits
<1>4. (Finds(work.to)' <=> Finds(to)) /\ Left(work.to)' = Left(to)
  BY <1>1, LeftOfWork DEF SameExtent
<1>5. Staged' = IF Finds(pos) THEN 1 ELSE 0
  BY <1>1 DEF Staged
<1>6. Left(to) = LeftNow(pos) - (IF Finds(pos) THEN 1 ELSE 0) \/ Asks(pos.frames)
  <2>1. CASE Finds(pos)
    BY <2>1, LeftOfSnapshot, CapIs DEF LeftNow, Left, TypeOK, LogInv
  <2>2. CASE ~Finds(pos)
    BY <2>2 DEF LeftNow, Left, Cap
  <2> QED
    BY <2>1, <2>2
<1>7. CASE Mode = "passive" \/ (Mode = "truncate" /\ wal.len > 0)
  <2>1. ToCome' = (IF Finds(pos) THEN 1 ELSE 0) + 1
    <3>1. BumpDue'
      BY <1>1, <1>7 DEF BumpDue
    <3>2. ToCome' = Staged' + (IF Finds(work.to)' THEN 1 ELSE 0) + 1
      BY <1>1, <3>1 DEF ToCome
    <3> QED
      BY <1>3, <1>4, <1>5, <3>2
  <2>2. Asks(pos.frames)
    BY <1>7, LogFields, DriverAssumption
    DEF Mode, Asks, Bumps, Passive, Truncates, live_wal_frames, TimedMode
  <2>3. ToCome = (IF Finds(pos) THEN 1 ELSE 0) + 1
    BY <1>2, <2>2 DEF LeftNow
  <2> QED
    BY <1>1, <2>1, <2>3 DEF QuietInv
<1>8. CASE ~(Mode = "passive" \/ (Mode = "truncate" /\ wal.len > 0))
  <2>1. ToCome' = (IF Finds(pos) THEN 1 ELSE 0) + Left(to)
    <3>1. ~BumpDue' /\ ~ResnapshotDue'
      BY <1>1, <1>8 DEF BumpDue, ResnapshotDue
    <3>2. ToCome' = Staged' + Left(work.to)'
      BY <1>1, <3>1 DEF ToCome
    <3> QED
      BY <1>4, <1>5, <3>2
  <2>2. ~Asks(pos.frames)
    BY <1>1, <1>8, LogFields, DriverAssumption
    DEF Mode, Asks, Bumps, Passive, Truncates, live_wal_frames, TimedMode
  <2>3. ToCome' = ToCome
    BY <1>2, <1>6, <2>1, <2>2, LeftTypes
  <2> QED
    BY <1>1, <2>3 DEF QuietInv
<1> QED
  BY <1>7, <1>8

\* PASSIVE folds everything; an over-fold shows what was committed meanwhile.
LEMMA QuietPassive ==
  ASSUME TypeOK, TypeOK', BumpsSettle, LogInv, QuietInv, PragmaPassive
  PROVE  QuietInv'
<1>1. PICK n \in Foldable : wal' = [wal EXCEPT !.folded = n] /\ Reported(n)
  BY DEF PragmaPassive
<1>2. n \in Nat
  BY <1>1, FoldedType
<1>3. /\ SameExtent /\ UNCHANGED <<pos, since>> /\ pc = "pragma"
      /\ work'.mode = work.mode /\ work'.file = work.file /\ work'.to = work.to
      /\ work'.folded = wal.frames
      /\ pc' = IF work.mode = "passive" THEN "bump" ELSE AfterCheckpoint
  BY <1>1, <1>2, ReportedFits, FoldedFits DEF PragmaPassive, SameExtent
<1>4. Left(work.to)' = Left(work.to) /\ (Finds(work.to)' <=> Finds(work.to)) /\ Staged' = Staged
  BY <1>3, LeftOfWork DEF Staged
<1>5. CASE work.mode = "passive"
  <2>1. BumpDue /\ BumpDue'
    BY <1>3, <1>5 DEF BumpDue
  <2>2. ToCome = Staged + (IF Finds(work.to) THEN 1 ELSE 0) + 1
    BY <1>3, <2>1 DEF ToCome
  <2>3. ToCome' = Staged' + (IF Finds(work.to)' THEN 1 ELSE 0) + 1
    BY <1>3, <1>5, <2>1 DEF ToCome
  <2> QED
    BY <1>3, <1>4, <2>2, <2>3 DEF QuietInv
<1>6. CASE work.mode = "timed"
  <2>1. ~BumpDue /\ ~BumpDue' /\ ~ResnapshotDue /\ pc' \in {"store", "overfold"}
    BY <1>3, <1>6 DEF BumpDue, ResnapshotDue, AfterCheckpoint
  <2>2. ToCome = Staged + Left(work.to)
    BY <1>3, <2>1 DEF ToCome
  <2>3. CASE OverFolded'
    <3>1. wal.frames > work.to.frames
      BY <1>3, <2>3, LogFields DEF OverFolded
    <3>2. Finds(work.to) /\ (Asks(Cap(work.to)) <=> Asks(wal.frames))
      BY <3>1, LogFields, CapIs DEF Finds, LogInv, TypeOK
    <3>3. ToCome' = Staged' + 1 + (IF Asks(wal.frames)' THEN 1 ELSE 0)
      BY <2>1, <2>3 DEF ToCome, ResnapshotDue
    <3>4. Asks(wal.frames)' <=> Asks(wal.frames)
      BY <1>3 DEF Asks, Bumps, SameExtent
    <3>5. Left(work.to) = 1 + (IF Asks(wal.frames) THEN 1 ELSE 0)
      BY <3>2 DEF Left
    <3>6. ToCome' = ToCome
      BY <1>4, <2>2, <3>3, <3>4, <3>5, LogFields DEF Staged
    <3> QED
      BY <1>3, <3>6 DEF QuietInv
  <2>4. CASE ~OverFolded'
    <3>1. ToCome' = Staged' + Left(work.to)'
      BY <2>1, <2>4 DEF ToCome, ResnapshotDue
    <3> QED
      BY <1>3, <1>4, <2>2, <3>1 DEF QuietInv
  <2> QED
    BY <2>3, <2>4
<1> QED
  BY <1>5, <1>6 DEF PragmaPassive

\* TRUNCATE leaves an empty log: a snapshot, or the bump of a position that
\* still counts the frames that are gone.
LEMMA QuietTruncate ==
  ASSUME TypeOK, TypeOK', BumpsSettle, LogInv, QuietInv, PragmaTruncate
  PROVE  QuietInv'
<1>1. wal' = Emptied /\ Reported(0)
  BY LogFields DEF PragmaTruncate, BumpsSettle
<1>2. /\ UNCHANGED <<pos, since>> /\ pc = "pragma" /\ pc' \in {"store", "overfold"}
      /\ work.mode = "truncate" /\ work'.file = work.file /\ work'.to = work.to
      /\ work'.folded = 0
  BY <1>1, ReportedFits DEF PragmaTruncate, AfterCheckpoint
<1>3. wal'.gen = wal.gen /\ wal'.frames = 0 /\ wal'.len = 0
  BY <1>1 DEF Emptied, TypeOK
<1>4. Staged' = Staged /\ Staged \in 0 .. 1
  BY <1>2 DEF Staged
<1>5. ToCome' = Staged + Left(work.to)'
  <2>1. ~BumpDue' /\ ~ResnapshotDue'
    BY <1>2, LogFields DEF BumpDue, ResnapshotDue, OverFolded
  <2> QED
    BY <1>2, <1>4, <2>1 DEF ToCome
<1>6. CASE wal.len = 0
  <2>1. SameExtent
    BY <1>3, <1>6, LogFields DEF SameExtent, LogInv
  <2>2. Left(work.to)' = Left(work.to)
    BY <1>2, <2>1, LeftOfWork
  <2>3. ToCome = Staged + Left(work.to)
    BY <1>2, <1>6, LogFields DEF ToCome, BumpDue, ResnapshotDue
  <2> QED
    BY <1>2, <1>5, <2>2, <2>3 DEF QuietInv
<1>7. CASE wal.len # 0
  <2>1. ToCome = Staged + (IF Finds(work.to) THEN 1 ELSE 0) + 1
    BY <1>2, <1>7, LogFields DEF ToCome, BumpDue
  <2>2. Left(work.to)' \in 0 .. 1
    <3>1. Finds(work.to)' <=> ~work.to.toEnd
      BY <1>2, <1>3 DEF Finds
    <3>2. Finds(work.to)' => Cap(work.to)' = 0
      BY <1>3 DEF Cap, Snapshot
    <3>3. Finds(work.to)' => ~Asks(Cap(work.to))'
      BY <1>3, <3>2, DriverAssumption DEF Asks, Bumps, BumpsSettle
    <3> QED
      BY <3>3 DEF Left
  <2>3. PICK l \in 0 .. 1 : l = Left(work.to)'
    BY <2>2
  <2>4. ToCome' = Staged + l /\ Staged + l <= ToCome
    BY <1>4, <1>5, <2>1, <2>3, LogFields
  <2> QED
    BY <1>2, <2>4, QuietSame, Zenon
<1> QED
  BY <1>6, <1>7

\* A refused PRAGMA is answered by a snapshot, one for each.
LEMMA QuietRefused ==
  ASSUME TypeOK, TypeOK', BumpsSettle, LogInv, QuietInv, PragmaRefused
  PROVE  QuietInv'
<1>1. /\ UNCHANGED <<wal, pos>> /\ pc = "pragma" /\ pc' \in {"store", "overfold"}
      /\ work'.file = work.file /\ work'.folded = -1
      /\ since' = [since EXCEPT !.refused = since.refused + 1]
  BY ReportedFits DEF PragmaRefused, AfterCheckpoint
<1>2. since'.files = since.files /\ since'.refused = since.refused + 1
  BY <1>1 DEF TypeOK
<1>3. ToCome' = Staged + 1 + (IF Asks(wal.frames) THEN 1 ELSE 0)
  <2>1. ~BumpDue' /\ ResnapshotDue'
    BY <1>1 DEF BumpDue, ResnapshotDue, OverFolded
  <2>2. Staged' = Staged
    BY <1>1 DEF Staged
  <2>3. Asks(wal.frames)' <=> Asks(wal.frames)
    BY <1>1 DEF Asks, Bumps
  <2> QED
    BY <1>1, <2>1, <2>2, <2>3 DEF ToCome
<1>4. Asks(wal.frames) => Left(work.to) >= 1
  BY CapIs DEF Left, TypeOK, LogInv
<1>5. Staged + 1 + (IF Asks(wal.frames) THEN 1 ELSE 0) <= ToCome + 1
  <2>1. CASE BumpDue
    <3>1. ToCome = Staged + (IF Finds(work.to) THEN 1 ELSE 0) + 1
      BY <1>1, <2>1 DEF ToCome
    <3> QED
      BY <3>1 DEF Staged
  <2>2. CASE ~BumpDue
    <3>1. ToCome = Staged + Left(work.to)
      BY <1>1, <2>2 DEF ToCome, ResnapshotDue
    <3> QED
      BY <1>4, <3>1, LeftTypes DEF Staged
  <2> QED
    BY <2>1, <2>2
<1>6. since'.refused - since.refused = 1
  BY <1>2, LogFields
<1>7. since'.refused >= since.refused
  BY <1>2, LogFields
<1> QED
  BY <1>2, <1>3, <1>5, <1>6, <1>7, QuietKept, Zenon

\* The bump was paid for; a commit before it is captured with it.
LEMMA QuietBump ==
  ASSUME TypeOK, TypeOK', BumpsSettle, LogInv, QuietInv, Bump
  PROVE  QuietInv'
<1>1. /\ wal' = Appended(FullyFolded) /\ FullyFolded \in BOOLEAN
      /\ UNCHANGED <<pos, work, since>> /\ pc = "bump" /\ pc' \in {"store", "overfold"}
      /\ work.mode = "passive" /\ MinFrames < TruncateFrames
  BY DEF Bump, FullyFolded, AfterCheckpoint, LogInv, Checkpointing
<1>2. wal.len = 0 => FullyFolded
  BY LogFields DEF LogInv, FullyFolded
<1>3. ToCome = Staged + (IF Finds(work.to) THEN 1 ELSE 0) + 1
  BY <1>1 DEF ToCome, BumpDue
<1>4. Staged' = Staged /\ Staged \in 0 .. 1 /\ ~BumpDue'
  BY <1>1 DEF Staged, BumpDue
<1>5. work.to \in Position /\ Behind(work.to)
  BY DEF TypeOK, LogInv
<1>6. Finds(work.to)'
  BY <1>1, <1>2, <1>5, AppendedFits, LogFields DEF Finds
<1>7. CASE OverFolded'
  <2>1. OverFolded
    BY <1>1, <1>7 DEF OverFolded
  <2>2. Finds(work.to)
    <3> SUFFICES ASSUME ~Finds(work.to) PROVE FALSE
      OBVIOUS
    <3>1. work.folded = wal.frames
      BY <1>1 DEF LogInv
    <3> QED
      BY <1>5, <2>1, <3>1, CapIs, LogFields DEF OverFolded, LogInv
  <2>3. ToCome' = Staged + 1 + (IF Asks(wal.frames)' THEN 1 ELSE 0)
    BY <1>1, <1>4, <1>7 DEF ToCome, ResnapshotDue
  <2>4. ToCome = Staged + 2
    BY <1>3, <1>4, <2>2
  <2>5. PICK n \in 0 .. 1 : ToCome' = Staged + 1 + n
    BY <2>3
  <2>6. Staged + 1 + n <= ToCome
    BY <1>4, <2>4, LogFields
  <2> QED
    BY <1>1, <2>5, <2>6, QuietSame, Zenon
<1>8. CASE ~OverFolded'
  <2>1. ToCome' = Staged + Left(work.to)'
    BY <1>1, <1>4, <1>8 DEF ToCome, ResnapshotDue
  <2>2. Left(work.to)' = 1 + (IF Asks(Cap(work.to))' THEN 1 ELSE 0)
    BY <1>6 DEF Left
  <2>3. ~Finds(work.to) => ~Asks(Cap(work.to))'
    <3> SUFFICES ASSUME ~Finds(work.to) PROVE ~Asks(Cap(work.to))'
      OBVIOUS
    <3>1. FullyFolded
      BY <1>1 DEF LogInv
    <3>2. wal'.frames = 1 /\ wal'.len > 0
      BY <1>1, <1>2, <3>1, AppendedFits
    <3>3. Cap(work.to)' = 1
      BY <1>6, <3>2 DEF Cap, Snapshot
    <3> QED
      BY <1>1, <3>3, DriverAssumption DEF Asks, Bumps, BumpsSettle
  <2>4. PICK n \in 0 .. 1 : ToCome' = Staged + (1 + n) /\ (~Finds(work.to) => n = 0)
    BY <2>1, <2>2, <2>3
  <2>5. Staged + (1 + n) <= ToCome
    BY <1>3, <1>4, <2>4, LogFields
  <2> QED
    BY <1>1, <2>4, <2>5, QuietSame, Zenon
<1> QED
  BY <1>7, <1>8

LEMMA QuietStore ==
  ASSUME TypeOK, TypeOK', LogInv, QuietInv, Store
  PROVE  QuietInv'
<1>1. /\ pc = "store" /\ pc' = "overfold" /\ UNCHANGED wal /\ work.file
      /\ work' = [work EXCEPT !.file = FALSE] /\ since' = [since EXCEPT !.files = since.files + 1]
  BY UploadedType DEF Store, LogInv
<1>2. /\ ~work'.file /\ work'.to = work.to /\ work'.folded = work.folded
      /\ since'.files = since.files + 1 /\ since'.refused = since.refused
  BY <1>1 DEF TypeOK
<1>3. Staged = 1 /\ Staged' = 0
  BY <1>1, <1>2 DEF Staged
<1>4. /\ Left(work.to)' = Left(work.to) /\ (Asks(wal.frames)' <=> Asks(wal.frames))
      /\ (OverFolded' <=> OverFolded)
  BY <1>1, <1>2, LeftOfWork DEF Asks, Bumps, OverFolded, SameExtent
<1>5. Left(work.to) \in 0 .. 2
  BY LeftTypes
<1> DEFINE left == IF OverFolded THEN 1 + (IF Asks(wal.frames) THEN 1 ELSE 0) ELSE Left(work.to)
<1>6. ToCome' = left /\ ToCome = 1 + left
  BY <1>1, <1>3, <1>4, <1>5 DEF ToCome, BumpDue, ResnapshotDue
<1>7. left \in 0 .. 2
  BY <1>5
<1> HIDE DEF left
<1>8. left + 1 <= 1 + left
  BY <1>7
<1>9. ToCome' + 1 <= ToCome
  BY <1>6, <1>8, Zenon
<1> QED
  BY <1>2, <1>9, QuietPaid

LEMMA QuietResnapshot ==
  ASSUME TypeOK, TypeOK', BumpsSettle, LogInv, QuietInv, Resnapshot
  PROVE  QuietInv'
<1>1. /\ pc = "overfold" /\ OverFolded /\ pc' = "resnapshot" /\ UNCHANGED wal
      /\ work'.file /\ work'.to = Snapshot
      /\ since'.files = since.files /\ since'.refused = since.refused
  BY DEF Resnapshot, TypeOK
<1>2. ToCome = Staged + 1 + (IF Asks(wal.frames) THEN 1 ELSE 0)
  BY <1>1 DEF ToCome, BumpDue, ResnapshotDue
<1>3. ToCome' = 1 + Left(Snapshot)
  BY <1>1, LeftOfWork DEF ToCome, BumpDue, ResnapshotDue, Staged, SameExtent
<1>4. 1 + Left(Snapshot) <= ToCome
  BY <1>2, LeftOfSnapshot, LogFields DEF Staged
<1> QED
  BY <1>1, <1>3, <1>4, QuietSame, Zenon

LEMMA QuietResnapshotDone ==
  ASSUME TypeOK, TypeOK', LogInv, QuietInv, ResnapshotDone
  PROVE  QuietInv'
<1>1. /\ pc = "resnapshot" /\ pc' = "jobs" /\ UNCHANGED wal /\ pos' = work.to /\ work.file
      /\ since'.files = since.files + 1 /\ since'.refused = since.refused
  BY DEF ResnapshotDone, Checkpointed, TypeOK, LogInv
<1>2. ToCome = 1 + Left(work.to)
  BY <1>1 DEF ToCome, BumpDue, ResnapshotDue, Staged
<1>3. ToCome' = Left(work.to)
  BY <1>1, LeftOfPos DEF ToCome, SameExtent
<1>4. Left(work.to) + 1 <= 1 + Left(work.to)
  BY LeftTypes
<1>5. ToCome' + 1 <= ToCome
  BY <1>2, <1>3, <1>4, Zenon
<1> QED
  BY <1>1, <1>5, QuietPaid

\* The tick ends, for whatever reason, or goes on to its jobs.
LEMMA QuietReturn ==
  ASSUME TypeOK, TypeOK', BumpsSettle, LogInv, QuietInv, pc' \in {"idle", "sync", "jobs"},
         UNCHANGED <<wal, pos, since>>
  PROVE  QuietInv'
<1>1. ToCome' = Left(pos)
  BY LeftOfPos DEF ToCome, SameExtent
<1>2. Left(pos) <= ToCome
  BY EndsEarly
<1> QED
  BY <1>1, <1>2, QuietSame, Zenon

LEMMA QuietStep ==
  ASSUME TypeOK, TypeOK', BumpsSettle, LogInv, QuietInv, Next
  PROVE  QuietInv'
<1>1. CASE TickAt \/ ClockBack \/ SyncFails \/ NoCheckpoint \/ CheckpointDone \/ CheckpointFails
           \/ SkipJob \/ RunJob \/ JobFails
  <2>1. pc' \in {"idle", "sync", "jobs"} /\ UNCHANGED <<wal, pos, since>>
    BY <1>1 DEF TickAt, ClockBack, SyncFails, NoCheckpoint, CheckpointDone, Checkpointed,
       CheckpointFails, SkipJob, RunJob, JobFails, Advance, Return, logVars
  <2> QED
    BY <2>1, QuietReturn
<1> QED
  BY <1>1, QuietCommit, QuietSync, QuietUpload, QuietBuild, QuietPassive, QuietTruncate,
     QuietRefused, QuietBump, QuietStore, QuietResnapshot, QuietResnapshotDone
  DEF Next, Tick, Checkpoint

LEMMA QuietInit == ASSUME BumpsSettle, Init PROVE QuietInv
<1>1. pc = "idle" /\ since.files = 0 /\ since.refused = 0
  BY DEF Init
<1>2. ToCome = Left(pos) /\ Left(pos) \in 0 .. 2
  BY <1>1, LeftTypes DEF ToCome
<1> QED
  BY <1>1, <1>2 DEF QuietInv

\* An idle database stops costing files: the frame that each checkpoint of
\* checkpoint_if_needed appends (bump_seq) does not ask for the next one.  After
\* its last commit it publishes the file under way, the commit, the bump, and
\* what an over-fold or a refused PRAGMA makes of them, and no more.
THEOREM IdleStaysQuiet == ASSUME BumpsSettle PROVE Spec => []IdleIsQuiet
<1> DEFINE Inv == LogInv /\ QuietInv
<1>1. Init => Inv
  BY LogInit, QuietInit
<1>2. TypeOK /\ TypeOK' /\ Inv /\ [Next]_vars => Inv'
  <2> SUFFICES ASSUME TypeOK, TypeOK', LogInv, QuietInv, [Next]_vars PROVE LogInv' /\ QuietInv'
    OBVIOUS
  <2>1. CASE Next
    BY <2>1, LogStep, QuietStep
  <2>2. CASE UNCHANGED vars
    BY <2>2 DEF vars, logVars, LogInv, Behind, Checkpointing, FullyFolded, QuietInv, ToCome, Left,
       LeftNow, Staged, BumpDue, ResnapshotDue, OverFolded, Asks, Bumps, Cap, Finds, Snapshot
  <2> QED
    BY <2>1, <2>2
<1>3. TypeOK /\ Inv => IdleIsQuiet
  <2> SUFFICES ASSUME TypeOK, QuietInv PROVE IdleIsQuiet
    OBVIOUS
  <2> QED
    BY ToComeBound, LogFields DEF QuietInv, IdleIsQuiet
<1> HIDE DEF Inv
<1> QED
  BY <1>1, <1>2, <1>3, DriverTypeCorrect, PTL DEF Spec

(***************************************************************************)
(* When the log of an idle database is folded.                             *)
(***************************************************************************)
Unfolded == wal.folded # wal.frames

\* Since the last commit nothing but jobs failed and no snapshot was taken for
\* an over-fold.
Ordinary == untroubled /\ commits > 0 /\ since.snapshots = 0

\* The time of a checkpoint lies before the tick that has not come to its own.
ClockInv ==
  untroubled => lastCheckpoint <= now /\ (pc \notin {"idle", "jobs"} => lastCheckpoint < now)

\* Frames that are not folded are captured by the next sync, or their sync is
\* remembered; the checkpoint that left them came no later than the tick after
\* the last commit, like every bump.  Within a tick, what the staged file does
\* not hold was committed at this very moment, or bumped.
BetweenTicks ==
  /\ Unfolded => Finds(pos) \/ syncedSince
  /\ Bumps(Cap(pos)) => now <= since.at
AtSync ==
  /\ Unfolded => Finds(pos) \/ syncedSince
  /\ Bumps(Cap(pos)) => now <= since.at + MaxGap
AtUpload ==
  /\ Finds(work.to) /\ wal.len > 0 => since.at = now
  /\ Bumps(work.to.frames) => now <= since.at + MaxGap
AtCheckpoint ==
  /\ Unfolded => Finds(pos) \/ syncedSince
  /\ Finds(pos) /\ wal.len > 0 => since.at = now
  /\ Bumps(pos.frames) => now <= since.at + MaxGap
AtPragma ==
  /\ Finds(work.to) /\ wal.len > 0 => since.at = now
  /\ Bumps(work.to.frames) /\ work.mode # "passive" => now <= since.at
AfterPragma ==
  ~OverFolded =>
    /\ Unfolded => Finds(work.to)
    /\ Finds(work.to) /\ wal.len > 0 => since.at = now \/ work.mode = "passive"
    /\ Bumps(Cap(work.to)) => now <= since.at
AtResnapshot == since.at = now /\ (Unfolded => Finds(work.to))

TimeInv ==
  Ordinary =>
    /\ Unfolded => lastCheckpoint <= since.at + MaxGap
    /\ pc \in {"pragma", "bump", "store", "overfold"} /\ work.mode = "passive"
         => now <= since.at + MaxGap
    /\ pc \in {"idle", "jobs"} => BetweenTicks
    /\ pc = "sync" => AtSync
    /\ pc = "upload" => AtUpload
    /\ pc = "checkpoint" => AtCheckpoint
    /\ pc \in {"pragma", "bump"} => AtPragma
    /\ pc \in {"store", "overfold"} => AfterPragma
    /\ pc = "resnapshot" => AtResnapshot

LEMMA TimeTypes ==
  ASSUME TypeOK
  PROVE  /\ now \in Nat /\ lastCheckpoint \in Nat /\ MaxGap \in Nat \ {0}
         /\ CheckpointInterval \in Nat /\ MinFrames \in Nat /\ TruncateFrames \in Nat
BY DriverAssumption DEF TypeOK

LEMMA ClockStep == ASSUME TypeOK, ClockInv, Next PROVE ClockInv'
<1>1. CASE TickAt
  <2>1. PICK t \in now + 1 .. now + MaxGap : now' = t
    BY <1>1 DEF TickAt
  <2>2. lastCheckpoint' = lastCheckpoint /\ untroubled' = untroubled
    BY <1>1 DEF TickAt, logVars
  <2> QED
    BY <2>1, <2>2, TimeTypes DEF ClockInv
<1>2. CASE ~untroubled'
  BY <1>2 DEF ClockInv
<1>3. CASE /\ now' = now /\ untroubled' = untroubled
           /\ \/ lastCheckpoint' = lastCheckpoint /\ (pc' \notin {"idle", "jobs"} => pc \notin {"idle", "jobs"})
              \/ lastCheckpoint' = now /\ pc' = "jobs"
  BY <1>3, TimeTypes DEF ClockInv
<1> QED
  BY <1>1, <1>2, <1>3
  DEF Next, AppCommit, Tick, ClockBack, Sync, Upload, SyncFails, Checkpoint, NoCheckpoint, BuildNext,
      PragmaPassive, PragmaTruncate, PragmaRefused, Bump, Store, CheckpointDone, Checkpointed,
      Resnapshot, ResnapshotDone, CheckpointFails, SkipJob, RunJob, JobFails, Advance, Return,
      logVars

\* A commit is new to every position, and just happened.
LEMMA TimeCommit ==
  ASSUME TypeOK, BumpsSettle, LogInv, ClockInv, AppCommit
  PROVE  TimeInv' /\ FoldedInTime'
<1>1. PICK fresh \in BOOLEAN : wal' = Appended(fresh) /\ (wal.len = 0 => fresh)
  BY LogFields DEF AppCommit, FullyFolded
<1>2. UNCHANGED <<pos, work, pc, now, lastCheckpoint, untroubled>> /\ since'.at = now
  BY DEF AppCommit
<1>3. pos \in Position /\ work.to \in Position /\ Behind(pos) /\ Behind(work.to)
  BY DEF TypeOK, LogInv
<1>4. Finds(pos)' /\ Finds(work.to)'
  BY <1>1, <1>2, <1>3, AppendedFits, LogFields DEF Finds
<1>5. untroubled => lastCheckpoint <= now
  BY DEF ClockInv
<1> QED
  BY <1>2, <1>4, <1>5, TimeTypes
  DEF TimeInv, FoldedInTime, LowWriteIsFolded, Ordinary, BetweenTicks, AtSync, AtUpload,
      AtCheckpoint, AtPragma, AfterPragma, AtResnapshot

\* A position that asks for a bump after the next sync.
LEMMA CapBumps ==
  ASSUME TypeOK, BumpsSettle, LogInv, NEW p \in Position, Behind(p), Bumps(Cap(p))
  PROVE  \/ Finds(p) /\ wal.len > 0
         \/ ~Finds(p) /\ Bumps(p.frames)
<1>1. CASE Finds(p)
  <2>1. wal.len = 0 => Cap(p) = 0
    BY <1>1 DEF Cap, Snapshot
  <2> QED
    BY <1>1, <2>1, LogFields, TimeTypes DEF Bumps, BumpsSettle
<1>2. CASE ~Finds(p)
  BY <1>2 DEF Cap
<1> QED
  BY <1>1, <1>2

LEMMA UnfoldedLog ==
  ASSUME TypeOK, LogInv, Unfolded
  PROVE  wal.len > 0
BY LogFields DEF LogInv, Unfolded

\* What a state says of positions, where the log keeps its extent.
LEMMA SameFinds ==
  ASSUME SameExtent, NEW p
  PROVE  /\ pos' = p => (Finds(pos)' <=> Finds(p)) /\ Cap(pos)' = Cap(p)
         /\ work'.to = p => (Finds(work.to)' <=> Finds(p)) /\ Cap(work.to)' = Cap(p)
BY DEF SameExtent, Finds, Cap, Snapshot

LEMMA TimeTick ==
  ASSUME TypeOK, LogInv, ClockInv, TimeInv, TickAt
  PROVE  TimeInv' /\ FoldedInTime'
<1>0. SUFFICES ASSUME Ordinary' PROVE TimeInv' /\ FoldedInTime'
  BY DEF TickAt, TimeInv, FoldedInTime, LowWriteIsFolded
<1>1. PICK t \in now + 1 .. now + MaxGap : now' = t
  BY DEF TickAt
<1>2. /\ UNCHANGED <<lastCheckpoint, syncedSince, pos, wal, since>> /\ pc = "idle" /\ pc' = "sync"
      /\ Ordinary
  BY <1>0 DEF TickAt, logVars, Ordinary
<1>3. (Finds(pos)' <=> Finds(pos)) /\ Cap(pos)' = Cap(pos)
  BY <1>2, SameFinds DEF SameExtent
<1>4. Bumps(Cap(pos)) => now' <= since.at + MaxGap
  BY <1>1, <1>2, LogFields, TimeTypes DEF TimeInv, BetweenTicks
<1> QED
  BY <1>2, <1>3, <1>4 DEF TimeInv, FoldedInTime, LowWriteIsFolded, BetweenTicks, AtSync, Unfolded,
     Bumps

LEMMA TimeSync ==
  ASSUME TypeOK, BumpsSettle, LogInv, TimeInv, Sync
  PROVE  TimeInv' /\ FoldedInTime'
<1>0. SUFFICES ASSUME Ordinary' PROVE TimeInv' /\ FoldedInTime'
  BY DEF Sync, TimeInv, FoldedInTime, LowWriteIsFolded
<1>1. /\ UNCHANGED <<now, lastCheckpoint, syncedSince, pos, wal, since>> /\ pc = "sync" /\ Ordinary
      /\ pc' = IF Finds(pos) THEN "upload" ELSE "checkpoint"
      /\ Finds(pos) => work'.to = Snapshot
  BY <1>0, BuiltFits DEF Sync, Ordinary
<1>2. AtSync /\ (Unfolded => lastCheckpoint <= since.at + MaxGap)
  BY <1>1 DEF TimeInv
<1>3. CASE Finds(pos)
  <2>1. ~Finds(work.to)' /\ work'.to.frames = Cap(pos)
    BY <1>1, <1>3, SameFinds, SnapshotFits DEF SameExtent, Cap
  <2>2. AtUpload'
    BY <1>1, <1>2, <2>1 DEF AtSync, AtUpload, Bumps
  <2> QED
    BY <1>1, <1>2, <1>3, <2>2 DEF TimeInv, FoldedInTime, LowWriteIsFolded, Unfolded
<1>4. CASE ~Finds(pos)
  <2>1. ~Finds(pos)' /\ Cap(pos) = pos.frames
    BY <1>1, <1>4, SameFinds DEF SameExtent, Cap
  <2>2. AtCheckpoint'
    BY <1>1, <1>2, <1>4, <2>1 DEF AtSync, AtCheckpoint, Unfolded, Bumps
  <2> QED
    BY <1>1, <1>2, <1>4, <2>2 DEF TimeInv, FoldedInTime, LowWriteIsFolded, Unfolded
<1> QED
  BY <1>3, <1>4

LEMMA TimeUpload ==
  ASSUME TypeOK, LogInv, TimeInv, Upload
  PROVE  TimeInv' /\ FoldedInTime'
<1>1. /\ UNCHANGED <<now, lastCheckpoint, wal, commits, untroubled>> /\ pos' = work.to
      /\ pc = "upload" /\ pc' = "checkpoint" /\ syncedSince'
      /\ since' = [since EXCEPT !.files = since.files + 1]
  BY UploadedType DEF Upload, SyncedSince
<1>2. since'.at = since.at /\ since'.snapshots = since.snapshots
  BY <1>1 DEF TypeOK
<1>0. SUFFICES ASSUME Ordinary' PROVE TimeInv' /\ FoldedInTime'
  BY <1>1 DEF TimeInv, FoldedInTime, LowWriteIsFolded
<1>3. Ordinary
  BY <1>0, <1>1, <1>2 DEF Ordinary
<1>4. AtUpload /\ (Unfolded => lastCheckpoint <= since.at + MaxGap)
  BY <1>1, <1>3 DEF TimeInv
<1>5. Finds(pos)' <=> Finds(work.to)
  BY <1>1, SameFinds DEF SameExtent
<1>6. AtCheckpoint'
  BY <1>1, <1>2, <1>4, <1>5 DEF AtUpload, AtCheckpoint, Bumps
<1> QED
  BY <1>1, <1>2, <1>4, <1>6 DEF TimeInv, FoldedInTime, LowWriteIsFolded, Unfolded

\* checkpoint_if_needed and the timed checkpoint leave the log alone only while
\* it is early.
LEMMA TimeNone ==
  ASSUME TypeOK, BumpsSettle, CheckpointInterval # 0, LogInv, ClockInv, TimeInv, NoCheckpoint
  PROVE  TimeInv' /\ FoldedInTime'
<1>0. SUFFICES ASSUME Ordinary' PROVE TimeInv' /\ FoldedInTime'
  BY DEF TimeInv, FoldedInTime, LowWriteIsFolded, Ordinary
<1>1. /\ UNCHANGED <<now, lastCheckpoint, syncedSince, pos, wal, since>>
      /\ pc = "checkpoint" /\ pc' = "jobs" /\ ~Passive /\ ~Truncates /\ ~TimedDue /\ Ordinary
  BY <1>0 DEF NoCheckpoint, Mode, TimedMode, Ordinary
<1>2. AtCheckpoint /\ (Unfolded => lastCheckpoint <= since.at + MaxGap)
  BY <1>1 DEF TimeInv
<1>3. (Finds(pos)' <=> Finds(pos)) /\ Cap(pos)' = Cap(pos)
  BY <1>1, SameFinds DEF SameExtent
<1>4. ~Bumps(pos.frames)
  BY <1>1, LogFields, TimeTypes DEF Bumps, Passive, Truncates, live_wal_frames
<1>5. Bumps(Cap(pos)) => now <= since.at
  <2>1. Bumps(Cap(pos)) => Finds(pos) /\ wal.len > 0
    BY <1>4, CapBumps DEF TypeOK, LogInv
  <2> QED
    BY <1>2, <2>1, LogFields, TimeTypes DEF AtCheckpoint
<1>6. BetweenTicks'
  BY <1>1, <1>2, <1>3, <1>5 DEF AtCheckpoint, BetweenTicks, Unfolded, Bumps
<1>7. ASSUME Unfolded PROVE now - since.at <= CheckpointInterval + 2 * MaxGap
  <2>1. wal.len > 0
    BY <1>7, UnfoldedLog
  <2>2. CASE Finds(pos)
    BY <1>2, <2>1, <2>2, LogFields, TimeTypes DEF AtCheckpoint
  <2>3. CASE ~Finds(pos)
    <3>1. syncedSince
      BY <1>2, <1>7, <2>3 DEF AtCheckpoint
    <3>2. now - lastCheckpoint < CheckpointInterval
      BY <1>1, <2>1, <3>1, TimeTypes DEF TimedDue
    <3> QED
      BY <1>2, <1>7, <3>2, LogFields, TimeTypes
  <2> QED
    BY <2>2, <2>3
<1>8. FoldedInTime'
  BY <1>1, <1>7, LogFields, TimeTypes DEF FoldedInTime, LowWriteIsFolded, FullyFolded, Unfolded
<1> QED
  BY <1>1, <1>2, <1>6, <1>8 DEF TimeInv, Unfolded

LEMMA TimeBuild ==
  ASSUME TypeOK, BumpsSettle, LogInv, TimeInv, BuildNext
  PROVE  TimeInv' /\ FoldedInTime'
<1>0. SUFFICES ASSUME Ordinary' PROVE TimeInv' /\ FoldedInTime'
  BY DEF BuildNext, TimeInv, FoldedInTime, LowWriteIsFolded
<1>1. /\ UNCHANGED <<now, lastCheckpoint, syncedSince, pos, wal, since>>
      /\ pc = "checkpoint" /\ pc' = "pragma" /\ Ordinary
      /\ work'.mode = Mode /\ work'.to = (IF Finds(pos) THEN Snapshot ELSE pos)
  BY <1>0, BuiltFits DEF BuildNext, Ordinary
<1>2. AtCheckpoint /\ (Unfolded => lastCheckpoint <= since.at + MaxGap)
  BY <1>1 DEF TimeInv
<1>3. ~Finds(work.to)'
  <2> DEFINE to == IF Finds(pos) THEN Snapshot ELSE pos
  <2>1. ~Finds(to)
    BY SnapshotFits
  <2> QED
    BY <1>1, <2>1, SameFinds DEF SameExtent
<1>4. Mode = "passive" <=> Bumps(pos.frames)
  BY LogFields, TimeTypes DEF Mode, TimedMode, Bumps, Passive, Truncates, live_wal_frames
<1>5. ASSUME Bumps(work'.to.frames), Mode # "passive" PROVE now <= since.at
  <2>1. Finds(pos) /\ wal.len > 0
    <3>1. CASE ~Finds(pos)
      BY <1>1, <1>4, <1>5, <3>1
    <3>2. CASE Finds(pos) /\ wal.len = 0
      BY <1>1, <1>5, <3>2, TimeTypes DEF Snapshot, Bumps, BumpsSettle
    <3> QED
      BY <3>1, <3>2, LogFields
  <2> QED
    BY <1>2, <2>1, LogFields, TimeTypes DEF AtCheckpoint
<1>6. AtPragma'
  BY <1>1, <1>3, <1>5 DEF AtPragma, Bumps
<1>7. Mode = "passive" => now <= since.at + MaxGap
  BY <1>2, <1>4 DEF AtCheckpoint
<1> QED
  BY <1>1, <1>2, <1>6, <1>7 DEF TimeInv, FoldedInTime, LowWriteIsFolded, Unfolded

\* A PRAGMA that leaves a log all folded.
LEMMA TimeFolded ==
  ASSUME TypeOK, BumpsSettle, LogInv, TimeInv, pc = "pragma",
         pc' \in {"bump", "store", "overfold"}, pc' = "bump" <=> work.mode = "passive",
         UNCHANGED <<now, lastCheckpoint, pos, since, commits, untroubled>>,
         work'.to = work.to, work'.mode = work.mode, wal'.folded = wal'.frames,
         SameExtent \/ wal'.len = 0
  PROVE  TimeInv' /\ FoldedInTime'
<1>0. SUFFICES ASSUME Ordinary' PROVE TimeInv' /\ FoldedInTime'
  BY DEF TimeInv, FoldedInTime, LowWriteIsFolded
<1>1. Ordinary
  BY <1>0 DEF Ordinary
<1>2. /\ AtPragma /\ (work.mode = "passive" => now <= since.at + MaxGap)
  BY <1>1 DEF TimeInv
<1>3. ~Unfolded'
  BY DEF Unfolded
<1>4. Finds(work.to)' /\ wal'.len > 0 => since.at = now
  <2>1. CASE SameExtent
    BY <1>2, <2>1, SameFinds DEF AtPragma, SameExtent
  <2>2. CASE wal'.len = 0
    BY <2>2
  <2> QED
    BY <2>1, <2>2
<1>5. CASE work.mode = "passive"
  <2>1. AtPragma'
    BY <1>4, <1>5 DEF AtPragma
  <2> QED
    BY <1>2, <1>3, <1>5, <2>1 DEF TimeInv, FoldedInTime, LowWriteIsFolded
<1>6. CASE work.mode # "passive"
  <2>1. Bumps(Cap(work.to))' => now <= since.at
    <3>1. CASE SameExtent
      <4>1. Cap(work.to)' = Cap(work.to)
        BY <3>1, SameFinds
      <4>2. ASSUME Bumps(Cap(work.to)) PROVE now <= since.at
        BY <1>2, <1>6, <4>2, CapBumps, LogFields, TimeTypes DEF AtPragma, TypeOK, LogInv
      <4> QED
        BY <4>1, <4>2 DEF Bumps
    <3>2. CASE wal'.len = 0
      <4>1. Cap(work.to)' = 0 \/ Cap(work.to)' = work.to.frames
        BY <3>2 DEF Cap, Snapshot
      <4> QED
        BY <1>2, <1>6, <4>1, TimeTypes DEF AtPragma, Bumps, BumpsSettle
    <3> QED
      BY <3>1, <3>2
  <2>2. AfterPragma'
    BY <1>3, <1>4, <2>1 DEF AfterPragma
  <2> QED
    BY <1>3, <1>6, <2>2 DEF TimeInv, FoldedInTime, LowWriteIsFolded
<1> QED
  BY <1>5, <1>6

LEMMA TimePragma ==
  ASSUME TypeOK, BumpsSettle, LogInv, TimeInv, PragmaPassive \/ PragmaTruncate
  PROVE  TimeInv' /\ FoldedInTime'
<1>1. CASE PragmaPassive
  <2>1. PICK n \in Foldable : wal' = [wal EXCEPT !.folded = n] /\ Reported(n)
    BY <1>1 DEF PragmaPassive
  <2>2. n \in Nat
    BY <2>1, FoldedType
  <2>3. SameExtent /\ wal'.folded = wal'.frames /\ work'.to = work.to /\ work'.mode = work.mode
    BY <2>1, <2>2, ReportedFits, FoldedFits DEF SameExtent
  <2> QED
    BY <1>1, <2>3, TimeFolded DEF PragmaPassive, AfterCheckpoint
<1>2. CASE PragmaTruncate
  <2>1. wal' = Emptied /\ Reported(0)
    BY <1>2, LogFields DEF PragmaTruncate, BumpsSettle
  <2>2. wal'.len = 0 /\ wal'.folded = wal'.frames
    BY <2>1 DEF Emptied, TypeOK
  <2>3. work'.to = work.to /\ work'.mode = work.mode
    BY <2>1, ReportedFits
  <2> QED
    BY <1>2, <2>2, <2>3, TimeFolded DEF PragmaTruncate, AfterCheckpoint
<1> QED
  BY <1>1, <1>2

LEMMA TimeRefused ==
  ASSUME TypeOK, TimeInv, PragmaRefused
  PROVE  TimeInv' /\ FoldedInTime'
<1>1. /\ UNCHANGED <<now, lastCheckpoint, wal, commits, untroubled>> /\ pc = "pragma"
      /\ pc' \in {"store", "overfold"} /\ work'.mode = work.mode /\ work'.folded = -1
      /\ since'.at = since.at /\ since'.snapshots = since.snapshots
  BY ReportedFits DEF PragmaRefused, AfterCheckpoint, TypeOK
<1>2. AfterPragma'
  BY <1>1 DEF AfterPragma, OverFolded
<1> QED
  BY <1>1, <1>2 DEF TimeInv, Ordinary, FoldedInTime, LowWriteIsFolded, Unfolded

\* The bump is the only frame of a fresh log, unless a commit came just before.
LEMMA TimeBump ==
  ASSUME TypeOK, BumpsSettle, LogInv, ClockInv, TimeInv, Bump
  PROVE  TimeInv' /\ FoldedInTime'
<1>0. SUFFICES ASSUME Ordinary' PROVE TimeInv' /\ FoldedInTime'
  BY DEF Bump, AfterCheckpoint, TimeInv, FoldedInTime, LowWriteIsFolded
<1>1. /\ wal' = Appended(FullyFolded) /\ FullyFolded \in BOOLEAN
      /\ UNCHANGED <<now, lastCheckpoint, pos, work, since>> /\ pc = "bump"
      /\ pc' \in {"store", "overfold"} /\ work.mode = "passive" /\ Ordinary /\ untroubled
  BY <1>0 DEF Bump, FullyFolded, AfterCheckpoint, LogInv, Ordinary
<1>2. wal.len = 0 => FullyFolded
  BY LogFields DEF LogInv, FullyFolded
<1>3. AtPragma /\ now <= since.at + MaxGap /\ lastCheckpoint < now
  BY <1>1 DEF TimeInv, ClockInv
<1>4. work.to \in Position /\ Behind(work.to)
  BY DEF TypeOK, LogInv
<1>5. Finds(work.to)'
  BY <1>1, <1>2, <1>4, AppendedFits, LogFields DEF Finds
<1>6. ASSUME Bumps(Cap(work.to))' PROVE now <= since.at
  <2>1. CASE FullyFolded
    <3>1. wal'.frames = 1 /\ wal'.len > 0
      BY <1>1, <1>2, <2>1, AppendedFits
    <3>2. Cap(work.to)' = 1
      BY <1>5, <3>1 DEF Cap, Snapshot
    <3> QED
      BY <1>6, <3>2, TimeTypes DEF Bumps, BumpsSettle
  <2>2. CASE ~FullyFolded
    <3>1. Finds(work.to) /\ wal.len > 0
      BY <1>1, <1>2, <2>2, LogFields DEF LogInv
    <3> QED
      BY <1>3, <3>1, LogFields, TimeTypes DEF AtPragma
  <2> QED
    BY <2>1, <2>2
<1>7. AfterPragma'
  BY <1>1, <1>5, <1>6 DEF AfterPragma
<1>8. lastCheckpoint <= since.at + MaxGap
  BY <1>3, LogFields, TimeTypes
<1> QED
  BY <1>1, <1>3, <1>7, <1>8 DEF TimeInv, FoldedInTime, LowWriteIsFolded

LEMMA TimeStore ==
  ASSUME TypeOK, TimeInv, Store
  PROVE  TimeInv' /\ FoldedInTime'
<1>1. /\ UNCHANGED <<now, lastCheckpoint, wal, commits, untroubled>> /\ pc = "store"
      /\ pc' = "overfold" /\ work' = [work EXCEPT !.file = FALSE]
      /\ since' = [since EXCEPT !.files = since.files + 1]
  BY UploadedType DEF Store
<1>2. /\ work'.to = work.to /\ work'.mode = work.mode /\ work'.folded = work.folded
      /\ since'.at = since.at /\ since'.snapshots = since.snapshots
  BY <1>1 DEF TypeOK
<1>3. (Finds(work.to)' <=> Finds(work.to)) /\ Cap(work.to)' = Cap(work.to)
  BY <1>1, <1>2, SameFinds DEF SameExtent
<1>4. AfterPragma => AfterPragma'
  BY <1>1, <1>2, <1>3 DEF AfterPragma, OverFolded, Unfolded, Bumps
<1> QED
  BY <1>1, <1>2, <1>4 DEF TimeInv, Ordinary, FoldedInTime, LowWriteIsFolded, Unfolded

LEMMA TimeDone ==
  ASSUME TypeOK, BumpsSettle, LogInv, TimeInv, CheckpointDone
  PROVE  TimeInv' /\ FoldedInTime'
<1>0. SUFFICES ASSUME Ordinary' PROVE TimeInv' /\ FoldedInTime'
  BY DEF TimeInv, FoldedInTime, LowWriteIsFolded, Ordinary
<1>1. /\ UNCHANGED <<now, wal, pos, since>> /\ pc = "overfold" /\ ~OverFolded /\ pc' = "jobs"
      /\ lastCheckpoint' = now /\ work.to = pos /\ Ordinary
  BY <1>0 DEF CheckpointDone, Checkpointed, LogInv, Ordinary
<1>2. AfterPragma /\ (work.mode = "passive" => now <= since.at + MaxGap)
  BY <1>1 DEF TimeInv
<1>3. (Finds(pos)' <=> Finds(work.to)) /\ Cap(pos)' = Cap(work.to)
  BY <1>1, SameFinds DEF SameExtent
<1>4. BetweenTicks'
  BY <1>1, <1>2, <1>3 DEF AfterPragma, BetweenTicks, Unfolded, Bumps
<1>5. Unfolded => now <= since.at + MaxGap
  BY <1>1, <1>2, UnfoldedLog, LogFields, TimeTypes DEF AfterPragma
<1> QED
  BY <1>1, <1>4, <1>5, LogFields, TimeTypes
  DEF TimeInv, FoldedInTime, LowWriteIsFolded, Unfolded, FullyFolded

LEMMA TimeResnapshotDone ==
  ASSUME TypeOK, LogInv, TimeInv, ResnapshotDone
  PROVE  TimeInv' /\ FoldedInTime'
<1>1. /\ UNCHANGED <<now, wal, commits, untroubled>> /\ pc = "resnapshot" /\ pc' = "jobs"
      /\ lastCheckpoint' = now /\ pos' = work.to
      /\ since'.at = since.at /\ since'.snapshots = since.snapshots
  BY DEF ResnapshotDone, Checkpointed, TypeOK
<1>0. SUFFICES ASSUME Ordinary' PROVE TimeInv' /\ FoldedInTime'
  BY DEF TimeInv, FoldedInTime, LowWriteIsFolded, Ordinary
<1>2. AtResnapshot
  BY <1>0, <1>1 DEF TimeInv, Ordinary
<1>3. (Finds(pos)' <=> Finds(work.to))
  BY <1>1, SameFinds DEF SameExtent
<1>4. BetweenTicks'
  BY <1>1, <1>2, <1>3, TimeTypes DEF AtResnapshot, BetweenTicks, Unfolded
<1> QED
  BY <1>1, <1>2, <1>4, LogFields, TimeTypes
  DEF TimeInv, FoldedInTime, LowWriteIsFolded, Unfolded, FullyFolded, AtResnapshot

\* The jobs of a tick touch neither the log nor the clock.
LEMMA TimeJobs ==
  ASSUME TimeInv, FoldedInTime, pc = "jobs", pc' \in {"jobs", "idle"},
         UNCHANGED <<now, lastCheckpoint, syncedSince, wal, pos, since, commits, untroubled>>
  PROVE  TimeInv' /\ FoldedInTime'
<1>1. (Finds(pos)' <=> Finds(pos)) /\ Cap(pos)' = Cap(pos)
  BY SameFinds DEF SameExtent
<1>2. BetweenTicks => BetweenTicks'
  BY <1>1 DEF BetweenTicks, Unfolded, Bumps
<1> QED
  BY <1>2 DEF TimeInv, Ordinary, FoldedInTime, LowWriteIsFolded, Unfolded, FullyFolded

LEMMA TimeStep ==
  ASSUME TypeOK, BumpsSettle, CheckpointInterval # 0, LogInv, ClockInv, TimeInv, FoldedInTime, Next
  PROVE  TimeInv' /\ FoldedInTime'
<1>1. CASE ClockBack \/ SyncFails \/ CheckpointFails \/ Resnapshot
  <2>1. ~Ordinary' /\ pc' # "jobs"
    BY <1>1, LogFields DEF ClockBack, SyncFails, CheckpointFails, Resnapshot, Return, Ordinary, TypeOK
  <2> QED
    BY <2>1 DEF TimeInv, FoldedInTime, LowWriteIsFolded
<1>2. CASE SkipJob \/ RunJob \/ JobFails
  <2>1. /\ pc = "jobs" /\ pc' \in {"jobs", "idle"}
        /\ UNCHANGED <<now, lastCheckpoint, syncedSince, wal, pos, since, commits, untroubled>>
    BY <1>2 DEF SkipJob, RunJob, JobFails, Advance, Return, logVars
  <2> QED
    BY <2>1, TimeJobs
<1> QED
  BY <1>1, <1>2, TimeCommit, TimeTick, TimeSync, TimeUpload, TimeNone, TimeBuild, TimePragma,
     TimeRefused, TimeBump, TimeStore, TimeDone, TimeResnapshotDone
  DEF Next, Tick, Checkpoint

LEMMA TimeInit == ASSUME Init PROVE ClockInv /\ TimeInv /\ FoldedInTime
<1>1. commits = 0 /\ lastCheckpoint = 0 /\ now = Start /\ Start \in Nat /\ pc = "idle"
  BY DriverAssumption DEF Init
<1> QED
  BY <1>1 DEF ClockInv, TimeInv, Ordinary, FoldedInTime, LowWriteIsFolded

\* A database with few writes gets its log folded (mod.rs: checkpoint_now from
\* the timed gate of driver.rs): one checkpoint interval and two ticks after the
\* last commit, whatever the thresholds, as long as no sync or checkpoint failed,
\* the clock was not set back and no over-fold snapshot has been taken since.
THEOREM LogIsFolded ==
  ASSUME BumpsSettle, CheckpointInterval # 0
  PROVE  Spec => []FoldedInTime
<1> DEFINE Inv == LogInv /\ ClockInv /\ TimeInv /\ FoldedInTime
<1>1. Init => Inv
  BY LogInit, TimeInit
<1>2. TypeOK /\ TypeOK' /\ Inv /\ [Next]_vars => Inv'
  <2> SUFFICES ASSUME TypeOK, TypeOK', LogInv, ClockInv, TimeInv, FoldedInTime, [Next]_vars
               PROVE  LogInv' /\ ClockInv' /\ TimeInv' /\ FoldedInTime'
    OBVIOUS
  <2>1. CASE Next
    BY <2>1, LogStep, ClockStep, TimeStep
  <2>2. CASE UNCHANGED vars
    <3>1. UNCHANGED <<now, pc, lastCheckpoint, syncedSince, work, wal, pos, commits, since,
                      untroubled>>
      BY <2>2 DEF vars, logVars
    <3>2. LogInv'
      BY <3>1 DEF LogInv, Behind, Checkpointing, FullyFolded, Finds
    <3>3. ClockInv'
      BY <3>1 DEF ClockInv
    <3>4. TimeInv' /\ FoldedInTime'
      BY <3>1 DEF TimeInv, Ordinary, FoldedInTime, LowWriteIsFolded, Unfolded, FullyFolded,
         BetweenTicks, AtSync, AtUpload, AtCheckpoint, AtPragma, AfterPragma, AtResnapshot,
         OverFolded, Bumps, Cap, Finds, Snapshot
    <3> QED
      BY <3>2, <3>3, <3>4
  <2> QED
    BY <2>1, <2>2
<1>3. Inv => FoldedInTime
  OBVIOUS
<1> HIDE DEF Inv
<1> QED
  BY <1>1, <1>2, <1>3, DriverTypeCorrect, PTL DEF Spec

(***************************************************************************)
(* No job waits for long behind jobs that fail.                            *)
(***************************************************************************)
\* Every job that others follow has an interval longer than the ticks in which
\* each of them fails twice and every other fault happens.
LongIntervals ==
  \A k \in Jobs \ {RetentionJob} :
    IntervalOf(k) # 0 => IntervalOf(k) >= MaxGap * (2 * (RetentionJob - 1) + MaxFaults)

\* The boundary a job failed for.
BoundaryOf(r) == truncate(r.at, IntervalOf(r.job))

\* The ticks since the last one of waiting[j] that did not reach its jobs, this
\* one included, and how long they take.
Slack == MaxGap * (faults + IF pc = "idle" THEN 0 ELSE 1)

\* One of the ticks that ended before job j.
EndedBefore(j, r) ==
  /\ r.job < j /\ IntervalOf(r.job) # 0
  /\ r.at <= now /\ (pc # "idle" => r.at < now)
  /\ BoundaryOf(r) <= last[r.job]
  /\ now - r.at <= MaxGap * (Cardinality(waiting[j]) - 1) + Slack

\* A job that is overtaken is still due; those ahead of it failed for one
\* boundary each time, and all of it took no longer than the ticks it was.
Overtaken(j) ==
  /\ IsFiniteSet(waiting[j]) /\ Cardinality(waiting[j]) <= 2 * (j - 1)
  /\ \A r \in waiting[j] : EndedBefore(j, r)
  /\ \A r, s \in waiting[j] : r.job = s.job /\ BoundaryOf(r) = BoundaryOf(s) => r = s
  /\ waiting[j] # {} => Due(j)
  /\ pc = "jobs" /\ job > j => waiting[j] = {}

StarveInv ==
  /\ faults <= MaxFaults /\ (pc # "jobs" => job = 1)
  /\ \A j \in Jobs : Overtaken(j)

\* Times no further apart than an interval have at most one boundary between.
LEMMA TwoBoundaries ==
  ASSUME NEW i \in Nat \ {0}, NEW t \in Nat, NEW u \in Nat, t <= u, u - t <= i
  PROVE  truncate(t, i) = truncate(u, i) \/ truncate(t, i) = truncate(u, i) - i
<1>1. PICK p \in Nat : truncate(t, i) = p * i /\ p * i <= t /\ t < p * i + i
  BY TruncateIs
<1>2. PICK q \in Nat : truncate(u, i) = q * i /\ q * i <= u /\ u < q * i + i
  BY TruncateIs
<1>3. p * i \in Nat /\ q * i \in Nat
  OBVIOUS
<1>4. p * i <= q * i
  BY <1>1, <1>2, TruncateGrows
<1>5. ~(p + 1 < q)
  <2> SUFFICES ASSUME p + 1 < q PROVE FALSE
    OBVIOUS
  <2>1. (p + 1) * i + i <= q * i /\ (p + 1) * i = p * i + i
    BY Multiples
  <2> QED
    BY <1>1, <1>2, <1>3, <2>1
<1>6. ~(q < p)
  <2> SUFFICES ASSUME q < p PROVE FALSE
    OBVIOUS
  <2>1. q * i + i <= p * i
    BY Multiples
  <2> QED
    BY <1>3, <1>4, <2>1
<1>7. q = p \/ q = p + 1
  BY <1>5, <1>6
<1>8. CASE q = p
  BY <1>1, <1>2, <1>8
<1>9. CASE q = p + 1
  <2>1. q * i = p * i + i
    BY <1>9
  <2> QED
    BY <1>1, <1>2, <1>3, <2>1
<1> QED
  BY <1>7, <1>8, <1>9

\* Within an interval no job fails for more than two boundaries.
LEMMA AtMostTwo ==
  ASSUME NEW n \in Nat, NEW t \in Nat, NEW W \in SUBSET [job : Jobs, at : Nat],
         \A r \in W : /\ r.job \in 1 .. n /\ IntervalOf(r.job) # 0
                      /\ r.at <= t /\ t - r.at <= IntervalOf(r.job),
         \A r, s \in W : r.job = s.job /\ BoundaryOf(r) = BoundaryOf(s) => r = s
  PROVE  Cardinality(W) <= 2 * n
<1> DEFINE S == 1 .. n
           T == 0 .. 1
           side(r) == IF BoundaryOf(r) = truncate(t, IntervalOf(r.job)) THEN 0 ELSE 1
           f == [r \in W |-> <<r.job, side(r)>>]
<1>1. f \in [W -> S \X T]
  OBVIOUS
<1>2. ASSUME NEW r \in W, NEW s \in W, f[r] = f[s] PROVE r = s
  <2>1. r.job = s.job /\ side(r) = side(s)
    BY <1>2
  <2>2. r.job \in Jobs /\ r.at \in Nat /\ s.at \in Nat
    OBVIOUS
  <2> DEFINE i == IntervalOf(r.job)
             b == truncate(t, i)
  <2>3. i \in Nat \ {0} /\ IntervalOf(s.job) = i
    BY <2>1, <2>2, IntervalType
  <2>4. r.at <= t /\ t - r.at <= i /\ s.at <= t /\ t - s.at <= i
    BY <2>3
  <2> HIDE DEF i
  <2>5. BoundaryOf(r) = b \/ BoundaryOf(r) = b - i
    BY <2>2, <2>3, <2>4, TwoBoundaries DEF BoundaryOf, i
  <2>6. BoundaryOf(s) = b \/ BoundaryOf(s) = b - i
    BY <2>2, <2>3, <2>4, TwoBoundaries DEF BoundaryOf
  <2>7. b \in Nat
    BY <2>3, TruncateType
  <2>8. BoundaryOf(r) = BoundaryOf(s)
    <3>1. side(r) = (IF BoundaryOf(r) = b THEN 0 ELSE 1) /\ side(s) = (IF BoundaryOf(s) = b THEN 0 ELSE 1)
      BY <2>3 DEF i
    <3>2. BoundaryOf(r) = b <=> BoundaryOf(s) = b
      <4> HIDE DEF b
      <4> QED
        BY <2>1, <3>1
    <3> HIDE DEF b
    <3> QED
      BY <2>5, <2>6, <3>2
  <2> QED
    BY <2>1, <2>8
<1>3. f \in Injection(W, S \X T)
  <2> HIDE DEF f, S, T
  <2> QED
    BY <1>1, <1>2, Fun_IsInj
<1>4. IsFiniteSet(S) /\ Cardinality(S) = n
  BY FS_Interval
<1>5. IsFiniteSet(T) /\ Cardinality(T) = 2
  <2>1. PICK a \in Int, b \in Int : a = 0 /\ b = 1
    OBVIOUS
  <2>2. IsFiniteSet(a .. b) /\ Cardinality(a .. b) = IF a > b THEN 0 ELSE b - a + 1
    BY FS_Interval
  <2> QED
    BY <2>1, <2>2
<1> HIDE DEF f, S, T
<1>6. IsFiniteSet(S \X T) /\ Cardinality(S \X T) = n * 2
  BY <1>4, <1>5, FS_Product
<1>7. Cardinality(W) <= Cardinality(S \X T)
  BY <1>3, <1>6, FS_Injection
<1> QED
  BY <1>6, <1>7

\* The types the steps need.
LEMMA StarveTypes ==
  ASSUME TypeOK, StarveInv, NEW j \in Jobs
  PROVE  /\ now \in Nat /\ faults \in Nat /\ MaxGap \in Nat /\ MaxFaults \in Nat /\ j \in Nat
         /\ Slack \in Nat /\ Cardinality(waiting[j]) \in Nat /\ IsFiniteSet(waiting[j])
         /\ (\A k \in Jobs : last[k] \in Nat)
         /\ waiting[j] \in SUBSET [job : Jobs, at : Nat]
         /\ \A r \in waiting[j] : r.job \in Jobs /\ r.at \in Nat /\ BoundaryOf(r) \in Nat
<1>1. now \in Nat /\ faults \in Nat /\ MaxGap \in Nat /\ MaxFaults \in Nat /\ j \in Nat
      /\ last \in [Jobs -> Nat]
  BY DriverAssumption DEF TypeOK, Jobs
<1>2. waiting[j] \in SUBSET [job : Jobs, at : Nat]
  BY DEF TypeOK
<1>3. \A r \in waiting[j] : r.job \in Jobs /\ r.at \in Nat
  BY <1>2
<1>4. \A r \in waiting[j] : BoundaryOf(r) \in Nat
  BY <1>3, IntervalType, TruncateType DEF BoundaryOf
<1>5. IsFiniteSet(waiting[j])
  BY DEF StarveInv, Overtaken
<1>6. Cardinality(waiting[j]) \in Nat
  BY <1>5, FS_CardinalityType
<1>7. Slack \in Nat
  <2>1. faults + (IF pc = "idle" THEN 0 ELSE 1) \in Nat
    BY <1>1
  <2> QED
    BY <1>1, <2>1 DEF Slack
<1> QED
  BY <1>1, <1>2, <1>3, <1>4, <1>5, <1>6, <1>7

\* Nothing ended before the job.
LEMMA NotOvertaken ==
  ASSUME NEW j \in Jobs, waiting'[j] = {}
  PROVE  Overtaken(j)'
<1>1. IsFiniteSet({}) /\ Cardinality({}) = 0
  BY FS_EmptySet
<1>2. 0 <= 2 * (j - 1)
  BY JobsAre
<1> QED
  BY <1>1, <1>2 DEF Overtaken

\* Time goes on, or a tick does, and no job ends it.
LEMMA StillOvertaken ==
  ASSUME TypeOK, TypeOK', StarveInv, NEW j \in Jobs, waiting'[j] = waiting[j],
         last'[j] = last[j], \A k \in Jobs : last[k] <= last'[k],
         now <= now', pc' # "idle" => pc # "idle" \/ now < now',
         (now' - now) + Slack <= Slack', Slack' \in Nat,
         pc' = "jobs" /\ job' > j => waiting[j] = {}
  PROVE  Overtaken(j)'
<1> DEFINE W == waiting[j]
           c == Cardinality(W)
<1>1. Overtaken(j)
  BY DEF StarveInv
<1>2. /\ now \in Nat /\ MaxGap \in Nat /\ Slack \in Nat /\ c \in Nat
      /\ (\A k \in Jobs : last[k] \in Nat)
      /\ \A r \in W : r.job \in Jobs /\ r.at \in Nat /\ BoundaryOf(r) \in Nat
  BY StarveTypes
<1>3. now' \in Nat /\ \A k \in Jobs : last'[k] \in Nat
  BY DEF TypeOK
<1>4. MaxGap * (c - 1) \in Int
  BY <1>2
<1>5. ASSUME NEW r \in W PROVE EndedBefore(j, r)'
  <2>1. EndedBefore(j, r)
    BY <1>1, <1>5 DEF Overtaken
  <2>2. r.job \in Jobs /\ r.at \in Nat /\ BoundaryOf(r) \in Nat
    BY <1>2
  <2>3. r.job < j /\ IntervalOf(r.job) # 0 /\ r.at <= now'
    BY <1>2, <1>3, <2>1, <2>2 DEF EndedBefore
  <2>4. pc' # "idle" => r.at < now'
    BY <1>2, <1>3, <2>1, <2>2 DEF EndedBefore
  <2>5. BoundaryOf(r) <= last'[r.job]
    <3>1. BoundaryOf(r) <= last[r.job] /\ last[r.job] <= last'[r.job]
      BY <2>1, <2>2 DEF EndedBefore
    <3> QED
      BY <1>2, <1>3, <2>2, <3>1
  <2>6. now' - r.at <= MaxGap * (c - 1) + Slack'
    <3>1. now - r.at <= MaxGap * (c - 1) + Slack
      BY <2>1 DEF EndedBefore
    <3> HIDE DEF c
    <3> QED
      BY <1>2, <1>3, <1>4, <2>2, <3>1
  <2> QED
    BY <2>3, <2>4, <2>5, <2>6 DEF EndedBefore, BoundaryOf
<1>6. ASSUME W # {} PROVE Due(j)'
  <2>1. Due(j)
    BY <1>1, <1>6 DEF Overtaken
  <2> DEFINE i == IntervalOf(j)
  <2>2. i \in Nat
    BY IntervalType
  <2>3. truncate(now, i) <= truncate(now', i) /\ truncate(now, i) \in Nat
        /\ truncate(now', i) \in Nat
    BY <1>2, <1>3, <2>2, TruncateGrows, TruncateType
  <2>4. truncate(now', i) > last'[j]
    <3>1. truncate(now, i) > last[j] /\ last[j] \in Nat
      BY <1>2, <2>1 DEF Due
    <3> QED
      BY <2>3, <3>1
  <2> QED
    BY <2>1, <2>4 DEF Due
<1> QED
  BY <1>1, <1>5, <1>6 DEF Overtaken, BoundaryOf

\* A due job has an interval: levels by validate, the others when they are enabled.
LEMMA DueInterval ==
  ASSUME NEW j \in Jobs, Due(j)
  PROVE  IntervalOf(j) # 0
<1>1. CASE j > max_level
  BY <1>1 DEF Due
<1>2. CASE ~(j > max_level)
  <2>1. j \in Nat /\ j >= 1 /\ j <= max_level /\ j + 1 \in 1 .. Len(Levels)
    BY <1>2, JobsAre, DriverAssumption DEF max_level
  <2>2. /\ Levels[j + 1].level = (j + 1) - 1
        /\ Levels[j + 1].level = 0 <=> Levels[j + 1].interval = 0
    BY <2>1, DriverAssumption DEF validate
  <2>3. Levels[j + 1].interval # 0
    BY <2>1, <2>2
  <2> QED
    BY <2>1, <2>3 DEF IntervalOf
<1> QED
  BY <1>1, <1>2

\* A job fails ahead of j, once more.
LEMMA OvertakenOnceMore ==
  ASSUME LongIntervals, TypeOK, StarveInv, JobFails, NEW j \in Jobs, j > job, Due(j)
  PROVE  Overtaken(j)'
<1> DEFINE W == waiting[j]
           c == Cardinality(W)
           x == [job |-> job, at |-> now]
           b == truncate(now, IntervalOf(job))
<1>1. Overtaken(j) /\ faults <= MaxFaults
  BY DEF StarveInv
<1>2. /\ now \in Nat /\ faults \in Nat /\ MaxGap \in Nat /\ MaxFaults \in Nat /\ j \in Nat
      /\ c \in Nat /\ IsFiniteSet(W) /\ (\A k \in Jobs : last[k] \in Nat)
      /\ W \in SUBSET [job : Jobs, at : Nat]
      /\ \A r \in W : r.job \in Jobs /\ r.at \in Nat /\ BoundaryOf(r) \in Nat
  BY StarveTypes
<1>3. /\ pc = "jobs" /\ pc' = "idle" /\ job' = 1 /\ now' = now /\ faults' = faults
      /\ Due(job) /\ last' = Recorded(FALSE) /\ waiting'[j] = W \cup {x}
  <2>1. j # job
    BY <1>2, JobsAre DEF TypeOK
  <2> QED
    BY <2>1 DEF JobFails, Return
<1>4. job \in Jobs /\ job \in Nat /\ job >= 1 /\ IntervalOf(job) \in Nat
  <2>1. job \in Jobs
    BY DEF TypeOK
  <2>2. job \in Nat /\ job >= 1
    BY <2>1, JobsAre
  <2>3. IntervalOf(job) \in Nat
    BY <2>1, IntervalType
  <2> QED
    BY <2>1, <2>2, <2>3
<1>5. b \in Nat /\ b > last[job]
  BY <1>2, <1>3, <1>4, TruncateType DEF Due
<1>6. last' = [last EXCEPT ![job] = b]
  BY <1>3 DEF Recorded
<1> HIDE DEF b
<1>7. /\ last'[job] = b /\ last'[j] = last[j]
      /\ \A k \in Jobs : last'[k] \in Nat /\ last[k] <= last'[k]
  BY <1>2, <1>4, <1>5, <1>6 DEF TypeOK
<1>8. x.job = job /\ x.at = now /\ BoundaryOf(x) = b /\ x \in [job : Jobs, at : Nat]
  BY <1>2, <1>4 DEF BoundaryOf, b
<1>9. ASSUME NEW r \in W
      PROVE  /\ EndedBefore(j, r) /\ r.at < now
             /\ now - r.at <= MaxGap * (c - 1) + MaxGap * (faults + 1)
  <2>1. EndedBefore(j, r)
    BY <1>1, <1>9 DEF Overtaken
  <2> QED
    BY <1>3, <2>1 DEF EndedBefore, Slack
<1>10. x \notin W
  BY <1>2, <1>8, <1>9
<1>11. IsFiniteSet(W \cup {x}) /\ Cardinality(W \cup {x}) = c + 1
  BY <1>2, <1>10, FS_AddElement
<1> HIDE DEF x
<1>12. Slack' = MaxGap * faults /\ Slack' \in Nat
  BY <1>2, <1>3 DEF Slack
<1>13. MaxGap * c \in Nat /\ MaxGap * faults \in Nat
       /\ MaxGap * (c - 1) + MaxGap * (faults + 1) = MaxGap * c + MaxGap * faults
  BY <1>2
<1>14. \A r \in W \cup {x} : r.job \in Jobs /\ r.at \in Nat /\ BoundaryOf(r) \in Nat
  BY <1>2, <1>4, <1>5, <1>8
<1>15. ASSUME NEW r \in W \cup {x}
       PROVE  /\ r.job < j /\ IntervalOf(r.job) # 0 /\ r.at <= now
              /\ BoundaryOf(r) <= last'[r.job]
              /\ now - r.at <= MaxGap * c + MaxGap * faults
  <2>1. CASE r = x
    <3>1. IntervalOf(job) # 0
      BY <1>3, <1>4, DueInterval
    <3>2. now - now <= MaxGap * c + MaxGap * faults
      BY <1>2, <1>13
    <3>3. b <= last'[job]
      BY <1>5, <1>7
    <3> QED
      BY <1>2, <1>4, <1>8, <2>1, <3>1, <3>2, <3>3
  <2>2. CASE r \in W
    <3>1. /\ r.job < j /\ IntervalOf(r.job) # 0 /\ BoundaryOf(r) <= last[r.job]
          /\ r.at < now
          /\ now - r.at <= MaxGap * (c - 1) + MaxGap * (faults + 1)
      BY <1>9, <2>2 DEF EndedBefore
    <3>2. last[r.job] <= last'[r.job] /\ last[r.job] \in Nat /\ last'[r.job] \in Nat
      BY <1>2, <1>7, <1>14
    <3>3. BoundaryOf(r) <= last'[r.job]
      BY <1>14, <3>1, <3>2
    <3>4. now - r.at <= MaxGap * c + MaxGap * faults
      BY <1>13, <3>1
    <3>5. r.at <= now
      BY <1>2, <1>14, <3>1
    <3> QED
      BY <3>1, <3>3, <3>4, <3>5
  <2> QED
    BY <2>1, <2>2
<1>16. ASSUME NEW r \in W \cup {x}, NEW s \in W \cup {x}, r.job = s.job,
              BoundaryOf(r) = BoundaryOf(s)
       PROVE  r = s
  <2>1. ASSUME NEW u \in W, u.job = job PROVE BoundaryOf(u) < b
    <3>1. BoundaryOf(u) <= last[job]
      BY <1>9, <2>1 DEF EndedBefore
    <3> QED
      BY <1>2, <1>4, <1>5, <3>1
  <2>2. \A u \in W : u.job = job => BoundaryOf(u) # b
    BY <1>2, <1>5, <2>1
  <2> QED
    BY <1>1, <1>8, <1>16, <2>2 DEF Overtaken
<1>17. Cardinality(W \cup {x}) <= 2 * (j - 1)
  <2> DEFINE R == RetentionJob
             D == MaxGap * (2 * (R - 1) + MaxFaults)
  <2>1. R \in Nat /\ j <= R /\ j >= 1
    BY <1>2, JobsAre
  <2>2. MaxGap * c + MaxGap * faults <= D
    <3>1. c <= 2 * (j - 1)
      BY <1>1 DEF Overtaken
    <3>2. PICK d \in Nat : (2 * (R - 1) + MaxFaults) = c + faults + d
      <4>1. (2 * (R - 1) + MaxFaults) - (c + faults) \in Nat
        BY <1>1, <1>2, <2>1, <3>1
      <4>2. (2 * (R - 1) + MaxFaults)
              = c + faults + ((2 * (R - 1) + MaxFaults) - (c + faults))
        BY <1>2, <2>1
      <4> QED
        BY <4>1, <4>2
    <3>3. D = MaxGap * (c + faults + d)
      BY <3>2
    <3>4. MaxGap * (c + faults + d) = MaxGap * c + MaxGap * faults + MaxGap * d
          /\ MaxGap * d \in Nat
      BY <1>2
    <3> HIDE DEF D
    <3> QED
      BY <1>13, <3>3, <3>4
  <2>3. D \in Int
    BY <1>2, <2>1
  <2>4. ASSUME NEW r \in W \cup {x}
        PROVE  /\ r.job \in 1 .. j - 1 /\ IntervalOf(r.job) # 0
               /\ r.at <= now /\ now - r.at <= IntervalOf(r.job)
    <3>1. /\ r.job < j /\ IntervalOf(r.job) # 0 /\ r.at <= now
          /\ now - r.at <= MaxGap * c + MaxGap * faults
      BY <1>15
    <3>2. r.job \in Jobs /\ r.job \in Nat /\ r.job >= 1 /\ r.job # R /\ r.at \in Nat
      BY <1>2, <1>14, <2>1, <3>1, JobsAre
    <3>3. IntervalOf(r.job) >= D /\ IntervalOf(r.job) \in Nat
      BY <3>1, <3>2, IntervalType DEF LongIntervals
    <3> HIDE DEF D
    <3>4. now - r.at <= IntervalOf(r.job)
      BY <1>2, <1>13, <2>2, <2>3, <3>1, <3>2, <3>3
    <3> QED
      BY <1>2, <3>1, <3>2, <3>4
  <2>5. W \cup {x} \in SUBSET [job : Jobs, at : Nat] /\ j - 1 \in Nat
    BY <1>2, <1>8, <2>1
  <2> QED
    BY <1>2, <1>16, <2>4, <2>5, AtMostTwo
<1>18. Due(j)'
  BY <1>3, <1>7 DEF Due
<1>19. \A r \in W \cup {x} : EndedBefore(j, r)'
  <2>1. ASSUME NEW r \in W \cup {x} PROVE EndedBefore(j, r)'
    <3>1. (c + 1) - 1 = c
      BY <1>2
    <3> HIDE DEF c, W
    <3> QED
      BY <1>3, <1>11, <1>12, <1>15, <3>1 DEF EndedBefore, BoundaryOf
  <2> QED
    BY <2>1
<1> QED
  BY <1>3, <1>11, <1>16, <1>17, <1>18, <1>19 DEF Overtaken, BoundaryOf

\* Every step keeps the invariant.
LEMMA StarveStep ==
  ASSUME LongIntervals, TypeOK, TypeOK', StarveInv, [Next]_vars
  PROVE  StarveInv'
<1>0. /\ faults <= MaxFaults /\ (pc # "jobs" => job = 1) /\ \A j \in Jobs : Overtaken(j)
  BY DEF StarveInv
<1>1. now \in Nat /\ faults \in Nat /\ MaxGap \in Nat /\ MaxFaults \in Nat
      /\ (\A k \in Jobs : last[k] \in Nat) /\ job \in Jobs /\ Slack \in Nat
  <2>1. job \in Jobs
    BY DEF TypeOK
  <2> QED
    BY <2>1, StarveTypes
<1>2. \A k \in Jobs : last[k] <= last[k]
  BY <1>1
<1>3. \A j \in Jobs : j \in Nat /\ j >= 1
  BY JobsAre
<1>4. CASE /\ UNCHANGED <<now, last, waiting, faults>> /\ (pc' = "idle" <=> pc = "idle")
           /\ (pc' # "jobs" => job' = 1)
           /\ \A j \in Jobs : pc' = "jobs" /\ job' > j => waiting[j] = {}
  <2>1. Slack' = Slack
    BY <1>4 DEF Slack
  <2>2. ASSUME NEW j \in Jobs PROVE Overtaken(j)'
    BY <1>1, <1>2, <1>4, <2>1, StillOvertaken
  <2> QED
    BY <1>0, <1>4, <2>2 DEF StarveInv
<1>5. ASSUME UNCHANGED <<now, last, waiting, faults, job>>, pc' = pc PROVE StarveInv'
  BY <1>0, <1>4, <1>5 DEF Overtaken
<1>6. CASE UNCHANGED vars \/ AppCommit
  BY <1>5, <1>6 DEF vars, jobVars, AppCommit
<1>7. CASE \/ Sync \/ Upload \/ NoCheckpoint \/ BuildNext \/ PragmaPassive \/ PragmaTruncate
           \/ Bump \/ Store \/ CheckpointDone \/ Resnapshot \/ ResnapshotDone
  <2>1. UNCHANGED <<now, last, waiting, faults, job>> /\ pc # "idle" /\ pc # "jobs"
    BY <1>7 DEF Sync, Upload, NoCheckpoint, BuildNext, PragmaPassive, PragmaTruncate, Bump,
       Store, CheckpointDone, Resnapshot, ResnapshotDone, jobVars
  <2>2. pc' # "idle"
    BY <1>7 DEF Sync, Upload, NoCheckpoint, BuildNext, PragmaPassive, PragmaTruncate, Bump,
       Store, CheckpointDone, Resnapshot, ResnapshotDone, AfterCheckpoint, Checkpointed
  <2>3. \A j \in Jobs : ~(job' > j)
    BY <1>0, <1>3, <2>1
  <2> QED
    BY <1>0, <1>4, <2>1, <2>2, <2>3
<1>8. CASE PragmaRefused
  <2>1. /\ UNCHANGED <<now, last, waiting, job>> /\ pc # "idle" /\ pc # "jobs"
        /\ faults < MaxFaults /\ faults' = faults + 1
    BY <1>8 DEF PragmaRefused, jobVars, Fault
  <2>2. pc' # "idle" /\ pc' # "jobs"
    BY <1>8 DEF PragmaRefused, AfterCheckpoint
  <2>3. Slack = MaxGap * (faults + 1) /\ Slack' = MaxGap * ((faults + 1) + 1)
    BY <1>1, <2>1, <2>2 DEF Slack
  <2>4. Slack' = Slack + MaxGap
    BY <1>1, <2>3
  <2>5. Slack <= Slack + MaxGap /\ Slack + MaxGap \in Nat
    BY <1>1
  <2>6. ASSUME NEW j \in Jobs PROVE Overtaken(j)'
    BY <1>1, <1>2, <2>1, <2>2, <2>4, <2>5, StillOvertaken
  <2> QED
    BY <1>0, <1>1, <2>1, <2>6 DEF StarveInv
<1>9. CASE SyncFails \/ CheckpointFails
  <2>1. /\ UNCHANGED <<now, last, waiting>> /\ pc # "idle" /\ pc' = "idle" /\ job' = 1
        /\ faults < MaxFaults /\ faults' = faults + 1
    BY <1>9 DEF SyncFails, CheckpointFails, Return, Fault, jobVars
  <2>2. Slack' = MaxGap * (faults + 1) /\ Slack = MaxGap * (faults + 1)
    BY <1>1, <2>1 DEF Slack
  <2>3. ASSUME NEW j \in Jobs PROVE Overtaken(j)'
    BY <1>1, <1>2, <2>1, <2>2, StillOvertaken
  <2> QED
    BY <1>1, <2>1, <2>3 DEF StarveInv
<1>10. CASE TickAt
  <2>1. /\ UNCHANGED <<last, waiting, faults, job>> /\ pc = "idle" /\ pc' = "sync"
    BY <1>10 DEF TickAt, jobVars
  <2>2. PICK t \in now + 1 .. now + MaxGap : now' = t
    BY <1>10 DEF TickAt
  <2>3. Slack = MaxGap * faults /\ Slack' = MaxGap * (faults + 1)
    BY <1>1, <2>1 DEF Slack
  <2>4. Slack' = Slack + MaxGap
    BY <1>1, <2>3
  <2>5. now < t /\ now <= t /\ (t - now) + Slack <= Slack + MaxGap /\ Slack + MaxGap \in Nat
    BY <1>1
  <2>6. ASSUME NEW j \in Jobs PROVE Overtaken(j)'
    BY <1>1, <1>2, <2>1, <2>2, <2>4, <2>5, StillOvertaken
  <2> QED
    BY <1>0, <2>1, <2>6 DEF StarveInv
<1>11. CASE ClockBack
  <2>1. /\ waiting' = [j \in Jobs |-> {}] /\ faults < MaxFaults /\ faults' = faults + 1
        /\ pc = "idle" /\ pc' = "sync" /\ job' = job
    BY <1>11 DEF ClockBack, Fault
  <2>2. ASSUME NEW j \in Jobs PROVE Overtaken(j)'
    BY <2>1, NotOvertaken
  <2> QED
    BY <1>0, <1>1, <2>1, <2>2 DEF StarveInv
<1>12. CASE SkipJob \/ RunJob
  <2>1. /\ UNCHANGED <<now, faults>> /\ pc = "jobs" /\ Advance
        /\ \A j \in Jobs : waiting'[j] = IF j = job /\ RunJob THEN {} ELSE waiting[j]
    BY <1>12 DEF SkipJob, RunJob, TypeOK, jobVars
  <2>2. \A j \in Jobs : j < job => waiting[j] = {}
    BY <1>0, <2>1 DEF Overtaken
  <2>3. waiting'[job] = {}
    <3>1. CASE RunJob
      BY <1>1, <2>1, <3>1
    <3>2. CASE SkipJob
      <4>1. ~Due(job) /\ waiting' = waiting
        BY <3>2 DEF SkipJob, jobVars
      <4> QED
        BY <1>0, <1>1, <4>1 DEF Overtaken
    <3> QED
      BY <1>12, <3>1, <3>2
  <2>4. \A k \in Jobs : last[k] <= last'[k] /\ (k # job => last'[k] = last[k])
    <3>1. CASE SkipJob
      BY <1>2, <3>1 DEF SkipJob, jobVars
    <3>2. CASE RunJob
      <4>1. Due(job) /\ last' = [last EXCEPT ![job] = truncate(now, IntervalOf(job))]
        BY <3>2 DEF RunJob, Recorded
      <4>2. truncate(now, IntervalOf(job)) > last[job] /\ truncate(now, IntervalOf(job)) \in Nat
        BY <1>1, <4>1, IntervalType, TruncateType DEF Due
      <4> QED
        BY <1>1, <1>2, <4>1, <4>2 DEF TypeOK
    <3> QED
      BY <1>12, <3>1, <3>2
  <2>5. CASE job # RetentionJob
    <3>1. pc' = "jobs" /\ job' = job + 1
      BY <2>1, <2>5 DEF Advance
    <3>2. Slack' = Slack
      BY <2>1, <3>1 DEF Slack
    <3>3. ASSUME NEW j \in Jobs PROVE Overtaken(j)'
      <4>1. CASE j <= job
        <5>1. waiting'[j] = {}
          BY <1>1, <1>3, <2>1, <2>2, <2>3, <4>1
        <5> QED
          BY <5>1, NotOvertaken
      <4>2. CASE ~(j <= job)
        <5>1. j # job /\ ~(job + 1 > j)
          BY <1>1, <1>3, <4>2
        <5> QED
          BY <1>1, <2>1, <2>4, <3>1, <3>2, <5>1, StillOvertaken
      <4> QED
        BY <4>1, <4>2
    <3> QED
      BY <1>0, <2>1, <3>1, <3>3 DEF StarveInv
  <2>6. CASE job = RetentionJob
    <3>1. pc' = "idle" /\ job' = 1
      BY <2>1, <2>6 DEF Advance, Return
    <3>2. ASSUME NEW j \in Jobs PROVE Overtaken(j)'
      <4>1. j = job \/ j < job
        BY <1>1, <1>3, <2>6, JobsAre
      <4>2. waiting'[j] = {}
        BY <2>1, <2>2, <2>3, <4>1
      <4> QED
        BY <4>2, NotOvertaken
    <3> QED
      BY <1>0, <2>1, <3>1, <3>2 DEF StarveInv
  <2> QED
    BY <2>5, <2>6
<1>13. CASE JobFails
  <2>1. /\ pc = "jobs" /\ pc' = "idle" /\ job' = 1 /\ faults' = faults
        /\ \A j \in Jobs : ~(j > job /\ Due(j)) => waiting'[j] = IF j = job THEN {} ELSE waiting[j]
    BY <1>13 DEF JobFails, Return
  <2>2. ASSUME NEW j \in Jobs PROVE Overtaken(j)'
    <3>1. CASE j > job /\ Due(j)
      BY <1>13, <3>1, OvertakenOnceMore
    <3>2. CASE ~(j > job /\ Due(j))
      <4>1. j = job \/ waiting[j] = {}
        <5>1. j = job \/ j > job \/ job > j
          BY <1>1, <1>3
        <5> QED
          BY <1>0, <2>1, <3>2, <5>1 DEF Overtaken
      <4>2. waiting'[j] = {}
        BY <2>1, <3>2, <4>1
      <4> QED
        BY <4>2, NotOvertaken
    <3> QED
      BY <3>1, <3>2
  <2> QED
    BY <1>0, <2>1, <2>2 DEF StarveInv
<1> QED
  BY <1>6, <1>7, <1>8, <1>9, <1>10, <1>11, <1>12, <1>13 DEF Next, Tick, Checkpoint

\* At first no job was overtaken.
LEMMA StarveInit == ASSUME Init PROVE StarveInv
<1>1. faults = 0 /\ MaxFaults \in Nat /\ pc = "idle" /\ job = 1 /\ waiting = [j \in Jobs |-> {}]
  BY DriverAssumption DEF Init
<1>2. IsFiniteSet({}) /\ Cardinality({}) = 0
  BY FS_EmptySet
<1>3. ASSUME NEW j \in Jobs PROVE Overtaken(j)
  <2>1. waiting[j] = {} /\ 0 <= 2 * (j - 1)
    BY <1>1, JobsAre
  <2> QED
    BY <1>2, <2>1 DEF Overtaken
<1> QED
  BY <1>1, <1>3 DEF StarveInv

\* A job that keeps failing does not starve the jobs after it (driver.rs: tick
\* records the boundary before the job runs): while a job is due, each one ahead
\* of it fails at most twice, whatever else fails and however the clock is set,
\* if their intervals are longer than the ticks this takes.
THEOREM NoJobStarves == ASSUME LongIntervals PROVE Spec => []NotStarved
<1>1. Init => StarveInv
  BY StarveInit
<1>2. TypeOK /\ TypeOK' /\ StarveInv /\ [Next]_vars => StarveInv'
  BY StarveStep
<1>3. StarveInv => NotStarved
  BY DEF StarveInv, Overtaken, NotStarved
<1> QED
  BY <1>1, <1>2, <1>3, DriverTypeCorrect, PTL DEF Spec
=============================================================================
