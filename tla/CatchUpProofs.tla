--------------------------- MODULE CatchUpProofs ----------------------------
(***************************************************************************)
(* catch_up beside a writer that uploads, compacts and prunes: a clean     *)
(* marker tells the truth about the file, and catch_up returns with        *)
(* everything that was published when it was called, unless the writer     *)
(* deleted something while the levels were listed.  For any number of      *)
(* levels and TXIDs, and any number of faults of writer and reader.        *)
(*                                                                         *)
(* Neither is inductive.  The truth of a marker comes from the files still *)
(* to be read (PlanInv): they and the image in the making cover the goal   *)
(* and nothing beyond it, because files hold what their names say and no   *)
(* more.  That the listing is complete is an invariant of the listing      *)
(* (ListInv): what was published when it began is in what was seen, or at  *)
(* a level that is still to be listed.                                     *)
(***************************************************************************)
EXTENDS CatchUp, TiersProofs

\* No deployment mixes compact with L0 retention (see FilesAreComplete).
NotMixed == \A u \in Styles : ~({"compact", "l0_retention"} \subseteq u)

WriterInv == TInv /\ LevelInv /\ PagesInRange /\ (NotMixed => FilesHoldTheirRange)

ReaderTypeOK ==
  /\ rd \in {"idle", "list", "mark", "resize", "apply", "clean", "done"}
  /\ asOf \in Nat /\ asOf <= published
  /\ goal \in Nat
  /\ marker \in [state : {"none", "applying", "clean"}, txid : Nat]

\* What the reader has listed is names of files that were there.
SeenInv ==
  \A f \in seen : /\ f \in FileName /\ 1 <= f.min /\ f.max <= published
                  /\ f.level <= SnapshotLevel

ListInv ==
  rd = "list" =>
    /\ SeenInv
    /\ quiet => \A t \in 1 .. asOf :
                  \/ \E n \in seen : Holds(n, t)
                  \/ \E n \in Names : Holds(n, t) /\ n.level \in unlisted

Running == rd \in {"mark", "resize", "apply", "clean"}

PlanInv ==
  Running =>
    /\ \A f \in todo : f \in FileName /\ 1 <= f.min /\ f.max <= goal
    /\ NotMixed =>
         /\ got \subseteq 1 .. goal
         /\ \A t \in 1 .. goal : t \in got \/ \E f \in todo : Holds(f, t)
    /\ quiet => asOf <= goal

LocalInv ==
  /\ rd \in {"resize", "apply", "clean"} => marker.state = "applying"
  /\ NotMixed => (rd = "clean" => image = 1 .. goal) /\ CleanMarkerIsTrue
  /\ CurrentIfQuiet

ReaderInv == ReaderTypeOK /\ ListInv /\ PlanInv /\ LocalInv

(***************************************************************************)
(* The writer's part.                                                      *)
(***************************************************************************)

\* The writer's TXIDs only grow.
LEMMA PublishedGrows ==
  ASSUME TInv, [Next]_vars
  PROVE  published \in Nat /\ published' \in Nat /\ published <= published'
<1>1. published \in Nat /\ pos \in Nat
  BY DEF TInv, TypeOK
<1>2. CASE UploadStaged
  <2>1. pos = published /\ published' = pos + 1
    BY <1>2 DEF UploadStaged, TInv, ResumeInv
  <2> QED
    BY <1>1, <2>1
<1>3. ASSUME ~UploadStaged PROVE published' = published
  BY <1>3 DEF Next, vars, CompactLevel, Compact, SnapshotBegin, SnapshotPick,
              SnapshotUpload, EnforceSnapshotRetention, EnforceL0Retention,
              StartDeleting, DeleteLtx, DeleteFails, Crash, Open
<1> QED
  BY <1>1, <1>2, <1>3

\* A reader's step is none of the writer's.
LEMMA ReaderOrWriter == [AllNext]_allVars => [Next]_vars
BY DEF AllNext, allVars, ReaderStep, ListBegin, ListLevel, UpToDate, StartDelta,
       StartFull, StartFails, Start, MarkApplying, Resize, ApplyFile, ApplyFails,
       SyncAll, MarkClean, RecordPosition, WriterStep, ReaderCrash, Touched

LEMMA WriterInvHolds == CatchUpSpec => []WriterInv
<1>1. AllInit => Init
  BY DEF AllInit
<1>2. CatchUpSpec => Spec
  BY <1>1, ReaderOrWriter, PTL DEF CatchUpSpec, Spec
<1>3. Spec => [](NotMixed => FilesHoldTheirRange)
  <2>1. CASE NotMixed
    <3>1. Spec => []FilesHoldTheirRange
      BY <2>1, FilesAreComplete DEF NotMixed
    <3> QED
      BY <3>1, PTL
  <2>2. CASE ~NotMixed
    <3>1. NotMixed => FilesHoldTheirRange
      BY <2>2
    <3> QED
      BY <3>1, PTL
  <2> QED
    BY <2>1, <2>2
<1>4. Init => PagesInRange
  BY DEF Init, PagesInRange
<1>5. Spec => []PagesInRange
  BY <1>4, WithinNext, TiersInv, PTL DEF Spec
<1>6. TInv /\ LevelInv /\ PagesInRange /\ (NotMixed => FilesHoldTheirRange) => WriterInv
  BY DEF WriterInv
<1> QED
  BY <1>2, <1>3, <1>5, <1>6, TiersLevels, PTL

(***************************************************************************)
(* Plans as sets of files.                                                 *)
(***************************************************************************)
LEMMA GreedyRange ==
  ASSUME NEW files, files \subseteq FileName, NEW from \in Nat, NEW c,
         Greedy(c, files, from), c # << >>
  PROVE  /\ Range(c) \subseteq files
         /\ Reached(c, 0) = Reached(c, from) /\ Reached(c, 0) \in Nat
         /\ from < Reached(c, 0)
         /\ \A f \in Range(c) : f.max <= Reached(c, 0)
         /\ \A t \in from + 1 .. Reached(c, 0) : \E f \in Range(c) : Holds(f, t)
<1>0. c \in Seq(files)
  BY GreedyAscends
<1>1. DOMAIN c = 1 .. Len(c) /\ \A i \in 1 .. Len(c) : c[i] \in files
  BY <1>0
<1>2. Range(c) \subseteq files /\ \A i \in 1 .. Len(c) : c[i] \in Range(c)
  BY <1>1 DEF Range
<1>3. Reached(c, 0) = Reached(c, from)
  BY DEF Reached
<1>4. Reached(c, from) \in Nat /\ from < Reached(c, from)
  BY GreedyReached
<1>5. \A f \in Range(c) : f.max <= Reached(c, from)
  BY <1>1, GreedyReached DEF Range
<1>6. ASSUME NEW t \in from + 1 .. Reached(c, from)
      PROVE  \E f \in Range(c) : Holds(f, t)
  <2>1. PICK i \in 1 .. Len(c) : Holds(c[i], t)
    BY GreedyCovers
  <2> QED
    BY <1>2, <2>1
<1> QED
  BY <1>2, <1>3, <1>4, <1>5, <1>6

\* What was listed is a listing.
LEMMA SeenIsListing ==
  ASSUME WriterInv, SeenInv
  PROVE  /\ published + SnapshotLevel \in Nat
         /\ Listing(seen, published + SnapshotLevel)
         /\ seen \subseteq FileName
         /\ HeadOf(seen) \in Nat /\ \A f \in seen : f.max <= HeadOf(seen)
<1>1. published \in Nat
  BY DEF WriterInv, TInv, TypeOK
<1>2. seen \subseteq FileName /\ \A f \in seen : f.max <= published
  BY DEF SeenInv
<1>3. ASSUME NEW f \in seen
      PROVE  f.max <= published + SnapshotLevel /\ f.level <= published + SnapshotLevel
  <2>1. f.max \in Nat /\ f.level \in Nat /\ f.max <= published /\ f.level <= SnapshotLevel
    BY DEF SeenInv, FileName
  <2> QED
    BY <1>1, <2>1 DEF SnapshotLevel
<1>4. HeadOf(seen) \in 0 .. published /\ \A f \in seen : f.max <= HeadOf(seen)
  BY <1>1, <1>2, HeadOfIs
<1> QED
  BY <1>1, <1>2, <1>3, <1>4 DEF Listing, SnapshotLevel

\* A finished listing of a quiet writer covers all that was published before.
LEMMA ListedCovers ==
  ASSUME WriterInv, ReaderInv, Listed
  PROVE  /\ SeenInv
         /\ quiet => \A t \in 1 .. asOf : \E n \in seen : Holds(n, t)
         /\ quiet => asOf <= HeadOf(seen)
<1>1. SeenInv
  BY DEF Listed, ReaderInv, ListInv
<1>2. quiet => \A t \in 1 .. asOf : \E n \in seen : Holds(n, t)
  BY DEF Listed, ReaderInv, ListInv
<1>3. ASSUME quiet PROVE asOf <= HeadOf(seen)
  <2>1. HeadOf(seen) \in Nat /\ asOf \in Nat
    BY <1>1, SeenIsListing DEF ReaderInv, ReaderTypeOK
  <2>2. CASE asOf = 0
    BY <2>1, <2>2
  <2>3. CASE asOf # 0
    <3>1. asOf \in 1 .. asOf
      BY <2>1, <2>3
    <3>2. PICK n \in seen : Holds(n, asOf)
      BY <1>2, <1>3, <3>1
    <3>3. n.max \in Nat /\ n.max <= HeadOf(seen) /\ asOf <= n.max
      BY <1>1, <3>2, SeenIsListing DEF FileName, Holds
    <3> QED
      BY <2>1, <3>3
  <2> QED
    BY <2>2, <2>3
<1> QED
  BY <1>1, <1>2, <1>3

(***************************************************************************)
(* The steps.                                                              *)
(***************************************************************************)
LEMMA StartDeltaPlan ==
  ASSUME WriterInv, ReaderInv, StartDelta
  PROVE  ReaderInv'
<1> DEFINE m == marker.txid
           c == Delta.plan
           b == published + SnapshotLevel
<1>1. Listed /\ Trusted /\ m < HeadOf(seen) /\ Delta.ok /\ Start(c, image)
  BY DEF StartDelta
<1>2. SeenInv /\ (quiet => asOf <= HeadOf(seen))
  BY <1>1, ListedCovers
<1>3. m \in Nat /\ marker.state = "clean" /\ sameLen
  BY <1>1 DEF ReaderInv, ReaderTypeOK, Trusted
<1>4. NotMixed => image = 1 .. m
  BY <1>3 DEF ReaderInv, LocalInv, CleanMarkerIsTrue
<1>5. b \in Nat /\ Listing(seen, b) /\ seen \subseteq FileName /\ HeadOf(seen) \in Nat
  BY <1>2, SeenIsListing
<1> HIDE DEF b
<1>6. /\ c = GreedyCover(seen, m) /\ Greedy(c, seen, m)
      /\ ~(Reached(c, m) < HeadOf(seen))
  <2> DEFINE g == GreedyCover(seen, m)
  <2>1. Greedy(g, seen, m)
        /\ Delta = IF Reached(g, m) < HeadOf(seen) THEN NoPlanError ELSE Plan(g)
    BY <1>1, <1>3, <1>5, PlanRestoreFromIs DEF Delta
  <2>2. ~(Reached(g, m) < HeadOf(seen))
    BY <1>1, <2>1 DEF NoPlanError
  <2>3. Delta.plan = g
    BY <2>1, <2>2 DEF Plan
  <2> QED
    BY <2>1, <2>2, <2>3
<1> HIDE DEF c, m
<1>7. c # << >>
  BY <1>1, <1>3, <1>5, <1>6 DEF Reached
<1>8. /\ Range(c) \subseteq seen
      /\ Reached(c, 0) = Reached(c, m) /\ Reached(c, 0) \in Nat /\ m < Reached(c, 0)
      /\ \A f \in Range(c) : f.max <= Reached(c, 0)
      /\ \A t \in m + 1 .. Reached(c, 0) : \E f \in Range(c) : Holds(f, t)
  BY <1>3, <1>5, <1>6, <1>7, GreedyRange
<1>9. /\ rd' = "mark" /\ todo' = Range(c) /\ goal' = Reached(c, 0) /\ got' = image
      /\ UNCHANGED <<vars, unlisted, marker, image, sameLen, asOf, quiet>>
  BY <1>1 DEF Start, localVars
<1>10. HeadOf(seen) <= goal'
  BY <1>5, <1>6, <1>8, <1>9
<1>11. ReaderTypeOK'
  BY <1>8, <1>9 DEF ReaderInv, ReaderTypeOK, vars
<1>12. PlanInv'
  <2>1. \A f \in todo' : f \in FileName /\ 1 <= f.min /\ f.max <= goal'
    BY <1>2, <1>8, <1>9 DEF SeenInv
  <2>2. NotMixed => got' \subseteq 1 .. goal'
    BY <1>3, <1>4, <1>8, <1>9
  <2>3. ASSUME NotMixed, NEW t \in 1 .. goal' PROVE t \in got' \/ \E f \in todo' : Holds(f, t)
    <3>1. t \in 1 .. m \/ t \in m + 1 .. Reached(c, 0)
      BY <1>3, <1>8, <1>9
    <3> QED
      BY <1>4, <1>8, <1>9, <2>3, <3>1
  <2>4. quiet' => asOf' <= goal'
    BY <1>2, <1>5, <1>8, <1>9, <1>10 DEF ReaderInv, ReaderTypeOK
  <2> QED
    BY <2>1, <2>2, <2>3, <2>4 DEF PlanInv
<1>13. ListInv' /\ LocalInv'
  BY <1>9 DEF ReaderInv, ListInv, LocalInv, CleanMarkerIsTrue, CurrentIfQuiet, CatchUpIsCurrent
<1> QED
  BY <1>11, <1>12, <1>13 DEF ReaderInv

LEMMA StartFullPlan ==
  ASSUME WriterInv, ReaderInv, StartFull
  PROVE  ReaderInv'
<1> DEFINE c == Full.plan
           b == published + SnapshotLevel
<1>1. Listed /\ Full.ok /\ Start(c, {})
  BY DEF StartFull
<1>2. SeenInv /\ (quiet => \A t \in 1 .. asOf : \E n \in seen : Holds(n, t))
  BY <1>1, ListedCovers
<1>3. b \in Nat /\ Listing(seen, b) /\ seen \subseteq FileName
  BY <1>2, SeenIsListing
<1> HIDE DEF b
<1>4. Greedy(c, seen, 0) /\ c # << >>
  <2>1. \A f \in seen : 1 <= f.min
    BY <1>2 DEF SeenInv
  <2> QED
    BY <1>1, <1>3, <2>1, PlanRestoreIs DEF Full
<1> HIDE DEF c
<1>5. /\ Range(c) \subseteq seen
      /\ Reached(c, 0) \in Nat
      /\ \A f \in Range(c) : f.max <= Reached(c, 0)
      /\ \A t \in 0 + 1 .. Reached(c, 0) : \E f \in Range(c) : Holds(f, t)
  BY <1>3, <1>4, GreedyRange
<1>6. /\ rd' = "mark" /\ todo' = Range(c) /\ goal' = Reached(c, 0) /\ got' = {}
      /\ UNCHANGED <<vars, unlisted, marker, image, sameLen, asOf, quiet>>
  BY <1>1 DEF Start, localVars
<1>7. ReaderTypeOK'
  BY <1>5, <1>6 DEF ReaderInv, ReaderTypeOK, vars
<1>8. quiet => asOf <= Reached(c, 0)
  <2>1. asOf \in Nat
    BY DEF ReaderInv, ReaderTypeOK
  <2> QED
    BY <1>2, <1>3, <1>4, <2>1, GreedyGoesOn
<1>9. PlanInv'
  <2>1. \A f \in todo' : f \in FileName /\ 1 <= f.min /\ f.max <= goal'
    BY <1>2, <1>5, <1>6 DEF SeenInv
  <2>2. \A t \in 1 .. goal' : \E f \in todo' : Holds(f, t)
    BY <1>5, <1>6
  <2> QED
    BY <1>6, <1>8, <2>1, <2>2 DEF PlanInv
<1>10. ListInv' /\ LocalInv'
  BY <1>6 DEF ReaderInv, ListInv, LocalInv, CleanMarkerIsTrue, CurrentIfQuiet, CatchUpIsCurrent
<1> QED
  BY <1>7, <1>9, <1>10 DEF ReaderInv

LEMMA ListSteps ==
  ASSUME WriterInv, ReaderInv, ListBegin \/ ListLevel
  PROVE  ReaderInv'
<1>0. published \in Nat
  BY DEF WriterInv, TInv, TypeOK
<1>1. \A n \in Names : /\ n \in FileName /\ 1 <= n.min /\ n.max <= published
                       /\ n.level <= SnapshotLevel /\ n.level \in Levels
  BY TiersAssumption DEF WriterInv, TInv, NameInv, NameOK, LevelInv, Levels, SnapshotLevel
<1>2. Names' = Names /\ published' = published
  BY DEF ListBegin, ListLevel, vars, Names
<1>3. CASE ListBegin
  <2>1. \A t \in 1 .. asOf' : \E n \in Names : Holds(n, t)
    <3> SUFFICES ASSUME NEW t \in 1 .. published PROVE \E n \in Names : Holds(n, t)
      BY <1>3 DEF ListBegin
    <3>1. PICK f \in store : Holds(f, t)
      BY RestorableHolds DEF WriterInv, Restorable
    <3>2. Name(f) \in Names /\ Holds(Name(f), t)
      BY <3>1 DEF Names, Name, Holds
    <3> QED
      BY <3>2
  <2>2. ReaderTypeOK' /\ PlanInv' /\ LocalInv'
    BY <1>0, <1>2, <1>3 DEF ListBegin, localVars, ReaderInv, ReaderTypeOK, PlanInv, Running,
             LocalInv, CleanMarkerIsTrue, CurrentIfQuiet, CatchUpIsCurrent
  <2>3. ListInv'
    BY <1>1, <1>2, <1>3, <2>1 DEF ListBegin, ListInv, SeenInv
  <2> QED
    BY <2>2, <2>3 DEF ReaderInv
<1>4. CASE ListLevel
  <2>1. PICK l \in unlisted : unlisted' = unlisted \ {l} /\ seen' = seen \cup AtLevel(Names, l)
    BY <1>4 DEF ListLevel
  <2>2. rd = "list" /\ UNCHANGED <<rd, goal, localVars, asOf, quiet>>
    BY <1>4 DEF ListLevel
  <2>3. ReaderTypeOK' /\ PlanInv' /\ LocalInv'
    BY <1>2, <2>2 DEF localVars, ReaderInv, ReaderTypeOK, PlanInv, Running,
             LocalInv, CleanMarkerIsTrue, CurrentIfQuiet, CatchUpIsCurrent
  <2>4. SeenInv'
    BY <1>1, <1>2, <2>1, <2>2 DEF ReaderInv, ListInv, SeenInv, AtLevel
  <2>5. ASSUME quiet', NEW t \in 1 .. asOf'
        PROVE  \/ \E n \in seen' : Holds(n, t)
               \/ \E n \in Names' : Holds(n, t) /\ n.level \in unlisted'
    <3>1. CASE \E n \in seen : Holds(n, t)
      BY <2>1, <3>1
    <3>2. CASE \E n \in Names : Holds(n, t) /\ n.level \in unlisted
      <4>1. PICK n \in Names : Holds(n, t) /\ n.level \in unlisted
        BY <3>2
      <4>2. n.level = l => n \in seen'
        BY <2>1 DEF AtLevel
      <4> QED
        BY <1>2, <2>1, <4>1, <4>2
    <3> QED
      BY <2>2, <2>5, <3>1, <3>2 DEF ReaderInv, ListInv
  <2>6. ListInv'
    BY <2>4, <2>5 DEF ListInv
  <2> QED
    BY <2>3, <2>6 DEF ReaderInv
<1> QED
  BY <1>3, <1>4

\* catch_up leaves the file as it is.
LEMMA LeaveSteps ==
  ASSUME WriterInv, ReaderInv, UpToDate \/ StartFails \/ ApplyFails \/ ReaderCrash
  PROVE  ReaderInv'
<1>1. UNCHANGED <<published, marker, image, sameLen>>
  BY DEF UpToDate, StartFails, ApplyFails, ReaderCrash, vars, localVars
<1>2. CASE UpToDate
  <2>1. Listed /\ marker.txid = HeadOf(seen) /\ Leave("done")
    BY <1>2 DEF UpToDate
  <2>2. quiet => asOf <= marker.txid
    BY <2>1, ListedCovers
  <2>3. marker.txid \in Nat /\ asOf \in Nat
    BY DEF ReaderInv, ReaderTypeOK
  <2>4. CurrentIfQuiet'
    BY <1>1, <2>1, <2>2, <2>3 DEF Leave, CurrentIfQuiet, CatchUpIsCurrent
  <2> QED
    BY <1>1, <2>1, <2>4 DEF Leave, ReaderInv, ReaderTypeOK, ListInv, PlanInv, Running,
             LocalInv, CleanMarkerIsTrue
<1>3. CASE StartFails \/ ApplyFails \/ ReaderCrash
  <2>1. Leave("idle")
    BY <1>3 DEF StartFails, ApplyFails, ReaderCrash
  <2>2. published \in Nat
    BY DEF WriterInv, TInv, TypeOK
  <2> QED
    BY <1>1, <2>1, <2>2 DEF Leave, ReaderInv, ReaderTypeOK, ListInv, PlanInv, Running,
             LocalInv, CleanMarkerIsTrue, CurrentIfQuiet, CatchUpIsCurrent
<1> QED
  BY <1>2, <1>3

\* One file more of the plan is in the image.
LEMMA ApplyFileStep ==
  ASSUME WriterInv, ReaderInv, ApplyFile
  PROVE  ReaderInv'
<1>1. PICK f \in store : /\ Name(f) \in todo /\ todo' = todo \ {Name(f)}
                         /\ got' = got \cup f.holds
  BY DEF ApplyFile, Newest
<1>2. rd = "apply" /\ UNCHANGED <<published, rd, goal, marker, image, sameLen, asOf, quiet>>
  BY DEF ApplyFile, vars, localVars
<1>3. /\ \A g \in todo : g \in FileName /\ 1 <= g.min /\ g.max <= goal
      /\ NotMixed =>
           /\ got \subseteq 1 .. goal
           /\ \A t \in 1 .. goal : t \in got \/ \E g \in todo : Holds(g, t)
      /\ quiet => asOf <= goal
  BY <1>2 DEF ReaderInv, PlanInv, Running
<1>4. goal \in Nat
  BY DEF ReaderInv, ReaderTypeOK
<1>5. f.min \in Nat /\ f.max \in Nat /\ 1 <= f.min /\ f.max <= goal
  BY <1>1, <1>3 DEF Name, FileName
<1>6. /\ f.holds \subseteq f.min .. f.max
      /\ NotMixed => \A t \in f.min .. f.max : t \in f.holds
  BY DEF WriterInv, PagesInRange, FilesHoldTheirRange
<1>7. NotMixed => got' \subseteq 1 .. goal
  <2>1. f.min .. f.max \subseteq 1 .. goal
    BY <1>4, <1>5
  <2> QED
    BY <1>1, <1>3, <1>6, <2>1
<1>8. ASSUME NotMixed, NEW t \in 1 .. goal PROVE t \in got' \/ \E g \in todo' : Holds(g, t)
  <2>1. CASE t \in got
    BY <1>1, <2>1
  <2>2. CASE t \notin got
    <3>1. PICK g \in todo : Holds(g, t)
      BY <1>3, <1>8, <2>2
    <3>2. CASE g = Name(f)
      <4>1. t \in f.min .. f.max
        BY <1>4, <1>5, <3>1, <3>2 DEF Holds, Name
      <4> QED
        BY <1>1, <1>6, <1>8, <4>1
    <3>3. CASE g # Name(f)
      BY <1>1, <3>1, <3>3
    <3> QED
      BY <3>2, <3>3
  <2> QED
    BY <2>1, <2>2
<1>9. PlanInv'
  BY <1>1, <1>2, <1>3, <1>7, <1>8 DEF PlanInv
<1>10. ReaderTypeOK' /\ ListInv' /\ LocalInv'
  BY <1>2 DEF ReaderInv, ReaderTypeOK, ListInv, LocalInv, CleanMarkerIsTrue,
              CurrentIfQuiet, CatchUpIsCurrent
<1> QED
  BY <1>9, <1>10 DEF ReaderInv

\* The steps of an apply around the reading of its files.
LEMMA ApplySteps ==
  ASSUME WriterInv, ReaderInv, MarkApplying \/ Resize \/ SyncAll \/ MarkClean
  PROVE  ReaderInv'
<1>0. published' = published /\ Running /\ goal \in Nat /\ asOf \in Nat
  BY DEF MarkApplying, Resize, SyncAll, MarkClean, vars, Running, ReaderInv, ReaderTypeOK
<1>1. CASE MarkApplying
  BY <1>0, <1>1 DEF MarkApplying, readVars, Applying, ReaderInv, ReaderTypeOK, ListInv,
           PlanInv, Running, LocalInv, CleanMarkerIsTrue, CurrentIfQuiet, CatchUpIsCurrent
<1>2. CASE Resize
  BY <1>0, <1>2 DEF Resize, readVars, ReaderInv, ReaderTypeOK, ListInv,
           PlanInv, Running, LocalInv, CleanMarkerIsTrue, CurrentIfQuiet, CatchUpIsCurrent
<1>3. CASE SyncAll
  <2>1. NotMixed => got = 1 .. goal
    BY <1>0, <1>3 DEF SyncAll, ReaderInv, PlanInv
  <2>2. rd = "apply" /\ rd' = "clean" /\ image' = got
        /\ UNCHANGED <<todo, goal, got, marker, sameLen, asOf, quiet>>
    BY <1>3 DEF SyncAll, readVars
  <2> QED
    BY <1>0, <2>1, <2>2 DEF ReaderInv, ReaderTypeOK, ListInv,
           PlanInv, Running, LocalInv, CleanMarkerIsTrue, CurrentIfQuiet, CatchUpIsCurrent
<1>4. CASE MarkClean
  <2>1. rd = "clean" /\ marker' = Clean(goal) /\ Leave("done") /\ UNCHANGED <<image, sameLen>>
    BY <1>4 DEF MarkClean
  <2>2. rd' = "done" /\ goal' = 0 /\ asOf' = asOf /\ quiet' = quiet
    BY <2>1 DEF Leave
  <2>3. marker'.state = "clean" /\ marker'.txid = goal
        /\ marker' \in [state : {"none", "applying", "clean"}, txid : Nat]
    BY <1>0, <2>1 DEF Clean
  <2>4. (NotMixed => image = 1 .. goal) /\ (quiet => asOf <= goal)
    BY <1>0, <2>1 DEF ReaderInv, LocalInv, PlanInv
  <2>5. ReaderTypeOK'
    BY <1>0, <2>2, <2>3 DEF ReaderInv, ReaderTypeOK
  <2>6. LocalInv'
    BY <1>0, <2>1, <2>2, <2>3, <2>4 DEF LocalInv, CleanMarkerIsTrue, CurrentIfQuiet,
             CatchUpIsCurrent
  <2> QED
    BY <2>2, <2>5, <2>6 DEF ReaderInv, ListInv, PlanInv, Running
<1> QED
  BY <1>1, <1>2, <1>3, <1>4

\* Somebody else writes the file, or its marker.
LEMMA OtherSteps ==
  ASSUME WriterInv, ReaderInv, RecordPosition \/ Touched
  PROVE  ReaderInv'
<1>0. published' = published /\ published \in Nat /\ Leave("idle")
  BY DEF RecordPosition, Touched, vars, WriterInv, TInv, TypeOK
<1>1. CASE RecordPosition
  <2>1. /\ image' = 1 .. published /\ marker'.state = "clean" /\ marker'.txid = published
        /\ marker' \in [state : {"none", "applying", "clean"}, txid : Nat]
    BY <1>0, <1>1 DEF RecordPosition, Clean
  <2> QED
    BY <1>0, <2>1 DEF Leave, ReaderInv, ReaderTypeOK, ListInv,
           PlanInv, Running, LocalInv, CleanMarkerIsTrue, CurrentIfQuiet, CatchUpIsCurrent
<1>2. CASE Touched
  BY <1>0, <1>2 DEF Touched, Leave, ReaderInv, ReaderTypeOK, ListInv,
           PlanInv, Running, LocalInv, CleanMarkerIsTrue, CurrentIfQuiet, CatchUpIsCurrent
<1> QED
  BY <1>1, <1>2

\* The writer disturbs only the listing, and not while it deletes nothing.
LEMMA WriterSteps ==
  ASSUME WriterInv, ReaderInv, WriterStep
  PROVE  ReaderInv'
<1>1. published \in Nat /\ published' \in Nat /\ published <= published'
  BY PublishedGrows DEF WriterInv, WriterStep
<1>2. /\ quiet' = (quiet /\ (rd = "list" => Names \subseteq Names'))
      /\ UNCHANGED <<rd, unlisted, seen, todo, goal, got, marker, image, sameLen, asOf>>
  BY DEF WriterStep, readVars, localVars
<1>3. ReaderTypeOK'
  BY <1>1, <1>2 DEF ReaderInv, ReaderTypeOK
<1>4. quiet' => quiet /\ (rd = "list" => Names \subseteq Names')
  BY <1>2
<1>5. PlanInv' /\ LocalInv'
  BY <1>2, <1>4 DEF ReaderInv, PlanInv, Running, LocalInv, CleanMarkerIsTrue,
           CurrentIfQuiet, CatchUpIsCurrent
<1>6. ListInv'
  <2> SUFFICES ASSUME rd = "list" PROVE ListInv'
    BY <1>2 DEF ListInv
  <2>1. SeenInv'
    <3> SUFFICES ASSUME NEW f \in seen
                 PROVE  /\ f \in FileName /\ 1 <= f.min /\ f.max <= published'
                        /\ f.level <= SnapshotLevel
      BY <1>2 DEF SeenInv
    <3>1. /\ f \in FileName /\ 1 <= f.min /\ f.max <= published
          /\ f.level <= SnapshotLevel /\ f.max \in Nat
      BY DEF ReaderInv, ListInv, SeenInv, FileName
    <3> QED
      BY <1>1, <3>1
  <2>2. ASSUME quiet', NEW t \in 1 .. asOf
        PROVE  \/ \E n \in seen : Holds(n, t)
               \/ \E n \in Names' : Holds(n, t) /\ n.level \in unlisted
    BY <1>4, <2>2 DEF ReaderInv, ListInv
  <2> QED
    BY <1>2, <2>1, <2>2 DEF ListInv
<1> QED
  BY <1>3, <1>5, <1>6 DEF ReaderInv

LEMMA ReaderNext == WriterInv /\ ReaderInv /\ [AllNext]_allVars => ReaderInv'
<1> SUFFICES ASSUME WriterInv, ReaderInv, [AllNext]_allVars PROVE ReaderInv'
  OBVIOUS
<1>1. CASE ReaderStep
  BY <1>1, ListSteps, LeaveSteps, StartDeltaPlan, StartFullPlan, ApplyFileStep, ApplySteps
     DEF ReaderStep
<1>2. CASE RecordPosition \/ Touched
  BY <1>2, OtherSteps
<1>3. CASE ReaderCrash
  BY <1>3, LeaveSteps
<1>4. CASE WriterStep
  BY <1>4, WriterSteps
<1>5. CASE UNCHANGED allVars
  BY <1>5 DEF allVars, vars, readerVars, readVars, localVars, ReaderInv, ReaderTypeOK, ListInv,
           SeenInv, Names, PlanInv, Running, LocalInv, CleanMarkerIsTrue, CurrentIfQuiet,
           CatchUpIsCurrent
<1> QED
  BY <1>1, <1>2, <1>3, <1>4, <1>5 DEF AllNext

LEMMA ReaderInvHolds == CatchUpSpec => []ReaderInv
<1>1. AllInit => ReaderInv
  <2>1. ASSUME AllInit PROVE ReaderTypeOK /\ ListInv /\ PlanInv /\ LocalInv
    BY <2>1 DEF AllInit, Init, ReaderInit, NoMarker, ReaderTypeOK, ListInv, PlanInv, Running,
             LocalInv, CleanMarkerIsTrue, CurrentIfQuiet, CatchUpIsCurrent
  <2> QED
    BY <2>1 DEF ReaderInv
<1> QED
  BY <1>1, ReaderNext, WriterInvHolds, PTL DEF CatchUpSpec

\* What the position marker says is true, whatever crashed, was pruned,
\* replaced or compacted between listing and applying, whoever else touched
\* the file: a clean marker and a file of its length mean that the file is the
\* database as of the marker's TXID, when no deployment mixes compact with L0
\* retention.
THEOREM MarkerIsTrue ==
  ASSUME NotMixed
  PROVE  CatchUpSpec => []CleanMarkerIsTrue
<1>1. ReaderInv => CleanMarkerIsTrue
  BY DEF ReaderInv, LocalInv
<1> QED
  BY <1>1, ReaderInvHolds, PTL

\* catch_up returns with everything that was published when it was called,
\* however its listing of the levels interleaved with uploads, compactions and
\* restarts of the writer, if none of them deleted a file meanwhile.
THEOREM CatchUpReachesHead == CatchUpSpec => []CurrentIfQuiet
<1>1. ReaderInv => CurrentIfQuiet
  BY DEF ReaderInv, LocalInv
<1> QED
  BY <1>1, ReaderInvHolds, PTL
=============================================================================
