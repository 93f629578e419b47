------------------------- MODULE RestoreImageProofs -------------------------
(***************************************************************************)
(* The planners find what the files hold, with the fewest files, and the   *)
(* images built from their plans are exact: for every listing over any     *)
(* number of TXIDs and every history of a page.  So is what a compaction   *)
(* writes for the inputs it accepts.                                       *)
(*                                                                         *)
(* The properties speak of the answer to one request.  The invariant says  *)
(* which planner gave it and for which files; the rest follows from what   *)
(* RestorePlanProofs shows of a greedy plan.                               *)
(***************************************************************************)
EXTENDS RestoreImage, RestorePlanProofs

Answered ==
  \/ request = NoRequest /\ result = NoPlanError
  \/ request.op = "restore" /\ result = PlanRestore(files)
  \/ request.op = "from" /\ request.arg \in Txids
     /\ result = PlanRestoreFrom(files, request.arg)
  \/ request.op = "to" /\ request.arg \in Txids
     /\ result = PlanRestoreTo(files, request.arg)
  \/ request.op = "time" /\ request.arg \in [by : Txids, taken : Txids]
     /\ request.arg.taken <= request.arg.by
     /\ result = PlanRestoreTo(files, TargetTxid(request.arg))

ImageInv == files \in (SUBSET TierFiles) \cup (SUBSET Ranges(1)) /\ Answered

LEMMA ImageInvHolds == Spec => []ImageInv
<1>1. Init => ImageInv
  BY DEF Init, ImageInv, Answered
<1>2. ImageInv /\ [Next]_vars => ImageInv'
  <2> SUFFICES ASSUME ImageInv, [Next]_vars PROVE ImageInv'
    OBVIOUS
  <2>1. files' = files
    BY DEF Next, vars, Ask, AskRestore, AskFrom, AskTo, AskTimestamp
  <2>2. \A t : TargetTxid(t)' = TargetTxid(t)
    BY <2>1 DEF TargetTxid
  <2>3. CASE AskRestore
    BY <2>1, <2>3 DEF AskRestore, Ask, ImageInv, Answered
  <2>4. CASE AskFrom
    BY <2>1, <2>4 DEF AskFrom, Ask, ImageInv, Answered
  <2>5. CASE AskTo
    BY <2>1, <2>5 DEF AskTo, Ask, ImageInv, Answered
  <2>6. CASE AskTimestamp
    <3>1. PICK asked \in [by : Txids, taken : Txids] :
            asked.taken <= asked.by
            /\ Ask("time", asked, PlanRestoreTo(files, TargetTxid(asked)))
      BY <2>6 DEF AskTimestamp
    <3>2. request' = [op |-> "time", arg |-> asked]
          /\ result' = PlanRestoreTo(files, TargetTxid(asked))
      BY <3>1 DEF Ask
    <3>3. request'.op = "time" /\ request'.arg = asked
      BY <3>2
    <3>4. Answered'
      BY <2>1, <2>2, <3>1, <3>2, <3>3 DEF Answered
    <3> QED
      BY <2>1, <3>4 DEF ImageInv
  <2>7. CASE UNCHANGED vars
    BY <2>1, <2>2, <2>7 DEF vars, ImageInv, Answered
  <2> QED
    BY <2>3, <2>4, <2>5, <2>6, <2>7 DEF Next
<1> QED
  BY <1>1, <1>2, PTL DEF Spec

(***************************************************************************)
(* Listings.                                                               *)
(***************************************************************************)
Bound == MaxTxid + 9

LEMMA FilesAreRanges ==
  ASSUME ImageInv
  PROVE  files \subseteq Ranges(0) \cup Ranges(1) \cup Ranges(9)
<1>1. TierFiles \subseteq Ranges(0) \cup Ranges(1) \cup Ranges(9)
  BY Zenon DEF TierFiles
<1>2. files \subseteq TierFiles \/ files \subseteq Ranges(1)
  BY DEF ImageInv
<1> QED
  BY <1>1, <1>2

LEMMA FilesAreListing ==
  ASSUME ImageInv
  PROVE  /\ Bound \in Nat
         /\ files \subseteq FileName
         /\ \A f \in files : /\ f.min \in Txids /\ f.max \in Txids /\ f.min <= f.max
                             /\ f.level \in Nat
         /\ \A U \in SUBSET files : Listing(U, Bound) /\ \A f \in U : 1 <= f.min
<1>0. MaxTxid \in Nat
  BY ImageAssumption
<1>1. ASSUME NEW f \in files
      PROVE  /\ f \in FileName /\ f.min \in Txids /\ f.max \in Txids /\ f.min <= f.max
             /\ f.level \in {0, 1, 9}
  <2>1. f \in Ranges(0) \/ f \in Ranges(1) \/ f \in Ranges(9)
    BY FilesAreRanges
  <2>2. ASSUME NEW l \in {0, 1, 9}, f \in Ranges(l)
        PROVE  /\ f \in FileName /\ f.min \in Txids /\ f.max \in Txids /\ f.min <= f.max
               /\ f.level \in {0, 1, 9}
    <3>1. f \in [level : {l}, min : Txids, max : Txids] /\ f.min <= f.max
      BY <2>2 DEF Ranges
    <3>2. Txids \subseteq Nat /\ l \in Nat
      BY DEF Txids
    <3> QED
      BY <3>1, <3>2 DEF FileName
  <2> QED
    BY <2>1, <2>2
<1>2. ASSUME NEW f \in files PROVE f.max <= Bound /\ f.level <= Bound /\ 1 <= f.min
  BY <1>0, <1>1 DEF Bound, Txids
<1>3. Bound \in Nat
  BY <1>0 DEF Bound
<1> QED
  BY <1>1, <1>2, <1>3 DEF Listing

\* There are finitely many names.
LEMMA FilesAreFinite ==
  ASSUME ImageInv
  PROVE  IsFiniteSet(files)
<1>1. ASSUME NEW l PROVE IsFiniteSet(Ranges(l))
  <2> DEFINE P == Txids \X Txids
             g == [p \in P |-> [level |-> l, min |-> p[1], max |-> p[2]]]
             T == {g[p] : p \in P}
  <2>1. IsFiniteSet(Txids)
    BY ImageAssumption, FS_Interval DEF Txids
  <2>2. IsFiniteSet(P)
    BY <2>1, FS_Product
  <2>3. g \in Surjection(P, T)
    BY DEF Surjection
  <2>4. IsFiniteSet(T)
    <3> HIDE DEF g, T, P
    <3> QED
      BY <2>2, <2>3, FS_Surjection
  <2>5. Ranges(l) \subseteq T
    <3> SUFFICES ASSUME NEW f \in Ranges(l) PROVE f \in T
      OBVIOUS
    <3>1. f.min \in Txids /\ f.max \in Txids
          /\ f = [level |-> l, min |-> f.min, max |-> f.max]
      BY DEF Ranges
    <3>2. <<f.min, f.max>> \in P /\ f = g[<<f.min, f.max>>]
      BY <3>1
    <3> QED
      BY <3>2
  <2> HIDE DEF T
  <2> QED
    BY <2>4, <2>5, FS_Subset
<1> DEFINE A == Ranges(0) \cup Ranges(1)
           B == A \cup Ranges(9)
<1>2. IsFiniteSet(A)
  BY <1>1, FS_Union
<1>3. IsFiniteSet(B)
  <2> HIDE DEF A
  <2> QED
    BY <1>1, <1>2, FS_Union
<1>4. files \subseteq B
  BY FilesAreRanges
<1> HIDE DEF B
<1> QED
  BY <1>3, <1>4, FS_Subset

\* The largest of a set of numbers with a known largest member.
LEMMA MaxIs ==
  ASSUME NEW S, S \subseteq Nat, NEW m \in S, \A n \in S : n <= m
  PROVE  Max(S) = m
<1>1. \E x \in S : \A y \in S : x >= y
  BY Zenon, m \in S /\ \A y \in S : m >= y
<1>2. Max(S) \in S /\ \A y \in S : Max(S) >= y
  BY <1>1, Zenon DEF Max
<1>3. Max(S) \in Nat /\ m \in Nat /\ Max(S) >= m /\ Max(S) <= m
  BY <1>2
<1> QED
  BY <1>3

\* Of a bounded set of numbers there is one.
LEMMA MaxExists ==
  ASSUME NEW S, S \subseteq Nat, S # {}, NEW b \in Nat, \A n \in S : n <= b
  PROVE  Max(S) \in S /\ \A n \in S : n <= Max(S)
<1>1. PICK m \in S : \A n \in S : n <= m
  BY GreatestOf
<1>2. Max(S) = m
  BY <1>1, MaxIs
<1> QED
  BY <1>1, <1>2

(***************************************************************************)
(* Planners.                                                               *)
(***************************************************************************)

\* How far the files U go on without a hole.
Extent(U, from) == Max({from} \cup {t \in Txids : t > from /\ Covered(U, from + 1, t)})

\* A greedy plan goes just as far.
LEMMA GreedyExtent ==
  ASSUME ImageInv, NEW U \in SUBSET files, NEW from \in Nat, NEW c, Greedy(c, U, from)
  PROVE  Extent(U, from) = Reached(c, from)
<1> DEFINE r == Reached(c, from)
           S == {from} \cup {t \in Txids : t > from /\ Covered(U, from + 1, t)}
<1>1. U \subseteq FileName /\ Listing(U, Bound) /\ Bound \in Nat
  BY FilesAreListing
<1>2. r \in Nat /\ from <= r
  BY <1>1, GreedyReached
<1>3. S \subseteq Nat
  BY DEF Txids
<1>4. \A t \in S : t <= r
  <2> SUFFICES ASSUME NEW t \in Txids, Covered(U, from + 1, t) PROVE t <= r
    BY <1>2
  <2>1. t \in Nat /\ \A u \in from + 1 .. t : \E f \in U : Holds(f, u)
    BY DEF Txids, Covered
  <2> QED
    BY <1>1, <2>1, GreedyGoesOn
<1>5. r \in S
  <2>1. CASE c = << >>
    BY <2>1 DEF Reached
  <2>2. CASE c # << >>
    <3>1. from < r /\ r = c[Len(c)].max
      BY <1>1, <2>2, GreedyReached DEF Reached
    <3>2. c[Len(c)] \in U
      BY <1>1, <2>2, GreedyEnds
    <3>3. r \in Txids
      BY <3>1, <3>2, FilesAreListing
    <3>4. ASSUME NEW t \in from + 1 .. r PROVE \E f \in U : Holds(f, t)
      <4>1. PICK i \in 1 .. Len(c) : Holds(c[i], t)
        BY <1>1, GreedyCovers
      <4>2. c[i] \in U
        BY <1>1, GreedyAscends
      <4> QED
        BY <4>1, <4>2
    <3> QED
      BY <1>2, <3>1, <3>3, <3>4 DEF Covered
  <2> QED
    BY <2>1, <2>2
<1> HIDE DEF S, r
<1>6. Max(S) = r
  BY <1>3, <1>4, <1>5, MaxIs
<1> QED
  BY <1>6 DEF S, r, Extent

\* A full restore from some of the files.
LEMMA RestoreFromSome ==
  ASSUME ImageInv, NEW U \in SUBSET files
  PROVE  LET r == PlanRestore(U) IN
         /\ r.ok \in BOOLEAN
         /\ r.ok <=> Extent(U, 0) > 0
         /\ r.ok => /\ Greedy(r.plan, U, 0) /\ r.plan # << >>
                    /\ Reached(r.plan, 0) = Extent(U, 0)
<1> DEFINE r == PlanRestore(U)
           c == GreedyCover(U, 0)
<1>1. U \subseteq FileName /\ Listing(U, Bound) /\ Bound \in Nat /\ \A f \in U : 1 <= f.min
  BY FilesAreListing
<1>2. /\ r.ok = TRUE <=> \E f \in U : Holds(f, 1)
      /\ r.ok => Greedy(r.plan, U, 0) /\ r.plan # << >>
      /\ r.ok \in BOOLEAN
  BY <1>1, PlanRestoreIs
<1>3. Greedy(c, U, 0)
  BY <1>1, CoversAreGreedy
<1> HIDE DEF r, c
<1>4. Extent(U, 0) = Reached(c, 0) /\ Reached(c, 0) \in Nat
  BY <1>1, <1>3, GreedyExtent, GreedyReached
<1>5. ASSUME r.ok PROVE Extent(U, 0) > 0 /\ Reached(r.plan, 0) = Extent(U, 0)
  <2>1. Greedy(r.plan, U, 0) /\ r.plan # << >>
    BY <1>2, <1>5
  <2>2. Reached(r.plan, 0) = Extent(U, 0)
    BY <2>1, GreedyExtent
  <2>3. 0 < Reached(r.plan, 0)
    BY <1>1, <2>1, GreedyReached
  <2> QED
    BY <1>4, <2>2, <2>3
<1>6. ASSUME Extent(U, 0) > 0 PROVE r.ok
  <2>1. 1 \in 0 + 1 .. Reached(c, 0)
    BY <1>4, <1>6
  <2>2. PICK i \in 1 .. Len(c) : Holds(c[i], 1)
    BY <1>1, <1>3, <2>1, GreedyCovers
  <2>3. c[i] \in U
    BY <1>1, <1>3, GreedyAscends
  <2> QED
    BY <1>2, <2>2, <2>3
<1> QED
  BY <1>2, <1>5, <1>6 DEF r

\* A delta.
LEMMA RestoreFromPosition ==
  ASSUME ImageInv, NEW from \in Nat
  PROVE  LET r == PlanRestoreFrom(files, from) IN
         /\ r.ok \in BOOLEAN
         /\ r.ok <=> Extent(files, from) >= HeadOf(files)
         /\ r.ok => Greedy(r.plan, files, from) /\ Reached(r.plan, from) = Extent(files, from)
<1> DEFINE r == PlanRestoreFrom(files, from)
           c == GreedyCover(files, from)
           H == HeadOf(files)
<1>1. files \subseteq FileName /\ Listing(files, Bound) /\ Bound \in Nat
  BY FilesAreListing
<1>2. H \in Nat
  BY <1>1, HeadOfIs DEF Listing
<1>3. /\ Greedy(c, files, from)
      /\ from >= H => r = Plan(<< >>)
      /\ from < H => r = IF Reached(c, from) < H THEN NoPlanError ELSE Plan(c)
  BY <1>1, PlanRestoreFromIs
<1>4. Extent(files, from) = Reached(c, from) /\ Reached(c, from) \in Nat /\ from <= Reached(c, from)
  BY <1>1, <1>3, GreedyExtent, GreedyReached
<1> HIDE DEF r, c
<1> DEFINE Goal == /\ r.ok \in BOOLEAN
                   /\ r.ok <=> Extent(files, from) >= H
                   /\ r.ok => /\ Greedy(r.plan, files, from)
                               /\ Reached(r.plan, from) = Extent(files, from)
<1>5. ASSUME from >= H PROVE Goal
  <2>1. c = << >>
    <3> SUFFICES ASSUME c # << >> PROVE FALSE
      OBVIOUS
    <3>1. Reached(c, from) <= H
      BY <1>1, <1>3, GreedyEnds
    <3>2. from < Reached(c, from)
      BY <1>1, <1>3, GreedyReached
    <3> HIDE DEF H
    <3> QED
      BY <1>2, <1>4, <1>5, <3>1, <3>2
  <2>2. r.ok = TRUE /\ r.plan = c
    BY <1>3, <1>5, <2>1 DEF Plan
  <2>3. Extent(files, from) >= H /\ Greedy(r.plan, files, from)
        /\ Reached(r.plan, from) = Extent(files, from)
    <3> HIDE DEF H
    <3> QED
      BY <1>2, <1>3, <1>4, <1>5, <2>2
  <2> QED
    BY <2>2, <2>3
<1>6. ASSUME from < H, Reached(c, from) < H PROVE Goal
  <2>1. r.ok = FALSE
    BY <1>3, <1>6 DEF NoPlanError
  <2>2. ~(Extent(files, from) >= H)
    <3> HIDE DEF H
    <3> QED
      BY <1>2, <1>4, <1>6
  <2> QED
    BY <2>1, <2>2
<1>7. ASSUME from < H, ~(Reached(c, from) < H) PROVE Goal
  <2>1. r.ok = TRUE /\ r.plan = c
    BY <1>3, <1>7 DEF Plan
  <2>2. Extent(files, from) >= H /\ Greedy(r.plan, files, from)
        /\ Reached(r.plan, from) = Extent(files, from)
    <3> HIDE DEF H
    <3> QED
      BY <1>2, <1>3, <1>4, <1>7, <2>1
  <2> QED
    BY <2>1, <2>2
<1>8. Goal
  <2> HIDE DEF H, Goal
  <2> QED
    BY <1>2, <1>5, <1>6, <1>7
<1> QED
  BY <1>8 DEF r

\* What was answered, in the terms of the properties.
LEMMA AnswerCases ==
  ASSUME ImageInv
  PROVE  /\ Usable \in SUBSET files /\ From \in Nat
         /\ Contained = Extent(Usable, From)
         /\ request.op = "none" => result = NoPlanError
         /\ request.op = "from" =>
              Usable = files /\ result = PlanRestoreFrom(files, From)
         /\ request.op \notin {"none", "from"} =>
              From = 0 /\ result = PlanRestore(Usable)
         /\ request.op \in {"to", "time"} => \A f \in Usable : f.max <= Target
<1>1. Contained = Extent(Usable, From)
  BY DEF Contained, Extent
<1>2. Usable \in SUBSET files
  BY DEF Usable, UpTo
<1>3. CASE request = NoRequest /\ result = NoPlanError
  BY <1>1, <1>2, <1>3 DEF NoRequest, From
<1>4. CASE request.op = "restore" /\ result = PlanRestore(files)
  BY <1>1, <1>2, <1>4 DEF From, Usable
<1>5. CASE request.op = "from" /\ request.arg \in Txids
           /\ result = PlanRestoreFrom(files, request.arg)
  BY <1>1, <1>2, <1>5 DEF From, Usable, Txids
<1>6. CASE request.op = "to" /\ request.arg \in Txids
           /\ result = PlanRestoreTo(files, request.arg)
  BY <1>1, <1>2, <1>6 DEF From, Usable, UpTo, Target, PlanRestoreTo
<1>7. CASE request.op = "time" /\ result = PlanRestoreTo(files, TargetTxid(request.arg))
  BY <1>1, <1>2, <1>7 DEF From, Usable, UpTo, Target, PlanRestoreTo
<1> QED
  BY <1>3, <1>4, <1>5, <1>6, <1>7 DEF ImageInv, Answered

\* plan_restore, plan_restore_from, plan_restore_to and restore_to_timestamp
\* find every TXID the files hold without a hole from where they start, and
\* fail exactly when that is not enough.
THEOREM PlansReach == Spec => []PlanReaches
<1>1. ImageInv => PlanReaches
  <2> SUFFICES ASSUME ImageInv, request.op # "none" PROVE PlanReaches
    BY DEF PlanReaches
  <2>1. CASE request.op = "from"
    <3>1. /\ result.ok \in BOOLEAN
          /\ result.ok <=> Contained >= HeadOf(files)
          /\ result.ok => Reached(result.plan, From) = Contained
      BY <2>1, AnswerCases, RestoreFromPosition
    <3> QED
      BY <2>1, <3>1 DEF PlanReaches
  <2>2. CASE request.op # "from"
    <3>1. /\ result.ok \in BOOLEAN
          /\ result.ok <=> Contained > 0
          /\ result.ok => Reached(result.plan, From) = Contained
      BY <2>2, AnswerCases, RestoreFromSome
    <3> QED
      BY <2>2, <3>1 DEF PlanReaches
  <2> QED
    BY <2>1, <2>2
<1> QED
  BY <1>1, ImageInvHolds, PTL

\* A plan is greedy, or there is none.
LEMMA PlansAreGreedy ==
  ASSUME ImageInv, result.ok
  PROVE  Greedy(result.plan, Usable, From) /\ request.op # "none"
<1>1. request.op # "none"
  BY AnswerCases DEF NoPlanError
<1>2. CASE request.op = "from"
  BY <1>1, <1>2, AnswerCases, RestoreFromPosition
<1>3. CASE request.op # "from"
  BY <1>1, <1>3, AnswerCases, RestoreFromSome
<1> QED
  BY <1>1, <1>2, <1>3

\* "This uses the fewest files to cover the range" (greedy_cover): no smaller
\* set of the listed files covers what a plan covers.
THEOREM PlansAreMinimal == Spec => []PlanMinimal
<1>1. ImageInv => PlanMinimal
  <2> SUFFICES ASSUME ImageInv, result.ok,
                      NEW n \in 0 .. Len(result.plan) - 1, NEW fs \in kSubset(n, Usable),
                      Covered(fs, From + 1, Reached(result.plan, From))
               PROVE  FALSE
    BY DEF PlanMinimal
  <2>1. fs \in SUBSET Usable /\ Cardinality(fs) = n
    BY DEF kSubset
  <2>2. Usable \in SUBSET files /\ From \in Nat
    BY AnswerCases
  <2>3. Usable \subseteq FileName
    BY <2>2, FilesAreListing
  <2>4. IsFiniteSet(fs)
    BY <2>1, <2>2, FilesAreFinite, FS_Subset
  <2>5. Greedy(result.plan, Usable, From)
    BY PlansAreGreedy
  <2>6. Len(result.plan) <= n
    BY <2>1, <2>2, <2>3, <2>4, <2>5, GreedyIsMinimal DEF Covered
  <2>7. Len(result.plan) \in Nat
    BY <2>2, <2>3, <2>5, GreedyAscends
  <2> QED
    BY <2>6, <2>7
<1> QED
  BY <1>1, ImageInvHolds, PTL

\* restore_to_timestamp shows nothing built after the time asked for, and goes
\* at least to every restorable TXID that ends a file stamped by then.
THEOREM TimestampsSnap == Spec => []TimestampSnaps
<1>1. ImageInv => TimestampSnaps
  <2> SUFFICES ASSUME ImageInv, request.op = "time" PROVE TimestampSnaps
    BY DEF TimestampSnaps
  <2> DEFINE asked == request.arg
             S == {0} \cup {f.max : f \in {g \in files : Stamped(g, asked)}}
             to == IF result.ok THEN Reached(result.plan, 0) ELSE 0
  <2>1. asked \in [by : Txids, taken : Txids] /\ asked.taken <= asked.by
    BY DEF ImageInv, Answered, NoRequest
  <2>2. asked.by \in Nat /\ asked.taken \in Nat
    BY <2>1 DEF Txids
  <2>3. S \subseteq Nat /\ S # {} /\ \A n \in S : n <= asked.by
    <3>1. \A f \in files : f.max \in Nat
      BY FilesAreListing DEF Txids
    <3> QED
      BY <2>1, <2>2, <3>1 DEF Stamped
  <2>4. Target = Max(S)
    BY DEF Target, TargetTxid
  <2> HIDE DEF S
  <2>5. Target \in S /\ \A n \in S : n <= Target
    BY <2>2, <2>3, <2>4, MaxExists
  <2>6. /\ Usable = UpTo(Target) /\ Usable \in SUBSET files
        /\ result = PlanRestore(Usable)
        /\ Usable \subseteq FileName /\ Bound \in Nat /\ Listing(Usable, Bound)
    BY AnswerCases, FilesAreListing DEF Usable
  <2>7. to <= asked.by
    <3>1. CASE result.ok
      <4>1. Greedy(result.plan, Usable, 0) /\ result.plan # << >>
        BY <2>6, <3>1, RestoreFromSome
      <4>2. result.plan[Len(result.plan)] \in Usable
        BY <2>6, <4>1, GreedyEnds
      <4>3. to \in Nat /\ to <= Target
        BY <2>6, <3>1, <4>1, <4>2 DEF Reached, UpTo, FileName
      <4> QED
        BY <2>2, <2>3, <2>5, <4>3
    <3>2. CASE ~result.ok
      BY <2>2, <3>2
    <3> QED
      BY <3>1, <3>2
  <2>8. ASSUME NEW f \in files, Stamped(f, asked), Covered(UpTo(f.max), 1, f.max)
        PROVE  to >= f.max
    <3>1. f.max \in S /\ f.max \in Txids
      BY <2>8, FilesAreListing DEF S
    <3>2. f.max <= Target /\ f.max \in Nat /\ Target \in Nat /\ 1 <= f.max
      <4>1. f.max \in Nat /\ 1 <= f.max
        BY <3>1 DEF Txids
      <4>2. f.max <= Target /\ Target \in Nat
        BY <2>3, <2>5, <3>1
      <4> QED
        BY <4>1, <4>2
    <3>3. UpTo(f.max) \subseteq Usable
      <4>1. \A g \in files : g.max \in Nat
        BY FilesAreListing DEF Txids
      <4> QED
        BY <2>6, <3>2, <4>1 DEF UpTo
    <3>4. \A u \in 0 + 1 .. f.max : \E g \in Usable : Holds(g, u)
      BY <2>8, <3>3 DEF Covered
    <3> DEFINE c == GreedyCover(Usable, 0)
    <3>5. Greedy(c, Usable, 0)
      BY <2>6, CoversAreGreedy
    <3> HIDE DEF c
    <3>6. f.max <= Reached(c, 0) /\ Reached(c, 0) = Extent(Usable, 0) /\ Reached(c, 0) \in Nat
      BY <2>6, <3>2, <3>4, <3>5, GreedyGoesOn, GreedyExtent, GreedyReached
    <3>7. Extent(Usable, 0) > 0
      BY <3>2, <3>6
    <3>8. result.ok /\ Reached(result.plan, 0) = Extent(Usable, 0)
      BY <2>6, <3>7, RestoreFromSome
    <3> QED
      BY <3>2, <3>6, <3>8
  <2> QED
    BY <2>7, <2>8 DEF TimestampSnaps
<1> QED
  BY <1>1, ImageInvHolds, PTL

(***************************************************************************)
(* Histories of a page.                                                    *)
(***************************************************************************)

\* A page that is there, and was not written in a stretch, was there all along:
\* pages come back only by being written.
LEMMA NoGoneAfter ==
  ASSUME NEW h \in Histories, NEW b \in Txids, h[b] # "gone",
         NEW a \in Nat, a <= b, \A t \in a + 1 .. b : h[t] # "write"
  PROVE  1 <= a /\ \A t \in a .. b : h[t] # "gone"
<1>0. /\ \A t \in Txids : h[t] \in {"write", "keep", "gone"}
      /\ \A t \in Txids : h[t] = "keep" => t > 1 /\ h[t - 1] # "gone"
  BY DEF Histories
<1>1. b \in Nat /\ \A t \in 1 .. b : t \in Txids
  BY ImageAssumption DEF Txids
<1> DEFINE T == {t \in Nat : t \in 1 .. b /\ a <= t /\ h[t] = "gone"}
<1>2. T = {}
  <2> SUFFICES ASSUME T # {} PROVE FALSE
    OBVIOUS
  <2>1. T \subseteq Nat /\ \A t \in T : t <= b
    BY <1>1
  <2>2. PICK t \in T : \A u \in T : u <= t
    BY <1>1, <2>1, GreatestOf
  <2>3. t # b /\ t + 1 \in 1 .. b /\ t + 1 \in a + 1 .. b /\ a <= t + 1
    BY <1>1
  <2>4. t + 1 \notin T
    BY <2>2, <2>3
  <2>5. h[t + 1] = "keep"
    BY <1>0, <1>1, <2>3, <2>4
  <2>6. h[(t + 1) - 1] # "gone" /\ (t + 1) - 1 = t
    BY <1>0, <1>1, <2>3, <2>5
  <2> QED
    BY <2>6
<1>3. a # 0
  <2> SUFFICES ASSUME a = 0 PROVE FALSE
    OBVIOUS
  <2>1. 1 \in 1 .. b /\ 1 \in a + 1 .. b /\ 1 \in Txids
    BY <1>1, ImageAssumption DEF Txids
  <2>2. h[1] # "gone"
    BY <1>2, <2>1
  <2>3. h[1] = "keep"
    BY <1>0, <2>1, <2>2
  <2> QED
    BY <1>0, <2>1, <2>3
<1> QED
  BY <1>1, <1>2, <1>3

LEMMA LastWriteIs ==
  ASSUME NEW h, NEW lo \in Nat, NEW hi \in Nat
  PROVE  /\ LastWrite(h, lo, hi) \in Nat
         /\ LastWrite(h, lo, hi) # 0 =>
              LastWrite(h, lo, hi) \in lo .. hi /\ h[LastWrite(h, lo, hi)] = "write"
         /\ \A t \in lo .. hi : h[t] = "write" => t <= LastWrite(h, lo, hi)
<1> DEFINE S == {0} \cup {t \in lo .. hi : h[t] = "write"}
<1>1. S \subseteq Nat /\ S # {} /\ \A n \in S : n <= hi
  OBVIOUS
<1>2. LastWrite(h, lo, hi) = Max(S)
  BY DEF LastWrite
<1> HIDE DEF S
<1>3. Max(S) \in S /\ \A n \in S : n <= Max(S)
  BY <1>1, MaxExists
<1> QED
  BY <1>1, <1>2, <1>3 DEF S

\* The version of a page that is there.
LEMMA VersionIs ==
  ASSUME NEW h \in Histories, NEW t \in Txids, h[t] # "gone"
  PROVE  /\ Version(h, t) \in 1 .. t /\ h[Version(h, t)] = "write"
         /\ Version(h, t) = LastWrite(h, 1, t)
         /\ \A u \in Version(h, t) + 1 .. t : h[u] # "write"
         /\ \A u \in Version(h, t) .. t : h[u] # "gone"
<1>1. t \in Nat /\ t # 0
  BY DEF Txids
<1> DEFINE w == LastWrite(h, 1, t)
<1>2. Version(h, t) = w
  BY <1>1 DEF Version
<1>3. /\ w \in Nat
      /\ w # 0 => w \in 1 .. t /\ h[w] = "write"
      /\ \A u \in 1 .. t : h[u] = "write" => u <= w
  BY <1>1, LastWriteIs
<1> HIDE DEF w
<1>4. \A u \in w + 1 .. t : h[u] # "write"
  BY <1>1, <1>3
<1>5. w <= t
  BY <1>1, <1>3
<1>6. 1 <= w /\ \A u \in w .. t : h[u] # "gone"
  BY <1>3, <1>4, <1>5, NoGoneAfter
<1> QED
  BY <1>2, <1>3, <1>4, <1>6 DEF w

\* It lasts until the next write.
LEMMA VersionLasts ==
  ASSUME NEW h \in Histories, NEW b \in Txids, h[b] # "gone",
         NEW a \in Nat, a <= b, Version(h, b) <= a
  PROVE  Version(h, a) = Version(h, b) /\ a \in Txids /\ h[a] # "gone"
<1> DEFINE w == Version(h, b)
<1>1. /\ w \in 1 .. b /\ h[w] = "write"
      /\ \A u \in w + 1 .. b : h[u] # "write"
      /\ \A u \in w .. b : h[u] # "gone"
  BY VersionIs
<1> HIDE DEF w
<1>2. b \in Nat /\ w \in Nat /\ w <= a
  BY <1>1 DEF Txids, w
<1>3. a \in Txids /\ h[a] # "gone"
  BY <1>1, <1>2, ImageAssumption DEF Txids
<1> DEFINE v == Version(h, a)
<1>4. /\ v \in 1 .. a /\ h[v] = "write"
      /\ \A u \in v + 1 .. a : h[u] # "write"
  BY <1>3, VersionIs
<1> HIDE DEF v
<1>5. ~(v < w)
  BY <1>1, <1>2, <1>4
<1>6. ~(w < v)
  BY <1>1, <1>2, <1>4
<1>7. v = w
  BY <1>2, <1>4, <1>5, <1>6
<1> QED
  BY <1>3, <1>7 DEF v, w

\* What a file that ends after the write has of the page.
LEMMA EntryIs ==
  ASSUME NEW h \in Histories, NEW R \in Txids, h[R] # "gone",
         NEW f, f.min \in Txids, f.max \in Txids, f.max <= R, Version(h, R) <= f.max
  PROVE  /\ Entry(h, f) \in {0, Version(h, R)}
         /\ f.min <= Version(h, R) => Entry(h, f) = Version(h, R)
<1> DEFINE w == Version(h, R)
           e == LastWrite(h, f.min, f.max)
<1>1. /\ w \in 1 .. R /\ h[w] = "write"
      /\ \A u \in w + 1 .. R : h[u] # "write"
      /\ \A u \in w .. R : h[u] # "gone"
  BY VersionIs
<1>2. f.min \in Nat /\ f.max \in Nat /\ R \in Nat /\ 1 <= f.min
  BY DEF Txids
<1>3. /\ e \in Nat /\ (e # 0 => e \in f.min .. f.max /\ h[e] = "write")
      /\ \A t \in f.min .. f.max : h[t] = "write" => t <= e
  BY <1>2, LastWriteIs
<1>4. w <= f.max
  OBVIOUS
<1> HIDE DEF w, e
<1>5. h[f.max] # "gone"
  BY <1>1, <1>2, <1>4
<1>6. Entry(h, f) = e
  BY <1>5 DEF Entry, e
<1>7. e # 0 => e <= w
  BY <1>1, <1>2, <1>3
<1>8. f.min <= w => w <= e
  BY <1>1, <1>2, <1>3, <1>4
<1>9. f.min <= w => e = w
  BY <1>1, <1>3, <1>7, <1>8
<1>10. e # 0 => f.min <= w
  BY <1>1, <1>2, <1>3, <1>7
<1> QED
  BY <1>6, <1>9, <1>10 DEF w

(***************************************************************************)
(* Images.                                                                 *)
(***************************************************************************)

\* Of the files of a plan the last with the page has its latest version, if the
\* page was written past the start; if not, it has that version or none has any.
LEMMA LatestIs ==
  ASSUME ImageInv, NEW U \in SUBSET files, NEW from \in Nat, NEW c, Greedy(c, U, from),
         c # << >>, NEW h \in Histories, h[Reached(c, from)] # "gone", NEW none,
         Version(h, Reached(c, from)) <= from => none = Version(h, Reached(c, from))
  PROVE  LatestEntry(h, c, none) = Version(h, Reached(c, from))
<1> DEFINE R == Reached(c, from)
           w == Version(h, R)
           having == {i \in DOMAIN c : Entry(h, c[i]) # 0}
<1>1. U \subseteq FileName /\ Listing(U, Bound) /\ Bound \in Nat
  BY FilesAreListing
<1>2. c \in Seq(U) /\ Len(c) \in Nat
  BY <1>1, GreedyAscends
<1>3. DOMAIN c = 1 .. Len(c)
  BY <1>2
<1>4. R \in Txids /\ R \in Nat
  <2>1. R = c[Len(c)].max /\ c[Len(c)] \in U
    BY <1>1, GreedyEnds DEF Reached
  <2> QED
    BY <2>1, FilesAreListing DEF Txids
<1>5. \A i \in 1 .. Len(c) : /\ c[i].min \in Txids /\ c[i].max \in Txids
                             /\ c[i].max <= R /\ from < c[i].max
  <2> SUFFICES ASSUME NEW i \in 1 .. Len(c)
               PROVE  /\ c[i].min \in Txids /\ c[i].max \in Txids
                      /\ c[i].max <= R /\ from < c[i].max
    OBVIOUS
  <2>1. c[i] \in U /\ c[i].max \in Nat /\ At(c, from, i) \in Nat
        /\ from <= At(c, from, i) /\ At(c, from, i) < c[i].max
    BY <1>1, GreedyAscends
  <2>2. c[i].max <= R
    BY <1>1, GreedyReached
  <2>3. c[i].min \in Txids /\ c[i].max \in Txids
    BY <2>1, FilesAreListing
  <2>4. from < c[i].max
    BY <2>1
  <2> QED
    BY <2>2, <2>3, <2>4
<1>6. w \in 1 .. R
  BY <1>4, VersionIs
<1>7. w \in Nat /\ w # 0
  BY <1>4, <1>6
<1> HIDE DEF R, w
<1>8. \A i \in 1 .. Len(c) : w <= c[i].max => Entry(h, c[i]) \in {0, w}
  BY <1>4, <1>5, EntryIs DEF R, w
<1>9. LatestEntry(h, c, none) = IF having = {} THEN none ELSE Entry(h, c[Max(having)])
  BY DEF LatestEntry
<1>10. having \subseteq 1 .. Len(c)
  BY <1>3
<1>11. having # {} => Max(having) \in having /\ \A i \in having : i <= Max(having)
  <2> HIDE DEF having
  <2>1. having \subseteq Nat /\ \A i \in having : i <= Len(c)
    BY <1>2, <1>10
  <2> QED
    BY <1>2, <2>1, MaxExists
<1>12. ASSUME from < w
       PROVE  having # {} /\ w <= c[Max(having)].max
  <2>1. w \in from + 1 .. R
    BY <1>4, <1>6, <1>12
  <2>2. PICK i \in 1 .. Len(c) : Holds(c[i], w)
    BY <1>1, <2>1, GreedyCovers DEF R
  <2>3. c[i].min <= w /\ w <= c[i].max
    BY <2>2 DEF Holds
  <2>4. Entry(h, c[i]) = w
    BY <1>4, <1>5, <2>3, EntryIs DEF R, w
  <2>5. i \in having
    BY <1>3, <1>7, <2>4
  <2> HIDE DEF having
  <2>6. Max(having) \in 1 .. Len(c) /\ i \in 1 .. Max(having)
    <3> DEFINE m == Max(having)
    <3>1. m \in having /\ i <= m
      BY <1>11, <2>5
    <3>2. m \in 1 .. Len(c)
      BY <1>10, <3>1
    <3> HIDE DEF m
    <3>3. i \in 1 .. m
      BY <1>2, <3>1, <3>2
    <3> QED
      BY <3>2, <3>3 DEF m
  <2>7. c[i].max <= c[Max(having)].max
    BY <1>1, <2>6, GreedyAscends
  <2>8. c[i].max \in Nat /\ c[Max(having)].max \in Nat
    BY <1>5, <2>6 DEF Txids
  <2> QED
    BY <1>7, <2>3, <2>5, <2>7, <2>8
<1>13. having # {} => LatestEntry(h, c, none) = w
  <2> SUFFICES ASSUME having # {} PROVE LatestEntry(h, c, none) = w
    OBVIOUS
  <2> DEFINE j == Max(having)
  <2>1. j \in having
    BY <1>11
  <2>2. Entry(h, c[j]) # 0 /\ j \in 1 .. Len(c)
    BY <1>10, <2>1
  <2>3. w <= c[j].max
    <3>1. CASE from < w
      BY <1>12, <3>1
    <3>2. CASE ~(from < w)
      <4> HIDE DEF j
      <4>1. from < c[j].max /\ c[j].max \in Nat
        BY <1>5, <2>2 DEF Txids
      <4> QED
        BY <1>7, <3>2, <4>1
    <3> QED
      BY <3>1, <3>2
  <2>4. Entry(h, c[j]) = w
    BY <1>8, <2>2, <2>3
  <2> HIDE DEF having
  <2> QED
    BY <1>9, <2>4
<1>14. having = {} => LatestEntry(h, c, none) = w
  <2> SUFFICES ASSUME having = {} PROVE LatestEntry(h, c, none) = w
    OBVIOUS
  <2>1. ~(from < w)
    BY <1>12
  <2>2. w <= from
    BY <1>7, <2>1
  <2>3. none = w
    BY <2>2 DEF w, R
  <2> HIDE DEF having
  <2> QED
    BY <1>9, <2>3
<1> HIDE DEF having
<1> QED
  BY <1>13, <1>14 DEF w, R

\* A gone page, and the files of a plan as the appliers see them.
LEMMA PlanEnd ==
  ASSUME ImageInv, NEW U \in SUBSET files, NEW from \in Nat, NEW c, Greedy(c, U, from),
         c # << >>
  PROVE  /\ Reached(c, from) = c[Len(c)].max
         /\ Reached(c, from) \in Txids
         /\ \A h : Gone(h, c[Len(c)]) <=> h[Reached(c, from)] = "gone"
         /\ \A h : h[Reached(c, from)] = "gone" => Version(h, Reached(c, from)) = 0
<1>1. U \subseteq FileName /\ Listing(U, Bound) /\ Bound \in Nat
  BY FilesAreListing
<1>2. Reached(c, from) = c[Len(c)].max /\ c[Len(c)] \in U
  BY <1>1, GreedyEnds DEF Reached
<1>3. Reached(c, from) \in Txids
  BY <1>2, FilesAreListing
<1> QED
  BY <1>2, <1>3 DEF Gone, Version

\* apply_plan_to_path, merge_to_writer.
LEMMA FullImageIs ==
  ASSUME ImageInv, NEW U \in SUBSET files, NEW c, Greedy(c, U, 0), c # << >>,
         NEW h \in Histories
  PROVE  /\ FullImage(h, c) = Version(h, Reached(c, 0))
         /\ Version(h, Reached(c, 0)) # 0 => ReadPage(h, c) = Version(h, Reached(c, 0))
<1>1. CASE h[Reached(c, 0)] = "gone"
  BY <1>1, PlanEnd DEF FullImage
<1>2. CASE h[Reached(c, 0)] # "gone"
  <2>1. Reached(c, 0) \in Txids /\ ~Gone(h, c[Len(c)])
    BY <1>2, PlanEnd
  <2>2. Version(h, Reached(c, 0)) \in 1 .. Reached(c, 0)
    BY <1>2, <2>1, VersionIs
  <2>3. ~(Version(h, Reached(c, 0)) <= 0)
    BY <2>1, <2>2 DEF Txids
  <2>4. LatestEntry(h, c, 0) = Version(h, Reached(c, 0))
    BY <1>2, <2>3, LatestIs
  <2> QED
    BY <2>1, <2>4 DEF FullImage, ReadPage
<1> QED
  BY <1>1, <1>2

\* apply_delta_to_path, on a file that was exact.
LEMMA DeltaImageIs ==
  ASSUME ImageInv, NEW U \in SUBSET files, NEW from \in Nat, NEW c, Greedy(c, U, from),
         c # << >>, NEW h \in Histories
  PROVE  DeltaImage(h, c, Version(h, from)) = Version(h, Reached(c, from))
<1> DEFINE R == Reached(c, from)
           w == Version(h, R)
           none == IF \E i \in DOMAIN c : Gone(h, c[i]) THEN 0 ELSE Version(h, from)
<1>0. U \subseteq FileName
  BY FilesAreListing
<1>1. CASE h[R] = "gone"
  BY <1>1, PlanEnd DEF DeltaImage
<1>2. CASE h[R] # "gone"
  <2>1. R \in Txids /\ ~Gone(h, c[Len(c)])
    BY <1>2, PlanEnd
  <2>2. /\ w \in 1 .. R /\ R \in Nat
        /\ \A u \in w .. R : h[u] # "gone"
    BY <1>2, <2>1, VersionIs DEF Txids
  <2>3. DeltaImage(h, c, Version(h, from)) = LatestEntry(h, c, none)
    BY <2>1 DEF DeltaImage
  <2>4. ASSUME w <= from PROVE none = w
    <3>1. from <= R
      BY <1>0, GreedyReached
    <3>2. Version(h, from) = w
      <4> HIDE DEF R
      <4> QED
        BY <1>2, <2>1, <2>4, <3>1, VersionLasts
    <3>3. ASSUME NEW i \in DOMAIN c PROVE ~Gone(h, c[i])
      <4>1. i \in 1 .. Len(c)
        <5>1. c \in Seq(U)
          BY <1>0, GreedyAscends
        <5> QED
          BY <5>1
      <4>2. /\ c[i].max \in Nat /\ At(c, from, i) \in Nat
            /\ from <= At(c, from, i) /\ At(c, from, i) < c[i].max
        BY <1>0, <4>1, GreedyAscends
      <4>3. c[i].max <= R
        BY <1>0, <4>1, GreedyReached
      <4> HIDE DEF R, w
      <4>4. c[i].max \in w .. R
        BY <2>2, <2>4, <4>2, <4>3
      <4> QED
        BY <2>2, <4>4 DEF Gone
    <3> QED
      BY <3>2, <3>3
  <2> HIDE DEF none
  <2>5. LatestEntry(h, c, none) = w
    BY <1>2, <2>4, LatestIs
  <2> QED
    BY <2>3, <2>5
<1> QED
  BY <1>1, <1>2

\* A page and one more file, applied in memory to the page before it.
LEMMA PageStep ==
  ASSUME NEW h \in Histories, NEW f, f.min \in Txids, f.max \in Txids,
         NEW a \in Nat, f.min <= a + 1, a < f.max
  PROVE  /\ Entry(h, f) \in Nat
         /\ Version(h, f.max) =
              IF Gone(h, f) THEN 0
              ELSE IF Entry(h, f) # 0 THEN Entry(h, f) ELSE Version(h, a)
<1> DEFINE b == f.max
           w == Version(h, b)
<1>1. f.min \in Nat /\ b \in Nat /\ b # 0
  BY DEF Txids
<1>2. Entry(h, f) \in Nat
  BY <1>1, LastWriteIs DEF Entry
<1>3. CASE Gone(h, f)
  BY <1>1, <1>2, <1>3 DEF Gone, Version
<1>4. CASE ~Gone(h, f)
  <2>1. h[b] # "gone"
    BY <1>4 DEF Gone
  <2>2. w \in 1 .. b
    BY <2>1, VersionIs
  <2>3. Entry(h, f) \in {0, w} /\ (f.min <= w => Entry(h, f) = w)
    BY <1>1, <2>1, <2>2, EntryIs
  <2>4. ASSUME Entry(h, f) = 0 PROVE Version(h, a) = w
    <3>1. w <= a /\ a <= b
      <4> HIDE DEF w
      <4> QED
        BY <1>1, <2>2, <2>3, <2>4
    <3> QED
      BY <2>1, <3>1, VersionLasts
  <2> QED
    BY <1>2, <1>4, <2>3, <2>4
<1> QED
  BY <1>3, <1>4

\* apply_plan after n files.
PageStepOf(h, f, page) ==
  IF Gone(h, f) THEN 0 ELSE IF Entry(h, f) # 0 THEN Entry(h, f) ELSE page

Images(h, s) ==
  LET image[n \in 0 .. Len(s)] ==
        IF n = 0 THEN 0
        ELSE IF Gone(h, s[n]) THEN 0
        ELSE IF Entry(h, s[n]) # 0 THEN Entry(h, s[n]) ELSE image[n - 1]
  IN  image

LEMMA ImageInMemoryIs ==
  ASSUME NEW h, NEW s
  PROVE  ImageInMemory(h, s) = Images(h, s)[Len(s)]
BY Zenon DEF ImageInMemory, Images

LEMMA ImagesAre ==
  ASSUME NEW h, NEW s, Len(s) \in Nat, \A n \in 1 .. Len(s) : Entry(h, s[n]) \in Nat
  PROVE  /\ Images(h, s)[0] = 0
         /\ \A n \in 1 .. Len(s) : Images(h, s)[n] = PageStepOf(h, s[n], Images(h, s)[n - 1])
<1> DEFINE N == Len(s)
           step == [n \in 1 .. N |-> [page \in Nat |-> PageStepOf(h, s[n], page)]]
<1>1. step \in [1 .. N -> [Nat -> Nat]]
  BY DEF PageStepOf
<1>2. PICK f : Recursive(f, N, Nat, 0, step)
  <2>1. N \in Nat /\ 0 \in Nat
    OBVIOUS
  <2> HIDE DEF step, N
  <2> QED
    BY <1>1, <2>1, RecursionExists
<1>3. \A n \in 1 .. N : f[n] = PageStepOf(h, s[n], f[n - 1])
  <2> SUFFICES ASSUME NEW n \in 1 .. N PROVE f[n] = PageStepOf(h, s[n], f[n - 1])
    OBVIOUS
  <2>1. f[n - 1] \in Nat
    BY <1>2 DEF Recursive
  <2> QED
    BY <1>2, <2>1 DEF Recursive
<1>4. \A n \in 0 .. N : f[n] = IF n = 0 THEN 0 ELSE PageStepOf(h, s[n], f[n - 1])
  BY <1>2, <1>3 DEF Recursive
<1>5. f = [n \in 0 .. N |-> f[n]]
  BY <1>2 DEF Recursive
<1>6. f = [n \in 0 .. N |-> IF n = 0 THEN 0 ELSE PageStepOf(h, s[n], f[n - 1])]
  BY <1>4, <1>5, Zenon
<1>7. \E g : g = [n \in 0 .. Len(s) |->
                    IF n = 0 THEN 0
                    ELSE IF Gone(h, s[n]) THEN 0
                    ELSE IF Entry(h, s[n]) # 0 THEN Entry(h, s[n]) ELSE g[n - 1]]
  BY <1>6, Zenon DEF PageStepOf
<1> DEFINE g == Images(h, s)
<1>8. g = [n \in 0 .. Len(s) |->
             IF n = 0 THEN 0
             ELSE IF Gone(h, s[n]) THEN 0
             ELSE IF Entry(h, s[n]) # 0 THEN Entry(h, s[n]) ELSE g[n - 1]]
  BY <1>7, Zenon DEF Images
<1> HIDE DEF g
<1>9. 0 \in 0 .. Len(s) /\ \A n \in 1 .. Len(s) : n \in 0 .. Len(s) /\ n # 0
  OBVIOUS
<1>10. g[0] = 0
  BY <1>8, <1>9, Zenon
<1>11. ASSUME NEW n \in 1 .. Len(s) PROVE g[n] = PageStepOf(h, s[n], g[n - 1])
  BY <1>8, <1>9, Zenon DEF PageStepOf
<1> QED
  BY <1>10, <1>11 DEF g

\* So apply_plan's image is exact.
LEMMA ImageInMemoryExact ==
  ASSUME ImageInv, NEW U \in SUBSET files, NEW c, Greedy(c, U, 0), c # << >>,
         NEW h \in Histories
  PROVE  ImageInMemory(h, c) = Version(h, Reached(c, 0))
<1> DEFINE g == Images(h, c)
<1>1. U \subseteq FileName
  BY FilesAreListing
<1>2. Len(c) \in Nat /\ Len(c) \in 1 .. Len(c)
  BY <1>1, GreedyAscends, GreedyReached
<1>3. ASSUME NEW n \in 1 .. Len(c)
      PROVE  /\ At(c, 0, n) \in Nat /\ Entry(h, c[n]) \in Nat
             /\ Version(h, c[n].max) = PageStepOf(h, c[n], Version(h, At(c, 0, n)))
  <2>1. c[n] \in U /\ At(c, 0, n) \in Nat /\ c[n].min <= At(c, 0, n) + 1 /\ At(c, 0, n) < c[n].max
    BY <1>1, GreedyAscends
  <2>2. c[n].min \in Txids /\ c[n].max \in Txids
    BY <2>1, FilesAreListing
  <2> QED
    BY <2>1, <2>2, PageStep DEF PageStepOf
<1>4. g[0] = 0 /\ \A n \in 1 .. Len(c) : g[n] = PageStepOf(h, c[n], g[n - 1])
  BY <1>2, <1>3, ImagesAre
<1> HIDE DEF g
<1> DEFINE Bad == {n \in Nat : n \in 1 .. Len(c) /\ g[n] # Version(h, c[n].max)}
<1>5. Bad = {}
  <2> SUFFICES ASSUME Bad # {} PROVE FALSE
    OBVIOUS
  <2>1. PICK n \in Bad : \A m \in Bad : n <= m
    BY LeastOf
  <2>2. n \in 1 .. Len(c) /\ g[n] # Version(h, c[n].max)
    OBVIOUS
  <2>3. g[n - 1] = Version(h, At(c, 0, n))
    <3>1. CASE n = 1
      BY <1>4, <3>1 DEF At, Version
    <3>2. CASE n # 1
      <4>1. n - 1 \in 1 .. Len(c) /\ n - 1 \in Nat /\ n - 1 < n
        BY <1>2, <2>2, <3>2
      <4>2. n - 1 \notin Bad
        BY <2>1, <4>1
      <4> QED
        BY <3>2, <4>1, <4>2 DEF At
    <3> QED
      BY <3>1, <3>2
  <2> QED
    BY <1>3, <1>4, <2>2, <2>3
<1>6. g[Len(c)] = Version(h, c[Len(c)].max)
  BY <1>2, <1>5
<1> QED
  BY <1>6, PlanEnd, ImageInMemoryIs DEF g

\* restore_to_path, restore_to_bytes, the restores to a TXID and to a time, and
\* apply_delta_to_path: the image built from a plan is the page as the database
\* had it at the TXID reported, for every history of the page; a restore to a
\* TXID does not go past it, and ReplicaReader finds the same version.
THEOREM ImagesAreExact == Spec => []ImageExact
<1>1. ImageInv => ImageExact
  <2> SUFFICES ASSUME ImageInv, result.ok, result.plan # << >>, NEW h \in Histories
               PROVE  LET plan == result.plan
                          now  == Version(h, Reached(plan, From))
                      IN  IF request.op = "from"
                            THEN DeltaImage(h, plan, Version(h, From)) = now
                            ELSE /\ FullImage(h, plan) = now /\ ImageInMemory(h, plan) = now
                                 /\ now # 0 => ReadPage(h, plan) = now
                                 /\ request.op = "to" => Reached(plan, 0) <= request.arg
    BY DEF ImageExact
  <2> DEFINE c == result.plan
  <2>1. Greedy(c, Usable, From) /\ Usable \in SUBSET files /\ From \in Nat
        /\ request.op # "none"
    BY PlansAreGreedy, AnswerCases
  <2> HIDE DEF c
  <2>2. CASE request.op = "from"
    BY <2>1, <2>2, DeltaImageIs DEF c
  <2>3. CASE request.op # "from"
    <3>1. From = 0
      BY <2>3 DEF From
    <3>2. Greedy(c, Usable, 0) /\ c # << >>
      BY <2>1, <3>1 DEF c
    <3>3. /\ FullImage(h, c) = Version(h, Reached(c, 0))
          /\ Version(h, Reached(c, 0)) # 0 => ReadPage(h, c) = Version(h, Reached(c, 0))
          /\ ImageInMemory(h, c) = Version(h, Reached(c, 0))
      BY <2>1, <3>2, FullImageIs, ImageInMemoryExact
    <3>4. ASSUME request.op = "to" PROVE Reached(c, 0) <= request.arg
      <4>1. Usable \in SUBSET files /\ Listing(Usable, Bound) /\ Bound \in Nat
            /\ \A f \in Usable : f.max <= Target
        BY <3>4, AnswerCases, FilesAreListing
      <4>2. c[Len(c)] \in Usable
        BY <3>2, <4>1, GreedyEnds
      <4>3. Target = request.arg
        BY <3>4 DEF Target
      <4> QED
        BY <3>2, <4>1, <4>2, <4>3, PlanEnd
    <3> QED
      BY <2>3, <3>1, <3>3, <3>4 DEF c
  <2> QED
    BY <2>2, <2>3
<1> QED
  BY <1>1, ImageInvHolds, PTL

(***************************************************************************)
(* Compaction inputs.                                                      *)
(***************************************************************************)
Preceding(F, f) == {g \in F : Before(g, f)}

LEMMA WindowType ==
  ASSUME NEW f \in Ranges(1)
  PROVE  /\ f.min \in Txids /\ f.max \in Txids /\ f.min <= f.max
         /\ f.min \in Nat /\ f.max \in Nat /\ 1 <= f.min
BY ImageAssumption DEF Ranges, Txids

\* Files of one level are ordered by their ranges.
LEMMA BeforeOrders ==
  ASSUME NEW f \in Ranges(1), NEW g \in Ranges(1)
  PROVE  /\ f # g => Before(f, g) \/ Before(g, f)
         /\ ~(Before(f, g) /\ Before(g, f)) /\ ~Before(f, f)
         /\ \A e \in Ranges(1) : Before(e, f) /\ Before(f, g) => Before(e, g)
<1>1. f.min \in Nat /\ f.max \in Nat /\ g.min \in Nat /\ g.max \in Nat
  BY WindowType
<1>2. f = [level |-> 1, min |-> f.min, max |-> f.max]
      /\ g = [level |-> 1, min |-> g.min, max |-> g.max]
  BY DEF Ranges
<1>3. f # g => f.min # g.min \/ f.max # g.max
  BY <1>2
<1>4. ASSUME NEW e \in Ranges(1), Before(e, f), Before(f, g) PROVE Before(e, g)
  BY <1>1, <1>4, WindowType DEF Before
<1> QED
  BY <1>1, <1>3, <1>4 DEF Before

\* So each has a place of its own, and the places are 1 .. Cardinality(F).
LEMMA PlacesAre ==
  ASSUME NEW F, F \subseteq Ranges(1), IsFiniteSet(F)
  PROVE  /\ Cardinality(F) \in Nat
         /\ \A f \in F : Cardinality(Preceding(F, f)) \in Nat
         /\ \A f, g \in F : Before(f, g) =>
              Cardinality(Preceding(F, f)) < Cardinality(Preceding(F, g))
         /\ \A f \in F : Cardinality(Preceding(F, f)) + 1 \in 1 .. Cardinality(F)
         /\ \A i \in 1 .. Cardinality(F) :
              \E f \in F : Cardinality(Preceding(F, f)) = i - 1
<1> DEFINE N == Cardinality(F)
           C(f) == Cardinality(Preceding(F, f))
<1>1. N \in Nat
  BY FS_CardinalityType
<1>2. ASSUME NEW f \in F PROVE Preceding(F, f) \in SUBSET F /\ IsFiniteSet(Preceding(F, f))
                               /\ C(f) \in Nat /\ C(f) <= N
  <2>1. Preceding(F, f) \in SUBSET F
    BY DEF Preceding
  <2>2. IsFiniteSet(Preceding(F, f)) /\ C(f) <= N
    BY <2>1, FS_Subset
  <2> QED
    BY <2>1, <2>2, FS_CardinalityType
<1>3. ASSUME NEW f \in F, NEW g \in F, Before(f, g) PROVE C(f) < C(g)
  <2> DEFINE P == Preceding(F, f)
             Q == Preceding(F, g)
  <2>1. f \notin P /\ f \in Q /\ P \subseteq Q
    BY <1>3, BeforeOrders DEF Preceding
  <2>2. P \cup {f} \in SUBSET Q
    BY <2>1
  <2>3. IsFiniteSet(P) /\ IsFiniteSet(Q) /\ Cardinality(P) \in Nat /\ Cardinality(Q) \in Nat
    BY <1>2
  <2> HIDE DEF P, Q
  <2>4. Cardinality(P \cup {f}) = Cardinality(P) + 1
    BY <2>1, <2>3, FS_AddElement
  <2>5. Cardinality(P \cup {f}) <= Cardinality(Q)
    BY <2>2, <2>3, FS_Subset
  <2>6. Cardinality(P) < Cardinality(Q)
    BY <2>3, <2>4, <2>5
  <2> QED
    BY <2>6 DEF P, Q
<1>4. ASSUME NEW f \in F PROVE C(f) < N
  <2>1. f \notin Preceding(F, f)
    BY BeforeOrders DEF Preceding
  <2>2. Cardinality(F) = C(f) => F = Preceding(F, f)
    BY <1>2, FS_Subset
  <2> QED
    BY <1>1, <1>2, <2>1, <2>2
<1> HIDE DEF C, N
<1>5. \A f \in F : C(f) + 1 \in 1 .. N
  BY <1>1, <1>2, <1>4
<1> DEFINE r == [f \in F |-> C(f) + 1]
<1>6. r \in Injection(F, 1 .. N)
  <2>1. r \in [F -> 1 .. N]
    BY <1>5
  <2>2. ASSUME NEW f \in F, NEW g \in F, r[f] = r[g] PROVE f = g
    <3>1. C(f) = C(g)
      BY <1>2, <2>2
    <3>2. ~Before(f, g) /\ ~Before(g, f)
      BY <1>2, <1>3, <3>1
    <3> QED
      BY <3>2, BeforeOrders
  <2> QED
    BY <2>1, <2>2 DEF Injection, IsInjective
<1>7. IsFiniteSet(1 .. N) /\ Cardinality(1 .. N) = N
  BY <1>1, FS_Interval
<1>8. r \in Surjection(F, 1 .. N)
  <2>1. Cardinality(F) = Cardinality(1 .. N)
    BY <1>7 DEF N
  <2> HIDE DEF r
  <2> QED
    BY <1>6, <1>7, <2>1, FS_Injection
<1>9. ASSUME NEW i \in 1 .. N PROVE \E f \in F : C(f) = i - 1
  <2>1. PICK f \in F : r[f] = i
    BY <1>8 DEF Surjection
  <2>2. C(f) \in Nat /\ C(f) + 1 = i
    BY <1>2, <2>1
  <2> QED
    BY <1>1, <2>2
<1> QED
  BY <1>1, <1>2, <1>3, <1>5, <1>9 DEF C, N

\* compact_level's sort is one: every input, in the order of the listing.
LEMMA SortIs ==
  ASSUME NEW F, F \subseteq Ranges(1), IsFiniteSet(F)
  PROVE  /\ Cardinality(F) \in Nat
         /\ sort_by_key(F) \in Seq(F)
         /\ Len(sort_by_key(F)) = Cardinality(F)
         /\ \A i \in 1 .. Cardinality(F) : sort_by_key(F)[i] \in F
         /\ \A i, j \in 1 .. Cardinality(F) :
              i < j => Before(sort_by_key(F)[i], sort_by_key(F)[j])
         /\ \A f \in F : \E i \in 1 .. Cardinality(F) : sort_by_key(F)[i] = f
<1> DEFINE N == Cardinality(F)
           C(f) == Cardinality(Preceding(F, f))
           s == sort_by_key(F)
<1>1. /\ N \in Nat
      /\ \A f \in F : C(f) \in Nat /\ C(f) + 1 \in 1 .. N
      /\ \A f, g \in F : Before(f, g) => C(f) < C(g)
      /\ \A i \in 1 .. N : \E f \in F : C(f) = i - 1
  BY PlacesAre
<1>2. s = [i \in 1 .. N |-> CHOOSE f \in F : C(f) = i - 1]
  BY DEF sort_by_key, Preceding
<1> HIDE DEF N, C, s
<1>3. ASSUME NEW i \in 1 .. N PROVE s[i] \in F /\ C(s[i]) = i - 1
  <2>1. s[i] = CHOOSE f \in F : C(f) = i - 1
    BY <1>2
  <2>2. \E f \in F : C(f) = i - 1
    BY <1>1
  <2> QED
    BY <2>1, <2>2
<1>4. s \in Seq(F) /\ Len(s) = N
  <2>1. s \in [1 .. N -> F]
    BY <1>2, <1>3
  <2> QED
    BY <1>1, <2>1
<1>5. ASSUME NEW i \in 1 .. N, NEW j \in 1 .. N, i < j PROVE Before(s[i], s[j])
  <2>1. s[i] \in F /\ s[j] \in F /\ C(s[i]) = i - 1 /\ C(s[j]) = j - 1
    BY <1>3
  <2>2. s[i] # s[j]
    BY <1>1, <1>5, <2>1
  <2>3. ~Before(s[j], s[i])
    BY <1>1, <1>5, <2>1
  <2> QED
    BY <2>1, <2>2, <2>3, BeforeOrders
<1>6. ASSUME NEW f \in F PROVE \E i \in 1 .. N : s[i] = f
  <2> DEFINE i == C(f) + 1
  <2>1. i \in 1 .. N /\ C(f) \in Nat /\ i - 1 = C(f)
    BY <1>1
  <2>2. s[i] \in F /\ C(s[i]) = C(f)
    BY <1>3, <2>1
  <2>3. ~Before(f, s[i]) /\ ~Before(s[i], f)
    BY <1>1, <2>1, <2>2
  <2>4. s[i] = f
    BY <2>2, <2>3, BeforeOrders
  <2> QED
    BY <2>1, <2>4
<1> QED
  BY <1>1, <1>3, <1>4, <1>5, <1>6 DEF N, s

\* The code compares neighbours; together they leave no hole and nest nowhere.
LEMMA NeighboursSuffice ==
  ASSUME NEW F, F \subseteq Ranges(1), IsFiniteSet(F), ContiguousWindows(F)
  PROVE  Contiguous(F)
<1> DEFINE N == Cardinality(F)
           s == sort_by_key(F)
<1>1. /\ N \in Nat
      /\ \A i \in 1 .. N : s[i] \in F
      /\ \A i, j \in 1 .. N : i < j => Before(s[i], s[j])
      /\ \A f \in F : \E i \in 1 .. N : s[i] = f
  BY SortIs
<1> HIDE DEF N, s
<1>2. \A i \in 1 .. N : s[i].min \in Nat /\ s[i].max \in Nat
  BY <1>1, WindowType
<1>3. ASSUME NEW i \in 1 .. N, i + 1 \in 1 .. N
      PROVE  s[i + 1].min <= s[i].max + 1 /\ s[i + 1].max > s[i].max
  <2>1. s[i] \in F /\ s[i + 1] \in F /\ Before(s[i], s[i + 1])
    BY <1>1, <1>3
  <2>2. ASSUME NEW h \in F, Before(s[i], h), Before(h, s[i + 1]) PROVE FALSE
    <3>1. PICK k \in 1 .. N : s[k] = h
      BY <1>1
    <3>2. ~(k < i) /\ k # i /\ ~(i + 1 < k) /\ k # i + 1
      BY <1>1, <1>3, <2>1, <2>2, <3>1, BeforeOrders
    <3> QED
      BY <1>1, <3>2
  <2> QED
    BY <2>1, <2>2 DEF ContiguousWindows, Neighbours
<1>4. ASSUME NEW i \in 1 .. N, NEW j \in 1 .. N, i < j PROVE s[i].max < s[j].max
  <2> DEFINE B == {k \in 1 .. N : i < k /\ ~(s[i].max < s[k].max)}
  <2> SUFFICES ASSUME B # {} PROVE FALSE
    BY <1>4
  <2>1. B \subseteq Nat
    BY <1>1
  <2>2. PICK k \in B : \A y \in B : k <= y
    BY <2>1, LeastOf
  <2>3. k \in 1 .. N /\ i < k /\ ~(s[i].max < s[k].max)
    BY <2>2
  <2> DEFINE l == k - 1
  <2>4. l \in 1 .. N /\ l + 1 = k /\ i <= l /\ l \notin B
    BY <1>1, <2>2, <2>3
  <2>5. s[l].max < s[k].max
    BY <1>2, <1>3, <2>3, <2>4
  <2>6. l = i \/ s[i].max < s[l].max
    BY <2>4
  <2> HIDE DEF l, B
  <2> QED
    BY <1>2, <2>3, <2>4, <2>5, <2>6
<1>5. ASSUME NEW f \in F, NEW g \in F, Before(f, g) PROVE f.max < g.max
  <2>1. PICK i \in 1 .. N : s[i] = f
    BY <1>1
  <2>2. PICK j \in 1 .. N : s[j] = g
    BY <1>1
  <2>3. ~(j < i) /\ i # j
    BY <1>1, <1>5, <2>1, <2>2, BeforeOrders
  <2> QED
    BY <1>1, <1>4, <2>1, <2>2, <2>3
<1>6. ASSUME NEW f \in F, NEW g \in F, NEW t \in f.min .. g.max
      PROVE  \E h \in F : Holds(h, t)
  <2>1. f.min \in Nat /\ g.max \in Nat /\ t \in Nat /\ f.min <= t /\ t <= g.max
    BY <1>6, WindowType
  <2>2. PICK a \in 1 .. N : s[a] = f
    BY <1>1
  <2>3. PICK b \in 1 .. N : s[b] = g
    BY <1>1
  <2> DEFINE K == {k \in 1 .. N : s[k].min <= t}
  <2>4. K \subseteq Nat /\ a \in K /\ \A k \in K : k <= N
    BY <1>1, <2>1, <2>2
  <2>5. PICK k \in K : \A y \in K : y <= k
    BY <1>1, <2>4, GreatestOf
  <2>6. k \in 1 .. N /\ s[k].min <= t
    BY <2>5
  <2>7. t <= s[k].max
    <3> SUFFICES ASSUME ~(t <= s[k].max) PROVE FALSE
      OBVIOUS
    <3>1. CASE k = N
      <4>1. s[b].max <= s[k].max
        BY <1>1, <1>2, <1>4, <2>3, <2>6, <3>1
      <4> QED
        BY <1>2, <2>1, <2>3, <2>6, <4>1
    <3>2. CASE k # N
      <4>1. k + 1 \in 1 .. N
        BY <1>1, <2>6, <3>2
      <4>2. k + 1 \notin K
        BY <1>1, <2>5, <2>6, <4>1
      <4>3. ~(s[k + 1].min <= t)
        BY <4>1, <4>2
      <4>4. s[k + 1].min <= s[k].max + 1
        BY <1>3, <2>6, <4>1
      <4> QED
        BY <1>2, <2>1, <2>6, <4>1, <4>3, <4>4
    <3> QED
      BY <3>1, <3>2
  <2> QED
    BY <1>1, <2>6, <2>7 DEF Holds
<1> QED
  BY <1>5, <1>6 DEF Contiguous

LEMMA ContiguousNeighbours ==
  ASSUME NEW F, F \subseteq Ranges(1), Contiguous(F)
  PROVE  ContiguousWindows(F)
<1> SUFFICES ASSUME NEW f \in F, NEW g \in F, Neighbours(f, g, F)
             PROVE  g.min <= f.max + 1 /\ g.max > f.max
  BY DEF ContiguousWindows
<1>1. /\ f.min \in Nat /\ f.max \in Nat /\ f.min <= f.max
      /\ g.min \in Nat /\ g.max \in Nat /\ g.min <= g.max
  BY WindowType
<1>2. Before(f, g) /\ ~ \E h \in F : Before(f, h) /\ Before(h, g)
  BY DEF Neighbours
<1>3. f.max < g.max
  BY <1>2 DEF Contiguous
<1>4. ASSUME ~(g.min <= f.max + 1) PROVE FALSE
  <2>1. f.max + 1 \in f.min .. g.max
    BY <1>1, <1>3
  <2>2. PICK h \in F : Holds(h, f.max + 1)
    BY <2>1 DEF Contiguous
  <2>3. h.min \in Nat /\ h.max \in Nat /\ h.min <= f.max + 1 /\ f.max + 1 <= h.max
    BY <2>2, WindowType DEF Holds
  <2>4. Before(h, g)
    BY <1>1, <1>4, <2>3 DEF Before
  <2>5. h # f /\ ~(h.max < f.max)
    BY <1>1, <2>3
  <2>6. ~Before(h, f)
    BY <2>5 DEF Contiguous
  <2>7. Before(f, h)
    BY <2>5, <2>6, BeforeOrders
  <2> QED
    BY <1>2, <2>4, <2>7
<1> QED
  BY <1>1, <1>3, <1>4

LEMMA EntryInRange ==
  ASSUME NEW h, NEW f, f.min \in Nat, f.max \in Nat
  PROVE  /\ Entry(h, f) \in Nat
         /\ Entry(h, f) # 0 => f.min <= Entry(h, f) /\ Entry(h, f) <= f.max
<1> DEFINE e == LastWrite(h, f.min, f.max)
<1>1. e \in Nat /\ (e # 0 => e \in f.min .. f.max)
  BY LastWriteIs
<1> HIDE DEF e
<1>2. Entry(h, f) = IF h[f.max] = "gone" THEN 0 ELSE e
  BY DEF Entry, e
<1> QED
  BY <1>1, <1>2

\* merge_to_writer: of contiguous inputs the last with the page has its latest
\* version in the whole range, and none has the page if it was not written there.
LEMMA MergeOfContiguous ==
  ASSUME NEW F, F \subseteq Ranges(1), IsFiniteSet(F), F # {}, Contiguous(F),
         NEW h \in Histories
  PROVE  LET s == sort_by_key(F)
             all == [level |-> 2, min |-> s[1].min, max |-> s[Len(s)].max]
         IN  Merge(h, s) = Entry(h, all)
<1> DEFINE N == Cardinality(F)
           s == sort_by_key(F)
           lo == s[1].min
           R == s[N].max
           all == [level |-> 2, min |-> lo, max |-> R]
           having == {i \in DOMAIN s : Entry(h, s[i]) # 0}
<1>1. /\ N \in Nat /\ s \in Seq(F) /\ Len(s) = N
      /\ \A i \in 1 .. N : s[i] \in F
      /\ \A i, j \in 1 .. N : i < j => Before(s[i], s[j])
      /\ \A f \in F : \E i \in 1 .. N : s[i] = f
  BY SortIs
<1>2. DOMAIN s = 1 .. N
  BY <1>1
<1> SUFFICES Merge(h, s) = Entry(h, all)
  BY <1>1
<1>3. Merge(h, s) = IF h[R] = "gone" THEN 0 ELSE LatestEntry(h, s, 0)
  BY <1>1 DEF Merge, Gone
<1>4. LatestEntry(h, s, 0) = IF having = {} THEN 0 ELSE Entry(h, s[Max(having)])
  BY DEF LatestEntry
<1> HIDE DEF N, s
<1>5. 1 \in 1 .. N /\ N \in 1 .. N
  BY <1>1
<1>6. \A i \in 1 .. N :
        /\ s[i].min \in Txids /\ s[i].max \in Txids /\ s[i].min <= s[i].max
        /\ s[i].min \in Nat /\ s[i].max \in Nat
  BY <1>1, WindowType
<1>7. \A i, j \in 1 .. N : i <= j => s[i].max <= s[j].max /\ s[i].min <= s[j].min
  <2> SUFFICES ASSUME NEW i \in 1 .. N, NEW j \in 1 .. N, i <= j
               PROVE  s[i].max <= s[j].max /\ s[i].min <= s[j].min
    OBVIOUS
  <2>1. s[i].min \in Nat /\ s[i].max \in Nat /\ s[j].min \in Nat /\ s[j].max \in Nat
    BY <1>6
  <2>2. CASE i = j
    BY <2>1, <2>2
  <2>3. CASE i # j
    <3>1. i < j
      BY <1>1, <2>3
    <3>2. Before(s[i], s[j]) /\ s[i] \in F /\ s[j] \in F
      BY <1>1, <3>1
    <3>3. s[i].max < s[j].max
      BY <3>2 DEF Contiguous
    <3> QED
      BY <2>1, <3>2, <3>3 DEF Before
  <2> QED
    BY <2>2, <2>3
<1>8. \A i \in 1 .. N : s[i].max <= R /\ lo <= s[i].min
  BY <1>1, <1>5, <1>7
<1>9. /\ lo \in Txids /\ R \in Txids /\ lo \in Nat /\ R \in Nat
      /\ all.min = lo /\ all.max = R
  BY <1>5, <1>6
<1> HIDE DEF lo, R, all
<1>10. CASE h[R] = "gone"
  BY <1>3, <1>9, <1>10 DEF Entry
<1>11. CASE h[R] # "gone"
  <2> DEFINE w == Version(h, R)
  <2>1. w \in 1 .. R
    BY <1>9, <1>11, VersionIs
  <2>2. w \in Nat /\ w # 0 /\ w <= R
    BY <1>9, <2>1
  <2> HIDE DEF w
  <2>3. \A i \in 1 .. N : w <= s[i].max => /\ Entry(h, s[i]) \in {0, w}
                                           /\ s[i].min <= w => Entry(h, s[i]) = w
    BY <1>6, <1>8, <1>9, <1>11, EntryIs DEF w
  <2>4. Entry(h, all) \in {0, w} /\ (lo <= w => Entry(h, all) = w)
    BY <1>9, <1>11, <2>2, EntryIs DEF w
  <2>5. having \subseteq 1 .. N
    BY <1>2
  <2>6. CASE lo <= w
    <3>1. w \in lo .. R
      BY <1>9, <2>2, <2>6
    <3>2. PICK f \in F : Holds(f, w)
      BY <1>1, <1>5, <3>1 DEF Contiguous, lo, R
    <3>3. PICK i \in 1 .. N : s[i] = f
      BY <1>1
    <3>4. s[i].min <= w /\ w <= s[i].max
      BY <3>2, <3>3 DEF Holds
    <3>5. i \in having
      BY <1>2, <2>2, <2>3, <3>4
    <3>6. having \subseteq Nat /\ \A k \in having : k <= N
      BY <1>1, <2>5
    <3> DEFINE j == Max(having)
    <3>7. j \in having /\ i <= j
      <4> HIDE DEF having
      <4> QED
        BY <1>1, <3>5, <3>6, MaxExists
    <3>8. j \in 1 .. N /\ Entry(h, s[j]) # 0
      BY <2>5, <3>7
    <3>9. LatestEntry(h, s, 0) = Entry(h, s[j])
      <4> HIDE DEF having
      <4> QED
        BY <1>4, <3>5
    <3> HIDE DEF j, having
    <3>10. w <= s[j].max
      BY <1>6, <1>7, <2>2, <3>4, <3>7, <3>8
    <3> QED
      BY <1>3, <1>11, <2>3, <2>4, <2>6, <3>8, <3>9, <3>10
  <2>7. CASE ~(lo <= w)
    <3>1. ASSUME NEW i \in 1 .. N PROVE Entry(h, s[i]) = 0
      <4>1. w < s[i].min /\ w <= s[i].max
        BY <1>6, <1>8, <1>9, <2>2, <2>7
      <4>2. Entry(h, s[i]) \in {0, w}
        BY <2>3, <4>1
      <4> QED
        BY <1>6, <2>2, <4>1, <4>2, EntryInRange
    <3>2. having = {}
      BY <1>2, <3>1
    <3>3. Entry(h, all) = 0
      BY <1>9, <2>2, <2>4, <2>7, EntryInRange
    <3> HIDE DEF having
    <3> QED
      BY <1>3, <1>4, <1>11, <3>2, <3>3
  <2> QED
    BY <2>6, <2>7
<1> QED
  BY <1>10, <1>11

\* compact_to_writer: its comparison of neighbours accepts exactly the inputs
\* without a hole and without nesting, and the page that it writes for them is
\* the latest of their whole range, for every history of the page.
THEOREM MergesAreLatest == Spec => []MergeIsLatest
<1>1. ImageInv => MergeIsLatest
  <2> SUFFICES ASSUME ImageInv, files # {}, files \subseteq Ranges(1)
               PROVE  /\ ContiguousWindows(files) <=> Contiguous(files)
                      /\ Contiguous(files) =>
                           LET s == sort_by_key(files)
                               all == [level |-> 2, min |-> s[1].min, max |-> s[Len(s)].max]
                           IN  \A h \in Histories : Merge(h, s) = Entry(h, all)
    BY DEF MergeIsLatest
  <2>1. IsFiniteSet(files)
    BY FilesAreFinite
  <2> QED
    BY <2>1, NeighboursSuffice, ContiguousNeighbours, MergeOfContiguous
<1> QED
  BY <1>1, ImageInvHolds, PTL
=============================================================================
