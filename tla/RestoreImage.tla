---------------------------- MODULE RestoreImage ----------------------------
(***************************************************************************)
(* What the planners of RestorePlan and the page merges compute, checked   *)
(* against what they should, for every set of files over a few TXIDs and   *)
(* every history of a page.                                                *)
(*                                                                         *)
(* One page stands for all: files, merges and restores treat each page on  *)
(* its own, except through the database size, which is why a history also  *)
(* says when the database has shrunk below the page.  history[t] is what   *)
(* transaction t did to the page: "write" it, "keep" it, or leave the      *)
(* database without it ("gone").  SQLite writes every page it adds, so a   *)
(* page comes back only by being written.                                  *)
(***************************************************************************)
EXTENDS RestorePlan, FiniteSets, FiniteSetsExt, SequencesExt

CONSTANT MaxTxid   \* bound: the largest TXID

ASSUME ImageAssumption == MaxTxid \in Nat \ {0}

Txids == 1 .. MaxTxid

Ranges(level) ==
  {f \in [level : {level}, min : Txids, max : Txids] : f.min <= f.max}

\* The names the syncer writes: single TXIDs at level 0, windows at level 1,
\* snapshots at level 9.
TierFiles ==
  UNION { {f \in Ranges(0) : f.min = f.max},
          {f \in Ranges(1) : f.min < f.max},
          {f \in Ranges(9) : f.min = 1} }

VARIABLES
  files,    \* the listing
  request,  \* the question asked of the planner
  result    \* its answer

vars == <<files, request, result>>

NoRequest == [op |-> "none", arg |-> 0]

\* A replica's listing, or any ranges whatever at one level.
Init ==
  /\ files \in (SUBSET TierFiles) \cup (SUBSET Ranges(1))
  /\ request = NoRequest /\ result = NoPlanError

Ask(op, arg, answer) ==
  /\ request.op = "none"
  /\ request' = [op |-> op, arg |-> arg]
  /\ result' = answer
  /\ UNCHANGED files

AskRestore == Ask("restore", 0, PlanRestore(files))
AskFrom == \E from \in Txids : Ask("from", from, PlanRestoreFrom(files, from))
AskTo == \E target \in Txids : Ask("to", target, PlanRestoreTo(files, target))

\* Which files carry a time at or before the one asked for.  A file of level 0
\* is stamped when it is built and a merged one as its newest input; Syncer::
\* snapshot stamps its file when it is taken, and so with delay.  The clock of
\* the writer goes forward: asked.by is the last TXID built by that time,
\* asked.taken the last one a snapshot had been taken of.
Stamped(f, asked) == f.max <= IF f.level = 9 THEN asked.taken ELSE asked.by

\* Mutation: only the files of the latest restore plan are looked at.
MutTargetTxid(asked) ==
  Max({0} \cup {f.max : f \in {g \in ToSet(PlanRestore(files).plan) : Stamped(g, asked)}})

TargetTxid(asked) == Max({0} \cup {f.max : f \in {g \in files : Stamped(g, asked)}})

\* restore_to_timestamp: TxidTooOld when no file is old enough.  restore_to_txid
\* lists the levels again; here the two listings are the same.
AskTimestamp ==
  \E asked \in [by : Txids, taken : Txids] :
    /\ asked.taken <= asked.by
    /\ Ask("time", asked, PlanRestoreTo(files, TargetTxid(asked)))

Next == AskRestore \/ AskFrom \/ AskTo \/ AskTimestamp

Spec == Init /\ [][Next]_vars

(***************************************************************************)
(* Page contents, as the TXID that wrote them; 0 is no page.               *)
(***************************************************************************)
Histories ==
  {h \in [Txids -> {"write", "keep", "gone"}] :
     \A t \in Txids : h[t] = "keep" => t > 1 /\ h[t - 1] # "gone"}

LastWrite(h, lo, hi) == Max({0} \cup {t \in lo .. hi : h[t] = "write"})

\* The page in the database after transaction t.
Version(h, t) ==
  IF t = 0 THEN 0 ELSE IF h[t] = "gone" THEN 0 ELSE LastWrite(h, 1, t)

\* The page in a file of this range: its latest version in the range, dropped
\* when the database ends below it.
Entry(h, f) == IF h[f.max] = "gone" THEN 0 ELSE LastWrite(h, f.min, f.max)

\* Mutation: the oldest file with the page wins.
MutLatestEntry(h, s, none) ==
  LET having == {i \in DOMAIN s : Entry(h, s[i]) # 0}
  IN  IF having = {} THEN none ELSE Entry(h, s[Min(having)])

\* The entry of the last file of a sequence that has one: the highest input
\* of the heap merge wins, the first claim of a newest-first apply wins.
LatestEntry(h, s, none) ==
  LET having == {i \in DOMAIN s : Entry(h, s[i]) # 0}
  IN  IF having = {} THEN none ELSE Entry(h, s[Max(having)])

Gone(h, f) == h[f.max] = "gone"

\* compact_level sorts its inputs: each has the place the files before it leave.
sort_by_key(fs) ==
  [i \in 1 .. Cardinality(fs) |->
     CHOOSE f \in fs : Cardinality({g \in fs : Before(g, f)}) = i - 1]

\* merge_to_writer, with the newest file's commit.
Merge(h, s) == IF Gone(h, s[Len(s)]) THEN 0 ELSE LatestEntry(h, s, 0)

\* apply_plan_to_path: a zeroed file of the newest file's size, each page
\* written once, from the newest file that has it.
FullImage(h, s) == IF Gone(h, s[Len(s)]) THEN 0 ELSE LatestEntry(h, s, 0)

\* apply_plan: oldest file first, resizing the image to each file's size.
ImageInMemory(h, s) ==
  LET image[n \in 0 .. Len(s)] ==
        IF n = 0 THEN 0
        ELSE IF Gone(h, s[n]) THEN 0
        ELSE IF Entry(h, s[n]) # 0 THEN Entry(h, s[n]) ELSE image[n - 1]
  IN  image[Len(s)]

\* apply_delta_to_path: the local file is cut to the smallest size of the
\* delta, grown to the last, and the delta's pages are written over it.
DeltaImage(h, s, local) ==
  IF Gone(h, s[Len(s)]) THEN 0
  ELSE LatestEntry(h, s,
                   IF \E i \in DOMAIN s : Gone(h, s[i]) THEN 0 ELSE local)

\* ReplicaReader::read_page: newest file first, the first that has the page.
ReadPage(h, s) == LatestEntry(h, s, 0)

(***************************************************************************)
(* Properties.                                                             *)
(***************************************************************************)
From == IF request.op = "from" THEN request.arg ELSE 0
UpTo(t) == {f \in files : f.max <= t}
Target == IF request.op = "time" THEN TargetTxid(request.arg) ELSE request.arg
Usable == IF request.op \in {"to", "time"} THEN UpTo(Target)
                                           ELSE files

Covered(fs, lo, hi) == \A t \in lo .. hi : \E f \in fs : Holds(f, t)

\* How far the chain goes on without a hole.
Contained ==
  Max({From} \cup {t \in Txids : t > From /\ Covered(Usable, From + 1, t)})

\* A planner finds every TXID the files hold without a hole from where it
\* starts, and fails exactly when that is not enough: a full restore when
\* there is no TXID 1, a delta when there is a hole below the head.
PlanReaches ==
  request.op # "none" =>
    LET enough == IF request.op = "from" THEN Contained >= HeadOf(files)
                                         ELSE Contained > 0
    IN  /\ result.ok <=> enough
        /\ result.ok => Reached(result.plan, From) = Contained

\* No choice of fewer files covers what a plan covers (greedy_cover's "this
\* uses the fewest files to cover the range").
PlanMinimal ==
  result.ok =>
    ~ \E n \in 0 .. Len(result.plan) - 1 :
        \E fs \in kSubset(n, Usable) :
          Covered(fs, From + 1, Reached(result.plan, From))

\* A restore yields the page as the database had it at the TXID it reports,
\* on disk and in memory, whatever the overlaps between the files and however
\* the database shrank and grew; a delta does so on an image that was exact.
\* A restore to a TXID does not go past it.  ReplicaReader finds the same
\* version of a page the database still has.
ImageExact ==
  result.ok /\ result.plan # << >> =>
    \A h \in Histories :
      LET plan == result.plan
          now  == Version(h, Reached(plan, From))
      IN  IF request.op = "from"
            THEN DeltaImage(h, plan, Version(h, From)) = now
            ELSE /\ FullImage(h, plan) = now /\ ImageInMemory(h, plan) = now
                 /\ now # 0 => ReadPage(h, plan) = now
                 /\ request.op = "to" => Reached(plan, 0) <= request.arg

\* A restore to a timestamp never shows a transaction built after it, and goes
\* at least to every TXID that can be restored and that ends a file stamped by
\* then, also when it is hidden under newer merges and snapshots.
TimestampSnaps ==
  request.op = "time" =>
    LET to == IF result.ok THEN Reached(result.plan, 0) ELSE 0
    IN  /\ to <= request.arg.by
        /\ \A f \in files :
             Stamped(f, request.arg) /\ Covered(UpTo(f.max), 1, f.max) => to >= f.max

\* What restore_to_timestamp documents, that it finds the newest transaction
\* built by then, does not hold: a snapshot carries a later time than the
\* transactions in it, and hides them once their own files are pruned.
TimestampIsExact ==
  request.op = "time" =>
    \A f \in files :
      f.max <= request.arg.by /\ Covered(UpTo(f.max), 1, f.max) =>
        result.ok /\ Reached(result.plan, 0) >= f.max

\* A compaction's check of its inputs accepts exactly the sets without a hole
\* and without nesting, and the page it writes for accepted inputs is the
\* latest of their whole range.
MergeIsLatest ==
  request.op = "none" /\ files # {} /\ files \subseteq Ranges(1) =>
    /\ ContiguousWindows(files) <=> Contiguous(files)
    /\ Contiguous(files) =>
         LET s == sort_by_key(files)
             all == [level |-> 2, min |-> s[1].min, max |-> s[Len(s)].max]
         IN  \A h \in Histories : Merge(h, s) = Entry(h, all)
=============================================================================
