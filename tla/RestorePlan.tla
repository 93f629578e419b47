---------------------------- MODULE RestorePlan -----------------------------
(***************************************************************************)
(* How a reader chooses LTX files to restore from (src/sync/restore.rs)    *)
(* and how a compaction checks its inputs (src/ltx/compactor.rs).  Pure    *)
(* operators on sets of file names.                                        *)
(*                                                                         *)
(* A file name is a level and an inclusive range of TXIDs.  A listing is   *)
(* sorted by level and range, so a set of names carries the same           *)
(* information.                                                            *)
(***************************************************************************)
EXTENDS Integers, Sequences

FileName == [level : Nat, min : Nat, max : Nat]

Holds(f, t) == f.min <= t /\ t <= f.max

\* The largest TXID of any file, 0 for none.
HeadOf(files) ==
  IF files = {} THEN 0
  ELSE (CHOOSE f \in files : \A g \in files : g.max <= f.max).max

\* The order of a listing within a level, and of FileIndex.
Before(f, g) == f.min < g.min \/ (f.min = g.min /\ f.max < g.max)

(***************************************************************************)
(* greedy_cover: from a position, take the file that starts contiguously   *)
(* and reaches furthest, until none reaches further.                       *)
(***************************************************************************)
Extends(f, pos) == f.min <= pos + 1 /\ f.max > pos

\* max_by: furthest first, then highest level; of equals the last listed.
Beats(f, g) ==
  \/ f.max > g.max
  \/ f.max = g.max /\ f.level > g.level
  \/ f.max = g.max /\ f.level = g.level /\ f.min >= g.min

\* Mutation: the first file that extends the position is taken.
MutFurthest(files, pos) ==
  CHOOSE f \in files :
    Extends(f, pos) /\ \A g \in files : Extends(g, pos) => Beats(g, f)

Furthest(files, pos) ==
  CHOOSE f \in files :
    Extends(f, pos) /\ \A g \in files : Extends(g, pos) => Beats(f, g)

\* The plan, oldest file first.
GreedyCover(files, from) ==
  LET cover[pos \in from .. from + HeadOf(files)] ==
        IF \E f \in files : Extends(f, pos)
          THEN << Furthest(files, pos) >> \o cover[Furthest(files, pos).max]
          ELSE << >>
  IN  cover[from]

Reached(plan, from) == IF plan = << >> THEN from ELSE plan[Len(plan)].max

(***************************************************************************)
(* The planners.  A result is a plan or an error.                          *)
(***************************************************************************)
Plan(p) == [ok |-> TRUE, plan |-> p]
NoPlanError == [ok |-> FALSE, plan |-> << >>]

\* NoSnapshot unless the plan starts with TXID 1.
PlanRestore(files) ==
  LET plan == GreedyCover(files, 0)
  IN  IF plan # << >> /\ plan[1].min = 1 THEN Plan(plan) ELSE NoPlanError

\* Mutation: a plan that stops short of the head is returned.
MutPlanRestoreFrom(files, from) ==
  IF from >= HeadOf(files) THEN Plan(<< >>) ELSE Plan(GreedyCover(files, from))

\* ChainGap unless the plan reaches the head.
PlanRestoreFrom(files, from) ==
  LET plan == GreedyCover(files, from)
  IN  CASE from >= HeadOf(files)                  -> Plan(<< >>)
        [] from < HeadOf(files)
           /\ Reached(plan, from) < HeadOf(files) -> NoPlanError
        [] OTHER                                  -> Plan(plan)

PlanRestoreTo(files, target) == PlanRestore({f \in files : f.max <= target})

(***************************************************************************)
(* compact_to_writer accepts its inputs when they are contiguous.          *)
(***************************************************************************)

Neighbours(f, g, files) ==
  Before(f, g) /\ ~ \E h \in files : Before(f, h) /\ Before(h, g)

\* Mutation: a file nested in the one before it is let through.
MutContiguousWindows(files) ==
  \A f, g \in files : Neighbours(f, g, files) => g.min <= f.max + 1

\* As the code says it: of two neighbours in the order of the listing, the
\* later starts no later than one past the end of the earlier, and ends later.
ContiguousWindows(files) ==
  \A f, g \in files :
    Neighbours(f, g, files) => g.min <= f.max + 1 /\ g.max > f.max

\* The same without neighbours: a later start is a later end, and no TXID
\* between the first and the last is missing.
Contiguous(files) ==
  /\ \A f, g \in files : Before(f, g) => f.max < g.max
  /\ \A f, g \in files : \A t \in f.min .. g.max :
       \E h \in files : Holds(h, t)
=============================================================================
