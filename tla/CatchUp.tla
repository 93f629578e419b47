------------------------------ MODULE CatchUp -------------------------------
(***************************************************************************)
(* catch_up and restore_to_path (src/sync/restore.rs): a reader brings a   *)
(* local database file up to date from the replica, while the writer of    *)
(* module Tiers goes on uploading, compacting and pruning.                 *)
(*                                                                         *)
(* The local file is the set of the transactions it reflects, or Torn when *)
(* it is a mixture of two images or was changed by somebody else.  Beside  *)
(* it lies the position marker.  The reader lists the levels one by one in *)
(* any order (list_all_ltx lists them concurrently), decides, and then     *)
(* reads the files, each of which may be gone by then.                     *)
(***************************************************************************)
EXTENDS Tiers, Functions

CONSTANTS
  ReaderFaults,    \* what may happen to the reader and its file beside catch_up
  MaxReaderFaults  \* bound: how often

ASSUME CatchUpAssumption ==
  ReaderFaults \subseteq {"crash", "touched", "recorded"} /\ MaxReaderFaults \in Nat

VARIABLES
  rd,        \* what the reader does next
  unlisted,  \* levels not listed yet
  seen,      \* the listing so far
  asOf,      \* the largest TXID published when the listing began
  quiet,     \* was nothing deleted from the replica while it was listed?
  todo,      \* files of the plan still to be read
  goal,      \* the TXID the plan reaches
  got,       \* transactions of the image in the making
  marker,    \* RESTORED, beside the file
  image,     \* transactions the local file reflects
  sameLen,   \* is the file as long as the marker says?
  rfaults    \* faults of the reader so far

readVars == <<unlisted, seen, todo, goal, got>>
localVars == <<marker, image, sameLen>>
readerVars == <<rd, readVars, localVars, asOf, quiet, rfaults>>
allVars == <<vars, readerVars>>

Torn == {0}
NoMarker == [state |-> "none", txid |-> 0]
Applying == [state |-> "applying", txid |-> 0]
Clean(txid) == [state |-> "clean", txid |-> txid]

\* Mutation: level 0 is not listed.
MutLevels == 1 .. MaxLevel \cup {SnapshotLevel}

Levels == 0 .. MaxLevel \cup {SnapshotLevel}

ReaderInit ==
  /\ rd = "idle" /\ asOf = 0 /\ quiet = TRUE
  /\ unlisted = {} /\ seen = {} /\ todo = {} /\ goal = 0 /\ got = {}
  /\ marker = NoMarker /\ image = {} /\ sameLen = TRUE
  /\ rfaults = 0

ReaderFault(kind) ==
  /\ kind \in ReaderFaults
  /\ rfaults < MaxReaderFaults /\ rfaults' = rfaults + 1

\* catch_up returns; "idle" with an error, "done" with a result.
Leave(how) ==
  /\ rd' = how
  /\ unlisted' = {} /\ seen' = {} /\ todo' = {} /\ goal' = 0 /\ got' = {}
  /\ asOf' = IF how = "done" THEN asOf ELSE 0
  /\ quiet' = IF how = "done" THEN quiet ELSE TRUE

(***************************************************************************)
(* list_all_levels.                                                        *)
(***************************************************************************)
ListBegin ==
  /\ rd \in {"idle", "done"}
  /\ rd' = "list" /\ unlisted' = Levels /\ seen' = {}
  /\ asOf' = published /\ quiet' = TRUE
  /\ UNCHANGED <<vars, todo, goal, got, localVars, rfaults>>

ListLevel ==
  /\ rd = "list"
  /\ \E l \in unlisted :
       /\ unlisted' = unlisted \ {l}
       /\ seen' = seen \cup AtLevel(Names, l)
  /\ UNCHANGED <<vars, rd, todo, goal, got, localVars, asOf, quiet, rfaults>>

(***************************************************************************)
(* catch_up's decision.                                                    *)
(***************************************************************************)
Listed == rd = "list" /\ unlisted = {}

\* Mutation: an interrupted apply is not noticed.
MutTrusted == marker.state # "none" /\ sameLen /\ marker.txid <= HeadOf(seen)

\* The marker says where the file is, and the file is the one it describes.
Trusted == marker.state = "clean" /\ sameLen /\ marker.txid <= HeadOf(seen)

Delta == PlanRestoreFrom(seen, marker.txid)
Full == PlanRestore(seen)

UpToDate ==
  /\ Listed
  /\ Trusted /\ marker.txid = HeadOf(seen)
  /\ Leave("done")
  /\ UNCHANGED <<vars, localVars, rfaults>>

\* Run the plan on top of the given transactions.  Before anything is
\* written the headers are read: every one for a delta, the newest for a full
\* restore.
Start(plan, base) ==
  /\ rd' = "mark"
  /\ todo' = Range(plan) /\ goal' = Reached(plan, 0) /\ got' = base
  /\ seen' = {}
  /\ UNCHANGED <<vars, unlisted, localVars, asOf, quiet, rfaults>>

StartDelta ==
  /\ Listed
  /\ Trusted /\ marker.txid < HeadOf(seen)
  /\ Delta.ok /\ Range(Delta.plan) \subseteq Names
  /\ Start(Delta.plan, image)

\* Mutation: no way back from an interrupted apply.
MutUsesDelta == marker.state # "none" /\ Delta.ok

UsesDelta == Trusted /\ Delta.ok

StartFull ==
  /\ Listed
  /\ ~UsesDelta
  /\ Full.ok /\ Full.plan[Len(Full.plan)] \in Names
  /\ Start(Full.plan, {})

\* NoSnapshot, or a header is not there to be read.
StartFails ==
  /\ Listed
  /\ IF UsesDelta THEN ~(Range(Delta.plan) \subseteq Names)
     ELSE Full.ok => Full.plan[Len(Full.plan)] \notin Names
  /\ marker.txid # HeadOf(seen) \/ ~Trusted
  /\ Leave("idle")
  /\ UNCHANGED <<vars, localVars, rfaults>>

(***************************************************************************)
(* apply_plan_to_path and apply_delta_to_path.                             *)
(***************************************************************************)
MarkApplying ==
  /\ rd = "mark"
  /\ marker' = Applying
  /\ rd' = "resize"
  /\ UNCHANGED <<vars, readVars, image, sameLen, asOf, quiet, rfaults>>

\* The file gets its final length; from here on it is neither image.
Resize ==
  /\ rd = "resize"
  /\ image' = Torn /\ sameLen' = TRUE
  /\ rd' = "apply"
  /\ UNCHANGED <<vars, readVars, marker, asOf, quiet, rfaults>>

\* apply_newest_first.
Newest(f) == f \in todo /\ \A g \in todo : g.max <= f.max

ApplyFile ==
  /\ rd = "apply"
  /\ \E f \in store :
       /\ Newest(Name(f))
       /\ todo' = todo \ {Name(f)}
       /\ got' = got \cup f.holds
  /\ UNCHANGED <<vars, rd, unlisted, seen, goal, localVars, asOf, quiet,
                 rfaults>>

\* The file was pruned after it was listed.
ApplyFails ==
  /\ rd = "apply"
  /\ \E f \in todo : Newest(f) /\ f \notin Names
  /\ Leave("idle")
  /\ UNCHANGED <<vars, localVars, rfaults>>

SyncAll ==
  /\ rd = "apply" /\ todo = {}
  /\ image' = got
  /\ rd' = "clean"
  /\ UNCHANGED <<vars, readVars, marker, sameLen, asOf, quiet, rfaults>>

MarkClean ==
  /\ rd = "clean"
  /\ marker' = Clean(goal)
  /\ Leave("done")
  /\ UNCHANGED <<vars, image, sameLen, rfaults>>

\* record_position: a process that wrote the transactions itself, and has
\* flushed and checkpointed them, says that its file is at the last one.
RecordPosition ==
  /\ rd \in {"idle", "done"} /\ published > 0
  /\ image' = 1 .. published /\ sameLen' = TRUE
  /\ marker' = Clean(published)
  /\ ReaderFault("recorded")
  /\ Leave("idle")
  /\ UNCHANGED vars

(***************************************************************************)
(* What may happen to the reader and to its file.                          *)
(***************************************************************************)
ReaderCrash ==
  /\ rd \notin {"idle", "done"}
  /\ ReaderFault("crash")
  /\ Leave("idle")
  /\ UNCHANGED <<vars, localVars>>

\* Somebody else changes the file, and its length.
Touched ==
  /\ rd \in {"idle", "done"} /\ marker.state = "clean"
  /\ ReaderFault("touched")
  /\ image' = Torn /\ sameLen' = FALSE
  /\ Leave("idle")
  /\ UNCHANGED <<vars, marker>>

\* The writer goes on.
WriterStep ==
  /\ Next
  /\ quiet' = (quiet /\ (rd = "list" => Names \subseteq Names'))
  /\ UNCHANGED <<rd, readVars, localVars, asOf, rfaults>>

ReaderStep ==
  \/ ListBegin \/ ListLevel
  \/ UpToDate \/ StartDelta \/ StartFull \/ StartFails
  \/ MarkApplying \/ Resize \/ ApplyFile \/ ApplyFails \/ SyncAll \/ MarkClean

AllInit == Init /\ ReaderInit
AllNext == ReaderStep \/ RecordPosition \/ WriterStep \/ ReaderCrash \/ Touched

CatchUpSpec == AllInit /\ [][AllNext]_allVars

\* A caller that wants a current file calls catch_up again after an error.
\* Nothing is asked of the writer.
FairCatchUpSpec == CatchUpSpec /\ WF_allVars(ReaderStep)

(***************************************************************************)
(* Properties.                                                             *)
(***************************************************************************)

\* What the marker says is true: with a clean marker and a file of its length
\* the file is the database as of the marker's TXID, whatever crashed, was
\* pruned or was compacted in between.
CleanMarkerIsTrue ==
  marker.state = "clean" /\ sameLen => image = 1 .. marker.txid

\* catch_up "makes the database at path current": when it returns, the file
\* is at least at the TXID that was the last one when it was called.
CatchUpIsCurrent == rd = "done" => marker.txid >= asOf

\* ... provided the writer deleted nothing while the levels were listed.
CurrentIfQuiet == quiet => CatchUpIsCurrent

\* Calling catch_up again and again brings the file to every published TXID,
\* from whatever state crashes, pruned files and races left it in.
EventuallyCurrent ==
  \A t \in 1 .. MaxTxid :
    published >= t ~> (marker.state = "clean" /\ sameLen /\ marker.txid >= t)
=============================================================================
