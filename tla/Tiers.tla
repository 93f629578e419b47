------------------------------- MODULE Tiers --------------------------------
(***************************************************************************)
(* The tiers of the replica: level-to-level compaction, snapshots,         *)
(* retention and the older one-base compaction (src/sync/mod.rs,           *)
(* src/sync/retention.rs), with the local FileIndex they plan from and the *)
(* object store they change, file by file.                                 *)
(*                                                                         *)
(* A stored file has a name (level and TXID range) and the set of TXIDs    *)
(* whose pages were merged into it; that a name may promise more than the  *)
(* file holds is the danger here.  The syncer's own upload of the next     *)
(* level-0 file is one step (module Syncer has its inside).  The age of a  *)
(* file is a free choice at every retention pass: nothing below depends on *)
(* clocks, on the order of the intervals, or on who runs which operation   *)
(* when.                                                                   *)
(***************************************************************************)
EXTENDS RestorePlan, FiniteSets

CONSTANTS
  MaxLevel,   \* CompactionLevels::max_level
  Styles,     \* deployments: which of compact and enforce_l0_retention run
  MaxTxid,    \* bound: how many TXIDs are uploaded
  Faults,     \* the faults that may happen
  MaxFaults   \* bound: how many of them

SnapshotLevel == 9

FaultKinds ==
  {"crash",            \* the process dies
   "put_lost_ack",     \* an upload fails although the file was stored
   "delete_fails",     \* a delete fails, the file is still there
   "delete_lost_ack"}  \* a delete fails although the file is gone

ASSUME TiersAssumption ==
  /\ MaxLevel \in 1 .. SnapshotLevel - 1
  /\ Styles \subseteq SUBSET {"compact", "l0_retention"}
  /\ MaxTxid \in Nat
  /\ Faults \subseteq FaultKinds
  /\ MaxFaults \in Nat

VARIABLES
  uses,       \* the deployment: which of the two its caller uses
  store,      \* the files in the replica
  index,      \* FileIndex: the names this process believes to be there
  pos,        \* the syncer's TXID
  published,  \* the largest TXID ever uploaded
  busy,       \* what the process is in the middle of
  picked,     \* the plan of the snapshot in progress
  reach,      \* the TXID it reaches
  dels,       \* files the operation in progress has still to delete
  faults      \* faults so far

ops == <<busy, picked, reach, dels>>
vars == <<uses, store, index, pos, published, ops, faults>>

StoredFile == [level : Nat, min : Nat, max : Nat, holds : SUBSET Nat]

Name(f) == [level |-> f.level, min |-> f.min, max |-> f.max]

Names == {Name(f) : f \in store}

AtLevel(files, level) == {f \in files : f.level = level}

TypeOK ==
  /\ uses \in Styles
  /\ store \subseteq StoredFile
  /\ index \subseteq FileName
  /\ pos \in Nat /\ published \in Nat
  /\ busy \in {"down", "idle", "snapshot", "delete"}
  /\ picked \subseteq FileName /\ reach \in Nat
  /\ dels \subseteq FileName
  /\ faults \in Nat

Init ==
  /\ uses \in Styles
  /\ store = {} /\ index = {}
  /\ pos = 0 /\ published = 0
  /\ busy = "idle" /\ picked = {} /\ reach = 0 /\ dels = {}
  /\ faults = 0

Fault(kind) == kind \in Faults /\ faults < MaxFaults /\ faults' = faults + 1

(***************************************************************************)
(* upload_merged: a plain put, then the index.  A file of the same name is *)
(* replaced.                                                               *)
(***************************************************************************)
PutFile(f) == store' = {g \in store : Name(g) # Name(f)} \cup {f}

\* The index learns of a file only when its upload is acknowledged.
Acked(f) == index' = index \cup {Name(f)} /\ UNCHANGED faults
AckLost == Fault("put_lost_ack") /\ UNCHANGED index

\* The merge of stored files: every one must still be there to be fetched.
Fetched(names) == {f \in store : Name(f) \in names}
Merged(level, min, max, names) ==
  [level |-> level, min |-> min, max |-> max,
   holds |-> UNION {f.holds : f \in Fetched(names)}]

(***************************************************************************)
(* Syncer::upload_staged: the next level-0 file.                           *)
(***************************************************************************)
UploadStaged ==
  LET f == [level |-> 0, min |-> pos + 1, max |-> pos + 1, holds |-> {pos + 1}]
  IN  /\ busy = "idle"
      /\ pos < MaxTxid
      /\ PutFile(f)
      /\ index' = index \cup {Name(f)}
      /\ pos' = pos + 1
      /\ published' = pos + 1
      /\ UNCHANGED <<ops, faults>>

(***************************************************************************)
(* compact_level: everything of the level below that lies past the         *)
(* destination's frontier becomes one window.  Nothing is deleted.         *)
(***************************************************************************)
Frontier(level) == HeadOf(AtLevel(index, level))

Unfolded(dst) == {f \in AtLevel(index, dst - 1) : f.min > Frontier(dst)}

First(files, f) == f \in files /\ \A g \in files : f.min <= g.min
LastOf(files, f) == f \in files /\ \A g \in files : g.max <= f.max

CompactLevel(dst) ==
  /\ busy = "idle"
  /\ Unfolded(dst) \subseteq Names
  /\ Contiguous(Unfolded(dst))
  /\ \E first, last \in Unfolded(dst) :
       LET f == Merged(dst, first.min, last.max, Unfolded(dst))
       IN  /\ First(Unfolded(dst), first) /\ LastOf(Unfolded(dst), last)
           /\ PutFile(f)
           /\ Acked(f) \/ AckLost
  /\ UNCHANGED <<pos, published, ops>>

(***************************************************************************)
(* compact: the oldest full snapshot and the level-0 files after it, but   *)
(* the newest, become one snapshot; then they are deleted.                 *)
(***************************************************************************)
Base ==
  LET full == {f \in AtLevel(index, SnapshotLevel) : f.min = 1}
  IN  {f \in full : \A g \in full : f.max <= g.max}

NewL0 == {f \in AtLevel(index, 0) : f.min > HeadOf(Base)}

ToMerge == {f \in NewL0 : \E g \in NewL0 : Before(f, g)}

\* Mutation: an upload that failed does not stop the deletes.
MutCompact ==
  /\ "compact" \in uses
  /\ busy = "idle"
  /\ Base \cup ToMerge \subseteq Names
  /\ Contiguous(Base \cup ToMerge)
  /\ \E last \in ToMerge :
       LET f == Merged(SnapshotLevel, 1, last.max, Base \cup ToMerge)
       IN  /\ LastOf(ToMerge, last)
           /\ PutFile(f) \/ UNCHANGED store
           /\ Acked(f) /\ busy' = "delete" /\ dels' = Base \cup ToMerge
  /\ UNCHANGED <<pos, published, picked, reach>>

Compact ==
  /\ "compact" \in uses
  /\ busy = "idle"
  /\ Base \cup ToMerge \subseteq Names
  /\ Contiguous(Base \cup ToMerge)
  /\ \E last \in ToMerge :
       LET f == Merged(SnapshotLevel, 1, last.max, Base \cup ToMerge)
       IN  /\ LastOf(ToMerge, last)
           /\ PutFile(f)
           /\ \/ Acked(f) /\ busy' = "delete" /\ dels' = Base \cup ToMerge
              \/ AckLost /\ UNCHANGED <<busy, dels>>
  /\ UNCHANGED <<pos, published, picked, reach>>

(***************************************************************************)
(* snapshot: plan a restore from the index, file by file as greedy_cover   *)
(* does, merge it, and name the result after the largest TXID of the index.*)
(* Its errors (no plan, a planned file gone) would leave it stuck here:    *)
(* SnapshotNeverFails says that they do not happen.                        *)
(***************************************************************************)
SnapshotBegin ==
  /\ busy = "idle" /\ index # {}
  /\ [level |-> SnapshotLevel, min |-> 1, max |-> HeadOf(index)] \notin index
  /\ busy' = "snapshot" /\ picked' = {} /\ reach' = 0
  /\ UNCHANGED <<store, index, pos, published, dels, faults>>

SnapshotPick ==
  /\ busy = "snapshot"
  /\ \E f \in index :
       /\ Extends(f, reach)
       /\ \A g \in index : Extends(g, reach) => Beats(f, g)
       /\ picked' = picked \cup {f} /\ reach' = f.max
  /\ UNCHANGED <<store, index, pos, published, busy, dels, faults>>

\* Mutation: the plan is taken to be complete as soon as it has a file.
MutPlanned == picked # {}

\* greedy_cover has returned.
Planned == \A f \in index : ~Extends(f, reach)

SnapshotDone == busy' = "idle" /\ picked' = {} /\ reach' = 0

SnapshotUpload ==
  LET f == Merged(SnapshotLevel, 1, HeadOf(index), picked)
  IN  /\ busy = "snapshot" /\ Planned
      /\ picked # {} /\ picked \subseteq Names
      /\ PutFile(f)
      /\ Acked(f) \/ AckLost
      /\ SnapshotDone
      /\ UNCHANGED <<pos, published, dels>>

(***************************************************************************)
(* Retention.  Each pass decides from the index what to delete.            *)
(***************************************************************************)

\* Mutation: the newest file is not kept.
MutKeepNewest(files, deleted) == deleted

\* Never the newest file of a level.
KeepNewest(files, deleted) ==
  {f \in deleted : \E g \in files : Before(f, g)}

\* snapshot_expired and the cascade of below_txid: the expired snapshots, and
\* at every level what lies below the oldest snapshot that is not expired.
SnapshotExpired(old) ==
  KeepNewest(AtLevel(index, SnapshotLevel), old)

BelowTxid(level, retained) ==
  KeepNewest(AtLevel(index, level),
             {f \in AtLevel(index, level) : \A r \in retained : f.max < r.max})

StartDeleting(names) ==
  /\ names # {}
  /\ busy' = "delete" /\ dels' = names
  /\ UNCHANGED <<store, index, pos, published, picked, reach, faults>>

EnforceSnapshotRetention ==
  /\ busy = "idle"
  /\ \E old \in SUBSET AtLevel(index, SnapshotLevel) :
       LET retained == AtLevel(index, SnapshotLevel) \ old
       IN  StartDeleting(
             SnapshotExpired(old) \cup
             (IF retained = {} THEN {}
              ELSE UNION {BelowTxid(l, retained) : l \in 0 .. MaxLevel}))

\* Mutation: a level-0 file need not be folded into level 1.
MutL0Expired(fresh) ==
  KeepNewest(AtLevel(index, 0),
             {f \in AtLevel(index, 0) :
                \A g \in fresh : g # f /\ ~Before(g, f)})

\* l0_expired: folded into level 1, and before the first file too new.
L0Expired(fresh) ==
  KeepNewest(AtLevel(index, 0),
             {f \in AtLevel(index, 0) :
                /\ f.max <= Frontier(1)
                /\ \A g \in fresh : g # f /\ ~Before(g, f)})

EnforceL0Retention ==
  /\ "l0_retention" \in uses
  /\ busy = "idle"
  /\ \E fresh \in SUBSET AtLevel(index, 0) : StartDeleting(L0Expired(fresh))

(***************************************************************************)
(* The deletes, one by one: snapshots, then level by level, oldest first.  *)
(* The first that fails ends the operation; its entry stays in the index.  *)
(***************************************************************************)
Rank(f) == IF f.level = SnapshotLevel THEN 0 ELSE f.level + 1

DeleteFirst(f) ==
  /\ f \in dels
  /\ \A g \in dels : f = g \/ Rank(f) < Rank(g)
                     \/ (Rank(f) = Rank(g) /\ Before(f, g))

Without(f) == {g \in store : Name(g) # f}

DeleteLtx ==
  /\ busy = "delete"
  /\ \E f \in dels :
       /\ DeleteFirst(f)
       /\ store' = Without(f) /\ index' = index \ {f}
       /\ dels' = dels \ {f}
       /\ busy' = IF dels = {f} THEN "idle" ELSE "delete"
  /\ UNCHANGED <<pos, published, picked, reach, faults>>

\* A store may refuse to delete what is not there.
DeleteFails ==
  /\ busy = "delete"
  /\ \E f \in dels :
       /\ DeleteFirst(f)
       /\ \/ Fault("delete_fails") /\ UNCHANGED store
          \/ Fault("delete_lost_ack") /\ store' = Without(f)
          \/ f \notin Names /\ UNCHANGED <<store, faults>>
  /\ busy' = "idle" /\ dels' = {}
  /\ UNCHANGED <<index, pos, published, picked, reach>>

(***************************************************************************)
(* Restart: the index is seeded from a listing, the TXID is its largest.   *)
(***************************************************************************)
Crash ==
  /\ busy # "down"
  /\ Fault("crash")
  /\ busy' = "down" /\ picked' = {} /\ reach' = 0 /\ dels' = {}
  /\ index' = {} /\ pos' = 0
  /\ UNCHANGED <<store, published>>

\* Mutation: the next TXID is taken for the last.
MutOpen ==
  /\ busy = "down"
  /\ busy' = "idle"
  /\ index' = Names
  /\ pos' = HeadOf(Names) - 1
  /\ UNCHANGED <<store, published, picked, reach, dels, faults>>

Open ==
  /\ busy = "down"
  /\ busy' = "idle"
  /\ index' = Names
  /\ pos' = HeadOf(Names)
  /\ UNCHANGED <<store, published, picked, reach, dels, faults>>

Next ==
  /\ \/ UploadStaged
     \/ \E dst \in 1 .. MaxLevel : CompactLevel(dst)
     \/ Compact
     \/ SnapshotBegin \/ SnapshotPick \/ SnapshotUpload
     \/ EnforceSnapshotRetention \/ EnforceL0Retention
     \/ DeleteLtx \/ DeleteFails
     \/ Crash \/ Open
  /\ UNCHANGED uses

Spec == Init /\ [][Next]_vars

(***************************************************************************)
(* Properties.                                                             *)
(***************************************************************************)

\* No compaction, retention pass, failure or restart ever makes a published
\* TXID unreachable: at every instant, also between the deletes of one pass,
\* every TXID up to the largest published is in the range of a stored file.
Restorable ==
  \A t \in 1 .. published : \E f \in store : Holds(f, t)

\* A file holds every transaction its name promises.  A snapshot is named
\* after the largest TXID of the index, not after what its plan reached.
FilesHoldTheirRange ==
  \A f \in store : \A t \in f.min .. f.max : t \in f.holds

\* A restart takes up where the last run was: the largest TXID is still the
\* last one uploaded, and its level-0 file, the only one that carries the WAL
\* position, is still there.
ResumeStateKept ==
  /\ HeadOf(Names) = published
  /\ published > 0 =>
       [level |-> 0, min |-> published, max |-> published] \in Names

\* snapshot() always finds a plan, and finds its files: an entry of the index
\* whose file is gone (a delete that was not acknowledged) is never planned.
SnapshotNeverFails ==
  busy = "snapshot" /\ Planned => picked # {} /\ picked \subseteq Names

\* A restore started at any instant is planned to the last published TXID, and
\* of every TXID up to it one of the planned files holds the pages.
RestoreIsComplete ==
  LET r == PlanRestore(Names) IN
  published > 0 =>
    /\ r.ok /\ Reached(r.plan, 0) = published
    /\ \A t \in 1 .. published : \E f \in store :
         t \in f.holds /\ \E i \in 1 .. Len(r.plan) : r.plan[i] = Name(f)
=============================================================================
