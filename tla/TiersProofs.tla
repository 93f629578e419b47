---------------------------- MODULE TiersProofs -----------------------------
(***************************************************************************)
(* No published transaction is ever lost by compaction, snapshots,         *)
(* retention, failed deletes or restarts, for any number of levels and     *)
(* TXIDs and any number of faults.                                         *)
(*                                                                         *)
(* None of the properties of Tiers is inductive.  That a file may be       *)
(* deleted rests on another file that is really there, not only in the     *)
(* index, when the delete happens and not only when it was decided.  So    *)
(* the invariant speaks of the files that are both stored and indexed      *)
(* (Live): each TXID is kept there by a snapshot, a level-1 window or its  *)
(* own level-0 file, and each file still to be deleted is superseded there.*)
(***************************************************************************)
EXTENDS Tiers, RestorePlanProofs

Live == Names \cap index

L0(t) == [level |-> 0, min |-> t, max |-> t]

\* Ways in which the files X keep TXID t.
Snapped(X, t) == \E s \in X : s.level = SnapshotLevel /\ t <= s.max
Folded(X, t) == \E f \in X : f.level = 1 /\ Holds(f, t)
Merges(X, t) == Snapped(X, t) \/ Folded(X, t)

\* The files X keep all that was published, and what the names Y claim of
\* level 1 (its frontier) and level 9.  Without L0 retention only a snapshot
\* replaces a level-0 file (u is what the deployment uses).
KeepsAll(X, p) == \A t \in 1 .. p : Merges(X, t) \/ L0(t) \in X

KeepsFrontier(X, Y) ==
  \A f \in Y : f.level = 1 => \A t \in 1 .. f.max : Merges(X, t)

KeepsSnapshots(X, Y) ==
  \A s \in Y : s.level = SnapshotLevel => Snapped(X, s.max)

KeepsL0(X, p, u) ==
  "l0_retention" \notin u =>
    \A t \in 1 .. p : Snapped(X, t) \/ L0(t) \in X

ChainInv(X, Y, p, u) ==
  /\ KeepsAll(X, p) /\ KeepsFrontier(X, Y)
  /\ KeepsSnapshots(X, Y) /\ KeepsL0(X, p, u)

\* What a file is called when p is the last TXID.
NameOK(f, p) ==
  /\ f \in FileName
  /\ 1 <= f.min /\ f.min <= f.max /\ f.max <= p
  /\ f.level = SnapshotLevel => f.min = 1
  /\ f.level = 0 => f.min = f.max

NameInv == \A f \in Names \cup index : NameOK(f, published)

\* File f can go: what it keeps is kept in X by a file of a higher level or
\* of a later TXID.
Superseded(f, X, p, u) ==
  /\ f.level > 0 => \E s \in X : s.level = SnapshotLevel /\ f.max < s.max
  /\ f.level = 0 =>
       /\ Snapped(X, f.max) \/ (Folded(X, f.max) /\ "l0_retention" \in u)
       /\ f.max < p

DelInv ==
  \A f \in dels \cup (index \ Names) :
    NameOK(f, published) /\ Superseded(f, Live, published, uses)

\* The snapshot in progress.
PickInv ==
  busy = "snapshot" =>
    /\ published > 0
    /\ picked \subseteq Live
    /\ \A t \in 1 .. reach : \E p \in picked : Holds(p, t)

ResumeInv ==
  /\ busy # "down" => pos = published
  /\ published > 0 => L0(published) \in Names
  /\ published > 0 /\ busy # "down" => L0(published) \in index

BusyInv ==
  /\ busy = "down" => index = {}
  /\ busy # "delete" => dels = {}

TInv ==
  /\ TypeOK /\ NameInv /\ BusyInv /\ ResumeInv
  /\ ChainInv(Names, Names, published, uses)
  /\ busy # "down" => ChainInv(Live, index, published, uses)
  /\ DelInv /\ PickInv

(***************************************************************************)
(* What adding and removing a file does to the names of the store.         *)
(***************************************************************************)

\* A put adds its name and no other.
LEMMA PutNames ==
  ASSUME NEW f, PutFile(f)
  PROVE  Names' = Names \cup {Name(f)}
<1>1. ASSUME NEW g \in store' PROVE Name(g) \in Names \cup {Name(f)}
  BY DEF PutFile, Names
<1>2. Names' \subseteq Names \cup {Name(f)}
  BY <1>1 DEF Names, Name
<1>3. ASSUME NEW g \in store PROVE Name(g) \in Names'
  <2>1. CASE Name(g) = Name(f)
    BY <2>1 DEF PutFile, Names, Name
  <2>2. CASE Name(g) # Name(f)
    BY <2>2 DEF PutFile, Names, Name
  <2> QED
    BY <2>1, <2>2
<1>4. Names \cup {Name(f)} \subseteq Names'
  BY <1>3 DEF Names, PutFile, Name
<1> QED
  BY <1>2, <1>4

\* A delete removes its name and no other.
LEMMA WithoutNames ==
  ASSUME NEW f, store' = Without(f)
  PROVE  Names' = Names \ {f}
BY DEF Without, Names, Name

(***************************************************************************)
(* The chain: it grows with the files that keep it, and a superseded file  *)
(* can leave it.                                                           *)
(***************************************************************************)

\* More files keep more.
LEMMA MoreKeepsMore ==
  ASSUME NEW X, NEW Z, X \subseteq Z, NEW t
  PROVE  /\ Snapped(X, t) => Snapped(Z, t)
         /\ Folded(X, t) => Folded(Z, t)
         /\ Merges(X, t) => Merges(Z, t)
BY DEF Snapped, Folded, Merges

\* A superseded file stays so while files and TXIDs are added.
LEMMA StaysSuperseded ==
  ASSUME NEW u, NEW X, NEW Z, X \subseteq Z, NEW p \in Nat, NEW q \in Nat, p <= q,
         NEW f, f \in FileName, Superseded(f, X, p, u)
  PROVE  Superseded(f, Z, q, u)
BY MoreKeepsMore DEF Superseded, FileName

\* So does the chain, if a new window of level 1 leaves nothing out below it.
LEMMA ChainGrows ==
  ASSUME NEW u, NEW X, NEW Z, X \subseteq Z, NEW Y, NEW W, NEW p \in Nat,
         ChainInv(X, Y, p, u),
         \A w \in W \ Y :
           /\ w.level = 1 => \A t \in 1 .. w.max : Merges(Z, t)
           /\ w.level = SnapshotLevel => Snapped(Z, w.max)
  PROVE  ChainInv(Z, W, p, u)
<1>1. KeepsAll(Z, p)
  BY MoreKeepsMore DEF ChainInv, KeepsAll
<1>2. KeepsFrontier(Z, W)
  BY MoreKeepsMore DEF ChainInv, KeepsFrontier
<1>3. KeepsSnapshots(Z, W)
  BY MoreKeepsMore DEF ChainInv, KeepsSnapshots
<1>4. KeepsL0(Z, p, u)
  BY MoreKeepsMore DEF ChainInv, KeepsL0
<1> QED
  BY <1>1, <1>2, <1>3, <1>4 DEF ChainInv

\* The next level-0 file extends the chain.
LEMMA ChainNext ==
  ASSUME NEW u, NEW X, NEW Y, NEW p \in Nat, ChainInv(X, Y, p, u)
  PROVE  ChainInv(X \cup {L0(p + 1)}, Y \cup {L0(p + 1)}, p + 1, u)
<1> DEFINE Z == X \cup {L0(p + 1)}
<1>1. L0(p + 1).level = 0
  BY DEF L0
<1>2. ChainInv(Z, Y \cup {L0(p + 1)}, p, u)
  BY <1>1, ChainGrows DEF SnapshotLevel
<1>3. L0(p + 1) \in Z /\ 1 .. p + 1 = (1 .. p) \cup {p + 1}
  OBVIOUS
<1> HIDE DEF Z
<1>4. KeepsAll(Z, p + 1) /\ KeepsL0(Z, p + 1, u)
  BY <1>2, <1>3 DEF ChainInv, KeepsAll, KeepsL0
<1>5. ChainInv(Z, Y \cup {L0(p + 1)}, p + 1, u)
  BY <1>2, <1>4 DEF ChainInv
<1> QED
  BY <1>5 DEF Z

\* What a superseded file keeps is kept without it.
LEMMA KeptWithout ==
  ASSUME NEW u, NEW X, X \subseteq FileName, NEW p \in Nat,
         NEW f \in FileName, Superseded(f, X, p, u), NEW t \in Nat
  PROVE  /\ Snapped(X, t) => Snapped(X \ {f}, t)
         /\ Merges(X, t) => Merges(X \ {f}, t)
<1>1. ASSUME f.level > 0 
      PROVE  t <= f.max => Snapped(X \ {f}, t)
  <2>1. PICK s \in X : s.level = SnapshotLevel /\ f.max < s.max
    BY <1>1 DEF Superseded
  <2>2. f.max \in Nat /\ s.max \in Nat
    BY DEF FileName
  <2>3. s # f
    BY <2>1, <2>2
  <2> QED
    BY <2>1, <2>2, <2>3 DEF Snapped
<1>2. ASSUME NEW s \in X, s.level = SnapshotLevel, t <= s.max
      PROVE  Snapped(X \ {f}, t)
  <2>1. CASE s = f
    BY <2>1, <1>1, <1>2 DEF SnapshotLevel
  <2>2. CASE s # f
    BY <2>2, <1>2 DEF Snapped
  <2> QED
    BY <2>1, <2>2
<1>3. ASSUME NEW g \in X, g.level = 1, Holds(g, t)
      PROVE  Merges(X \ {f}, t)
  <2>1. CASE g = f
    BY <2>1, <1>1, <1>3 DEF Holds, Merges
  <2>2. CASE g # f
    BY <2>2, <1>3 DEF Folded, Merges
  <2> QED
    BY <2>1, <2>2
<1>4. Snapped(X, t) => Snapped(X \ {f}, t)
  BY <1>2 DEF Snapped
<1>5. Folded(X, t) => Merges(X \ {f}, t)
  BY <1>3 DEF Folded
<1> QED
  BY <1>4, <1>5 DEF Merges

\* A superseded file can leave the chain.
LEMMA ChainWithout ==
  ASSUME NEW u, NEW X, X \subseteq FileName, NEW Y, Y \subseteq FileName,
         NEW p \in Nat, ChainInv(X, Y, p, u),
         NEW f \in FileName, Superseded(f, X, p, u)
  PROVE  ChainInv(X \ {f}, Y, p, u)
<1>1. ASSUME NEW t \in Nat, f = L0(t)
      PROVE  Merges(X \ {f}, t) /\ (Snapped(X \ {f}, t) \/ "l0_retention" \in u)
  <2>1. f.level = 0 /\ f.max = t
    BY <1>1 DEF L0
  <2>2. Merges(X, t) /\ (Snapped(X, t) \/ "l0_retention" \in u)
    BY <2>1 DEF Superseded, Merges
  <2> QED
    BY <2>2, KeptWithout
<1>2. KeepsAll(X \ {f}, p)
  <2>1. ASSUME NEW t \in 1 .. p
        PROVE  Merges(X \ {f}, t) \/ L0(t) \in X \ {f}
    <3>1. t \in Nat /\ (Merges(X, t) \/ L0(t) \in X)
      BY DEF ChainInv, KeepsAll
    <3> QED
      BY <1>1, <3>1, KeptWithout
  <2> QED
    BY <2>1 DEF KeepsAll
<1>3. KeepsFrontier(X \ {f}, Y)
  <2>1. ASSUME NEW g \in Y, g.level = 1, NEW t \in 1 .. g.max
        PROVE  Merges(X \ {f}, t)
    <3>1. t \in Nat /\ Merges(X, t)
      BY <2>1 DEF ChainInv, KeepsFrontier, FileName
    <3> QED
      BY <3>1, KeptWithout
  <2> QED
    BY <2>1 DEF KeepsFrontier
<1>4. KeepsSnapshots(X \ {f}, Y)
  BY KeptWithout DEF ChainInv, KeepsSnapshots, FileName
<1>5. KeepsL0(X \ {f}, p, u)
  BY <1>1, KeptWithout DEF ChainInv, KeepsL0
<1> QED
  BY <1>2, <1>3, <1>4, <1>5 DEF ChainInv

\* And leaves the other superseded files, and itself, superseded.
LEMMA SupersededWithout ==
  ASSUME NEW u, NEW X, X \subseteq FileName, NEW p \in Nat,
         NEW f \in FileName, Superseded(f, X, p, u),
         NEW g \in FileName, Superseded(g, X, p, u)
  PROVE  Superseded(g, X \ {f}, p, u)
<1>1. ASSUME g.level > 0
      PROVE  \E s \in X \ {f} : s.level = SnapshotLevel /\ g.max < s.max
  <2>1. PICK s \in X : s.level = SnapshotLevel /\ g.max < s.max
    BY <1>1 DEF Superseded
  <2>2. CASE s = f
    <3>1. PICK r \in X : r.level = SnapshotLevel /\ f.max < r.max
      BY <2>1, <2>2 DEF Superseded, SnapshotLevel
    <3>2. r.max \in Nat /\ f.max \in Nat /\ g.max \in Nat
      BY DEF FileName
    <3>3. r # f /\ g.max < r.max
      BY <2>1, <2>2, <3>1, <3>2
    <3> QED
      BY <3>1, <3>3
  <2>3. CASE s # f
    BY <2>1, <2>3
  <2> QED
    BY <2>2, <2>3
<1>2. ASSUME g.level = 0
      PROVE  Snapped(X \ {f}, g.max)
             \/ (Folded(X \ {f}, g.max) /\ "l0_retention" \in u)
  <2>1. g.max \in Nat
    BY DEF FileName
  <2>2. Snapped(X, g.max) \/ (Merges(X, g.max) /\ "l0_retention" \in u)
    BY <1>2 DEF Superseded, Merges
  <2> QED
    BY <2>1, <2>2, KeptWithout DEF Merges
<1> QED
  BY <1>1, <1>2 DEF Superseded

(***************************************************************************)
(* The two steps every operation is made of.                               *)
(***************************************************************************)

\* A merged file is put, and the index may learn of it.
LEMMA PutStep ==
  ASSUME TInv, busy # "down", uses' = uses, published' = published,
         NEW f \in StoredFile, PutFile(f), NameOK(Name(f), published),
         index' = index \/ index' = index \cup {Name(f)},
         f.level = 1 => \A t \in 1 .. f.max : Merges(Live \cup {Name(f)}, t)
  PROVE  /\ store' \subseteq StoredFile /\ index' \subseteq FileName
         /\ NameInv'
         /\ ChainInv(Names, Names, published, uses)'
         /\ ChainInv(Live, index, published, uses)'
         /\ Names \subseteq Names' /\ index \subseteq index'
         /\ Live \subseteq Live'
         /\ index' \ Names' \subseteq index \ Names
<1> DEFINE n == Name(f)
<1>1. n.level = f.level /\ n.max = f.max /\ n \in FileName
  BY DEF Name, StoredFile, FileName
<1>2. Names' = Names \cup {n}
  BY PutNames
<1>3. published \in Nat
  BY DEF TInv, TypeOK
<1>4. Live' = Names' \cap index' /\ Live = Names \cap index
  BY DEF Live
<1> HIDE DEF n
<1>5. Names \subseteq Names' /\ index \subseteq index' /\ Live \subseteq Live'
      /\ index' \ Names' \subseteq index \ Names
  BY <1>2, <1>4 DEF n
<1>6. store' \subseteq StoredFile
  BY DEF PutFile, TInv, TypeOK
<1>7. index' \subseteq FileName
  BY <1>1 DEF TInv, TypeOK, n
<1>8. NameInv'
  <2>1. \A g \in Names' \cup index' : NameOK(g, published)
    BY <1>2 DEF TInv, NameInv, n
  <2> QED
    BY <2>1 DEF NameInv, NameOK
<1>9. ChainInv(Names', Names', published, uses)
  <2>1. ASSUME n.level = 1, NEW t \in 1 .. n.max
        PROVE  Merges(Names', t)
    <3>1. Live \cup {n} \subseteq Names'
      BY <1>2, <1>4
    <3>2. Merges(Live \cup {n}, t)
      BY <2>1, <1>1 DEF n
    <3> QED
      BY <3>1, <3>2, MoreKeepsMore
  <2>2. n.level = SnapshotLevel => Snapped(Names', n.max)
    BY <1>1, <1>2 DEF Snapped, FileName
  <2>3. ChainInv(Names, Names, published, uses)
    BY DEF TInv
  <2>4. \A w \in Names' \ Names :
           /\ w.level = 1 => \A t \in 1 .. w.max : Merges(Names', t)
           /\ w.level = SnapshotLevel => Snapped(Names', w.max)
    BY <1>2, <2>1, <2>2
  <2> QED
    BY <1>3, <1>5, <2>3, <2>4, ChainGrows
<1>10. ChainInv(Live', index', published, uses)
  <2>1. ChainInv(Live, index, published, uses)
    BY DEF TInv
  <2>2. ASSUME NEW w \in index' \ index
        PROVE /\ w.level = 1 => \A t \in 1 .. w.max : Merges(Live', t)
              /\ w.level = SnapshotLevel => Snapped(Live', w.max)
    <3>1. w = n /\ index' = index \cup {n}
      BY <2>2 DEF n
    <3>2. Live' = Live \cup {n}
      BY <3>1, <1>2, <1>4
    <3>3. w.level = 1 => \A t \in 1 .. w.max : Merges(Live', t)
      BY <3>1, <3>2, <1>1 DEF n
    <3>4. w.level = SnapshotLevel => Snapped(Live', w.max)
      BY <3>1, <3>2, <1>1 DEF Snapped, FileName
    <3> QED
      BY <3>3, <3>4
  <2> QED
    BY <1>3, <1>5, <2>1, <2>2, ChainGrows
<1> QED
  BY <1>5, <1>6, <1>7, <1>8, <1>9, <1>10
     DEF ChainInv, KeepsAll, KeepsFrontier, KeepsSnapshots, KeepsL0, Merges,
         Snapped, Folded

\* A file that is to be deleted is deleted, and the index may keep it.
LEMMA RemoveStep ==
  ASSUME TInv, busy = "delete", uses' = uses, published' = published,
         NEW f \in dels, store' = Without(f),
         index' = index \/ index' = index \ {f}
  PROVE  /\ store' \subseteq StoredFile /\ index' \subseteq FileName
         /\ NameInv'
         /\ ChainInv(Names, Names, published, uses)'
         /\ ChainInv(Live, index, published, uses)'
         /\ \A g \in dels \cup (index' \ Names') :
              NameOK(g, published) /\ Superseded(g, Live', published, uses)
         /\ published > 0 => L0(published) \in Names' /\ L0(published) \in index'
<1>1. Names' = Names \ {f}
  BY WithoutNames
<1>2. published \in Nat /\ index \subseteq FileName /\ f \in FileName
      /\ Names \subseteq FileName
  BY DEF TInv, TypeOK, NameInv, NameOK
<1>3. Live' = Names' \cap index' /\ Live = Names \cap index
  BY DEF Live
<1>4. Live' = Live \ {f}
  BY <1>1, <1>3
<1>5. Superseded(f, Live, published, uses)
  BY DEF TInv, DelInv
<1>6. Superseded(f, Names, published, uses)
  BY <1>2, <1>3, <1>5, StaysSuperseded
<1>7. store' \subseteq StoredFile /\ index' \subseteq FileName
  BY <1>2 DEF Without, TInv, TypeOK
<1>8. NameInv'
  <2>1. \A g \in Names' \cup index' : NameOK(g, published)
    BY <1>1 DEF TInv, NameInv
  <2> QED
    BY <2>1 DEF NameInv, NameOK
<1>9. ChainInv(Names', Names', published, uses)
  <2>1. ChainInv(Names \ {f}, Names, published, uses)
    BY <1>2, <1>6, ChainWithout DEF TInv
  <2> QED
    BY <1>1, <1>2, <2>1, ChainGrows
<1>10. ChainInv(Live', index', published, uses)
  <2>1. ChainInv(Live \ {f}, index, published, uses)
    BY <1>2, <1>3, <1>5, ChainWithout DEF TInv
  <2> QED
    BY <1>2, <1>4, <2>1, ChainGrows
<1>11. ASSUME NEW g \in dels \cup (index' \ Names')
       PROVE  NameOK(g, published) /\ Superseded(g, Live', published, uses)
  <2>1. g \in dels \cup (index \ Names)
    BY <1>1
  <2>2. NameOK(g, published) /\ Superseded(g, Live, published, uses)
    BY <2>1 DEF TInv, DelInv
  <2>3. g \in FileName
    BY <2>2 DEF NameOK
  <2> QED
    BY <1>2, <1>3, <1>4, <1>5, <2>2, <2>3, SupersededWithout
<1>12. published > 0 => L0(published) \in Names' /\ L0(published) \in index'
  <2>1. f # L0(published)
    BY <1>2, <1>5 DEF Superseded, L0
  <2> QED
    BY <1>1, <2>1 DEF TInv, ResumeInv
<1> QED
  BY <1>7, <1>8, <1>9, <1>10, <1>11, <1>12
     DEF ChainInv, KeepsAll, KeepsFrontier, KeepsSnapshots, KeepsL0, Merges,
         Snapped, Folded

\* What stays to be deleted is still superseded after a put.
LEMMA PutKeepsDels ==
  ASSUME TInv, uses' = uses, published' \in Nat, published <= published',
         Live \subseteq Live', index' \ Names' \subseteq index \ Names,
         dels' \subseteq dels
  PROVE  DelInv'
<1>1. ASSUME NEW g \in dels' \cup (index' \ Names')
      PROVE  NameOK(g, published') /\ Superseded(g, Live', published', uses)
  <2>1. NameOK(g, published) /\ Superseded(g, Live, published, uses)
    BY DEF TInv, DelInv
  <2>2. published \in Nat /\ g \in FileName
    BY <2>1 DEF TInv, TypeOK, NameOK
  <2>3. NameOK(g, published')
    BY <2>1, <2>2 DEF NameOK, FileName
  <2> QED
    BY <2>1, <2>2, <2>3, StaysSuperseded
<1> QED
  BY <1>1 DEF DelInv, NameOK, Superseded, Snapped, Folded

(***************************************************************************)
(* Every action preserves the invariant.                                   *)
(***************************************************************************)

\* The upload of the next level-0 file.
LEMMA UploadStagedInv ==
  ASSUME TInv, UploadStaged, uses' = uses
  PROVE  TInv'
<1> DEFINE f == [level |-> 0, min |-> pos + 1, max |-> pos + 1, holds |-> {pos + 1}]
<1>1. /\ busy = "idle" /\ PutFile(f) /\ index' = index \cup {Name(f)}
      /\ pos' = pos + 1 /\ published' = pos + 1
      /\ UNCHANGED <<busy, picked, reach, dels, faults>>
  BY DEF UploadStaged, ops
<1>2. pos = published /\ published \in Nat /\ index \subseteq FileName
      /\ published' = published + 1
  BY <1>1 DEF TInv, TypeOK, ResumeInv
<1>3. Name(f) = L0(published + 1) /\ f \in StoredFile
  BY <1>2 DEF Name, L0, StoredFile
<1>4. Names' = Names \cup {L0(published + 1)}
      /\ index' = index \cup {L0(published + 1)}
  BY <1>1, <1>3, PutNames
<1>5. store' \subseteq StoredFile
  BY <1>1, <1>3 DEF PutFile, TInv, TypeOK
<1> HIDE DEF f
<1>6. Live' = Live \cup {L0(published + 1)}
  BY <1>4 DEF Live
<1>7. TypeOK'
  BY <1>1, <1>2, <1>4, <1>5 DEF TInv, TypeOK, FileName, L0
<1>8. NameInv'
  <2>1. ASSUME NEW g \in Names' \cup index' PROVE NameOK(g, published + 1)
    <3>1. CASE g \in Names \cup index
      BY <3>1, <1>2 DEF TInv, NameInv, NameOK, FileName
    <3>2. CASE g = L0(published + 1)
      BY <3>2, <1>2 DEF NameOK, L0, FileName, SnapshotLevel
    <3> QED
      BY <1>4, <3>1, <3>2
  <2> QED
    BY <2>1, <1>2 DEF NameInv, NameOK
<1>9. ChainInv(Names', Names', published', uses)
  BY <1>2, <1>4, ChainNext DEF TInv
<1>10. ChainInv(Live', index', published', uses)
  BY <1>1, <1>2, <1>4, <1>6, ChainNext DEF TInv
<1>11. DelInv'
  BY <1>1, <1>2, <1>4, <1>6, PutKeepsDels
<1>12. BusyInv' /\ ResumeInv' /\ PickInv'
  BY <1>1, <1>2, <1>4 DEF TInv, BusyInv, ResumeInv, PickInv
<1> QED
  BY <1>7, <1>8, <1>9, <1>10, <1>11, <1>12
     DEF TInv, ChainInv, KeepsAll, KeepsFrontier, KeepsSnapshots, KeepsL0,
         Merges, Snapped, Folded

\* The frontier of a level: what level 1 claims up to it is kept.
LEMMA FrontierIs ==
  ASSUME TInv, NEW l \in Nat
  PROVE  /\ Frontier(l) \in 0 .. published
         /\ \A f \in AtLevel(index, l) : f.max <= Frontier(l)
         /\ Frontier(l) > 0 =>
              \E f \in index : f.level = l /\ f.max = Frontier(l)
<1>1. AtLevel(index, l) \subseteq FileName /\ published \in Nat
      /\ \A f \in AtLevel(index, l) : f.max <= published
  BY DEF TInv, TypeOK, AtLevel, NameInv, NameOK
<1>2. AtLevel(index, l) = {} => Frontier(l) = 0
  BY DEF Frontier, HeadOf
<1>3. /\ Frontier(l) \in 0 .. published
      /\ \A f \in AtLevel(index, l) : f.max <= Frontier(l)
      /\ AtLevel(index, l) # {} =>
           \E f \in AtLevel(index, l) : f.max = Frontier(l)
  BY <1>1, HeadOfIs DEF Frontier
<1>4. \A f \in AtLevel(index, l) : f \in index /\ f.level = l
  BY DEF AtLevel
<1> QED
  BY <1>2, <1>3, <1>4

\* Everything up to the frontier of level 1 is in a live snapshot or window.
LEMMA FrontierKept ==
  ASSUME TInv, busy # "down", NEW t \in 1 .. Frontier(1)
  PROVE  Merges(Live, t)
<1>1. Frontier(1) \in Nat /\ Frontier(1) > 0
  BY FrontierIs DEF TInv, TypeOK
<1>2. PICK f \in index : f.level = 1 /\ f.max = Frontier(1)
  BY <1>1, FrontierIs
<1> QED
  BY <1>2 DEF TInv, ChainInv, KeepsFrontier

\* compact_level: what lies below a new window of level 1 is kept already.
LEMMA CompactLevelInv ==
  ASSUME TInv, NEW dst \in 1 .. MaxLevel, CompactLevel(dst), uses' = uses
  PROVE  TInv'
<1> USE DEF SnapshotLevel
<1>1. PICK first \in Unfolded(dst), last \in Unfolded(dst) :
        LET f == Merged(dst, first.min, last.max, Unfolded(dst))
        IN  /\ First(Unfolded(dst), first) /\ LastOf(Unfolded(dst), last)
            /\ PutFile(f)
            /\ Acked(f) \/ AckLost
  BY DEF CompactLevel
<1> DEFINE f == Merged(dst, first.min, last.max, Unfolded(dst))
<1>2. busy = "idle" /\ UNCHANGED <<pos, published, busy, picked, reach, dels>>
  BY DEF CompactLevel, ops
<1>3. dst \in Nat /\ dst > 0 /\ dst < 9
  BY TiersAssumption
<1>4. /\ first \in index /\ last \in index
      /\ NameOK(first, published) /\ NameOK(last, published)
  BY DEF Unfolded, AtLevel, TInv, NameInv
<1>5. /\ first.min \in Nat /\ 1 <= first.min
      /\ last.max \in Nat /\ first.min <= last.max /\ last.max <= published
  BY <1>1, <1>4 DEF NameOK, FileName, LastOf, TInv, TypeOK
<1>6. f \in StoredFile /\ f.level = dst /\ f.max = last.max
      /\ Name(f) = [level |-> dst, min |-> first.min, max |-> last.max]
  <2>1. UNION {g.holds : g \in Fetched(Unfolded(dst))} \in SUBSET Nat
    BY DEF Fetched, TInv, TypeOK, StoredFile
  <2> QED
    BY <1>3, <1>5, <2>1 DEF Merged, StoredFile, Name
<1>7. PutFile(f) /\ (index' = index \/ index' = index \cup {Name(f)})
      /\ faults' \in Nat
  BY <1>1 DEF Acked, AckLost, Fault, TInv, TypeOK
<1> HIDE DEF f
<1>8. NameOK(Name(f), published)
  BY <1>3, <1>5, <1>6 DEF NameOK, FileName
<1>9. ASSUME f.level = 1, NEW t \in 1 .. f.max
      PROVE  Merges(Live \cup {Name(f)}, t)
  <2>1. t \in Nat /\ t \in 1 .. published
    BY <1>5, <1>6 DEF TInv, TypeOK
  <2>2. CASE first.min <= t
    BY <2>1, <2>2, <1>6, <1>9 DEF Merges, Folded, Holds
  <2>3. CASE Merges(Live, t)
    BY <2>3, MoreKeepsMore
  <2>4. CASE L0(t) \in Live /\ t < first.min
    <3>1. L0(t) \in index /\ L0(t).level = 0 /\ L0(t).min = t
      BY <2>4 DEF Live, L0
    <3>2. L0(t) \notin Unfolded(1)
      BY <1>1, <1>5, <1>6, <1>9, <2>1, <2>4, <3>1 DEF First
    <3>3. ~(t > Frontier(1))
      BY <3>1, <3>2 DEF Unfolded, AtLevel
    <3>4. t \in 1 .. Frontier(1)
      BY <2>1, <3>3, FrontierIs DEF TInv, TypeOK
    <3>5. Merges(Live, t)
      BY <1>2, <3>4, FrontierKept
    <3> QED
      BY <3>5, MoreKeepsMore
  <2>5. Merges(Live, t) \/ L0(t) \in Live
    BY <1>2, <2>1 DEF TInv, ChainInv, KeepsAll
  <2> QED
    BY <1>5, <2>1, <2>2, <2>3, <2>4, <2>5
<1>10. /\ store' \subseteq StoredFile /\ index' \subseteq FileName
       /\ NameInv'
       /\ ChainInv(Names, Names, published, uses)'
       /\ ChainInv(Live, index, published, uses)'
       /\ Names \subseteq Names' /\ index \subseteq index'
       /\ Live \subseteq Live'
       /\ index' \ Names' \subseteq index \ Names
  BY <1>2, <1>6, <1>7, <1>8, <1>9, PutStep
<1>11. DelInv'
  BY <1>2, <1>10, PutKeepsDels DEF TInv, TypeOK
<1>12. TypeOK'
  BY <1>2, <1>7, <1>10 DEF TInv, TypeOK
<1>13. BusyInv' /\ ResumeInv' /\ PickInv'
  BY <1>2, <1>10 DEF TInv, BusyInv, ResumeInv, PickInv
<1> QED
  BY <1>10, <1>11, <1>12, <1>13 DEF TInv

\* compact: the new snapshot supersedes all that it was merged from.
LEMMA CompactInv ==
  ASSUME TInv, Compact, uses' = uses
  PROVE  TInv'
<1> USE DEF SnapshotLevel
<1>1. PICK last \in ToMerge :
        LET f == Merged(SnapshotLevel, 1, last.max, Base \cup ToMerge)
        IN  /\ LastOf(ToMerge, last)
            /\ PutFile(f)
            /\ \/ Acked(f) /\ busy' = "delete" /\ dels' = Base \cup ToMerge
               \/ AckLost /\ UNCHANGED <<busy, dels>>
  BY DEF Compact
<1> DEFINE f == Merged(SnapshotLevel, 1, last.max, Base \cup ToMerge)
<1>2. busy = "idle" /\ dels = {} /\ UNCHANGED <<pos, published, picked, reach>>
  BY DEF Compact, TInv, BusyInv
<1>3. published \in Nat /\ index \subseteq FileName
  BY DEF TInv, TypeOK
<1>4. ASSUME NEW g \in ToMerge
      PROVE  /\ g \in index /\ g.level = 0 /\ g.max \in Nat
             /\ NameOK(g, published) /\ g.max < published /\ 1 <= g.max
  <2>1. PICK h \in NewL0 : Before(g, h)
    BY DEF ToMerge
  <2>2. g \in index /\ h \in index /\ g.level = 0 /\ h.level = 0
    BY DEF ToMerge, NewL0, AtLevel
  <2>3. NameOK(g, published) /\ NameOK(h, published)
    BY <2>2 DEF TInv, NameInv
  <2> QED
    BY <1>3, <2>1, <2>2, <2>3 DEF NameOK, Before, FileName
<1>5. f \in StoredFile /\ f.level = 9 /\ f.max = last.max
      /\ Name(f) = [level |-> 9, min |-> 1, max |-> last.max]
  <2>1. UNION {g.holds : g \in Fetched(Base \cup ToMerge)} \in SUBSET Nat
    BY DEF Fetched, TInv, TypeOK, StoredFile
  <2> QED
    BY <1>4, <2>1 DEF Merged, StoredFile, Name
<1>6. /\ PutFile(f) /\ faults' \in Nat
      /\ \/ index' = index /\ busy' = "idle" /\ dels' = {}
         \/ /\ index' = index \cup {Name(f)}
            /\ busy' = "delete" /\ dels' = Base \cup ToMerge
  BY <1>1, <1>2 DEF Acked, AckLost, Fault, TInv, TypeOK
<1> HIDE DEF f
<1>7. NameOK(Name(f), published)
  BY <1>3, <1>4, <1>5 DEF NameOK, FileName
<1>8. /\ store' \subseteq StoredFile /\ index' \subseteq FileName
      /\ NameInv'
      /\ ChainInv(Names, Names, published, uses)'
      /\ ChainInv(Live, index, published, uses)'
      /\ Names \subseteq Names' /\ index \subseteq index'
      /\ Live \subseteq Live'
      /\ index' \ Names' \subseteq index \ Names
  <2>1. f.level # 1 /\ (index' = index \/ index' = index \cup {Name(f)})
    BY <1>5, <1>6
  <2> QED
    BY <1>2, <1>5, <1>6, <1>7, <2>1, PutStep
<1>9. ASSUME index' = index \cup {Name(f)}, NEW g \in Base \cup ToMerge
      PROVE  g \in FileName /\ NameOK(g, published)
             /\ Superseded(g, Live', published, uses)
  <2>1. Name(f) \in Live'
    BY <1>6, <1>9, PutNames DEF Live
  <2>2. CASE g \in Base
    <3>1. Base \subseteq index /\ g \in index /\ g.level = 9
      BY <2>2 DEF Base, AtLevel
    <3>2. g.max <= HeadOf(Base) /\ HeadOf(Base) \in Nat
      <4>1. Base \subseteq FileName /\ \A b \in Base : b.max <= published
        BY <3>1 DEF TInv, NameInv, NameOK
      <4> QED
        BY <1>3, <2>2, <4>1, HeadOfIs
    <3>3. last.min > HeadOf(Base) /\ last.min = last.max
      BY <1>4 DEF ToMerge, NewL0, NameOK
    <3>4. NameOK(g, published)
      BY <3>1 DEF TInv, NameInv
    <3>5. g.max < last.max
      BY <1>4, <3>2, <3>3, <3>4 DEF NameOK, FileName
    <3> QED
      BY <1>5, <2>1, <3>1, <3>4, <3>5 DEF Superseded, NameOK
  <2>3. CASE g \in ToMerge
    <3>1. g.max <= last.max
      BY <1>1, <2>3 DEF LastOf
    <3> QED
      BY <1>4, <1>5, <2>1, <2>3, <3>1 DEF Superseded, Snapped, NameOK
  <2> QED
    BY <2>2, <2>3
<1>10. DelInv'
  <2>1. CASE dels' = {}
    BY <1>2, <1>3, <1>8, <2>1, PutKeepsDels
  <2>2. CASE index' = index \cup {Name(f)} /\ dels' = Base \cup ToMerge
    <3>1. ASSUME NEW g \in dels' \cup (index' \ Names')
          PROVE  NameOK(g, published) /\ Superseded(g, Live', published, uses)
      <4>1. CASE g \in dels'
        BY <1>9, <2>2, <4>1
      <4>2. CASE g \in index' \ Names'
        <5>1. NameOK(g, published) /\ Superseded(g, Live, published, uses)
          BY <1>8, <4>2 DEF TInv, DelInv
        <5>2. g \in FileName
          BY <5>1 DEF NameOK
        <5> QED
          BY <1>3, <1>8, <5>1, <5>2, StaysSuperseded
      <4> QED
        BY <4>1, <4>2
    <3> QED
      BY <1>2, <3>1 DEF DelInv, NameOK, Superseded, Snapped, Folded
  <2> QED
    BY <1>6, <2>1, <2>2
<1>11. TypeOK'
  <2>1. dels' \subseteq FileName
    BY <1>6, <1>9
  <2> QED
    BY <1>2, <1>6, <1>8, <2>1 DEF TInv, TypeOK
<1>12. BusyInv' /\ ResumeInv' /\ PickInv'
  BY <1>2, <1>6, <1>8 DEF TInv, BusyInv, ResumeInv, PickInv
<1> QED
  BY <1>8, <1>10, <1>11, <1>12 DEF TInv

\* HeadOf finds the last published TXID, in the index and in the store.
LEMMA HeadIsPublished ==
  ASSUME TInv, published > 0
  PROVE  /\ HeadOf(Names) = published
         /\ busy # "down" => HeadOf(index) = published
<1>1. published \in Nat
  BY DEF TInv, TypeOK
<1>2. ASSUME NEW S, S \subseteq Names \cup index, L0(published) \in S
      PROVE  HeadOf(S) = published
  <2>1. S \subseteq FileName /\ \A f \in S : f.max <= published
    BY <1>2 DEF TInv, NameInv, NameOK
  <2>2. L0(published).max = published
    BY DEF L0
  <2>3. HeadOf(S) \in 0 .. published /\ \A f \in S : f.max <= HeadOf(S)
    BY <1>1, <2>1, HeadOfIs
  <2> QED
    BY <1>1, <1>2, <2>2, <2>3
<1> QED
  BY <1>2 DEF TInv, ResumeInv

\* snapshot: a plan is started.
LEMMA SnapshotBeginInv ==
  ASSUME TInv, SnapshotBegin, uses' = uses
  PROVE  TInv'
<1>1. /\ busy = "idle" /\ index # {} /\ busy' = "snapshot"
      /\ picked' = {} /\ reach' = 0
      /\ UNCHANGED <<store, index, pos, published, dels, faults>>
  BY DEF SnapshotBegin
<1>2. Names' = Names /\ Live' = Live
  BY <1>1 DEF Names, Live
<1>3. published > 0
  <2>1. PICK f \in index : TRUE
    BY <1>1
  <2>2. NameOK(f, published)
    BY DEF TInv, NameInv
  <2> QED
    BY <2>2 DEF NameOK, FileName, TInv, TypeOK
<1>4. TypeOK' /\ BusyInv' /\ ResumeInv' /\ PickInv'
  BY <1>1, <1>2, <1>3 DEF TInv, TypeOK, BusyInv, ResumeInv, PickInv
<1>5. NameInv' /\ DelInv'
  BY <1>1, <1>2 DEF TInv, NameInv, NameOK, DelInv, Superseded, Snapped, Folded
<1>6. ChainInv(Names', Names', published', uses)
      /\ ChainInv(Live', index', published', uses)
  BY <1>1, <1>2 DEF TInv
<1> QED
  BY <1>4, <1>5, <1>6
     DEF TInv, ChainInv, KeepsAll, KeepsFrontier, KeepsSnapshots, KeepsL0,
         Merges, Snapped, Folded

\* An entry of the index whose file is gone is never picked: a file that
\* superseded it beats it.
LEMMA PickIsLive ==
  ASSUME TInv, busy = "snapshot", NEW f \in index, Extends(f, reach),
         \A g \in index : Extends(g, reach) => Beats(f, g)
  PROVE  f \in Live
<1> USE DEF SnapshotLevel
<1>1. SUFFICES ASSUME f \notin Names PROVE FALSE
  BY DEF Live
<1>2. NameOK(f, published) /\ Superseded(f, Live, published, uses)
  BY <1>1 DEF TInv, DelInv
<1>3. reach \in Nat /\ f.max \in Nat /\ f.min \in Nat /\ f.level \in Nat
  BY <1>2 DEF TInv, TypeOK, NameOK, FileName
<1>4. ASSUME NEW s \in Live, s.level = 9, f.max <= s.max
      PROVE  f.max = s.max /\ f.level >= 9
  <2>1. s \in index /\ s.min = 1 /\ s.max \in Nat
    BY <1>4 DEF Live, TInv, NameInv, NameOK, FileName
  <2>2. Extends(s, reach)
    BY <1>3, <1>4, <2>1 DEF Extends
  <2> QED
    BY <1>3, <1>4, <2>1, <2>2 DEF Beats
<1>5. CASE f.level > 0
  <2>1. PICK s \in Live : s.level = 9 /\ f.max < s.max
    BY <1>2, <1>5 DEF Superseded
  <2>2. s.max \in Nat
    BY <2>1 DEF Live, TInv, TypeOK, FileName
  <2> QED
    BY <1>3, <1>4, <2>1, <2>2
<1>6. CASE f.level = 0 /\ Snapped(Live, f.max)
  BY <1>4, <1>6 DEF Snapped
<1>7. CASE f.level = 0 /\ Folded(Live, f.max)
  <2>1. PICK g \in Live : g.level = 1 /\ Holds(g, f.max)
    BY <1>7 DEF Folded
  <2>2. g \in index /\ g.min \in Nat /\ g.max \in Nat
    BY DEF Live, TInv, TypeOK, FileName
  <2>3. f.min = f.max
    BY <1>2, <1>7 DEF NameOK
  <2>4. Extends(g, reach)
    BY <1>3, <2>1, <2>2, <2>3 DEF Extends, Holds
  <2>5. Beats(f, g)
    BY <2>2, <2>4
  <2> QED
    BY <1>3, <1>7, <2>1, <2>2, <2>5 DEF Beats, Holds
<1> QED
  BY <1>2, <1>3, <1>5, <1>6, <1>7 DEF Superseded

\* snapshot: the plan takes its next file.
LEMMA SnapshotPickInv ==
  ASSUME TInv, SnapshotPick, uses' = uses
  PROVE  TInv'
<1>1. PICK f \in index :
        /\ Extends(f, reach)
        /\ \A g \in index : Extends(g, reach) => Beats(f, g)
        /\ picked' = picked \cup {f} /\ reach' = f.max
  BY DEF SnapshotPick
<1>2. busy = "snapshot"
      /\ UNCHANGED <<store, index, pos, published, busy, dels, faults>>
  BY DEF SnapshotPick
<1>3. Names' = Names /\ Live' = Live
  BY <1>2 DEF Names, Live
<1>4. f \in Live
  BY <1>1, <1>2, PickIsLive
<1>5. f \in FileName /\ f.max \in Nat /\ f.min \in Nat /\ reach \in Nat
  BY DEF TInv, TypeOK, FileName
<1>6. PickInv'
  <2>1. ASSUME NEW t \in 1 .. f.max
        PROVE  \E p \in picked \cup {f} : Holds(p, t)
    <3>1. CASE t <= reach
      BY <1>2, <1>5, <3>1 DEF TInv, PickInv
    <3>2. CASE t > reach
      BY <1>1, <1>5, <3>2 DEF Extends, Holds
    <3> QED
      BY <1>5, <3>1, <3>2
  <2>2. picked' \subseteq Live' /\ published' > 0
    BY <1>1, <1>2, <1>3, <1>4 DEF TInv, PickInv
  <2> QED
    BY <1>1, <2>1, <2>2 DEF PickInv
<1>7. TypeOK' /\ BusyInv' /\ ResumeInv'
  BY <1>1, <1>2, <1>3, <1>5 DEF TInv, TypeOK, BusyInv, ResumeInv
<1>8. NameInv' /\ DelInv'
  BY <1>2, <1>3 DEF TInv, NameInv, NameOK, DelInv, Superseded, Snapped, Folded
<1>9. ChainInv(Names', Names', published', uses)
      /\ ChainInv(Live', index', published', uses)
  BY <1>2, <1>3 DEF TInv
<1> QED
  BY <1>6, <1>7, <1>8, <1>9
     DEF TInv, ChainInv, KeepsAll, KeepsFrontier, KeepsSnapshots, KeepsL0,
         Merges, Snapped, Folded

\* A finished plan reaches the last published TXID.
LEMMA PlanReaches ==
  ASSUME TInv, busy = "snapshot", Planned
  PROVE  reach >= published /\ picked # {}
<1>1. published \in Nat /\ published > 0 /\ reach \in Nat
  BY DEF TInv, TypeOK, PickInv
<1>2. ASSUME reach < published PROVE FALSE
  <2> DEFINE t == reach + 1
  <2>1. t \in 1 .. published
    BY <1>1, <1>2
  <2>2. Merges(Live, t) \/ L0(t) \in Live
    BY <2>1 DEF TInv, ChainInv, KeepsAll
  <2>3. ASSUME NEW g \in Live, g.min <= t, t <= g.max PROVE FALSE
    <3>1. g \in index /\ g.min \in Nat /\ g.max \in Nat
      BY DEF Live, TInv, TypeOK, FileName
    <3>2. Extends(g, reach)
      BY <1>1, <2>3, <3>1 DEF Extends
    <3> QED
      BY <3>1, <3>2 DEF Planned
  <2>4. ASSUME NEW s \in Live, s.level = SnapshotLevel PROVE s.min <= t
    <3>1. s.min = 1
      BY <2>4 DEF Live, TInv, NameInv, NameOK
    <3> QED
      BY <1>1, <3>1
  <2>5. ~Snapped(Live, t)
    BY <2>3, <2>4 DEF Snapped
  <2>6. ~Folded(Live, t)
    BY <2>3 DEF Folded, Holds
  <2>7. L0(t) \notin Live
    BY <2>1, <2>3 DEF L0
  <2> QED
    BY <2>2, <2>5, <2>6, <2>7 DEF Merges
<1>3. reach >= published
  BY <1>1, <1>2
<1>4. picked # {}
  BY <1>1, <1>3 DEF TInv, PickInv
<1> QED
  BY <1>3, <1>4

\* snapshot: the merged plan is uploaded.
LEMMA SnapshotUploadInv ==
  ASSUME TInv, SnapshotUpload, uses' = uses
  PROVE  TInv'
<1> USE DEF SnapshotLevel
<1> DEFINE f == Merged(SnapshotLevel, 1, HeadOf(index), picked)
<1>1. /\ busy = "snapshot" /\ PutFile(f) /\ (Acked(f) \/ AckLost)
      /\ busy' = "idle" /\ picked' = {} /\ reach' = 0
      /\ UNCHANGED <<pos, published, dels>>
  BY DEF SnapshotUpload, SnapshotDone
<1>2. published \in Nat /\ published > 0 /\ HeadOf(index) = published
  BY <1>1, HeadIsPublished DEF TInv, TypeOK, PickInv
<1>3. f \in StoredFile /\ f.level = 9 /\ f.max = published
      /\ Name(f) = [level |-> 9, min |-> 1, max |-> published]
  <2>1. UNION {g.holds : g \in Fetched(picked)} \in SUBSET Nat
    BY DEF Fetched, TInv, TypeOK, StoredFile
  <2> QED
    BY <1>2, <2>1 DEF Merged, StoredFile, Name
<1>4. (index' = index \/ index' = index \cup {Name(f)}) /\ faults' \in Nat
  BY <1>1 DEF Acked, AckLost, Fault, TInv, TypeOK
<1> HIDE DEF f
<1>5. NameOK(Name(f), published)
  BY <1>2, <1>3 DEF NameOK, FileName
<1>6. /\ store' \subseteq StoredFile /\ index' \subseteq FileName
      /\ NameInv'
      /\ ChainInv(Names, Names, published, uses)'
      /\ ChainInv(Live, index, published, uses)'
      /\ Names \subseteq Names' /\ index \subseteq index'
      /\ Live \subseteq Live'
      /\ index' \ Names' \subseteq index \ Names
  <2>1. f.level # 1
    BY <1>3
  <2> QED
    BY <1>1, <1>3, <1>4, <1>5, <2>1, PutStep
<1>7. DelInv'
  BY <1>1, <1>2, <1>6, PutKeepsDels
<1>8. TypeOK'
  BY <1>1, <1>4, <1>6 DEF TInv, TypeOK
<1>9. BusyInv' /\ ResumeInv' /\ PickInv'
  BY <1>1, <1>6 DEF TInv, BusyInv, ResumeInv, PickInv
<1> QED
  BY <1>6, <1>7, <1>8, <1>9 DEF TInv

\* A retention pass starts to delete superseded files.
LEMMA StartDeletingInv ==
  ASSUME TInv, busy = "idle", uses' = uses, NEW D, StartDeleting(D),
         \A f \in D : f \in index /\ Superseded(f, Live, published, uses)
  PROVE  TInv'
<1>1. /\ busy' = "delete" /\ dels' = D
      /\ UNCHANGED <<store, index, pos, published, picked, reach, faults>>
  BY DEF StartDeleting
<1>2. Names' = Names /\ Live' = Live
  BY <1>1 DEF Names, Live
<1>3. TypeOK' /\ BusyInv' /\ ResumeInv' /\ PickInv'
  BY <1>1, <1>2 DEF TInv, TypeOK, BusyInv, ResumeInv, PickInv
<1>4. NameInv'
  BY <1>1, <1>2 DEF TInv, NameInv, NameOK
<1>5. DelInv'
  <2>1. \A f \in dels' \cup (index' \ Names') :
          NameOK(f, published) /\ Superseded(f, Live, published, uses)
    BY <1>1, <1>2 DEF TInv, DelInv, NameInv
  <2> QED
    BY <1>1, <1>2, <2>1 DEF DelInv, NameOK, Superseded, Snapped, Folded
<1>6. ChainInv(Names', Names', published', uses)
      /\ ChainInv(Live', index', published', uses)
  BY <1>1, <1>2 DEF TInv
<1> QED
  BY <1>3, <1>4, <1>5, <1>6
     DEF TInv, ChainInv, KeepsAll, KeepsFrontier, KeepsSnapshots, KeepsL0,
         Merges, Snapped, Folded

\* A file below a snapshot of the index is superseded.
LEMMA BelowSnapshot ==
  ASSUME TInv, busy = "idle", NEW f \in index,
         NEW r \in index, r.level = SnapshotLevel, f.max < r.max
  PROVE  Superseded(f, Live, published, uses)
<1> USE DEF SnapshotLevel
<1>1. Snapped(Live, r.max)
  BY DEF TInv, ChainInv, KeepsSnapshots
<1>2. PICK s \in Live : s.level = 9 /\ r.max <= s.max
  BY <1>1 DEF Snapped
<1>3. /\ f.max \in Nat /\ r.max \in Nat /\ s.max \in Nat /\ published \in Nat
      /\ r.max <= published
  BY DEF Live, TInv, TypeOK, NameInv, NameOK, FileName
<1>4. f.max < s.max /\ f.max <= s.max /\ f.max < published
  BY <1>2, <1>3
<1> QED
  BY <1>2, <1>4 DEF Superseded, Snapped

\* enforce_snapshot_retention deletes only what a later snapshot keeps.
LEMMA SnapshotRetentionInv ==
  ASSUME TInv, EnforceSnapshotRetention, uses' = uses
  PROVE  TInv'
<1> USE DEF SnapshotLevel
<1> DEFINE Deleted(old) ==
      LET retained == AtLevel(index, SnapshotLevel) \ old
      IN  SnapshotExpired(old) \cup
            (IF retained = {} THEN {}
             ELSE UNION {BelowTxid(l, retained) : l \in 0 .. MaxLevel})
<1>1. PICK old \in SUBSET AtLevel(index, SnapshotLevel) :
        StartDeleting(Deleted(old))
  BY DEF EnforceSnapshotRetention
<1>2. busy = "idle"
  BY DEF EnforceSnapshotRetention
<1>3. ASSUME NEW f \in Deleted(old)
      PROVE  f \in index /\ Superseded(f, Live, published, uses)
  <2>1. CASE f \in SnapshotExpired(old)
    <3>1. PICK g \in AtLevel(index, 9) : Before(f, g)
      BY <2>1 DEF SnapshotExpired, KeepNewest
    <3>2. f \in index /\ g \in index /\ f.level = 9 /\ g.level = 9
      BY <2>1 DEF SnapshotExpired, KeepNewest, AtLevel
    <3>3. f.min = 1 /\ g.min = 1
      BY <3>2 DEF TInv, NameInv, NameOK
    <3>4. f.max < g.max
      BY <3>1, <3>3 DEF Before
    <3> QED
      BY <1>2, <3>2, <3>4, BelowSnapshot
  <2>2. CASE f \notin SnapshotExpired(old)
    <3> DEFINE retained == AtLevel(index, SnapshotLevel) \ old
    <3>1. PICK r \in retained : TRUE
      BY <2>2
    <3>2. PICK l \in 0 .. MaxLevel : f \in BelowTxid(l, retained)
      BY <2>2, <3>1
    <3>3. f \in index /\ f.max < r.max
      BY <3>2 DEF BelowTxid, KeepNewest, AtLevel
    <3>4. r \in index /\ r.level = 9
      BY DEF AtLevel
    <3> QED
      BY <1>2, <3>3, <3>4, BelowSnapshot
  <2> QED
    BY <2>1, <2>2
<1> HIDE DEF Deleted
<1> QED
  BY <1>1, <1>2, <1>3, StartDeletingInv

\* enforce_l0_retention deletes only what level 1 or a snapshot keeps, and
\* never the newest level-0 file.
LEMMA L0RetentionInv ==
  ASSUME TInv, EnforceL0Retention, uses' = uses
  PROVE  TInv'
<1>1. PICK fresh \in SUBSET AtLevel(index, 0) : StartDeleting(L0Expired(fresh))
  BY DEF EnforceL0Retention
<1>2. busy = "idle" /\ "l0_retention" \in uses
  BY DEF EnforceL0Retention
<1>3. ASSUME NEW f \in L0Expired(fresh)
      PROVE  f \in index /\ Superseded(f, Live, published, uses)
  <2>1. f.max <= Frontier(1) /\ f \in index /\ f.level = 0
    BY DEF L0Expired, KeepNewest, AtLevel
  <2>2. PICK g \in index : g.level = 0 /\ Before(f, g)
    BY DEF L0Expired, KeepNewest, AtLevel
  <2>3. NameOK(f, published) /\ NameOK(g, published) /\ published \in Nat
    BY <2>1 DEF TInv, NameInv, TypeOK
  <2>4. f.max < published
    BY <2>1, <2>2, <2>3 DEF NameOK, FileName, Before
  <2>5. f.max \in 1 .. Frontier(1)
    BY <2>1, <2>3, FrontierIs DEF NameOK, FileName
  <2>6. Merges(Live, f.max)
    BY <1>2, <2>5, FrontierKept
  <2> QED
    BY <1>2, <2>1, <2>4, <2>6 DEF Superseded, Merges
<1> QED
  BY <1>1, <1>2, <1>3, StartDeletingInv

\* A delete that is acknowledged.
LEMMA DeleteLtxInv ==
  ASSUME TInv, DeleteLtx, uses' = uses
  PROVE  TInv'
<1>1. PICK f \in dels :
        /\ store' = Without(f) /\ index' = index \ {f} /\ dels' = dels \ {f}
        /\ busy' = IF dels = {f} THEN "idle" ELSE "delete"
  BY DEF DeleteLtx
<1>2. busy = "delete" /\ UNCHANGED <<pos, published, picked, reach, faults>>
  BY DEF DeleteLtx
<1>3. /\ store' \subseteq StoredFile /\ index' \subseteq FileName
      /\ NameInv'
      /\ ChainInv(Names, Names, published, uses)'
      /\ ChainInv(Live, index, published, uses)'
      /\ \A g \in dels \cup (index' \ Names') :
           NameOK(g, published) /\ Superseded(g, Live', published, uses)
      /\ published > 0 => L0(published) \in Names' /\ L0(published) \in index'
  BY <1>1, <1>2, RemoveStep
<1>4. DelInv'
  <2>1. \A g \in dels' \cup (index' \ Names') :
          NameOK(g, published) /\ Superseded(g, Live', published, uses)
    BY <1>1, <1>3
  <2> QED
    BY <1>2, <2>1 DEF DelInv, NameOK, Superseded, Snapped, Folded
<1>5. TypeOK' /\ BusyInv' /\ ResumeInv' /\ PickInv'
  <2>1. busy' \in {"idle", "delete"} /\ (busy' = "idle" => dels' = {})
    BY <1>1
  <2>2. TypeOK'
    BY <1>1, <1>2, <1>3, <2>1 DEF TInv, TypeOK
  <2> QED
    BY <1>2, <1>3, <2>1, <2>2 DEF TInv, BusyInv, ResumeInv, PickInv
<1> QED
  BY <1>3, <1>4, <1>5 DEF TInv

\* A delete that fails, whether or not the file is gone.
LEMMA DeleteFailsInv ==
  ASSUME TInv, DeleteFails, uses' = uses
  PROVE  TInv'
<1>1. PICK f \in dels :
        \/ Fault("delete_fails") /\ UNCHANGED store
        \/ Fault("delete_lost_ack") /\ store' = Without(f)
        \/ f \notin Names /\ UNCHANGED <<store, faults>>
  BY DEF DeleteFails
<1>2. /\ busy = "delete" /\ busy' = "idle" /\ dels' = {}
      /\ UNCHANGED <<index, pos, published, picked, reach>>
  BY DEF DeleteFails
<1>3. faults' \in Nat
  BY <1>1 DEF Fault, TInv, TypeOK
<1>4. CASE store' = store
  <2>1. Names' = Names /\ Live' = Live
    BY <1>2, <1>4 DEF Names, Live
  <2>2. TypeOK' /\ BusyInv' /\ ResumeInv' /\ PickInv'
    BY <1>2, <1>3, <1>4, <2>1 DEF TInv, TypeOK, BusyInv, ResumeInv, PickInv
  <2>3. NameInv'
    BY <1>2, <2>1 DEF TInv, NameInv, NameOK
  <2>4. DelInv'
    BY <1>2, <2>1, PutKeepsDels DEF TInv, TypeOK
  <2>5. ChainInv(Names', Names', published', uses)
        /\ ChainInv(Live', index', published', uses)
    BY <1>2, <2>1 DEF TInv
  <2> QED
    BY <2>2, <2>3, <2>4, <2>5
       DEF TInv, ChainInv, KeepsAll, KeepsFrontier, KeepsSnapshots, KeepsL0,
           Merges, Snapped, Folded
<1>5. CASE store' = Without(f)
  <2>1. /\ store' \subseteq StoredFile /\ index' \subseteq FileName
        /\ NameInv'
        /\ ChainInv(Names, Names, published, uses)'
        /\ ChainInv(Live, index, published, uses)'
        /\ \A g \in dels \cup (index' \ Names') :
             NameOK(g, published) /\ Superseded(g, Live', published, uses)
        /\ published > 0 => L0(published) \in Names' /\ L0(published) \in index'
    BY <1>2, <1>5, RemoveStep
  <2>2. DelInv'
    BY <1>2, <2>1 DEF DelInv, NameOK, Superseded, Snapped, Folded
  <2>3. TypeOK' /\ BusyInv' /\ ResumeInv' /\ PickInv'
    BY <1>2, <1>3, <2>1 DEF TInv, TypeOK, BusyInv, ResumeInv, PickInv
  <2> QED
    BY <2>1, <2>2, <2>3 DEF TInv
<1> QED
  BY <1>1, <1>4, <1>5

\* A crash forgets the index, the position and the operation.
LEMMA CrashInv ==
  ASSUME TInv, Crash, uses' = uses
  PROVE  TInv'
<1>1. /\ busy' = "down" /\ picked' = {} /\ reach' = 0 /\ dels' = {}
      /\ index' = {} /\ pos' = 0 /\ UNCHANGED <<store, published>>
      /\ faults' \in Nat
  BY DEF Crash, Fault, TInv, TypeOK
<1>2. Names' = Names
  BY <1>1 DEF Names
<1>3. TypeOK' /\ BusyInv' /\ ResumeInv' /\ PickInv' /\ DelInv'
  BY <1>1, <1>2 DEF TInv, TypeOK, BusyInv, ResumeInv, PickInv, DelInv
<1>4. NameInv'
  BY <1>1, <1>2 DEF TInv, NameInv, NameOK
<1>5. ChainInv(Names', Names', published', uses)
  BY <1>1, <1>2 DEF TInv
<1> QED
  BY <1>1, <1>3, <1>4, <1>5
     DEF TInv, ChainInv, KeepsAll, KeepsFrontier, KeepsSnapshots, KeepsL0,
         Merges, Snapped, Folded

\* A restart lists the store: the index is right again, and so is the TXID.
LEMMA OpenInv ==
  ASSUME TInv, Open, uses' = uses
  PROVE  TInv'
<1>1. /\ busy = "down" /\ busy' = "idle"
      /\ index' = Names /\ pos' = HeadOf(Names)
      /\ UNCHANGED <<store, published, picked, reach, dels, faults>>
  BY DEF Open
<1>2. Names' = Names /\ Live' = Names
  BY <1>1 DEF Names, Live
<1>3. HeadOf(Names) = published
  <2>1. CASE published > 0
    BY <2>1, HeadIsPublished
  <2>2. CASE ~(published > 0)
    <3>1. published = 0
      BY <2>2 DEF TInv, TypeOK
    <3>2. Names = {}
      BY <3>1 DEF TInv, NameInv, NameOK, FileName
    <3> QED
      BY <3>1, <3>2 DEF HeadOf
  <2> QED
    BY <2>1, <2>2
<1>4. Names \subseteq FileName
  BY DEF TInv, NameInv, NameOK
<1>5. TypeOK' /\ BusyInv' /\ ResumeInv' /\ PickInv'
  BY <1>1, <1>2, <1>3, <1>4 DEF TInv, TypeOK, BusyInv, ResumeInv, PickInv
<1>6. DelInv'
  BY <1>1, <1>2 DEF TInv, BusyInv, DelInv
<1>7. NameInv'
  BY <1>1, <1>2 DEF TInv, NameInv, NameOK
<1>8. ChainInv(Names', Names', published', uses)
      /\ ChainInv(Live', index', published', uses)
  BY <1>1, <1>2 DEF TInv
<1> QED
  BY <1>1, <1>5, <1>6, <1>7, <1>8
     DEF TInv, ChainInv, KeepsAll, KeepsFrontier, KeepsSnapshots, KeepsL0,
         Merges, Snapped, Folded

(***************************************************************************)
(* The theorems.                                                           *)
(***************************************************************************)

\* The invariant holds of an empty replica.
LEMMA TiersInit == Init => TInv
<1> SUFFICES ASSUME Init PROVE TInv
  OBVIOUS
<1>1. Names = {} /\ Live = {}
  BY DEF Init, Names, Live
<1> QED
  BY <1>1 DEF Init, TInv, TypeOK, NameInv, BusyInv, ResumeInv, DelInv, PickInv,
              ChainInv, KeepsAll, KeepsFrontier, KeepsSnapshots, KeepsL0

\* Every step preserves the invariant.
LEMMA TiersNext == TInv /\ [Next]_vars => TInv'
<1> SUFFICES ASSUME TInv, [Next]_vars PROVE TInv'
  OBVIOUS
<1>1. CASE UNCHANGED vars
  <2>1. UNCHANGED <<uses, store, index, pos, published, busy, picked, reach,
                    dels, faults>>
    BY <1>1 DEF vars, ops
  <2>2. Names' = Names /\ Live' = Live
    BY <2>1 DEF Names, Live
  <2> QED
    BY <2>1, <2>2
       DEF TInv, TypeOK, NameInv, NameOK, BusyInv, ResumeInv, DelInv, PickInv,
           Superseded, ChainInv, KeepsAll, KeepsFrontier, KeepsSnapshots,
           KeepsL0, Merges, Snapped, Folded
<1>2. CASE Next
  BY <1>2, UploadStagedInv, CompactLevelInv, CompactInv, SnapshotBeginInv,
     SnapshotPickInv, SnapshotUploadInv, SnapshotRetentionInv, L0RetentionInv,
     DeleteLtxInv, DeleteFailsInv, CrashInv, OpenInv DEF Next
<1> QED
  BY <1>1, <1>2

\* The inductive invariant is an invariant.
LEMMA TiersInv == Spec => []TInv
BY TiersInit, TiersNext, PTL DEF Spec

\* The variables of the tiers keep their types, at any size.
THEOREM TiersTypeCorrect == Spec => []TypeOK
<1>1. TInv => TypeOK
  BY DEF TInv
<1> QED
  BY <1>1, TiersInv, PTL

\* Each of the ways to keep a TXID is a stored file with it.
LEMMA RestorableHolds == TInv => Restorable
<1> SUFFICES ASSUME TInv, NEW t \in 1 .. published
             PROVE  \E f \in store : Holds(f, t)
  BY DEF Restorable
<1>1. ASSUME NEW n \in Names, Holds(n, t)
      PROVE  \E f \in store : Holds(f, t)
  BY <1>1 DEF Names, Name, Holds
<1>2. Merges(Names, t) \/ L0(t) \in Names
  BY DEF TInv, ChainInv, KeepsAll
<1>3. CASE Snapped(Names, t)
  <2>1. PICK s \in Names : s.level = SnapshotLevel /\ t <= s.max
    BY <1>3 DEF Snapped
  <2>2. s.min = 1
    BY <2>1 DEF TInv, NameInv, NameOK
  <2> QED
    BY <1>1, <2>1, <2>2 DEF Holds
<1>4. CASE Folded(Names, t)
  BY <1>1, <1>4 DEF Folded
<1>5. CASE L0(t) \in Names
  BY <1>1, <1>5 DEF L0, Holds
<1> QED
  BY <1>2, <1>3, <1>4, <1>5 DEF Merges

\* compact_level, compact, snapshot, both retention passes, failed uploads and
\* deletes, and restarts leave every published TXID in the range of a stored
\* file, whatever the order in which the operations run and however old the
\* files are said to be.  With FilesAreComplete, a file that holds it.
THEOREM NothingLost == Spec => []Restorable
BY RestorableHolds, TiersInv, PTL

\* A restart always finds where the last run was: no operation removes the
\* level-0 file of the last TXID, and none claims a later one.
THEOREM ResumeIsKept == Spec => []ResumeStateKept
<1>1. TInv => ResumeStateKept
  <2> SUFFICES ASSUME TInv PROVE ResumeStateKept
    OBVIOUS
  <2>1. CASE published > 0
    BY <2>1, HeadIsPublished DEF TInv, ResumeInv, ResumeStateKept, L0
  <2>2. CASE ~(published > 0)
    <3>1. published = 0
      BY <2>2 DEF TInv, TypeOK
    <3>2. Names = {}
      BY <3>1 DEF TInv, NameInv, NameOK, FileName
    <3> QED
      BY <3>1, <3>2 DEF HeadOf, ResumeStateKept
  <2> QED
    BY <2>1, <2>2
<1> QED
  BY <1>1, TiersInv, PTL

\* snapshot() always has a plan and always finds its files: entries of the
\* index left behind by unacknowledged deletes are never part of it.
THEOREM SnapshotsSucceed == Spec => []SnapshotNeverFails
<1>1. TInv => SnapshotNeverFails
  BY PlanReaches DEF SnapshotNeverFails, TInv, PickInv, Live
<1> QED
  BY <1>1, TiersInv, PTL

(***************************************************************************)
(* Files hold what their names promise.                                    *)
(***************************************************************************)

\* A merge of files that are there holds the range they cover.
LEMMA MergeHolds ==
  ASSUME TInv, FilesHoldTheirRange,
         NEW l, NEW min \in Nat, NEW max \in Nat, NEW S, S \subseteq Names,
         \A t \in min .. max : \E h \in S : Holds(h, t),
         PutFile(Merged(l, min, max, S))
  PROVE  FilesHoldTheirRange'
<1> DEFINE f == Merged(l, min, max, S)
<1>1. f.min = min /\ f.max = max /\ f.holds = UNION {g.holds : g \in Fetched(S)}
  BY DEF Merged
<1>2. ASSUME NEW t \in min .. max PROVE t \in f.holds
  <2>1. PICK h \in S : Holds(h, t)
    OBVIOUS
  <2>2. PICK g \in store : h = Name(g)
    BY DEF Names
  <2>3. g \in Fetched(S)
    BY <2>2 DEF Fetched
  <2>4. g.min \in Nat /\ g.max \in Nat
    BY DEF TInv, TypeOK, StoredFile
  <2>5. t \in g.min .. g.max
    BY <2>1, <2>2, <2>4 DEF Holds, Name
  <2>6. t \in g.holds
    BY <2>5 DEF FilesHoldTheirRange
  <2> QED
    BY <1>1, <2>3, <2>6
<1> HIDE DEF f
<1>3. \A g \in store' : g \in store \/ g = f
  BY DEF PutFile, f
<1> QED
  BY <1>1, <1>2, <1>3 DEF FilesHoldTheirRange

\* compact: its inputs reach back to TXID 1, for want of a snapshot the
\* level-0 files do.
LEMMA CompactCovers ==
  ASSUME TInv, Compact, "l0_retention" \notin uses, NEW last \in ToMerge
  PROVE  \E b \in Base \cup ToMerge : b.min = 1
<1> USE DEF SnapshotLevel
<1>1. busy = "idle"
  BY DEF Compact
<1>2. published \in Nat /\ index \subseteq FileName
  BY DEF TInv, TypeOK
<1> DEFINE full == {f \in AtLevel(index, 9) : f.min = 1}
<1>3. CASE full # {}
  <2> DEFINE T == {f.max : f \in full}
  <2>1. T \subseteq Nat /\ T # {}
    BY <1>2, <1>3 DEF AtLevel, FileName
  <2> HIDE DEF T
  <2>2. PICK x \in T : \A y \in T : x <= y
    BY <2>1, LeastOf
  <2> USE DEF T
  <2>3. PICK b \in full : x = b.max
    OBVIOUS
  <2>4. \A g \in full : b.max <= g.max
    BY <2>2, <2>3
  <2>5. b \in Base
    BY <2>4 DEF Base
  <2> QED
    BY <2>5
<1>4. CASE full = {}
  <2>1. PICK g \in NewL0 : Before(last, g)
    BY DEF ToMerge
  <2>2. last \in index /\ g \in index /\ last.level = 0 /\ g.level = 0
    BY DEF ToMerge, NewL0, AtLevel
  <2>3. NameOK(last, published) /\ NameOK(g, published)
    BY <2>2 DEF TInv, NameInv
  <2>4. 1 \in 1 .. published
    BY <1>2, <2>3 DEF NameOK, FileName
  <2>5. ~Snapped(Live, 1)
    BY <1>4 DEF Snapped, Live, AtLevel, TInv, NameInv, NameOK
  <2>6. L0(1) \in Live
    BY <1>1, <2>4, <2>5 DEF TInv, ChainInv, KeepsL0
  <2>7. Base = {} /\ HeadOf(Base) = 0
    BY <1>4 DEF Base, HeadOf
  <2>8. L0(1) \in NewL0
    BY <2>6, <2>7 DEF NewL0, AtLevel, Live, L0
  <2>9. Before(L0(1), g)
    BY <2>1, <2>3 DEF Before, L0, NameOK, FileName
  <2>10. L0(1) \in ToMerge /\ L0(1).min = 1
    BY <2>8, <2>9 DEF ToMerge, L0
  <2> QED
    BY <2>10
<1> QED
  BY <1>3, <1>4

\* Every step leaves the files as good as their names, unless compact runs
\* beside L0 retention.
LEMMA HoldsNext ==
  ASSUME TInv, FilesHoldTheirRange, [Next]_vars,
         ~({"compact", "l0_retention"} \subseteq uses)
  PROVE  FilesHoldTheirRange'
<1> USE DEF SnapshotLevel
<1>1. CASE store' \subseteq store
  BY <1>1 DEF FilesHoldTheirRange
<1>2. CASE UploadStaged
  <2> DEFINE f == [level |-> 0, min |-> pos + 1, max |-> pos + 1, holds |-> {pos + 1}]
  <2>1. \A g \in store' : g \in store \/ g = f
    BY <1>2 DEF UploadStaged, PutFile
  <2>2. \A t \in f.min .. f.max : t \in f.holds
    BY DEF TInv, TypeOK
  <2> HIDE DEF f
  <2> QED
    BY <2>1, <2>2 DEF FilesHoldTheirRange
<1>3. ASSUME NEW dst \in 1 .. MaxLevel, CompactLevel(dst)
      PROVE  FilesHoldTheirRange'
  <2>1. PICK first \in Unfolded(dst), last \in Unfolded(dst) :
          PutFile(Merged(dst, first.min, last.max, Unfolded(dst)))
    BY <1>3 DEF CompactLevel
  <2>2. Unfolded(dst) \subseteq Names
    BY <1>3 DEF CompactLevel
  <2>3. \A t \in first.min .. last.max : \E h \in Unfolded(dst) : Holds(h, t)
    BY <1>3 DEF CompactLevel, Contiguous
  <2>4. first.min \in Nat /\ last.max \in Nat
    BY DEF Unfolded, AtLevel, TInv, TypeOK, FileName
  <2> QED
    BY <2>1, <2>2, <2>3, <2>4, MergeHolds
<1>4. CASE Compact
  <2> DEFINE S == Base \cup ToMerge
  <2>1. PICK last \in ToMerge : PutFile(Merged(SnapshotLevel, 1, last.max, S))
    BY <1>4 DEF Compact
  <2>2. S \subseteq Names /\ Contiguous(S) /\ "l0_retention" \notin uses
    BY <1>4 DEF Compact
  <2>3. PICK b \in S : b.min = 1
    BY <1>4, <2>2, CompactCovers
  <2>4. last \in S
    OBVIOUS
  <2>5. last.max \in Nat
    BY DEF ToMerge, NewL0, AtLevel, TInv, TypeOK, FileName
  <2> HIDE DEF S
  <2>6. \A t \in 1 .. last.max : \E h \in S : Holds(h, t)
    BY <2>2, <2>3, <2>4 DEF Contiguous
  <2> QED
    BY <2>1, <2>2, <2>5, <2>6, MergeHolds
<1>5. CASE SnapshotUpload
  <2>1. /\ busy = "snapshot" /\ Planned /\ picked \subseteq Names
        /\ PutFile(Merged(SnapshotLevel, 1, HeadOf(index), picked))
    BY <1>5 DEF SnapshotUpload
  <2>2. published \in Nat /\ reach \in Nat /\ HeadOf(index) = published
    BY <2>1, HeadIsPublished DEF TInv, TypeOK, PickInv
  <2>3. \A t \in 1 .. published : \E h \in picked : Holds(h, t)
    BY <2>1, <2>2, PlanReaches DEF TInv, PickInv
  <2> QED
    BY <2>1, <2>2, <2>3, MergeHolds
<1>6. ASSUME UNCHANGED vars \/ SnapshotBegin \/ SnapshotPick \/ EnforceSnapshotRetention
             \/ EnforceL0Retention \/ DeleteLtx \/ DeleteFails \/ Crash \/ Open
      PROVE  store' \subseteq store
  BY <1>6 DEF vars, SnapshotBegin, SnapshotPick, EnforceSnapshotRetention,
       EnforceL0Retention, StartDeleting, DeleteLtx, DeleteFails, Without,
       Crash, Open
<1> QED
  BY <1>1, <1>2, <1>3, <1>4, <1>5, <1>6 DEF Next

\* A merged file holds every transaction its name promises, when no deployment
\* uses both the one-base compact and L0 retention: compact then still finds
\* every level-0 file that no snapshot holds.
THEOREM FilesAreComplete ==
  ASSUME \A u \in Styles : ~({"compact", "l0_retention"} \subseteq u)
  PROVE  Spec => []FilesHoldTheirRange
<1>1. Init => FilesHoldTheirRange
  BY DEF Init, FilesHoldTheirRange
<1>2. TInv => ~({"compact", "l0_retention"} \subseteq uses)
  BY DEF TInv, TypeOK
<1>3. TInv /\ FilesHoldTheirRange /\ [Next]_vars => FilesHoldTheirRange'
  BY <1>2, HoldsNext
<1> QED
  BY <1>1, <1>3, TiersInv, PTL DEF Spec

(***************************************************************************)
(* Nor do files hold more than their names say.                            *)
(***************************************************************************)
PagesInRange == \A f \in store : f.holds \subseteq f.min .. f.max

\* A merge holds no more than the range its inputs lie in.
LEMMA MergeWithin ==
  ASSUME TInv, PagesInRange,
         NEW l, NEW min \in Nat, NEW max \in Nat, NEW S,
         \A h \in S : min <= h.min /\ h.max <= max,
         PutFile(Merged(l, min, max, S))
  PROVE  PagesInRange'
<1> DEFINE f == Merged(l, min, max, S)
<1>1. f.min = min /\ f.max = max /\ f.holds = UNION {g.holds : g \in Fetched(S)}
  BY DEF Merged
<1>2. ASSUME NEW g \in Fetched(S) PROVE g.holds \subseteq min .. max
  <2>1. g \in store /\ Name(g) \in S
    BY DEF Fetched
  <2>2. g.min \in Nat /\ g.max \in Nat
    BY <2>1 DEF TInv, TypeOK, StoredFile
  <2>3. min <= g.min /\ g.max <= max
    BY <2>1 DEF Name
  <2>4. g.holds \subseteq g.min .. g.max
    BY <2>1 DEF PagesInRange
  <2> QED
    BY <2>2, <2>3, <2>4
<1>3. f.holds \subseteq f.min .. f.max
  BY <1>1, <1>2
<1> HIDE DEF f
<1>4. \A g \in store' : g \in store \/ g = f
  BY DEF PutFile, f
<1> QED
  BY <1>3, <1>4 DEF PagesInRange

LEMMA WithinNext == TInv /\ PagesInRange /\ [Next]_vars => PagesInRange'
<1> SUFFICES ASSUME TInv, PagesInRange, [Next]_vars PROVE PagesInRange'
  OBVIOUS
<1> USE DEF SnapshotLevel
<1>0. /\ published \in Nat /\ index \subseteq FileName
      /\ \A f \in index : 1 <= f.min /\ f.min <= f.max /\ f.max <= published
  BY DEF TInv, TypeOK, NameInv, NameOK
<1>1. CASE store' \subseteq store
  BY <1>1 DEF PagesInRange
<1>2. CASE UploadStaged
  <2> DEFINE f == [level |-> 0, min |-> pos + 1, max |-> pos + 1, holds |-> {pos + 1}]
  <2>1. \A g \in store' : g \in store \/ g = f
    BY <1>2 DEF UploadStaged, PutFile
  <2>2. f.holds \subseteq f.min .. f.max
    BY DEF TInv, TypeOK
  <2> HIDE DEF f
  <2> QED
    BY <2>1, <2>2 DEF PagesInRange
<1>3. ASSUME NEW dst \in 1 .. MaxLevel, CompactLevel(dst)
      PROVE  PagesInRange'
  <2>1. PICK first \in Unfolded(dst), last \in Unfolded(dst) :
          /\ First(Unfolded(dst), first) /\ LastOf(Unfolded(dst), last)
          /\ PutFile(Merged(dst, first.min, last.max, Unfolded(dst)))
    BY <1>3 DEF CompactLevel
  <2>2. \A h \in Unfolded(dst) : first.min <= h.min /\ h.max <= last.max
    BY <2>1 DEF First, LastOf
  <2>3. first.min \in Nat /\ last.max \in Nat
    BY <1>0 DEF Unfolded, AtLevel, FileName
  <2> QED
    BY <2>1, <2>2, <2>3, MergeWithin
<1>4. CASE Compact
  <2> DEFINE S == Base \cup ToMerge
  <2>1. PICK last \in ToMerge :
          LastOf(ToMerge, last) /\ PutFile(Merged(SnapshotLevel, 1, last.max, S))
    BY <1>4 DEF Compact
  <2>2. last \in index /\ last.min > HeadOf(Base) /\ ToMerge \subseteq index /\ Base \subseteq index
    BY DEF ToMerge, NewL0, AtLevel, Base
  <2>3. HeadOf(Base) \in Nat /\ \A f \in Base : f.max <= HeadOf(Base)
    <3>1. Base \subseteq FileName /\ \A f \in Base : f.max <= published
      BY <1>0, <2>2
    <3> QED
      BY <1>0, <3>1, HeadOfIs
  <2>4. ASSUME NEW h \in S PROVE 1 <= h.min /\ h.max <= last.max
    <3>1. h \in index /\ h.max \in Nat /\ last.max \in Nat /\ last.min \in Nat
      BY <1>0, <2>2 DEF FileName
    <3>2. CASE h \in ToMerge
      BY <1>0, <2>1, <3>1, <3>2 DEF LastOf
    <3>3. CASE h \in Base
      BY <1>0, <2>2, <2>3, <3>1, <3>3
    <3> QED
      BY <3>2, <3>3
  <2>5. last.max \in Nat
    BY <1>0, <2>2 DEF FileName
  <2> HIDE DEF S
  <2> QED
    BY <2>1, <2>4, <2>5, MergeWithin
<1>5. CASE SnapshotUpload
  <2>1. /\ busy = "snapshot"
        /\ PutFile(Merged(SnapshotLevel, 1, HeadOf(index), picked))
    BY <1>5 DEF SnapshotUpload
  <2>2. HeadOf(index) = published /\ picked \subseteq index
    BY <2>1, HeadIsPublished DEF TInv, PickInv, Live
  <2>3. \A h \in picked : 1 <= h.min /\ h.max <= HeadOf(index)
    BY <1>0, <2>2
  <2> QED
    BY <1>0, <2>1, <2>2, <2>3, MergeWithin
<1>6. ASSUME UNCHANGED vars \/ SnapshotBegin \/ SnapshotPick \/ EnforceSnapshotRetention
             \/ EnforceL0Retention \/ DeleteLtx \/ DeleteFails \/ Crash \/ Open
      PROVE  store' \subseteq store
  BY <1>6 DEF vars, SnapshotBegin, SnapshotPick, EnforceSnapshotRetention,
       EnforceL0Retention, StartDeleting, DeleteLtx, DeleteFails, Without,
       Crash, Open
<1> QED
  BY <1>1, <1>2, <1>3, <1>4, <1>5, <1>6 DEF Next

(***************************************************************************)
(* Restores.                                                               *)
(***************************************************************************)

\* The levels there are.
LevelInv == \A n \in Names : n.level \in 0 .. MaxLevel \cup {SnapshotLevel}

\* A step adds at most one name, of a level there is.
LEMMA LevelNext == LevelInv /\ TypeOK /\ [Next]_vars => LevelInv'
<1> SUFFICES ASSUME LevelInv, TypeOK, [Next]_vars PROVE LevelInv'
  OBVIOUS
<1> DEFINE Level(f) == f.level \in 0 .. MaxLevel \cup {SnapshotLevel}
<1>1. ASSUME NEW f \in store PROVE Level(f)
  <2>1. Name(f) \in Names /\ Name(f).level = f.level
    BY DEF Names, Name
  <2> QED
    BY <2>1 DEF LevelInv
<1>2. ASSUME NEW f, Level(f), PutFile(f)
      PROVE  \A g \in store' : Level(g)
  BY <1>1, <1>2 DEF PutFile
<1>3. ASSUME store' \subseteq store
      PROVE  \A g \in store' : Level(g)
  BY <1>1, <1>3
<1>4. \A g \in store' : Level(g)
  <2>1. CASE UploadStaged
    <3> DEFINE f == [level |-> 0, min |-> pos + 1, max |-> pos + 1, holds |-> {pos + 1}]
    <3>1. PutFile(f) /\ Level(f)
      BY <2>1, TiersAssumption DEF UploadStaged
    <3> HIDE DEF f
    <3> QED
      BY <1>2, <3>1
  <2>2. ASSUME NEW dst \in 1 .. MaxLevel, CompactLevel(dst)
        PROVE  \A g \in store' : Level(g)
    <3>1. dst \in 0 .. MaxLevel
      BY TiersAssumption
    <3>2. PICK first, last \in Unfolded(dst) :
            PutFile(Merged(dst, first.min, last.max, Unfolded(dst)))
      BY <2>2 DEF CompactLevel
    <3>3. Merged(dst, first.min, last.max, Unfolded(dst)).level = dst
      BY DEF Merged
    <3> QED
      BY <1>2, <3>1, <3>2, <3>3
  <2>3. CASE Compact
    <3>1. PICK last \in ToMerge :
            PutFile(Merged(SnapshotLevel, 1, last.max, Base \cup ToMerge))
      BY <2>3 DEF Compact
    <3>2. Merged(SnapshotLevel, 1, last.max, Base \cup ToMerge).level = SnapshotLevel
      BY DEF Merged
    <3> QED
      BY <1>2, <3>1, <3>2
  <2>4. CASE SnapshotUpload
    <3>1. PutFile(Merged(SnapshotLevel, 1, HeadOf(index), picked))
      BY <2>4 DEF SnapshotUpload
    <3>2. Merged(SnapshotLevel, 1, HeadOf(index), picked).level = SnapshotLevel
      BY DEF Merged
    <3> QED
      BY <1>2, <3>1, <3>2
  <2>5. CASE SnapshotBegin \/ SnapshotPick \/ EnforceSnapshotRetention \/ EnforceL0Retention
    BY <1>3, <2>5 DEF SnapshotBegin, SnapshotPick, EnforceSnapshotRetention,
                      EnforceL0Retention, StartDeleting
  <2>6. CASE DeleteLtx \/ DeleteFails
    BY <1>3, <2>6 DEF DeleteLtx, DeleteFails, Without
  <2>7. CASE Crash \/ Open \/ UNCHANGED vars
    BY <1>3, <2>7 DEF Crash, Open, vars
  <2> QED
    BY <2>1, <2>2, <2>3, <2>4, <2>5, <2>6, <2>7 DEF Next
<1> QED
  BY <1>4 DEF LevelInv, Names, Name

LEMMA TiersLevels == Spec => [](TInv /\ LevelInv)
<1>1. Init => LevelInv
  BY DEF Init, LevelInv, Names
<1>2. TInv => TypeOK
  BY DEF TInv
<1> QED
  BY <1>1, <1>2, LevelNext, TiersInv, PTL DEF Spec

\* The names of the store are a listing.
LEMMA NamesAreListing ==
  ASSUME TInv, LevelInv
  PROVE  /\ published \in Nat
         /\ Listing(Names, published + SnapshotLevel)
         /\ \A f \in Names : 1 <= f.min /\ f.min <= f.max /\ f.max <= published
<1>1. published \in Nat
  BY DEF TInv, TypeOK
<1>2. ASSUME NEW f \in Names
      PROVE  /\ f \in FileName /\ 1 <= f.min /\ f.min <= f.max /\ f.max <= published
             /\ f.level <= SnapshotLevel
  BY TiersAssumption DEF TInv, NameInv, NameOK, LevelInv, SnapshotLevel
<1>3. ASSUME NEW f \in Names
      PROVE  f.max <= published + SnapshotLevel /\ f.level <= published + SnapshotLevel
  <2>1. f.max \in Nat /\ f.level \in Nat
    BY <1>2 DEF FileName
  <2> QED
    BY <1>1, <1>2, <2>1 DEF SnapshotLevel
<1> QED
  BY <1>1, <1>2, <1>3 DEF Listing

\* plan_restore, started at any instant, also between the deletes of one pass
\* or after any fault, finds a plan, the plan reaches the last published TXID,
\* and the planned files hold the pages of every TXID up to it, when no
\* deployment uses both the one-base compact and L0 retention.
THEOREM RestoresAreComplete ==
  ASSUME \A u \in Styles : ~({"compact", "l0_retention"} \subseteq u)
  PROVE  Spec => []RestoreIsComplete
<1>1. TInv /\ LevelInv /\ FilesHoldTheirRange => RestoreIsComplete
  <2> SUFFICES ASSUME TInv, LevelInv, FilesHoldTheirRange, published > 0
               PROVE  LET r == PlanRestore(Names) IN
                      /\ r.ok /\ Reached(r.plan, 0) = published
                      /\ \A t \in 1 .. published : \E f \in store :
                           t \in f.holds /\ \E i \in 1 .. Len(r.plan) : r.plan[i] = Name(f)
    BY DEF RestoreIsComplete
  <2> DEFINE r == PlanRestore(Names)
             b == published + SnapshotLevel
  <2>1. published \in Nat /\ b \in Nat
    BY NamesAreListing DEF SnapshotLevel
  <2>2. Listing(Names, b) /\ \A f \in Names : 1 <= f.min
    BY NamesAreListing
  <2> HIDE DEF b
  <2>3. \A t \in 1 .. published : \E n \in Names : Holds(n, t)
    <3> SUFFICES ASSUME NEW t \in 1 .. published PROVE \E n \in Names : Holds(n, t)
      OBVIOUS
    <3>1. PICK f \in store : Holds(f, t)
      BY RestorableHolds DEF Restorable
    <3>2. Name(f) \in Names /\ Holds(Name(f), t)
      BY <3>1 DEF Names, Name, Holds
    <3> QED
      BY <3>2
  <2>4. \E n \in Names : Holds(n, 1)
    BY <2>1, <2>3
  <2>5. r.ok /\ Greedy(r.plan, Names, 0) /\ r.plan # << >>
    BY <2>1, <2>2, <2>4, PlanRestoreIs
  <2> HIDE DEF r
  <2>6. Names \subseteq FileName
    BY <2>2 DEF Listing
  <2>7. published <= Reached(r.plan, 0)
    BY <2>1, <2>3, <2>5, <2>6, GreedyGoesOn
  <2>8. Reached(r.plan, 0) <= HeadOf(Names)
    BY <2>1, <2>2, <2>5, GreedyEnds
  <2>9. HeadOf(Names) = published
    BY HeadIsPublished
  <2>10. Reached(r.plan, 0) \in Nat
    BY <2>5, <2>6, GreedyReached
  <2>11. Reached(r.plan, 0) = published
    BY <2>1, <2>7, <2>8, <2>9, <2>10
  <2>12. ASSUME NEW t \in 1 .. published
         PROVE  \E f \in store :
                  t \in f.holds /\ \E i \in 1 .. Len(r.plan) : r.plan[i] = Name(f)
    <3>1. t \in 0 + 1 .. Reached(r.plan, 0)
      BY <2>11
    <3>2. PICK i \in 1 .. Len(r.plan) : Holds(r.plan[i], t)
      BY <2>5, <2>6, <3>1, GreedyCovers
    <3>3. r.plan[i] \in Names
      BY <2>5, <3>2 DEF Greedy
    <3>4. PICK f \in store : r.plan[i] = Name(f)
      BY <3>3 DEF Names
    <3>5. t \in f.min .. f.max
      BY <2>1, <2>6, <3>2, <3>3, <3>4 DEF Holds, Name, FileName
    <3> QED
      BY <3>2, <3>4, <3>5 DEF FilesHoldTheirRange
  <2> QED
    BY <2>5, <2>11, <2>12 DEF r
<1> QED
  BY <1>1, TiersLevels, FilesAreComplete, PTL
=============================================================================
