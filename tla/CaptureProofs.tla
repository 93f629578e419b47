--------------------------- MODULE CaptureProofs ---------------------------
(***************************************************************************)
(* What a sync captures is what was committed, for every number of pages,  *)
(* frames, generations, transactions and files, when a power loss takes    *)
(* back nothing that was captured (~LosesCaptured; with it the chain holds *)
(* commits the database has lost).                                         *)
(*                                                                         *)
(* The invariant CapInv has one part for each thing the argument needs.    *)
(* LogInv: the frames of the log carry one chain of checksums.  HistInv:   *)
(* from a commit to a later one the database changes by the newest frames  *)
(* in between.  PosInv, ReadInv: where the position and the sync in        *)
(* progress are.  BufInv: frames that were read one by one, from a file    *)
(* that changed meanwhile, are the log up to every commit that passes the  *)
(* checksums.  DueInv: what was committed when the sync began has been     *)
(* read as it is.  ChainInv: a file's pages lie within its size, and the   *)
(* files restore to the database at the position.                          *)
(*                                                                         *)
(* The order: numbers and sorted pages; one file; the chain; the log while *)
(* the application goes on, is folded or loses power; the syncer's steps;  *)
(* the theorems.                                                           *)
(***************************************************************************)
EXTENDS Capture, FiniteSetTheorems, SequenceTheorems, WellFoundedInduction, TLAPS

(***************************************************************************)
(* The inductive invariant.                                                *)
(***************************************************************************)
\* Page numbers a database may end in, and databases: all pages of a size.
Pgnos == Nat \ {0, LockPgno}
Dbs == UNION {[PagesOf(n) -> Nat] : n \in Pgnos}

\* Frames of the log.
FrameType == [pgno : Nat, commit : Nat, salt : Nat, data : Nat, sum : Seq(Seq(Nat))]

\* The frames of the log form one chain of checksums up to the open transaction,
\* and no commit lies beyond mx.
LogInv ==
  /\ wal \in [salt : Nat, frames : Seq(FrameType)]
  /\ gen \in Nat /\ mx \in Nat /\ top \in Nat /\ tx \in Nat
  /\ wal.salt <= gen /\ mx <= top /\ top <= Len(wal.frames)
  /\ wal.salt = 0 => wal.frames = << >>
  /\ \A i \in 1 .. top :
       /\ wal.frames[i].salt = wal.salt /\ wal.frames[i].pgno \in Pgnos
       /\ wal.frames[i].sum = wal_checksum(Seed(wal, wal.salt, i - 1), wal.frames[i])
  /\ \A i \in 1 .. Len(wal.frames) :
       is_commit(wal.frames[i]) =>
         /\ i <= mx
         /\ wal.frames[i].commit \in Pgnos
         /\ wal.frames[i].pgno \in PagesOf(wal.frames[i].commit)

\* Where the log may be read up to: its start and its commits.
Points == {0} \cup {i \in 1 .. mx : is_commit(wal.frames[i])}

\* Of the frames after o up to k: the newest of a page, and the pages.
Newest(fr, o, k, q) == Max({i \in o + 1 .. k : fr[i].pgno = q})
WrittenIn(fr, o, k) == {fr[i].pgno : i \in o + 1 .. k}

\* The database at a place of the log.
At(k) == hist[<<wal.salt, k>>]

\* The database b at k is a at o with the newest frames in between.
Follows(fr, o, k, a, b) ==
  \A q \in PagesOf(fr[k].commit) :
    IF q \in WrittenIn(fr, o, k) THEN b[q] = fr[Newest(fr, o, k, q)].data
    ELSE q \in DOMAIN a /\ b[q] = a[q]

\* From one commit to a later one the database changes by the newest frames
\* in between; the database file is the one at the log's start.
HistInv ==
  /\ live \in Dbs /\ main \in Dbs
  /\ \A at \in DOMAIN hist : hist[at] \in Dbs
  /\ mx \in Points
  /\ \A k \in Points : <<wal.salt, k>> \in DOMAIN hist
  /\ At(0) = main /\ At(mx) = live
  /\ \A k \in Points \ {0} : DOMAIN At(k) = PagesOf(wal.frames[k].commit)
  /\ \A o, k \in Points : o < k => Follows(wal.frames, o, k, At(o), At(k))

\* Where the position is.
Here == <<pos.salt, pos.offset>>

\* The position is a point of the log, or everything up to the last fold.
PosInv ==
  /\ pos \in [txid : Nat, offset : Nat, salt : Nat, toEnd : BOOLEAN]
  /\ pos.salt <= gen /\ (pos.salt = 0 => pos.offset = 0)
  /\ pos.txid = 0 => wal.salt # 0 /\ pos.salt = 0
  /\ pos.txid > 0 =>
       /\ Here \in DOMAIN hist
       /\ pos.salt = wal.salt => pos.offset \in Points
       /\ pos.salt # wal.salt => hist[Here] = main

\* What was read is the log; and it passes read_frame.
Matches(n) == \A j \in 1 .. n : rd.buf[j] = wal.frames[rd.offset + j]
AllRead(n) == \A j \in 1 .. n : read_frame(rd.salt, rd.seed, rd.buf, j)

\* What is read up to a commit, and passes the checksums, is the log.
BufInv ==
  rd.pc \in {"tail", "snapshot"} =>
    \A n \in 1 .. Len(rd.buf) :
      AllRead(n) /\ is_commit(rd.buf[n]) =>
        rd.salt = wal.salt /\ rd.offset + n <= mx /\ Matches(n)

\* Where a sync in progress started: at the position, or at the start of a log
\* whose earlier commits the database file or the chain has.
ReadInv ==
  /\ rd \in [pc : {"idle", "open", "seed", "tail", "snapshot"}, salt : Nat, offset : Nat,
             len : Nat, seed : Seq(Seq(Nat)), buf : Seq(FrameType), due : Nat \X Nat]
  /\ rd.salt <= gen /\ rd.due[1] <= gen /\ (rd.due[1] = 0 => rd.due[2] = 0)
  /\ rd.pc \in {"idle", "open", "seed"} => rd.buf = << >>
  /\ rd.pc \in {"idle", "open", "snapshot"} => rd.offset = 0
  /\ rd.pc \in {"open", "snapshot"} => wal.salt = 0 \/ wal.salt # pos.salt
  /\ rd.pc = "snapshot" => /\ <<rd.salt, 0>> \in DOMAIN hist /\ hist[<<rd.salt, 0>>] = main
                           /\ rd.salt = 0 => rd.buf = << >>
  /\ rd.pc \in {"seed", "tail"} =>
       /\ pos.txid > 0 /\ rd.salt # 0
       /\ rd.offset = IF pos.salt = rd.salt THEN pos.offset ELSE 0

\* What was due when the sync began, and is still in the log, has been read as
\* far as the file has been.
DueInv ==
  rd.due[2] # 0 /\ rd.due[1] = wal.salt =>
    /\ wal.salt # 0 /\ rd.due[2] \in Points
    /\ rd.pc \in {"seed", "tail", "snapshot"} => rd.salt = wal.salt
    /\ rd.pc \in {"tail", "snapshot"} =>
         /\ rd.seed = Seed(wal, rd.salt, rd.offset)
         /\ \A j \in 1 .. Len(rd.buf) :
              rd.offset + j <= rd.due[2] => rd.buf[j] = wal.frames[rd.offset + j]

\* Headers of files.
HeaderType ==
  [min : Nat, max : Nat, commit : Nat, wal_offset : Int, wal_size : Int, wal_salt : Nat]

\* A file: its pages lie within its size, and one that starts at TXID 1 has all.
FileOK(f) ==
  /\ f.header \in HeaderType /\ f.header.commit \in Pgnos
  /\ 1 <= f.header.min /\ f.header.min <= f.header.max
  /\ \E S \in SUBSET PagesOf(f.header.commit) : read_file(f) \in [S -> Nat]
  /\ is_snapshot(f.header) => DOMAIN read_file(f) = PagesOf(f.header.commit)

\* The pages of the database at a file.
SizeAt(ch, m) == PagesOf(ch[m].header.commit)

\* A page that a file lacks, the database had before: files grow it with its data.
ChainOK(ch) ==
  /\ \A m \in 1 .. Len(ch) : FileOK(ch[m])
  /\ Len(ch) > 0 => is_snapshot(ch[1].header)
  /\ \A m, n \in 1 .. Len(ch) : m < n => ch[m].header.max < ch[n].header.min
  /\ \A m \in 1 .. Len(ch) : m > 1 =>
       SizeAt(ch, m) \subseteq SizeAt(ch, m - 1) \cup DOMAIN read_file(ch[m])

\* The files restore to the database at the position.
ChainInv ==
  /\ chain \in Seq(Range(chain)) /\ ChainOK(chain)
  /\ chain = << >> <=> pos.txid = 0
  /\ \A m \in 1 .. Len(chain) : chain[m].header.max <= pos.txid
  /\ pos.txid > 0 => Image = hist[Here]
  /\ ~failed

\* The inductive invariant.
CapInv == LogInv /\ HistInv /\ PosInv /\ ReadInv /\ BufInv /\ DueInv /\ ChainInv

(***************************************************************************)
(* Numbers and sorting.                                                    *)
(***************************************************************************)
Less == {ss \in Nat \X Nat : ss[1] < ss[2]}

\* The order of the naturals is well-founded.
LEMMA LessWF == IsWellFoundedOn(Less, Nat)
BY NatLessThanWellFounded, Zenon DEF OpToRel, Less

\* A set of naturals has a least element.
LEMMA LeastOf ==
  ASSUME NEW T, T \subseteq Nat, T # {}
  PROVE  \E x \in T : \A y \in T : x <= y
<1>1. \E x \in T : \A y \in T : ~(<<y, x>> \in Less)
  BY LessWF, WFMin, Zenon
<1>2. PICK x \in T : \A y \in T : ~(<<y, x>> \in Less)
  BY <1>1, Zenon
<1>3. ASSUME NEW y \in T PROVE x <= y
  <2>1. x \in Nat /\ y \in Nat
    OBVIOUS
  <2>2. y < x => <<y, x>> \in Less
    BY <2>1 DEF Less
  <2>3. ~(y < x)
    BY <1>2, <2>2, Zenon
  <2> QED
    BY <2>1, <2>3
<1> QED
  BY <1>3

\* A bounded set of naturals has a largest element.
LEMMA GreatestOf ==
  ASSUME NEW T, T \subseteq Nat, T # {}, NEW b \in Nat, \A y \in T : y <= b
  PROVE  \E x \in T : \A y \in T : y <= x
<1> DEFINE D == {b - y : y \in T}
<1>1. \A y \in T : b - y \in Nat
  OBVIOUS
<1>2. D \subseteq Nat
  BY <1>1
<1>3. D # {}
  <2>1. PICK y \in T : TRUE
    OBVIOUS
  <2>2. b - y \in D
    OBVIOUS
  <2> QED
    BY <2>2
<1> HIDE DEF D
<1>4. PICK d \in D : \A e \in D : d <= e
  BY <1>2, <1>3, LeastOf
<1> USE DEF D
<1>5. PICK x \in T : d = b - x
  OBVIOUS
<1>6. ASSUME NEW y \in T PROVE y <= x
  <2>1. d <= b - y
    BY <1>4
  <2>2. x \in Nat /\ y \in Nat
    OBVIOUS
  <2> HIDE DEF D
  <2> QED
    BY <2>1, <2>2, <1>5
<1> QED
  BY <1>6

\* The largest of a set of numbers with a known largest member.
LEMMA MaxIs ==
  ASSUME NEW S, S \subseteq Nat, NEW m \in S, \A n \in S : n <= m
  PROVE  Max(S) = m
<1>1. \E x \in S : \A y \in S : x >= y
  BY Zenon, m \in S /\ \A y \in S : m >= y
<1>2. Max(S) \in S /\ \A y \in S : Max(S) >= y
  BY <1>1, Zenon DEF Max
<1>3. Max(S) \in Nat /\ m \in Nat /\ Max(S) >= m /\ Max(S) <= m
  BY <1>2
<1> QED
  BY <1>3

\* Of a bounded set of numbers there is one.
LEMMA MaxExists ==
  ASSUME NEW S, S \subseteq Nat, S # {}, NEW b \in Nat, \A n \in S : n <= b
  PROVE  Max(S) \in S /\ \A n \in S : n <= Max(S)
<1>1. PICK m \in S : \A n \in S : n <= m
  BY GreatestOf
<1>2. Max(S) = m
  BY <1>1, MaxIs
<1> QED
  BY <1>1, <1>2


\* Every number of a finite set has a place of its own.
LEMMA SortedIs ==
  ASSUME NEW S, S \subseteq Nat, IsFiniteSet(S)
  PROVE  /\ Cardinality(S) \in Nat
         /\ Sorted(S) \in Seq(S) /\ Len(Sorted(S)) = Cardinality(S)
         /\ \A i \in 1 .. Cardinality(S) : Sorted(S)[i] \in S
         /\ \A i, j \in 1 .. Cardinality(S) : i < j => Sorted(S)[i] < Sorted(S)[j]
         /\ \A n \in S : \E i \in 1 .. Cardinality(S) : Sorted(S)[i] = n
<1> DEFINE N == Cardinality(S)
           P(n) == {m \in S : m < n}
           C(n) == Cardinality(P(n))
           s == Sorted(S)
<1>1. N \in Nat
  BY FS_CardinalityType
<1>2. ASSUME NEW n \in S PROVE IsFiniteSet(P(n)) /\ C(n) \in Nat /\ C(n) <= N
                               /\ C(n) # N
  <2>1. P(n) \in SUBSET S /\ n \notin P(n)
    OBVIOUS
  <2>2. IsFiniteSet(P(n)) /\ C(n) <= N /\ (N = C(n) => S = P(n))
    BY <2>1, FS_Subset
  <2> QED
    BY <2>1, <2>2, FS_CardinalityType
<1>3. ASSUME NEW m \in S, NEW n \in S, m < n PROVE C(m) < C(n)
  <2>0. m \in Nat /\ n \in Nat /\ \A k \in S : k \in Nat
    OBVIOUS
  <2>1. m \notin P(m) /\ P(m) \cup {m} \in SUBSET P(n)
    <3>1. ASSUME NEW k \in P(m) PROVE k \in P(n)
      BY <1>3, <2>0
    <3>2. m \in P(n) /\ m \notin P(m)
      BY <1>3, <2>0
    <3> HIDE DEF P
    <3> QED
      BY <3>1, <3>2
  <2>2. IsFiniteSet(P(m)) /\ IsFiniteSet(P(n)) /\ C(m) \in Nat /\ C(n) \in Nat
    BY <1>2
  <2> HIDE DEF P
  <2>3. Cardinality(P(m) \cup {m}) = C(m) + 1
    BY <2>1, <2>2, FS_AddElement
  <2>4. Cardinality(P(m) \cup {m}) <= C(n)
    BY <2>1, <2>2, FS_Subset
  <2> QED
    BY <2>2, <2>3, <2>4
<1> HIDE DEF C, N
<1>4. \A n \in S : C(n) \in Nat /\ C(n) + 1 \in 1 .. N
  <2> SUFFICES ASSUME NEW n \in S PROVE C(n) \in Nat /\ C(n) + 1 \in 1 .. N
    OBVIOUS
  <2>1. C(n) \in Nat /\ C(n) <= N /\ C(n) # N
    BY <1>2
  <2> QED
    BY <1>1, <2>1
<1> DEFINE r == [n \in S |-> C(n) + 1]
<1>5. r \in Injection(S, 1 .. N)
  <2>1. r \in [S -> 1 .. N]
    BY <1>4
  <2>2. ASSUME NEW m \in S, NEW n \in S, r[m] = r[n] PROVE m = n
    <3>1. C(m) = C(n) /\ C(m) \in Nat
      BY <1>4, <2>2
    <3>2. ~(m < n) /\ ~(n < m)
      BY <1>3, <3>1
    <3> QED
      BY <3>2
  <2> QED
    BY <2>1, <2>2 DEF Injection, IsInjective
<1>6. IsFiniteSet(1 .. N) /\ Cardinality(1 .. N) = N
  BY <1>1, FS_Interval
<1>7. r \in Surjection(S, 1 .. N)
  <2>1. Cardinality(S) = Cardinality(1 .. N)
    BY <1>6 DEF N
  <2> HIDE DEF r
  <2> QED
    BY <1>5, <1>6, <2>1, FS_Injection
<1>8. ASSUME NEW i \in 1 .. N PROVE \E n \in S : C(n) = i - 1
  <2>1. PICK n \in S : r[n] = i
    BY <1>7 DEF Surjection
  <2>2. C(n) \in Nat /\ C(n) + 1 = i
    BY <1>4, <2>1
  <2> QED
    BY <1>1, <2>2
<1>9. s = [i \in 1 .. N |-> CHOOSE n \in S : C(n) = i - 1]
  BY DEF Sorted, C, N
<1> HIDE DEF s, r, P
<1>10. ASSUME NEW i \in 1 .. N PROVE s[i] \in S /\ C(s[i]) = i - 1
  <2>1. s[i] = CHOOSE n \in S : C(n) = i - 1
    BY <1>9
  <2>2. \E n \in S : C(n) = i - 1
    BY <1>8
  <2> QED
    BY <2>1, <2>2
<1>11. s \in Seq(S) /\ Len(s) = N
  <2>1. s \in [1 .. N -> S]
    BY <1>9, <1>10
  <2> QED
    BY <1>1, <2>1
<1>12. ASSUME NEW i \in 1 .. N, NEW j \in 1 .. N, i < j PROVE s[i] < s[j]
  <2>1. s[i] \in S /\ s[j] \in S /\ C(s[i]) = i - 1 /\ C(s[j]) = j - 1
    BY <1>10
  <2>2. C(s[i]) < C(s[j])
    BY <1>1, <1>12, <2>1
  <2>3. C(s[i]) \in Nat /\ C(s[j]) \in Nat
    BY <1>4, <2>1
  <2>4. s[i] # s[j]
    BY <2>2, <2>3
  <2>5. ~(s[j] < s[i])
    <3>1. s[j] < s[i] => C(s[j]) < C(s[i])
      BY <1>3, <2>1
    <3> QED
      BY <2>2, <2>3, <3>1
  <2>6. s[i] \in Nat /\ s[j] \in Nat
    BY <2>1
  <2> QED
    BY <2>4, <2>5, <2>6
<1>13. ASSUME NEW n \in S PROVE \E i \in 1 .. N : s[i] = n
  <2> DEFINE i == C(n) + 1
  <2>1. i \in 1 .. N /\ i - 1 = C(n) /\ C(n) \in Nat
    BY <1>4
  <2>2. s[i] \in S /\ C(s[i]) = C(n)
    BY <1>10, <2>1
  <2> HIDE DEF i
  <2>3. ~(n < s[i])
    <3>1. n < s[i] => C(n) < C(s[i])
      BY <1>3, <2>2
    <3> QED
      BY <2>1, <2>2, <3>1
  <2>4. ~(s[i] < n)
    <3>1. s[i] < n => C(s[i]) < C(n)
      BY <1>3, <2>2
    <3> QED
      BY <2>1, <2>2, <3>1
  <2>5. s[i] \in Nat /\ n \in Nat
    BY <2>2
  <2>6. s[i] = n
    BY <2>3, <2>4, <2>5
  <2> QED
    BY <2>1, <2>6
<1> QED
  BY <1>1, <1>10, <1>11, <1>12, <1>13 DEF N, s

(***************************************************************************)
(* Files.                                                                  *)
(***************************************************************************)
PageType == [pgno : Nat, data : Nat]

\* Pages in order of their numbers.
Ascends(pages) ==
  /\ pages \in Seq(PageType)
  /\ \A i, j \in 1 .. Len(pages) : i < j => pages[i].pgno < pages[j].pgno

\* The types that make up a list of pages in order.
LEMMA AscendsType ==
  ASSUME NEW pages, Ascends(pages)
  PROVE  /\ pages \in Seq(PageType) /\ Len(pages) \in Nat /\ DOMAIN pages = 1 .. Len(pages)
         /\ \A i \in 1 .. Len(pages) : pages[i].pgno \in Nat /\ pages[i].data \in Nat
<1>1. pages \in Seq(PageType)
  BY DEF Ascends
<1>2. Len(pages) \in Nat /\ DOMAIN pages = 1 .. Len(pages)
      /\ \A i \in 1 .. Len(pages) : pages[i] \in PageType
  BY <1>1
<1> QED
  BY <1>1, <1>2 DEF PageType

\* The pages of S with their data c, in order.
Lists(pages, c, S) ==
  /\ Ascends(pages)
  /\ Len(pages) = Len(Sorted(S))
  /\ \A i \in 1 .. Len(pages) :
       /\ pages[i].pgno \in S
       /\ pages[i].pgno = Sorted(S)[i]
       /\ pages[i].data = c[pages[i].pgno]
  /\ \A p \in S : \E i \in 1 .. Len(pages) : pages[i].pgno = p

\* The pages of a sync or a merge, as they are handed to the encoder.
LEMMA AscendingIs ==
  ASSUME NEW S, S \subseteq Nat, IsFiniteSet(S), NEW c \in [S -> Nat]
  PROVE  Lists(Ascending(c), c, S)
<1> DEFINE s == Sorted(S)
           N == Cardinality(S)
<1>1. /\ N \in Nat /\ Len(s) = N
      /\ \A i \in 1 .. N : s[i] \in S
      /\ \A i, j \in 1 .. N : i < j => s[i] < s[j]
      /\ \A n \in S : \E i \in 1 .. N : s[i] = n
  BY SortedIs
<1>2. Ascending(c) = [i \in 1 .. Len(s) |-> [pgno |-> s[i], data |-> c[s[i]]]]
  BY DEF Ascending
<1> HIDE DEF N, s
<1> DEFINE a == [i \in 1 .. N |-> [pgno |-> s[i], data |-> c[s[i]]]]
<1>3. Ascending(c) = a
  BY <1>1, <1>2
<1>4. \A i \in 1 .. N : a[i] = [pgno |-> s[i], data |-> c[s[i]]] /\ a[i] \in PageType
  BY <1>1 DEF PageType
<1>5. a \in Seq(PageType) /\ Len(a) = N
  <2>1. a \in [1 .. N -> PageType]
    BY <1>4
  <2> HIDE DEF a
  <2> QED
    BY <1>1, <2>1
<1> HIDE DEF a
<1>6. \A i, j \in 1 .. N : i < j => a[i].pgno < a[j].pgno
  <2>1. ASSUME NEW i \in 1 .. N PROVE a[i].pgno = s[i]
    <3>1. a[i] = [pgno |-> s[i], data |-> c[s[i]]]
      BY <1>4
    <3> QED
      BY <3>1
  <2> QED
    BY <1>1, <2>1
<1> QED
  BY <1>1, <1>3, <1>4, <1>5, <1>6 DEF Ascends, s, Lists

\* read_file finds in a file the pages it was encoded from.
LEMMA ReadsBack ==
  ASSUME NEW S, S \subseteq Nat, IsFiniteSet(S), NEW c \in [S -> Nat], NEW h
  PROVE  read_file(Encode(h, Ascending(c))) = c
<1> DEFINE pages == Ascending(c)
           N == Len(pages)
           f == Encode(h, pages)
<1>1. /\ Ascends(pages)
      /\ \A i \in 1 .. N : pages[i].pgno \in S /\ pages[i].data = c[pages[i].pgno]
      /\ \A p \in S : \E i \in 1 .. N : pages[i].pgno = p
  <2>1. Lists(pages, c, S)
    BY AscendingIs, Zenon
  <2> HIDE DEF pages
  <2> QED
    BY <2>1 DEF Lists
<1>2. f.pages = pages
  BY DEF Encode
<1> HIDE DEF pages, f
<1>3. pages \in Seq(PageType) /\ N \in Nat /\ DOMAIN pages = 1 .. N
      /\ \A i \in 1 .. N : pages[i].pgno \in Nat
  BY <1>1, AscendsType
<1>4. {e.pgno : e \in Range(f.pages)} = S
  <2> DEFINE T == {e.pgno : e \in Range(f.pages)}
  <2>1. ASSUME NEW p \in T PROVE p \in S
    BY <1>1, <1>2, <1>3 DEF Range
  <2>2. ASSUME NEW p \in S PROVE p \in T
    <3>1. PICK i \in 1 .. N : pages[i].pgno = p
      BY <1>1
    <3>2. pages[i] \in Range(f.pages)
      BY <1>2, <1>3 DEF Range
    <3> QED
      BY <3>1, <3>2
  <2> QED
    BY <2>1, <2>2
<1>5. ASSUME NEW p \in S PROVE (CHOOSE e \in Range(f.pages) : e.pgno = p).data = c[p]
  <2>1. PICK i \in 1 .. N : pages[i].pgno = p
    BY <1>1
  <2>2. pages[i] \in Range(f.pages)
    BY <1>2, <1>3 DEF Range
  <2> DEFINE e == CHOOSE e \in Range(f.pages) : e.pgno = p
  <2>3. e \in Range(f.pages) /\ e.pgno = p
    BY <2>1, <2>2
  <2>4. PICK j \in 1 .. N : e = pages[j]
    BY <1>2, <1>3, <2>3 DEF Range
  <2>5. e.data = c[e.pgno]
    BY <1>1, <2>4
  <2> QED
    BY <2>3, <2>5
<1>6. read_file(f) = c
  <2>1. read_file(f) = [p \in S |-> (CHOOSE e \in Range(f.pages) : e.pgno = p).data]
    BY <1>4 DEF read_file
  <2> QED
    BY <1>5, <2>1
<1> QED
  BY <1>6 DEF f, pages

\* The pages of a database whose last page is n.
LEMMA PagesAre ==
  ASSUME NEW n \in Pgnos
  PROVE  /\ n \in Nat /\ n \in PagesOf(n) /\ 1 \in PagesOf(n)
         /\ PagesOf(n) \subseteq Nat /\ PagesOf(n) \subseteq Pgnos
         /\ \A q : q \in PagesOf(n) <=> q \in Pgnos /\ q <= n
         /\ IsFiniteSet(PagesOf(n))
<1>1. n \in Nat /\ n # 0 /\ n # LockPgno
  BY DEF Pgnos
<1>2. IsFiniteSet(1 .. n)
  BY <1>1, FS_Interval
<1>3. PagesOf(n) \in SUBSET (1 .. n)
  BY DEF PagesOf
<1>4. IsFiniteSet(PagesOf(n))
  BY <1>2, <1>3, FS_Subset
<1> QED
  BY <1>1, <1>4, LockAssumption, CaptureAssumption DEF PagesOf, Pgnos

\* What a sync or a merge hands to the encoder.
Encodable(h, S) ==
  /\ h \in HeaderType /\ h.commit \in Pgnos /\ 1 <= h.min /\ h.min <= h.max
  /\ S \subseteq PagesOf(h.commit)
  /\ h.min = 1 => S = PagesOf(h.commit)

\* The types of what the encoder accepts.
LEMMA EncodableSet ==
  ASSUME NEW h, NEW S, Encodable(h, S)
  PROVE  S \subseteq Nat /\ IsFiniteSet(S) /\ h.min \in Nat /\ h.max \in Nat
<1>1. h.commit \in Pgnos /\ S \in SUBSET PagesOf(h.commit)
  BY DEF Encodable
<1>2. IsFiniteSet(PagesOf(h.commit)) /\ PagesOf(h.commit) \subseteq Nat
  BY <1>1, PagesAre
<1>3. IsFiniteSet(S)
  BY <1>1, <1>2, FS_Subset
<1> QED
  BY <1>1, <1>2, <1>3 DEF Encodable, HeaderType

\* encode_page accepts every page: they ascend within the size, and those of a
\* snapshot follow each other.
LEMMA AcceptsPages ==
  ASSUME NEW h, NEW S, Encodable(h, S), NEW c \in [S -> Nat]
  PROVE  Accepts(h, Ascending(c))
<1> DEFINE pages == Ascending(c)
           N == Len(pages)
           n == h.commit
<1>1. n \in Pgnos /\ S \subseteq PagesOf(n) /\ h.min \in Nat /\ h.max \in Nat
      /\ S \subseteq Nat /\ IsFiniteSet(S)
      /\ 1 <= h.min /\ h.min <= h.max /\ (h.min = 1 => S = PagesOf(n))
  BY EncodableSet DEF Encodable
<1>2. Lists(pages, c, S)
  BY <1>1, AscendingIs, Zenon
<1> HIDE DEF pages
<1>3. N \in Nat /\ \A i \in 1 .. N : pages[i].pgno \in Nat
  BY <1>2, AscendsType DEF Lists
<1>4. /\ \A i \in 1 .. N : pages[i].pgno \in S
      /\ \A i, j \in 1 .. N : i < j => pages[i].pgno < pages[j].pgno
      /\ \A p \in S : \E i \in 1 .. N : pages[i].pgno = p
  BY <1>2 DEF Lists, Ascends
<1>5. /\ n \in Nat /\ 1 \in PagesOf(n)
      /\ \A q : q \in PagesOf(n) <=> q \in Nat /\ q # 0 /\ q # LockPgno /\ q <= n
  BY <1>1, PagesAre DEF Pgnos
<1>6. LockPgno \in Nat
  BY LockAssumption
<1> HIDE DEF n, N
<1>7. \A i \in 1 .. N : pages[i].pgno # 0 /\ pages[i].pgno <= n /\ pages[i].pgno # LockPgno
  BY <1>1, <1>4, <1>5
<1>8. ASSUME h.min = 1, NEW i \in 1 .. N, i = 1 PROVE pages[i].pgno = 1
  <2>1. PICK k \in 1 .. N : pages[k].pgno = 1
    BY <1>1, <1>4, <1>5, <1>8
  <2>2. k # i => pages[i].pgno < pages[k].pgno
    BY <1>3, <1>4, <1>8
  <2> QED
    BY <1>3, <1>7, <2>1, <2>2
<1>9. ASSUME h.min = 1, NEW i \in 1 .. N, i # 1
      PROVE  pages[i].pgno = NextOfSnapshot(pages[i - 1].pgno)
  <2> DEFINE p == pages[i - 1].pgno
             q == pages[i].pgno
  <2>1. i - 1 \in 1 .. N /\ i - 1 < i
    BY <1>3, <1>9
  <2>2. p \in Nat /\ q \in Nat /\ p < q /\ p \in S /\ q \in S /\ p # 0 /\ q <= n /\ q # LockPgno
    BY <1>3, <1>4, <1>7, <2>1
  <2>3. ASSUME NEW x \in S, p < x, x < q PROVE FALSE
    <3>1. PICK k \in 1 .. N : pages[k].pgno = x
      BY <1>4
    <3>2. x \in Nat /\ k \in Nat /\ i \in Nat
      BY <1>1, <1>3
    <3>3. ~(k <= i - 1)
      <4>1. k = i - 1 => x = p
        BY <3>1
      <4>2. k < i - 1 => x < p
        BY <1>4, <2>1, <3>1
      <4> HIDE DEF p, q
      <4> QED
        BY <2>2, <2>3, <3>2, <4>1, <4>2
    <3>4. ~(i <= k)
      <4>1. k = i => x = q
        BY <3>1
      <4>2. i < k => q < x
        BY <1>4, <3>1
      <4> HIDE DEF p, q
      <4> QED
        BY <2>2, <2>3, <3>2, <4>1, <4>2
    <3> QED
      BY <3>2, <3>3, <3>4
  <2>4. S = PagesOf(n)
    BY <1>1, <1>9
  <2> HIDE DEF p, q
  <2>5. \A x \in Nat : x # 0 /\ x # LockPgno /\ x <= n => ~(p < x /\ x < q)
    BY <1>5, <2>3, <2>4
  <2>6. CASE p = LockPgno - 1
    <3>1. q # p + 1 /\ ~(p + 2 < q)
      BY <1>5, <1>6, <2>2, <2>5, <2>6
    <3> QED
      BY <1>6, <2>2, <2>6, <3>1 DEF NextOfSnapshot, p, q
  <2>7. CASE p # LockPgno - 1
    <3>1. ~(p + 1 < q)
      BY <1>5, <1>6, <2>2, <2>5, <2>7
    <3> QED
      BY <1>6, <2>2, <2>7, <3>1 DEF NextOfSnapshot, p, q
  <2> QED
    BY <2>6, <2>7
<1>10. ASSUME NEW i \in 1 .. N
       PROVE  AcceptsPage(h, IF i = 1 THEN 0 ELSE pages[i - 1].pgno, pages[i].pgno)
  <2> DEFINE prev == IF i = 1 THEN 0 ELSE pages[i - 1].pgno
  <2>1. CASE h.min = 1
    <3>1. pages[i].pgno = NextOfSnapshot(prev)
      <4>1. NextOfSnapshot(0) = 1
        BY DEF NextOfSnapshot
      <4> QED
        BY <1>8, <1>9, <2>1, <4>1
    <3> QED
      BY <1>7, <2>1, <3>1 DEF AcceptsPage, InOrder, is_snapshot, n
  <2>2. CASE h.min # 1
    <3>1. prev < pages[i].pgno
      <4>1. CASE i = 1
        BY <1>3, <1>7, <4>1
      <4>2. CASE i # 1
        <5>1. i - 1 \in 1 .. N /\ i - 1 < i
          BY <1>3, <4>2
        <5> QED
          BY <1>4, <4>2, <5>1
      <4> QED
        BY <4>1, <4>2
    <3>2. prev \in Nat
      <4>1. i # 1 => i - 1 \in 1 .. N
        BY <1>3
      <4> QED
        BY <1>3, <4>1
    <3> HIDE DEF prev
    <3>3. pages[i].pgno > prev
      BY <1>3, <3>1, <3>2
    <3> QED
      BY <1>7, <2>2, <3>3 DEF AcceptsPage, InOrder, is_snapshot, n, prev
  <2> QED
    BY <2>1, <2>2
<1>11. validate(h)
  BY <1>1 DEF validate
<1> QED
  BY <1>10, <1>11 DEF Accepts, N, pages

\* What the encoder writes is a file, and read_file returns what went in.
LEMMA EncodeOK ==
  ASSUME NEW h, NEW S, Encodable(h, S), NEW c \in [S -> Nat]
  PROVE  /\ FileOK(Encode(h, Ascending(c)))
         /\ read_file(Encode(h, Ascending(c))) = c
         /\ Encode(h, Ascending(c)).header = h
<1> DEFINE f == Encode(h, Ascending(c))
<1>1. f.header = h
  BY DEF Encode
<1>2. read_file(f) = c
  BY EncodableSet, ReadsBack
<1>3. S \in SUBSET PagesOf(h.commit) /\ DOMAIN c = S
  BY DEF Encodable
<1> HIDE DEF f
<1>4. FileOK(f)
  BY <1>1, <1>2, <1>3 DEF FileOK, Encodable, is_snapshot
<1> QED
  BY <1>1, <1>2, <1>4 DEF f

\* A file as the invariant has it.
LEMMA FileIs ==
  ASSUME NEW f, FileOK(f)
  PROVE  /\ Encodable(f.header, DOMAIN read_file(f))
         /\ read_file(f) \in [DOMAIN read_file(f) -> Nat]
         /\ DOMAIN read_file(f) \subseteq PagesOf(f.header.commit)
         /\ f.header.commit \in Pgnos
<1>1. PICK S \in SUBSET PagesOf(f.header.commit) : read_file(f) \in [S -> Nat]
  BY DEF FileOK
<1>2. DOMAIN read_file(f) = S
  BY <1>1
<1> QED
  BY <1>1, <1>2 DEF FileOK, Encodable, is_snapshot

(***************************************************************************)
(* Chains of files.                                                        *)
(***************************************************************************)
Has(ch, m, p) == p \in DOMAIN read_file(ch[m])

\* The newest file of the chain that has the page.
TopAt(ch, p, m) ==
  /\ m \in 1 .. Len(ch) /\ Has(ch, m, p)
  /\ \A k \in 1 .. Len(ch) : Has(ch, k, p) => k <= m

\* Of each page up to the last size the newest version.
MergeOf(ch, g) ==
  /\ DOMAIN g = {p \in PagesOf(ch[Len(ch)].header.commit) :
                   \E m \in 1 .. Len(ch) : Has(ch, m, p)}
  /\ g = [p \in DOMAIN g |-> g[p]]
  /\ \A p \in DOMAIN g :
       g[p] \in Nat /\ \E m \in 1 .. Len(ch) : TopAt(ch, p, m) /\ g[p] = read_file(ch[m])[p]

\* A page that some file has is newest in one of them.
LEMMA TopIs ==
  ASSUME NEW ch, Len(ch) \in Nat, NEW p, NEW m \in 1 .. Len(ch), Has(ch, m, p)
  PROVE  \E k \in 1 .. Len(ch) : TopAt(ch, p, k)
<1> DEFINE T == {k \in 1 .. Len(ch) : Has(ch, k, p)}
<1>1. T \subseteq Nat /\ T # {} /\ \A y \in T : y <= Len(ch)
  OBVIOUS
<1>2. PICK x \in T : \A y \in T : y <= x
  BY <1>1, GreatestOf
<1> QED
  BY <1>2 DEF TopAt

\* A page is newest in one file only.
LEMMA TopUnique ==
  ASSUME NEW ch, Len(ch) \in Nat, NEW p, NEW m, NEW k, TopAt(ch, p, m), TopAt(ch, p, k)
  PROVE  m = k
<1>1. m \in 1 .. Len(ch) /\ k \in 1 .. Len(ch) /\ m <= k /\ k <= m
  BY DEF TopAt
<1> QED
  BY <1>1

\* A merge has of each page the newest version within the last file's size.
LEMMA MergedIs ==
  ASSUME NEW R, NEW ch \in Seq(R), Len(ch) > 0, \A m \in 1 .. Len(ch) : FileOK(ch[m])
  PROVE  MergeOf(ch, MergedPages(ch))
<1> DEFINE g == MergedPages(ch)
           n == ch[Len(ch)].header.commit
           has(p) == {i \in DOMAIN ch : p \in DOMAIN read_file(ch[i])}
           pgnos == UNION {DOMAIN read_file(ch[i]) : i \in DOMAIN ch}
<1>1. Len(ch) \in Nat /\ DOMAIN ch = 1 .. Len(ch) /\ Len(ch) \in 1 .. Len(ch)
  OBVIOUS
<1>2. Last(ch) = ch[Len(ch)]
  BY DEF Last
<1>3. g = [p \in pgnos \cap (1 .. n) |-> read_file(ch[Max(has(p))])[p]]
  BY <1>2 DEF MergedPages
<1>4. FileOK(ch[Len(ch)])
  BY <1>1
<1>5. n \in Pgnos
  BY <1>4, FileIs
<1>6. ASSUME NEW m \in 1 .. Len(ch)
      PROVE  /\ read_file(ch[m]) \in [DOMAIN read_file(ch[m]) -> Nat]
             /\ DOMAIN read_file(ch[m]) \subseteq Pgnos
  <2>1. FileOK(ch[m])
    OBVIOUS
  <2>2. ch[m].header.commit \in Pgnos
        /\ DOMAIN read_file(ch[m]) \subseteq PagesOf(ch[m].header.commit)
        /\ read_file(ch[m]) \in [DOMAIN read_file(ch[m]) -> Nat]
    BY <2>1, FileIs
  <2>3. PagesOf(ch[m].header.commit) \subseteq Pgnos
    BY <2>2, PagesAre
  <2> QED
    BY <2>2, <2>3
<1>7. \A q : q \in PagesOf(n) <=> q \in Pgnos /\ q <= n
  BY <1>5, PagesAre
<1> HIDE DEF g, n, has, pgnos
<1>8. \A p : p \in pgnos <=> \E m \in 1 .. Len(ch) : Has(ch, m, p)
  BY <1>1 DEF pgnos, Has
<1>9. n \in Nat
  BY <1>5 DEF Pgnos
<1>10. ASSUME NEW p PROVE p \in pgnos \cap (1 .. n) <=>
         p \in PagesOf(n) /\ \E m \in 1 .. Len(ch) : Has(ch, m, p)
  <2>1. p \in pgnos => p \in Pgnos
    BY <1>6, <1>8 DEF Has
  <2>2. p \in Pgnos => (p \in 1 .. n <=> p <= n)
    BY <1>9 DEF Pgnos
  <2> QED
    BY <1>7, <1>8, <2>1, <2>2
<1>11. pgnos \cap (1 .. n) = {p \in PagesOf(n) : \E m \in 1 .. Len(ch) : Has(ch, m, p)}
  BY <1>10
<1>12. DOMAIN g = pgnos \cap (1 .. n) /\ g = [p \in DOMAIN g |-> g[p]]
  BY <1>3
<1>13. ASSUME NEW p \in DOMAIN g
       PROVE  g[p] \in Nat /\ \E m \in 1 .. Len(ch) : TopAt(ch, p, m) /\ g[p] = read_file(ch[m])[p]
  <2>1. PICK k \in 1 .. Len(ch) : Has(ch, k, p)
    BY <1>10, <1>12
  <2>2. PICK m \in 1 .. Len(ch) : TopAt(ch, p, m)
    BY <1>1, <2>1, TopIs
  <2>3. has(p) \subseteq Nat /\ m \in has(p) /\ \A i \in has(p) : i <= m
    BY <1>1, <2>2 DEF has, TopAt, Has
  <2>4. Max(has(p)) = m
    BY <2>3, MaxIs
  <2>5. g[p] = read_file(ch[m])[p]
    BY <1>3, <1>12, <2>4
  <2>6. p \in DOMAIN read_file(ch[m])
    BY <2>2 DEF TopAt, Has
  <2>7. g[p] \in Nat
    BY <1>6, <2>5, <2>6
  <2> QED
    BY <2>2, <2>5, <2>7
<1> QED
  BY <1>11, <1>12, <1>13 DEF MergeOf, g, n

\* A page of the database at n that no file after a brings was there at a.
LEMMA Covers ==
  ASSUME NEW ch, Len(ch) \in Nat, ChainOK(ch),
         NEW n \in 1 .. Len(ch), NEW a \in 1 .. n, NEW p \in SizeAt(ch, n),
         \A k \in 1 .. Len(ch) : a < k /\ k <= n => ~Has(ch, k, p)
  PROVE  p \in SizeAt(ch, a)
<1> DEFINE T == {k \in a .. n : p \in SizeAt(ch, k)}
<1>1. T \subseteq Nat /\ n \in T
  OBVIOUS
<1>2. PICK k \in T : \A y \in T : k <= y
  BY <1>1, LeastOf
<1>3. k \in 1 .. Len(ch) /\ a <= k /\ k <= n /\ p \in SizeAt(ch, k) /\ k \in Nat
  BY <1>2
<1>4. ASSUME a < k PROVE FALSE
  <2>1. k > 1 /\ ~Has(ch, k, p) /\ k - 1 \in a .. n
    BY <1>3, <1>4
  <2>2. SizeAt(ch, k) \subseteq SizeAt(ch, k - 1) \cup DOMAIN read_file(ch[k])
    BY <1>3, <2>1 DEF ChainOK
  <2>3. p \in SizeAt(ch, k - 1)
    BY <1>3, <2>1, <2>2 DEF Has
  <2>4. k - 1 \in T
    BY <2>1, <2>3
  <2>5. k <= k - 1
    BY <1>2, <2>4
  <2> QED
    BY <1>3, <2>5
<1> QED
  BY <1>3, <1>4

\* The first file is full: every page is in some file.
LEMMA Complete ==
  ASSUME NEW ch, Len(ch) \in Nat, ChainOK(ch), NEW n \in 1 .. Len(ch), NEW p \in SizeAt(ch, n)
  PROVE  \E m \in 1 .. n : Has(ch, m, p)
<1> SUFFICES ASSUME \A m \in 1 .. n : ~Has(ch, m, p) PROVE FALSE
  OBVIOUS
<1>1. 1 \in 1 .. n /\ 1 \in 1 .. Len(ch) /\ Len(ch) > 0
  OBVIOUS
<1>2. \A k \in 1 .. Len(ch) : 1 < k /\ k <= n => ~Has(ch, k, p)
  OBVIOUS
<1>3. p \in SizeAt(ch, 1)
  BY <1>1, <1>2, Covers
<1>4. FileOK(ch[1]) /\ is_snapshot(ch[1].header)
  BY <1>1 DEF ChainOK
<1>5. DOMAIN read_file(ch[1]) = SizeAt(ch, 1)
  BY <1>4 DEF FileOK, SizeAt
<1> QED
  BY <1>1, <1>3, <1>5 DEF Has

\* What a chain restores to: all pages of its last file's size.
LEMMA ImageIs ==
  ASSUME NEW R, NEW ch \in Seq(R), Len(ch) > 0, ChainOK(ch)
  PROVE  /\ MergeOf(ch, MergedPages(ch))
         /\ DOMAIN MergedPages(ch) = SizeAt(ch, Len(ch))
         /\ ch[Len(ch)].header.commit \in Pgnos
<1>1. Len(ch) \in Nat /\ Len(ch) \in 1 .. Len(ch) /\ \A m \in 1 .. Len(ch) : FileOK(ch[m])
  BY DEF ChainOK
<1>2. MergeOf(ch, MergedPages(ch))
  BY <1>1, MergedIs
<1>3. ASSUME NEW p \in SizeAt(ch, Len(ch)) PROVE \E m \in 1 .. Len(ch) : Has(ch, m, p)
  BY <1>1, Complete
<1>4. DOMAIN MergedPages(ch) = SizeAt(ch, Len(ch))
  BY <1>2, <1>3 DEF MergeOf, SizeAt
<1>5. ch[Len(ch)].header.commit \in Pgnos
  BY <1>1, FileIs
<1> QED
  BY <1>2, <1>4, <1>5

\* Two functions that hold the same version of each page.
LEMMA SameImage ==
  ASSUME NEW S, NEW g, NEW h, g = [p \in DOMAIN g |-> g[p]], h = [p \in DOMAIN h |-> h[p]],
         DOMAIN g = S, DOMAIN h = S, \A p \in S : g[p] = h[p]
  PROVE  g = h
OBVIOUS

\* A file f may follow the chain.
MayFollow(ch, f) ==
  /\ FileOK(f)
  /\ Len(ch) = 0 => is_snapshot(f.header)
  /\ \A m \in 1 .. Len(ch) : ch[m].header.max < f.header.min
  /\ Len(ch) > 0 =>
       PagesOf(f.header.commit) \subseteq SizeAt(ch, Len(ch)) \cup DOMAIN read_file(f)

\* A file laid over what the files before it restore to.
Overlay(f, old) ==
  [p \in PagesOf(f.header.commit) |->
     IF p \in DOMAIN read_file(f) THEN read_file(f)[p] ELSE old[p]]

\* Publishing a file: it is laid over what the chain restores to.
LEMMA AppendImage ==
  ASSUME NEW R, NEW ch \in Seq(R), ChainOK(ch), NEW f, MayFollow(ch, f)
  PROVE  /\ Append(ch, f) \in Seq(Range(Append(ch, f)))
         /\ Len(Append(ch, f)) > 0 /\ Append(ch, f) # << >>
         /\ ChainOK(Append(ch, f))
         /\ MergedPages(Append(ch, f)) = Overlay(f, MergedPages(ch))
<1> DEFINE N == Len(ch)
           new == Append(ch, f)
           T == R \cup {f}
<1>1. N \in Nat /\ new \in Seq(T) /\ Len(new) = N + 1 /\ new[N + 1] = f
      /\ \A m \in 1 .. N : new[m] = ch[m]
  OBVIOUS
<1> HIDE DEF new, N, T
<1>2. new \in Seq(Range(new)) /\ new # << >>
  <2>1. new \in [1 .. N + 1 -> Range(new)]
    BY <1>1 DEF Range
  <2> QED
    BY <1>1, <2>1
<1>3. FileOK(f)
  BY DEF MayFollow
<1>4. ChainOK(new)
  <2>1. ASSUME NEW m \in 1 .. N + 1 PROVE FileOK(new[m])
    <3>1. CASE m = N + 1
      BY <1>1, <1>3, <3>1
    <3>2. CASE m # N + 1
      <4>1. m \in 1 .. N
        BY <1>1, <3>2
      <4> QED
        BY <1>1, <4>1 DEF ChainOK, N
    <3> QED
      BY <3>1, <3>2
  <2>2. is_snapshot(new[1].header)
    <3>1. CASE N = 0
      BY <1>1, <3>1 DEF MayFollow, N
    <3>2. CASE N # 0
      <4>1. 1 \in 1 .. N /\ N > 0
        BY <1>1, <3>2
      <4> QED
        BY <1>1, <4>1 DEF ChainOK, N
    <3> QED
      BY <3>1, <3>2
  <2>3. ASSUME NEW m \in 1 .. N + 1, NEW n \in 1 .. N + 1, m < n
        PROVE  new[m].header.max < new[n].header.min
    <3>1. m \in 1 .. N /\ (n = N + 1 \/ n \in 1 .. N)
      BY <1>1, <2>3
    <3>2. new[m] = ch[m]
      BY <1>1, <3>1
    <3>3. CASE n = N + 1
      BY <1>1, <3>1, <3>2, <3>3 DEF MayFollow, N
    <3>4. CASE n \in 1 .. N
      BY <1>1, <2>3, <3>1, <3>2, <3>4 DEF ChainOK, N
    <3> QED
      BY <3>1, <3>3, <3>4
  <2>4. ASSUME NEW m \in 1 .. N + 1, m > 1
        PROVE  SizeAt(new, m) \subseteq SizeAt(new, m - 1) \cup DOMAIN read_file(new[m])
    <3>1. m - 1 \in 1 .. N /\ (m = N + 1 \/ m \in 1 .. N)
      BY <1>1, <2>4
    <3>2. new[m - 1] = ch[m - 1]
      BY <1>1, <3>1
    <3>3. CASE m = N + 1
      <4>1. m - 1 = N /\ N > 0 /\ new[m] = f
        BY <1>1, <2>4, <3>3
      <4> QED
        BY <3>2, <4>1 DEF MayFollow, N, SizeAt
    <3>4. CASE m \in 1 .. N
      BY <1>1, <2>4, <3>2, <3>4 DEF ChainOK, N, SizeAt
    <3> QED
      BY <3>1, <3>3, <3>4
  <2> QED
    BY <1>1, <2>1, <2>2, <2>3, <2>4 DEF ChainOK
<1> DEFINE g == MergedPages(new)
           o == Overlay(f, MergedPages(ch))
           n == f.header.commit
<1>5. Len(new) > 0
  BY <1>1
<1>6. MergeOf(new, g) /\ DOMAIN g = SizeAt(new, Len(new))
  BY <1>2, <1>4, <1>5, ImageIs
<1> HIDE DEF g
<1>7. DOMAIN g = PagesOf(n) /\ g = [p \in DOMAIN g |-> g[p]]
      /\ \A p \in PagesOf(n) : \E m \in 1 .. N + 1 : TopAt(new, p, m) /\ g[p] = read_file(new[m])[p]
  BY <1>1, <1>6 DEF SizeAt, MergeOf
<1>8. DOMAIN o = PagesOf(n) /\ o = [p \in DOMAIN o |-> o[p]]
  BY DEF Overlay
<1>9. \A p \in PagesOf(n) : o[p] = IF p \in DOMAIN read_file(f) THEN read_file(f)[p]
                                    ELSE MergedPages(ch)[p]
  BY DEF Overlay
<1>10. ASSUME NEW p \in PagesOf(n) PROVE g[p] = o[p]
  <2>1. PICK m \in 1 .. N + 1 : TopAt(new, p, m) /\ g[p] = read_file(new[m])[p]
    BY <1>7
  <2>2. Has(new, N + 1, p) <=> p \in DOMAIN read_file(f)
    BY <1>1 DEF Has
  <2>3. CASE p \in DOMAIN read_file(f)
    <3>1. m = N + 1
      BY <1>1, <2>1, <2>2, <2>3 DEF TopAt
    <3> QED
      BY <1>1, <1>9, <2>1, <2>3, <3>1
  <2>4. CASE p \notin DOMAIN read_file(f)
    <3>1. m # N + 1 /\ m \in 1 .. N
      BY <1>1, <2>1, <2>2, <2>4 DEF TopAt
    <3>2. N > 0 /\ p \in SizeAt(ch, N)
      BY <1>1, <2>4, <3>1 DEF MayFollow, N
    <3>3. MergeOf(ch, MergedPages(ch)) /\ DOMAIN MergedPages(ch) = SizeAt(ch, N)
      BY <3>2, ImageIs DEF N
    <3>4. PICK k \in 1 .. N : TopAt(ch, p, k) /\ MergedPages(ch)[p] = read_file(ch[k])[p]
      BY <3>2, <3>3 DEF MergeOf, N
    <3>5. TopAt(ch, p, m)
      <4>1. \A k2 \in 1 .. N : Has(new, k2, p) <=> Has(ch, k2, p)
        BY <1>1 DEF Has
      <4>2. \A k2 \in 1 .. N : k2 \in 1 .. Len(new)
        BY <1>1
      <4> QED
        BY <2>1, <3>1, <4>1, <4>2 DEF TopAt, N
    <3>6. k = m
      BY <1>1, <3>4, <3>5, TopUnique DEF N
    <3> QED
      BY <1>1, <1>9, <2>1, <2>4, <3>1, <3>4, <3>6
  <2> QED
    BY <2>3, <2>4
<1>11. g = o
  <2> HIDE DEF o
  <2> QED
    BY <1>7, <1>8, <1>10, SameImage
<1> QED
  BY <1>2, <1>4, <1>5, <1>11 DEF g, new

\* The chain new has one file M for the files i to j of ch.
Replaces(new, ch, i, j, M) ==
  /\ Len(new) = Len(ch) - (j - i)
  /\ \A m \in 1 .. Len(new) :
       new[m] = IF m < i THEN ch[m] ELSE IF m = i THEN M ELSE ch[m + (j - i)]

\* The chain after a merge has its file in the place of the inputs.
LEMMA ReplacesIs ==
  ASSUME NEW R, NEW ch \in Seq(R), NEW i \in 1 .. Len(ch), NEW j \in 1 .. Len(ch), i < j, NEW M
  PROVE  LET new == SubSeq(ch, 1, i - 1) \o << M >> \o SubSeq(ch, j + 1, Len(ch))
         IN  new \in Seq(Range(new)) /\ new # << >> /\ Replaces(new, ch, i, j, M)
<1> DEFINE N == Len(ch)
           a == SubSeq(ch, 1, i - 1)
           b == SubSeq(ch, j + 1, N)
           c == a \o << M >>
           new == c \o b
<1>1. N \in Nat /\ i \in Nat /\ j \in Nat /\ 1 <= i /\ i < j /\ j <= N
  OBVIOUS
<1>2. a \in Seq(R) /\ Len(a) = i - 1 /\ \A m \in 1 .. i - 1 : a[m] = ch[m]
  BY <1>1
<1>3. b \in Seq(R) /\ Len(b) = N - j /\ \A m \in 1 .. N - j : b[m] = ch[j + m]
  <2>1. CASE j = N
    BY <1>1, <2>1
  <2>2. CASE j < N
    BY <1>1, <2>2
  <2> QED
    BY <1>1, <2>1, <2>2
<1> DEFINE T == R \cup {M}
<1> HIDE DEF a, b
<1>4. a \in Seq(T) /\ b \in Seq(T) /\ << M >> \in Seq(T)
  <2>1. a \in [1 .. i - 1 -> T] /\ b \in [1 .. N - j -> T]
    BY <1>1, <1>2, <1>3
  <2> QED
    BY <1>1, <1>2, <1>3, <2>1
<1>5. c \in Seq(T) /\ Len(c) = i /\ c[i] = M /\ \A m \in 1 .. i - 1 : c[m] = ch[m]
  BY <1>1, <1>2, <1>4
<1> HIDE DEF c
<1>6. new \in Seq(T) /\ Len(new) = N - (j - i)
  <2> HIDE DEF T, N
  <2>0. c \in Seq(T) /\ b \in Seq(T)
    BY <1>4, <1>5
  <2>1. new \in Seq(T) /\ Len(new) = Len(c) + Len(b)
    BY <2>0, ConcatProperties, Zenon
  <2> HIDE DEF new
  <2> QED
    BY <1>1, <1>3, <1>5, <2>1
<1>7. \A m \in 1 .. Len(new) : new[m] = IF m <= i THEN c[m] ELSE b[m - i]
  BY <1>1, <1>3, <1>4, <1>5, <1>6
<1> HIDE DEF new
<1>8. Replaces(new, ch, i, j, M)
  <2>1. ASSUME NEW m \in 1 .. Len(new)
        PROVE new[m] = IF m < i THEN ch[m] ELSE IF m = i THEN M ELSE ch[m + (j - i)]
    <3>1. CASE m < i
      <4>1. m <= i /\ m \in 1 .. i - 1 /\ m # i
        BY <1>1, <1>6, <3>1
      <4> QED
        BY <1>5, <1>7, <3>1, <4>1
    <3>2. CASE m = i
      BY <1>1, <1>5, <1>7, <3>2
    <3>3. CASE m > i
      <4>1. m \in Nat /\ ~(m <= i) /\ ~(m < i) /\ m # i /\ m - i \in 1 .. N - j /\ j + (m - i) = m + (j - i)
        BY <1>1, <1>6, <3>3
      <4>2. new[m] = b[m - i]
        BY <1>7, <4>1
      <4>3. b[m - i] = ch[j + (m - i)]
        BY <1>3, <4>1
      <4> QED
        BY <4>1, <4>2, <4>3
    <3> QED
      BY <1>1, <1>6, <3>1, <3>2, <3>3
  <2> QED
    BY <1>6, <2>1 DEF Replaces
<1>9. new \in Seq(Range(new)) /\ new # << >>
  <2>1. Len(new) \in Nat /\ Len(new) > 0 /\ new \in [1 .. Len(new) -> Range(new)]
    BY <1>1, <1>6 DEF Range
  <2> QED
    BY <2>1
<1> QED
  BY <1>8, <1>9 DEF new, c, a, b

\* A file M that stands for the files i to j of the chain.
StandsFor(M, ch, i, j) ==
  /\ FileOK(M)
  /\ M.header.min = ch[i].header.min /\ M.header.max = ch[j].header.max
  /\ M.header.commit = ch[j].header.commit
  /\ \A p : p \in DOMAIN read_file(M) <=>
              p \in SizeAt(ch, j) /\ \E k \in i .. j : Has(ch, k, p)
  /\ \A p \in DOMAIN read_file(M) : \E k \in i .. j :
       /\ Has(ch, k, p) /\ \A l \in i .. j : Has(ch, l, p) => l <= k
       /\ read_file(M)[p] = read_file(ch[k])[p]

\* The numbers of a header.
LEMMA HeaderNumbers ==
  ASSUME NEW f, FileOK(f)
  PROVE  f.header.min \in Nat /\ f.header.max \in Nat /\ 1 <= f.header.min
         /\ f.header.min <= f.header.max /\ f.header.commit \in Nat
BY DEF FileOK, HeaderType

\* The files before i end before those after it begin.
LEMMA LaterMin ==
  ASSUME NEW ch, Len(ch) \in Nat, ChainOK(ch), NEW i \in 1 .. Len(ch), ch[i].header.min = 1
  PROVE  i = 1
<1> SUFFICES ASSUME i # 1 PROVE FALSE
  OBVIOUS
<1>1. 1 \in 1 .. Len(ch) /\ 1 < i
  OBVIOUS
<1>2. ch[1].header.max < ch[i].header.min /\ FileOK(ch[1])
  BY <1>1 DEF ChainOK
<1>3. ch[1].header.max \in Nat /\ 1 <= ch[1].header.max
  BY <1>2, HeaderNumbers
<1> QED
  BY <1>2, <1>3

\* merge_to_writer: the encoder accepts what it hands over.
LEMMA MergeStands ==
  ASSUME NEW R, NEW ch \in Seq(R), ChainOK(ch),
         NEW i \in 1 .. Len(ch), NEW j \in 1 .. Len(ch), i < j
  PROVE  LET inputs == SubSeq(ch, i, j)
             h == MergedHeader(inputs)
             pages == Ascending(MergedPages(inputs))
         IN  Accepts(h, pages) /\ StandsFor(Encode(h, pages), ch, i, j)
<1> DEFINE inputs == SubSeq(ch, i, j)
           N == Len(inputs)
           h == MergedHeader(inputs)
           g == MergedPages(inputs)
           pages == Ascending(g)
           M == Encode(h, pages)
<1>1. Len(ch) \in Nat /\ i \in Nat /\ j \in Nat /\ 1 <= i /\ i < j /\ j <= Len(ch)
  OBVIOUS
<1>2. inputs \in Seq(R) /\ N = j - i + 1 /\ \A m \in 1 .. N : inputs[m] = ch[m + i - 1]
  BY <1>1
<1> HIDE DEF inputs, N
<1>3. N \in Nat /\ N > 0 /\ \A m \in 1 .. N : m + i - 1 \in i .. j /\ m + i - 1 \in 1 .. Len(ch)
  BY <1>1, <1>2
<1>4. \A k \in i .. j : k - i + 1 \in 1 .. N /\ (k - i + 1) + i - 1 = k
  BY <1>1, <1>2
<1>5. \A m \in 1 .. N : FileOK(inputs[m])
  BY <1>2, <1>3 DEF ChainOK
<1>6. MergeOf(inputs, g)
  BY <1>2, <1>3, <1>5, MergedIs DEF N
<1>7. inputs[1] = ch[i] /\ inputs[N] = ch[j]
  <2>1. 1 \in 1 .. N /\ N \in 1 .. N /\ 1 + i - 1 = i /\ N + i - 1 = j
    BY <1>1, <1>2, <1>3
  <2> QED
    BY <1>2, <2>1
<1>8. Head(inputs) = ch[i] /\ Last(inputs) = ch[j]
  <2>1. Head(inputs) = inputs[1]
    BY <1>2, <1>3 DEF N
  <2> QED
    BY <1>7, <2>1 DEF Last, N
<1>9. h.min = ch[i].header.min /\ h.max = ch[j].header.max /\ h.commit = ch[j].header.commit
      /\ h = Header(h.min, h.max, h.commit, 0, 0, 0)
  BY <1>8 DEF MergedHeader, Header
<1>10. FileOK(ch[i]) /\ FileOK(ch[j]) /\ ch[i].header.max < ch[j].header.min
  BY <1>1 DEF ChainOK
<1>11. h \in HeaderType /\ 1 <= h.min /\ h.min <= h.max /\ h.commit \in Pgnos
  <2>1. h.min \in Nat /\ h.max \in Nat /\ h.commit \in Nat /\ 1 <= h.min /\ h.min <= h.max
    BY <1>9, <1>10, HeaderNumbers
  <2>2. h.commit \in Pgnos
    BY <1>9, <1>10, FileIs
  <2>3. h \in HeaderType
    BY <1>9, <2>1 DEF Header, HeaderType
  <2> QED
    BY <2>1, <2>2, <2>3
<1> HIDE DEF g, h
<1>12. \A k \in i .. j : \A p : Has(ch, k, p) <=> Has(inputs, k - i + 1, p)
  BY <1>2, <1>4 DEF Has
<1>13. \A p : p \in DOMAIN g <=> p \in SizeAt(ch, j) /\ \E k \in i .. j : Has(ch, k, p)
  <2>1. DOMAIN g = {p \in SizeAt(ch, j) : \E m \in 1 .. N : Has(inputs, m, p)}
    BY <1>6, <1>7 DEF MergeOf, SizeAt, N
  <2>2. \A m \in 1 .. N : \A p : Has(inputs, m, p) <=> Has(ch, m + i - 1, p)
    BY <1>2 DEF Has
  <2>3. ASSUME NEW p
        PROVE (\E m \in 1 .. N : Has(inputs, m, p)) <=> \E k \in i .. j : Has(ch, k, p)
    BY <1>3, <1>4, <1>12, <2>2
  <2> QED
    BY <2>1, <2>3
<1>14. Encodable(h, DOMAIN g)
  <2>1. DOMAIN g \subseteq PagesOf(h.commit)
    BY <1>9, <1>13 DEF SizeAt
  <2>2. ASSUME h.min = 1 PROVE DOMAIN g = PagesOf(h.commit)
    <3>1. i = 1
      BY <1>1, <1>9, <2>2, LaterMin
    <3>2. ASSUME NEW p \in SizeAt(ch, j) PROVE p \in DOMAIN g
      <4>1. \E m \in 1 .. j : Has(ch, m, p)
        BY <1>1, Complete
      <4> QED
        BY <1>13, <3>1, <4>1
    <3> QED
      BY <1>9, <2>1, <3>2 DEF SizeAt
  <2> QED
    BY <1>11, <2>1, <2>2 DEF Encodable
<1>15. g \in [DOMAIN g -> Nat]
  BY <1>6 DEF MergeOf
<1>16. Accepts(h, pages)
  BY <1>14, <1>15, AcceptsPages
<1>17. FileOK(M) /\ read_file(M) = g /\ M.header = h
  BY <1>14, <1>15, EncodeOK
<1> HIDE DEF M
<1>18. ASSUME NEW p \in DOMAIN g
       PROVE  \E k \in i .. j :
                /\ Has(ch, k, p) /\ \A l \in i .. j : Has(ch, l, p) => l <= k
                /\ g[p] = read_file(ch[k])[p]
  <2>1. PICK m \in 1 .. N : TopAt(inputs, p, m) /\ g[p] = read_file(inputs[m])[p]
    BY <1>6 DEF MergeOf, N
  <2> DEFINE k == m + i - 1
  <2>2. k \in i .. j /\ inputs[m] = ch[k] /\ m = k - i + 1
    BY <1>1, <1>2, <1>3
  <2> HIDE DEF k
  <2>3. Has(ch, k, p)
    BY <1>12, <2>1, <2>2 DEF TopAt
  <2>4. ASSUME NEW l \in i .. j, Has(ch, l, p) PROVE l <= k
    <3>1. Has(inputs, l - i + 1, p) /\ l - i + 1 \in 1 .. N
      BY <1>4, <1>12, <2>4
    <3>2. l - i + 1 <= m
      BY <2>1, <3>1 DEF TopAt, N
    <3> QED
      BY <1>1, <2>2, <3>2
  <2> QED
    BY <2>1, <2>2, <2>3, <2>4
<1>19. StandsFor(M, ch, i, j)
  BY <1>9, <1>13, <1>17, <1>18 DEF StandsFor
<1> QED
  BY <1>16, <1>19 DEF M, g, h, inputs

\* A merge keeps the order of the files and what each of them relies on.
LEMMA ReplaceOK ==
  ASSUME NEW R, NEW ch \in Seq(R), ChainOK(ch),
         NEW i \in 1 .. Len(ch), NEW j \in 1 .. Len(ch), i < j, NEW M, StandsFor(M, ch, i, j),
         NEW new, Replaces(new, ch, i, j, M)
  PROVE  ChainOK(new)
<1> DEFINE N == Len(new)
           d == j - i
<1>1. Len(ch) \in Nat /\ i \in Nat /\ j \in Nat /\ 1 <= i /\ i < j /\ j <= Len(ch)
      /\ d \in Nat /\ N = Len(ch) - d /\ N \in Nat
  BY DEF Replaces
<1>2. \A m \in 1 .. N : /\ m < i => new[m] = ch[m] /\ m \in 1 .. Len(ch)
                        /\ m = i => new[m] = M
                        /\ m > i => new[m] = ch[m + d] /\ m + d \in 1 .. Len(ch) /\ m + d > j
  BY <1>1 DEF Replaces
<1> HIDE DEF N
<1>3. /\ FileOK(M) /\ M.header.min = ch[i].header.min /\ M.header.max = ch[j].header.max
      /\ M.header.commit = ch[j].header.commit
  BY DEF StandsFor
<1>4. /\ \A m \in 1 .. Len(ch) : FileOK(ch[m])
      /\ Len(ch) > 0 => is_snapshot(ch[1].header)
      /\ \A m, n \in 1 .. Len(ch) : m < n => ch[m].header.max < ch[n].header.min
      /\ \A m \in 1 .. Len(ch) : m > 1 =>
           SizeAt(ch, m) \subseteq SizeAt(ch, m - 1) \cup DOMAIN read_file(ch[m])
  BY DEF ChainOK
<1>5. ASSUME NEW m \in 1 .. N PROVE FileOK(new[m])
  <2>1. m < i \/ m = i \/ m > i
    BY <1>1
  <2> QED
    BY <1>2, <1>3, <1>4, <2>1
<1>6. is_snapshot(new[1].header)
  <2>1. 1 \in 1 .. N /\ Len(ch) > 0
    BY <1>1
  <2>2. CASE i = 1
    BY <1>2, <1>3, <1>4, <2>1, <2>2 DEF is_snapshot
  <2>3. CASE i # 1
    <3>1. 1 < i
      BY <1>1, <2>3
    <3> QED
      BY <1>2, <1>4, <2>1, <3>1
  <2> QED
    BY <2>2, <2>3
<1>7. ASSUME NEW m \in 1 .. N, NEW n \in 1 .. N, m < n
      PROVE  new[m].header.max < new[n].header.min
  <2>0. m \in Nat /\ n \in Nat
    OBVIOUS
  <2>1. CASE n < i
    <3>1. m < i
      BY <1>1, <1>7, <2>0, <2>1
    <3>2. new[m] = ch[m] /\ new[n] = ch[n] /\ m \in 1 .. Len(ch) /\ n \in 1 .. Len(ch)
      BY <1>2, <2>1, <3>1
    <3> QED
      BY <1>4, <1>7, <3>2
  <2>2. CASE n = i
    BY <1>1, <1>2, <1>3, <1>4, <1>7, <2>2
  <2>3. CASE n > i /\ m < i
    <3>1. m < n + d
      BY <1>1, <1>7
    <3> QED
      BY <1>1, <1>2, <1>4, <2>3, <3>1
  <2>4. CASE n > i /\ m = i
    <3>1. n + d > j /\ n + d \in 1 .. Len(ch)
      BY <1>2, <2>4
    <3>2. new[m].header.max = ch[j].header.max /\ new[n] = ch[n + d]
      BY <1>2, <1>3, <2>4
    <3>3. ch[j].header.max < ch[n + d].header.min
      BY <1>1, <1>4, <3>1
    <3> QED
      BY <3>2, <3>3
  <2>5. CASE n > i /\ m > i
    <3>1. m + d < n + d
      BY <1>1, <1>7
    <3> QED
      BY <1>1, <1>2, <1>4, <2>5, <3>1
  <2> QED
    BY <1>1, <2>0, <2>1, <2>2, <2>3, <2>4, <2>5
<1>8. ASSUME NEW m \in 1 .. N, m > 1
      PROVE  SizeAt(new, m) \subseteq SizeAt(new, m - 1) \cup DOMAIN read_file(new[m])
  <2>1. m - 1 \in 1 .. N
    BY <1>1, <1>8
  <2>2. CASE m < i
    <3>1. m - 1 < i
      BY <1>1, <2>2
    <3> QED
      BY <1>2, <1>4, <1>8, <2>1, <2>2, <3>1 DEF SizeAt
  <2>3. CASE m = i
    <3>1. m - 1 < i /\ i - 1 \in 1 .. j
      BY <1>1, <2>3, <1>8
    <3>2. new[m - 1] = ch[i - 1] /\ new[m] = M
      BY <1>2, <2>1, <2>3, <3>1
    <3>3. ASSUME NEW p \in SizeAt(ch, j), p \notin DOMAIN read_file(M)
          PROVE  p \in SizeAt(ch, i - 1)
      <4>1. \A k \in i .. j : ~Has(ch, k, p)
        BY <3>3 DEF StandsFor
      <4>2. \A k \in 1 .. Len(ch) : i - 1 < k /\ k <= j => k \in i .. j
        BY <1>1
      <4>3. \A k \in 1 .. Len(ch) : i - 1 < k /\ k <= j => ~Has(ch, k, p)
        BY <4>1, <4>2
      <4> QED
        BY <1>1, <3>1, <4>3, Covers
    <3> QED
      BY <1>3, <2>3, <3>2, <3>3 DEF SizeAt
  <2>4. CASE m = i + 1
    <3>1. m - 1 = i /\ m > i /\ m + d = j + 1 /\ (m + d) - 1 = j /\ m + d > 1
      BY <1>1, <2>4
    <3>2. new[m - 1] = M /\ new[m] = ch[m + d] /\ m + d \in 1 .. Len(ch)
      BY <1>2, <2>1, <3>1
    <3>3. SizeAt(new, m - 1) = SizeAt(ch, j) /\ SizeAt(new, m) = SizeAt(ch, m + d)
      BY <1>3, <3>2 DEF SizeAt
    <3>4. SizeAt(ch, m + d) \subseteq SizeAt(ch, (m + d) - 1) \cup DOMAIN read_file(ch[m + d])
      BY <1>4, <3>1, <3>2
    <3> QED
      BY <3>1, <3>2, <3>3, <3>4
  <2>5. CASE m > i + 1
    <3>1. m - 1 > i /\ m > i /\ (m - 1) + d = (m + d) - 1 /\ m + d > 1
      BY <1>1, <2>5
    <3>2. new[m - 1] = ch[(m + d) - 1] /\ new[m] = ch[m + d] /\ m + d \in 1 .. Len(ch)
      BY <1>2, <2>1, <3>1
    <3>3. SizeAt(ch, m + d) \subseteq SizeAt(ch, (m + d) - 1) \cup DOMAIN read_file(ch[m + d])
      BY <1>4, <3>1, <3>2
    <3> QED
      BY <3>2, <3>3 DEF SizeAt
  <2> QED
    BY <1>1, <2>2, <2>3, <2>4, <2>5
<1> QED
  BY <1>5, <1>6, <1>7, <1>8 DEF ChainOK, N

\* Merging neighbours changes no page of what the chain restores to.
LEMMA ReplaceImage ==
  ASSUME NEW R, NEW ch \in Seq(R), ChainOK(ch),
         NEW i \in 1 .. Len(ch), NEW j \in 1 .. Len(ch), i < j, NEW M, StandsFor(M, ch, i, j),
         NEW new, new \in Seq(Range(new)), Replaces(new, ch, i, j, M)
  PROVE  MergedPages(new) = MergedPages(ch)
<1> DEFINE N == Len(new)
           L == Len(ch)
           d == j - i
           g == MergedPages(new)
           o == MergedPages(ch)
<1>1. L \in Nat /\ i \in Nat /\ j \in Nat /\ 1 <= i /\ i < j /\ j <= L
      /\ d \in Nat /\ N = L - d /\ N \in Nat /\ N > 0 /\ L > 0
  BY DEF Replaces
<1>2. \A m \in 1 .. N : /\ m < i => new[m] = ch[m] /\ m \in 1 .. L
                        /\ m = i => new[m] = M
                        /\ m > i => new[m] = ch[m + d] /\ m + d \in 1 .. L /\ m + d > j
  BY <1>1 DEF Replaces
<1>3. ChainOK(new)
  BY ReplaceOK
<1>4. MergeOf(new, g) /\ DOMAIN g = SizeAt(new, N)
  BY <1>1, <1>3, ImageIs
<1>5. MergeOf(ch, o) /\ DOMAIN o = SizeAt(ch, L)
  BY <1>1, ImageIs
<1>6. SizeAt(new, N) = SizeAt(ch, L)
  <2>1. N \in 1 .. N /\ N >= i
    BY <1>1
  <2>2. CASE N = i
    <3>1. j = L
      BY <1>1, <2>2
    <3> QED
      BY <1>2, <2>1, <2>2, <3>1 DEF SizeAt, StandsFor
  <2>3. CASE N > i
    <3>1. N + d = L
      BY <1>1
    <3> QED
      BY <1>2, <2>1, <2>3, <3>1 DEF SizeAt
  <2> QED
    BY <1>1, <2>1, <2>2, <2>3
<1> HIDE DEF N, L, g, o
<1>7. ASSUME NEW p \in SizeAt(ch, L) PROVE g[p] = o[p]
  <2>1. PICK m \in 1 .. L : TopAt(ch, p, m) /\ o[p] = read_file(ch[m])[p]
    BY <1>5 DEF MergeOf, L
  <2>2. PICK n \in 1 .. N : TopAt(new, p, n) /\ g[p] = read_file(new[n])[p]
    BY <1>4, <1>6 DEF MergeOf, N
  <2>3. /\ Has(ch, m, p) /\ \A k \in 1 .. L : Has(ch, k, p) => k <= m
        /\ Has(new, n, p) /\ \A k \in 1 .. N : Has(new, k, p) => k <= n
    BY <2>1, <2>2 DEF TopAt, L, N
  <2>4. \A k \in 1 .. N : /\ k < i => (Has(new, k, p) <=> Has(ch, k, p)) /\ k \in 1 .. L
                          /\ k = i => (Has(new, k, p) <=> p \in DOMAIN read_file(M))
                          /\ k > i => (Has(new, k, p) <=> Has(ch, k + d, p)) /\ k + d \in 1 .. L
    BY <1>2 DEF Has
  <2>5. p \in DOMAIN read_file(M) => \E k \in i .. j : Has(ch, k, p)
    BY DEF StandsFor
  <2>6. m \in Nat /\ n \in Nat /\ i \in 1 .. N
    BY <1>1
  <2>7. CASE m < i
    <3>1. m \in 1 .. N
      BY <1>1, <2>6, <2>7
    <3>2. Has(new, m, p)
      BY <2>3, <2>4, <2>7, <3>1
    <3>3. m <= n
      BY <2>3, <3>1, <3>2
    <3>4. ~(n > i)
      <4>1. n > i => n + d <= m
        BY <2>3, <2>4
      <4> QED
        BY <1>1, <2>6, <2>7, <4>1
    <3>5. n # i
      <4>1. \A k \in i .. j : k \in 1 .. L /\ m < k
        BY <1>1, <2>6, <2>7
      <4>2. \A k \in i .. j : ~Has(ch, k, p)
        BY <1>1, <2>3, <2>6, <4>1
      <4> QED
        BY <2>3, <2>4, <2>5, <4>2
    <3>6. n < i /\ n <= m
      BY <1>1, <2>3, <2>4, <2>6, <3>4, <3>5
    <3>7. n = m
      BY <2>6, <3>3, <3>6
    <3> QED
      BY <1>2, <2>1, <2>2, <3>6, <3>7
  <2>8. CASE m > j
    <3> DEFINE k == m - d
    <3>1. k \in 1 .. N /\ k > i /\ k + d = m
      BY <1>1, <2>6, <2>8
    <3> HIDE DEF k
    <3>2. Has(new, k, p)
      BY <2>3, <2>4, <3>1
    <3>3. k <= n /\ n > i
      BY <1>1, <2>3, <2>6, <3>1, <3>2
    <3>4. n + d <= m
      BY <2>3, <2>4, <3>3
    <3>5. n = k
      BY <1>1, <2>6, <3>1, <3>3, <3>4
    <3> QED
      BY <1>2, <2>1, <2>2, <3>1, <3>3, <3>5
  <2>9. CASE i <= m /\ m <= j
    <3>1. \A k \in 1 .. Len(ch) : j < k /\ k <= Len(ch) => ~Has(ch, k, p)
      BY <1>1, <2>3, <2>6, <2>9 DEF L
    <3>2. p \in SizeAt(ch, j)
      <4>1. L \in 1 .. Len(ch) /\ j \in 1 .. L
        BY <1>1 DEF L
      <4> QED
        BY <1>1, <3>1, <4>1, Covers DEF L
    <3>3. m \in i .. j
      BY <1>1, <2>6, <2>9
    <3>4. p \in DOMAIN read_file(M)
      BY <2>3, <3>2, <3>3 DEF StandsFor
    <3>5. PICK k \in i .. j : /\ Has(ch, k, p) /\ \A l \in i .. j : Has(ch, l, p) => l <= k
                              /\ read_file(M)[p] = read_file(ch[k])[p]
      BY <3>4 DEF StandsFor
    <3>6. k \in 1 .. L /\ k \in Nat
      BY <1>1
    <3>7. k = m
      <4>1. m <= k /\ k <= m
        BY <2>3, <3>3, <3>5, <3>6
      <4> QED
        BY <2>6, <3>6, <4>1
    <3>8. Has(new, i, p)
      BY <2>4, <2>6, <3>4
    <3>9. i <= n /\ ~(n > i)
      <4>1. i <= n
        BY <2>3, <2>6, <3>8
      <4>2. n > i => n + d <= m
        BY <2>3, <2>4
      <4> QED
        BY <1>1, <2>6, <2>9, <4>1, <4>2
    <3>10. n = i
      BY <1>1, <2>6, <3>9
    <3> QED
      BY <1>2, <2>1, <2>2, <2>6, <3>5, <3>7, <3>10
  <2> QED
    BY <1>1, <2>6, <2>7, <2>8, <2>9
<1>8. g = [p \in DOMAIN g |-> g[p]] /\ o = [p \in DOMAIN o |-> o[p]]
  BY <1>4, <1>5 DEF MergeOf
<1> QED
  BY <1>4, <1>5, <1>6, <1>7, <1>8, SameImage DEF g, o

(***************************************************************************)
(* The log.                                                                *)
(***************************************************************************)
\* A running checksum tells its predecessor and its frame.
LEMMA SumsDiffer ==
  ASSUME NEW s \in Seq(Seq(Nat)), NEW t \in Seq(Seq(Nat)),
         NEW a \in Seq(Nat), NEW b \in Seq(Nat), Append(s, a) = Append(t, b)
  PROVE  s = t /\ a = b
<1>1. Len(s) \in Nat /\ Len(t) \in Nat
  OBVIOUS
<1>2. Len(s) = Len(t)
  <2>1. Len(Append(s, a)) = Len(s) + 1 /\ Len(Append(t, b)) = Len(t) + 1
    OBVIOUS
  <2> QED
    BY <1>1, <2>1
<1>3. a = b
  <2>1. Append(s, a)[Len(s) + 1] = a /\ Append(t, b)[Len(t) + 1] = b
    OBVIOUS
  <2> QED
    BY <1>2, <2>1
<1>4. ASSUME NEW i \in 1 .. Len(s) PROVE s[i] = t[i]
  <2>1. Append(s, a)[i] = s[i] /\ Append(t, b)[i] = t[i]
    BY <1>2
  <2> QED
    BY <2>1
<1>5. s = t
  BY <1>1, <1>2, <1>4, SeqEqual
<1> QED
  BY <1>3, <1>5

\* The fields of a frame.
LEMMA FrameFields ==
  ASSUME NEW f \in FrameType
  PROVE  /\ f.pgno \in Nat /\ f.commit \in Nat /\ f.salt \in Nat /\ f.data \in Nat
         /\ f.sum \in Seq(Seq(Nat)) /\ <<f.pgno, f.commit, f.data>> \in Seq(Nat)
         /\ f = [pgno |-> f.pgno, commit |-> f.commit, salt |-> f.salt, data |-> f.data,
                 sum |-> f.sum]
<1>1. f.pgno \in Nat /\ f.commit \in Nat /\ f.salt \in Nat /\ f.data \in Nat
      /\ f.sum \in Seq(Seq(Nat))
      /\ f = [pgno |-> f.pgno, commit |-> f.commit, salt |-> f.salt, data |-> f.data,
                 sum |-> f.sum]
  BY DEF FrameType
<1>2. <<f.pgno, f.commit, f.data>> \in Seq(Nat)
  BY <1>1
<1> QED
  BY <1>1, <1>2

\* Two frames with the same salt and checksum are the same.
LEMMA SameFrame ==
  ASSUME NEW f \in FrameType, NEW g \in FrameType,
         NEW s \in Seq(Seq(Nat)), NEW t \in Seq(Seq(Nat)),
         f.sum = wal_checksum(s, f), g.sum = wal_checksum(t, g),
         f.sum = g.sum, f.salt = g.salt
  PROVE  f = g /\ s = t
<1> DEFINE a == <<f.pgno, f.commit, f.data>>
           b == <<g.pgno, g.commit, g.data>>
<1>1. a \in Seq(Nat) /\ b \in Seq(Nat)
  BY FrameFields
<1>2. Append(s, a) = Append(t, b)
  BY DEF wal_checksum
<1> HIDE DEF a, b
<1>3. \A x, y \in Seq(Nat) : Append(s, x) = Append(t, y) => s = t /\ x = y
  BY SumsDiffer, Zenon
<1>4. s = t /\ a = b
  BY <1>3, <1>1, <1>2, Zenon
<1>5. f.pgno = g.pgno /\ f.commit = g.commit /\ f.data = g.data
  BY <1>4 DEF a, b
<1> QED
  BY <1>4, <1>5, FrameFields

\* What LogInv says, in parts that the steps cite.
LEMMA LogFacts ==
  ASSUME LogInv
  PROVE  /\ wal.salt \in Nat /\ wal.frames \in Seq(FrameType) /\ Len(wal.frames) \in Nat
         /\ mx \in Nat /\ top \in Nat /\ gen \in Nat /\ tx \in Nat
         /\ mx <= top /\ top <= Len(wal.frames)
         /\ wal = [salt |-> wal.salt, frames |-> wal.frames]
         /\ \A i \in 1 .. Len(wal.frames) : wal.frames[i] \in FrameType
         /\ wal.salt = 0 => Len(wal.frames) = 0 /\ mx = 0 /\ top = 0
<1>1. wal.salt \in Nat /\ wal.frames \in Seq(FrameType)
      /\ mx \in Nat /\ top \in Nat /\ gen \in Nat /\ tx \in Nat
      /\ mx <= top /\ top <= Len(wal.frames)
      /\ wal = [salt |-> wal.salt, frames |-> wal.frames]
      /\ (wal.salt = 0 => wal.frames = << >>)
  BY DEF LogInv
<1>2. Len(wal.frames) \in Nat /\ \A i \in 1 .. Len(wal.frames) : wal.frames[i] \in FrameType
  BY <1>1
<1>3. wal.salt = 0 => Len(wal.frames) = 0
  BY <1>1
<1> QED
  BY <1>1, <1>2, <1>3

\* What a tail is verified from is a checksum.
LEMMA SeedType ==
  ASSUME LogInv, NEW s \in Nat, NEW o \in Nat, o <= Len(wal.frames)
  PROVE  Seed(wal, s, o) \in Seq(Seq(Nat))
<1>1. CASE o = 0
  <2>1. <<s>> \in Seq(Nat)
    OBVIOUS
  <2>2. << <<s>> >> \in Seq(Seq(Nat))
    BY <2>1
  <2> QED
    BY <1>1, <2>2 DEF Seed, HeaderSum
<1>2. CASE o # 0
  <2>1. Len(wal.frames) \in Nat /\ \A i \in 1 .. Len(wal.frames) : wal.frames[i] \in FrameType
    BY LogFacts
  <2>2. o \in 1 .. Len(wal.frames)
    BY <1>2, <2>1
  <2>3. wal.frames[o] \in FrameType
    BY <2>1, <2>2
  <2>4. wal.frames[o].sum \in Seq(Seq(Nat))
    BY <2>3, FrameFields
  <2> QED
    BY <1>2, <2>4 DEF Seed
<1> QED
  BY <1>1, <1>2

\* The start and the commits of the log.
LEMMA PointsAre ==
  ASSUME LogInv
  PROVE  /\ Points \subseteq Nat /\ 0 \in Points
         /\ \A k \in Points : k <= mx
         /\ \A k \in Points \ {0} : k \in 1 .. mx /\ is_commit(wal.frames[k])
         /\ \A k \in 1 .. Len(wal.frames) : is_commit(wal.frames[k]) => k \in Points
         /\ \A k \in Points \ {0} : /\ wal.frames[k].commit \in Pgnos
                                    /\ wal.frames[k].pgno \in PagesOf(wal.frames[k].commit)
<1>1. mx \in Nat /\ mx <= Len(wal.frames) /\ Len(wal.frames) \in Nat
  BY LogFacts
<1>2. \A i \in 1 .. Len(wal.frames) : is_commit(wal.frames[i]) =>
         /\ i <= mx
         /\ wal.frames[i].commit \in Pgnos
         /\ wal.frames[i].pgno \in PagesOf(wal.frames[i].commit)
  BY DEF LogInv
<1>3. \A k : k \in Points <=> k = 0 \/ (k \in 1 .. mx /\ is_commit(wal.frames[k]))
  BY DEF Points
<1>4. \A k \in 1 .. mx : k \in 1 .. Len(wal.frames)
  BY <1>1
<1> QED
  BY <1>1, <1>2, <1>3, <1>4

\* Which frames there are between two places, and the newest of a page.
LEMMA NewestIs ==
  ASSUME NEW fr, NEW o \in Nat, NEW k \in Nat, NEW q, q \in WrittenIn(fr, o, k)
  PROVE  /\ Newest(fr, o, k, q) \in o + 1 .. k
         /\ fr[Newest(fr, o, k, q)].pgno = q
         /\ \A i \in o + 1 .. k : fr[i].pgno = q => i <= Newest(fr, o, k, q)
<1> DEFINE T == {i \in o + 1 .. k : fr[i].pgno = q}
<1>1. T \subseteq Nat /\ \A i \in T : i <= k
  OBVIOUS
<1>2. T # {}
  BY DEF WrittenIn
<1>3. Max(T) \in T /\ \A i \in T : i <= Max(T)
  BY <1>1, <1>2, MaxExists
<1>4. Newest(fr, o, k, q) = Max(T)
  BY DEF Newest
<1> HIDE DEF T
<1> QED
  BY <1>3, <1>4 DEF T

\* The newest frame of a page is the one that no later one follows.
LEMMA NewestUnique ==
  ASSUME NEW fr, NEW o \in Nat, NEW k \in Nat, NEW q,
         NEW m \in o + 1 .. k, fr[m].pgno = q, \A i \in o + 1 .. k : fr[i].pgno = q => i <= m
  PROVE  q \in WrittenIn(fr, o, k) /\ Newest(fr, o, k, q) = m
<1>1. q \in WrittenIn(fr, o, k)
  BY DEF WrittenIn
<1> DEFINE n == Newest(fr, o, k, q)
<1>2. n \in o + 1 .. k /\ fr[n].pgno = q /\ m <= n
  BY <1>1, NewestIs
<1> HIDE DEF n
<1>3. n <= m
  BY <1>2
<1>4. n = m
  BY <1>2, <1>3
<1> QED
  BY <1>1, <1>4 DEF n

\* Follows looks only at the frames in between.
LEMMA FollowsSame ==
  ASSUME NEW fr, NEW f2, NEW o \in Nat, NEW k \in Nat, o < k, NEW a, NEW b,
         \A i \in o + 1 .. k : f2[i] = fr[i], Follows(fr, o, k, a, b)
  PROVE  Follows(f2, o, k, a, b)
<1>1. f2[k] = fr[k]
  OBVIOUS
<1>2. WrittenIn(f2, o, k) = WrittenIn(fr, o, k)
  BY DEF WrittenIn
<1>3. ASSUME NEW q \in WrittenIn(fr, o, k)
      PROVE  f2[Newest(f2, o, k, q)].data = fr[Newest(fr, o, k, q)].data
  <2>1. Newest(f2, o, k, q) = Newest(fr, o, k, q)
    <3>1. {i \in o + 1 .. k : f2[i].pgno = q} = {i \in o + 1 .. k : fr[i].pgno = q}
      OBVIOUS
    <3> QED
      BY <3>1 DEF Newest
  <2>2. Newest(fr, o, k, q) \in o + 1 .. k
    BY NewestIs
  <2> QED
    BY <2>1, <2>2
<1> QED
  BY <1>1, <1>2, <1>3 DEF Follows

\* The frames fr are those of the log with F after the open transaction's.
PutOf(fr, F) ==
  /\ fr \in Seq(FrameType) /\ Len(fr) \in Nat
  /\ top + 1 <= Len(fr) /\ Len(wal.frames) <= Len(fr) /\ fr[top + 1] = F
  /\ \A i \in 1 .. Len(fr) :
       i # top + 1 => i \in 1 .. Len(wal.frames) /\ fr[i] = wal.frames[i]

\* Put changes the one frame after the top.
LEMMA PutIs ==
  ASSUME LogInv, NEW F \in FrameType
  PROVE  PutOf(Put(top, F), F)
<1> DEFINE w == wal.frames
           fr == Put(top, F)
<1>1. w \in Seq(FrameType) /\ Len(w) \in Nat /\ top \in Nat /\ top <= Len(w)
  BY LogFacts
<1> HIDE DEF w
<1>2. CASE top < Len(w)
  <2>1. fr = [w EXCEPT ![top + 1] = F]
    BY <1>2 DEF Put, w
  <2>2. w \in [1 .. Len(w) -> FrameType] /\ top + 1 \in 1 .. Len(w)
    BY <1>1, <1>2
  <2>3. fr \in Seq(FrameType) /\ Len(fr) = Len(w)
    <3>1. fr \in [1 .. Len(w) -> FrameType]
      BY <2>1, <2>2
    <3> HIDE DEF fr
    <3> QED
      BY <1>1, <3>1
  <2>4. fr[top + 1] = F /\ \A i \in 1 .. Len(w) : i # top + 1 => fr[i] = w[i]
    BY <2>1, <2>2
  <2> HIDE DEF fr
  <2> QED
    BY <1>1, <2>2, <2>3, <2>4 DEF PutOf, fr, w
<1>3. CASE top = Len(w)
  <2>1. fr = Append(w, F)
    BY <1>1, <1>3 DEF Put, w
  <2>2. fr \in Seq(FrameType) /\ Len(fr) = Len(w) + 1 /\ fr[Len(w) + 1] = F
        /\ \A i \in 1 .. Len(w) : fr[i] = w[i]
    BY <1>1, <2>1
  <2> HIDE DEF fr
  <2>3. \A i \in 1 .. Len(fr) : i # top + 1 => i \in 1 .. Len(w) /\ fr[i] = w[i]
    BY <1>1, <1>3, <2>2
  <2> QED
    BY <1>1, <1>3, <2>2, <2>3 DEF PutOf, fr, w
<1> QED
  BY <1>1, <1>2, <1>3

\* A frame that SQLite adds.
Added(F, p, c) ==
  /\ F \in FrameType /\ F.pgno = p /\ F.commit = c /\ F.salt = wal.salt /\ F.data = tx
  /\ F.sum = wal_checksum(Seed(wal, wal.salt, top), F)

\* A frame of the open transaction continues the checksums.
LEMMA FrameIs ==
  ASSUME LogInv, NEW p \in Nat, NEW c \in Nat
  PROVE  Added(Frame(p, c, wal.salt, tx, Seed(wal, wal.salt, top)), p, c)
<1> DEFINE s == Seed(wal, wal.salt, top)
           F == Frame(p, c, wal.salt, tx, s)
           x == <<p, c, tx>>
<1>1. wal.salt \in Nat /\ tx \in Nat /\ top \in Nat /\ top <= Len(wal.frames)
  BY LogFacts
<1>2. s \in Seq(Seq(Nat))
  BY <1>1, SeedType
<1> HIDE DEF s
<1>3. x \in Seq(Nat)
  BY <1>1
<1>4. F = [pgno |-> p, commit |-> c, salt |-> wal.salt, data |-> tx, sum |-> Append(s, x)]
  BY DEF Frame, wal_checksum
<1> HIDE DEF x
<1>5. Append(s, x) \in Seq(Seq(Nat))
  BY <1>2, <1>3
<1>6. F \in FrameType /\ F.pgno = p /\ F.commit = c /\ F.salt = wal.salt /\ F.data = tx
      /\ F.sum = Append(s, x)
  BY <1>1, <1>4, <1>5 DEF FrameType
<1> HIDE DEF F
<1>7. F.sum = wal_checksum(s, F)
  BY <1>6 DEF wal_checksum, x
<1> QED
  BY <1>6, <1>7 DEF Added, F, s

\* The log grows by one frame F.
Grows(F) ==
  /\ wal'.salt = wal.salt /\ wal'.frames = Put(top, F)
  /\ wal' = [salt |-> wal'.salt, frames |-> wal'.frames]
  /\ wal.salt # 0 /\ top' = top + 1 /\ gen' = gen /\ tx' \in Nat

\* One more frame, with or without a commit, keeps the log well formed.
LEMMA GrowsLog ==
  ASSUME LogInv, NEW F, NEW p \in Pgnos, NEW c \in Nat, Added(F, p, c), Grows(F),
         \/ mx' = mx /\ c = 0
         \/ mx' = top + 1 /\ c \in Pgnos /\ p \in PagesOf(c)
  PROVE  LogInv'
<1> DEFINE fr == Put(top, F)
<1>0. F \in FrameType
  BY DEF Added
<1>1. PutOf(fr, F)
  BY <1>0, PutIs
<1> HIDE DEF fr
<1>2. wal.salt \in Nat /\ mx \in Nat /\ top \in Nat /\ gen \in Nat /\ tx \in Nat
      /\ mx <= top /\ top <= Len(wal.frames) /\ Len(wal.frames) \in Nat
  BY LogFacts
<1>3. wal'.salt = wal.salt /\ wal'.frames = fr /\ wal.salt # 0
      /\ wal' = [salt |-> wal.salt, frames |-> fr]
      /\ top' = top + 1 /\ gen' = gen /\ tx' \in Nat
  BY DEF Grows, fr
<1>4. fr \in Seq(FrameType) /\ Len(fr) \in Nat /\ top + 1 <= Len(fr) /\ fr[top + 1] = F
      /\ \A i \in 1 .. Len(fr) :
           i # top + 1 => i \in 1 .. Len(wal.frames) /\ fr[i] = wal.frames[i]
  BY <1>1 DEF PutOf
<1>5. F.pgno = p /\ F.commit = c /\ F.salt = wal.salt
      /\ F.sum = wal_checksum(Seed(wal, wal.salt, top), F)
  BY DEF Added
<1>6. ASSUME NEW o \in Nat, o <= top PROVE Seed(wal', wal.salt, o) = Seed(wal, wal.salt, o)
  <2>1. CASE o = 0
    BY <2>1 DEF Seed
  <2>2. CASE o # 0
    <3>1. o \in 1 .. Len(fr) /\ o # top + 1
      BY <1>2, <1>4, <1>6, <2>2
    <3> QED
      BY <1>3, <1>4, <2>2, <3>1 DEF Seed
  <2> QED
    BY <2>1, <2>2
<1>7. wal' \in [salt : Nat, frames : Seq(FrameType)]
  BY <1>2, <1>3, <1>4
<1>8. ASSUME NEW i \in 1 .. top + 1
      PROVE  /\ fr[i].salt = wal.salt /\ fr[i].pgno \in Pgnos
             /\ fr[i].sum = wal_checksum(Seed(wal', wal.salt, i - 1), fr[i])
  <2>1. i - 1 \in Nat /\ i - 1 <= top
    BY <1>2
  <2>2. Seed(wal', wal.salt, i - 1) = Seed(wal, wal.salt, i - 1)
    BY <1>6, <2>1
  <2>3. CASE i = top + 1
    <3>1. i - 1 = top
      BY <1>2, <2>3
    <3> QED
      BY <1>4, <1>5, <2>2, <2>3, <3>1
  <2>4. CASE i # top + 1
    <3>1. i \in 1 .. top /\ i \in 1 .. Len(fr)
      BY <1>2, <1>4, <2>4
    <3>2. fr[i] = wal.frames[i]
      BY <1>4, <2>4, <3>1
    <3>3. /\ wal.frames[i].salt = wal.salt /\ wal.frames[i].pgno \in Pgnos
          /\ wal.frames[i].sum = wal_checksum(Seed(wal, wal.salt, i - 1), wal.frames[i])
      BY <3>1 DEF LogInv
    <3> QED
      BY <2>2, <3>2, <3>3
  <2> QED
    BY <2>3, <2>4
<1>9. ASSUME NEW i \in 1 .. Len(fr), is_commit(fr[i])
      PROVE  i <= mx' /\ fr[i].commit \in Pgnos /\ fr[i].pgno \in PagesOf(fr[i].commit)
  <2>1. CASE i = top + 1
    <3>1. c # 0
      BY <1>4, <1>5, <1>9, <2>1 DEF is_commit
    <3> QED
      BY <1>2, <1>4, <1>5, <2>1, <3>1
  <2>2. CASE i # top + 1
    <3>1. i \in 1 .. Len(wal.frames) /\ fr[i] = wal.frames[i]
      BY <1>4, <2>2
    <3>2. i <= mx /\ fr[i].commit \in Pgnos /\ fr[i].pgno \in PagesOf(fr[i].commit)
      BY <1>9, <3>1 DEF LogInv
    <3>3. mx <= mx' /\ mx' \in Nat
      BY <1>2
    <3> QED
      BY <1>2, <3>1, <3>2, <3>3
  <2> QED
    BY <2>1, <2>2
<1>10. wal'.salt <= gen' /\ mx' <= top' /\ top' <= Len(wal'.frames) /\ mx' \in Nat
       /\ top' \in Nat /\ gen' \in Nat
  BY <1>2, <1>3, <1>4 DEF LogInv
<1> QED
  BY <1>3, <1>7, <1>8, <1>9, <1>10 DEF LogInv

(***************************************************************************)
(* The log goes on: what is committed stays, and everybody's view of it.   *)
(***************************************************************************)
GoesOn ==
  /\ wal'.salt = wal.salt /\ gen' = gen /\ mx' \in Nat /\ mx <= mx'
  /\ \A i \in 1 .. mx : wal'.frames[i] = wal.frames[i]
  /\ main' = main /\ UNCHANGED syncVars
  /\ \A s, o \in Nat : <<s, o>> \in DOMAIN hist /\ (s = wal.salt => o <= mx) =>
       <<s, o>> \in DOMAIN hist' /\ hist'[<<s, o>>] = hist[<<s, o>>]

\* Places that were commits stay commits.
LEMMA MorePoints ==
  ASSUME LogInv, GoesOn
  PROVE  \A k \in Points : k \in Points'
<1>1. mx \in Nat /\ mx' \in Nat /\ mx <= mx' /\ \A i \in 1 .. mx : wal'.frames[i] = wal.frames[i]
  BY LogFacts DEF GoesOn
<1> QED
  BY <1>1 DEF Points, is_commit

\* The types of the position.
LEMMA PosType ==
  ASSUME PosInv
  PROVE  pos.txid \in Nat /\ pos.offset \in Nat /\ pos.salt \in Nat
         /\ pos = [txid |-> pos.txid, offset |-> pos.offset, salt |-> pos.salt,
                   toEnd |-> pos.toEnd]
BY DEF PosInv

\* The types of the sync in progress.
LEMMA RdType ==
  ASSUME ReadInv
  PROVE  /\ rd.salt \in Nat /\ rd.offset \in Nat /\ rd.seed \in Seq(Seq(Nat)) /\ rd.len \in Nat
         /\ rd.buf \in Seq(FrameType) /\ Len(rd.buf) \in Nat
         /\ \A j \in 1 .. Len(rd.buf) : rd.buf[j] \in FrameType
         /\ rd.due[1] \in Nat /\ rd.due[2] \in Nat
         /\ rd.pc \in {"idle", "open", "seed", "tail", "snapshot"}
<1>1. rd.salt \in Nat /\ rd.offset \in Nat /\ rd.seed \in Seq(Seq(Nat)) /\ rd.len \in Nat
      /\ rd.buf \in Seq(FrameType) /\ rd.due \in Nat \X Nat
      /\ rd.pc \in {"idle", "open", "seed", "tail", "snapshot"}
  BY DEF ReadInv
<1>2. Len(rd.buf) \in Nat /\ \A j \in 1 .. Len(rd.buf) : rd.buf[j] \in FrameType
  BY <1>1
<1> QED
  BY <1>1, <1>2

\* The position, while the application goes on.
LEMMA GoesOnPos ==
  ASSUME LogInv, PosInv, GoesOn
  PROVE  PosInv'
<1>1. pos' = pos /\ wal'.salt = wal.salt /\ gen' = gen /\ main' = main
  BY DEF GoesOn, syncVars
<1>2. pos.txid \in Nat /\ pos.offset \in Nat /\ pos.salt \in Nat
  BY PosType
<1>3. ASSUME pos.txid > 0
      PROVE /\ Here \in DOMAIN hist'
            /\ pos.salt = wal.salt => pos.offset \in Points'
            /\ pos.salt # wal.salt => hist'[Here] = main
            /\ hist'[Here] = hist[Here]
  <2>1. /\ Here \in DOMAIN hist
        /\ pos.salt = wal.salt => pos.offset \in Points
        /\ pos.salt # wal.salt => hist[Here] = main
    BY <1>3 DEF PosInv
  <2>2. pos.salt = wal.salt => pos.offset <= mx /\ pos.offset \in Points'
    BY <2>1, PointsAre, MorePoints
  <2>3. Here \in DOMAIN hist' /\ hist'[Here] = hist[Here]
    BY <1>2, <2>1, <2>2 DEF GoesOn, Here
  <2> QED
    BY <2>1, <2>2, <2>3
<1>4. Here' = Here
  BY <1>1 DEF Here
<1> QED
  BY <1>1, <1>3, <1>4 DEF PosInv

\* The database at the position, while the application goes on.
LEMMA GoesOnHere ==
  ASSUME LogInv, PosInv, GoesOn, pos.txid > 0
  PROVE  hist'[Here] = hist[Here]
<1>1. pos.txid \in Nat /\ pos.offset \in Nat /\ pos.salt \in Nat
  BY PosType
<1>2. Here \in DOMAIN hist /\ (pos.salt = wal.salt => pos.offset \in Points)
  BY DEF PosInv
<1>3. pos.salt = wal.salt => pos.offset <= mx
  BY <1>2, PointsAre
<1> QED
  BY <1>1, <1>2, <1>3 DEF GoesOn, Here

\* The sync in progress, while the application goes on.
LEMMA GoesOnRead ==
  ASSUME LogInv, PosInv, ReadInv, GoesOn
  PROVE  ReadInv'
<1>1. pos' = pos /\ rd' = rd /\ wal'.salt = wal.salt /\ gen' = gen /\ main' = main
  BY DEF GoesOn, syncVars
<1>2. rd.salt \in Nat /\ mx \in Nat
  BY RdType, LogFacts
<1>3. ASSUME rd.pc = "snapshot"
      PROVE  <<rd.salt, 0>> \in DOMAIN hist' /\ hist'[<<rd.salt, 0>>] = main
  <2>1. <<rd.salt, 0>> \in DOMAIN hist /\ hist[<<rd.salt, 0>>] = main
    BY <1>3 DEF ReadInv
  <2> QED
    BY <1>2, <2>1 DEF GoesOn
<1> QED
  BY <1>1, <1>3 DEF ReadInv

\* What is read and passes stays the log, while the application goes on:
\* the frames up to a commit are not overwritten.
LEMMA GoesOnBuf ==
  ASSUME LogInv, ReadInv, BufInv, GoesOn
  PROVE  BufInv'
<1>1. rd' = rd /\ wal'.salt = wal.salt /\ mx \in Nat /\ mx' \in Nat /\ mx <= mx'
      /\ \A i \in 1 .. mx : wal'.frames[i] = wal.frames[i]
  BY LogFacts DEF GoesOn, syncVars
<1>2. rd.offset \in Nat /\ Len(rd.buf) \in Nat
  BY RdType
<1>3. ASSUME rd.pc \in {"tail", "snapshot"}, NEW n \in 1 .. Len(rd.buf), AllRead(n), is_commit(rd.buf[n])
      PROVE  rd.salt = wal.salt /\ rd.offset + n <= mx'
             /\ \A j \in 1 .. n : rd.buf[j] = wal'.frames[rd.offset + j]
  <2>1. rd.salt = wal.salt /\ rd.offset + n <= mx /\ Matches(n)
    BY <1>3 DEF BufInv
  <2>2. \A j \in 1 .. n : rd.offset + j \in 1 .. mx
    BY <1>1, <1>2, <2>1
  <2>3. rd.offset + n <= mx'
    BY <1>1, <1>2, <2>1
  <2> QED
    BY <1>1, <2>1, <2>2, <2>3 DEF Matches
<1>4. \A n : AllRead(n)' <=> AllRead(n)
  BY <1>1 DEF AllRead
<1> QED
  BY <1>1, <1>3, <1>4 DEF BufInv, Matches

\* What is due stays in the log, while the application goes on.
LEMMA GoesOnDue ==
  ASSUME LogInv, PosInv, ReadInv, DueInv, GoesOn
  PROVE  DueInv'
<1>1. rd' = rd /\ pos' = pos /\ wal'.salt = wal.salt /\ mx \in Nat /\ mx' \in Nat /\ mx <= mx'
      /\ \A i \in 1 .. mx : wal'.frames[i] = wal.frames[i]
  BY LogFacts DEF GoesOn, syncVars
<1>2. rd.offset \in Nat /\ Len(rd.buf) \in Nat /\ rd.due[2] \in Nat
  BY RdType
<1> SUFFICES ASSUME rd.due[2] # 0, rd.due[1] = wal.salt
             PROVE  /\ wal.salt # 0 /\ rd.due[2] \in Points'
                    /\ rd.pc \in {"seed", "tail", "snapshot"} => rd.salt = wal.salt
                    /\ rd.pc \in {"tail", "snapshot"} =>
                         /\ rd.seed = Seed(wal', rd.salt, rd.offset)
                         /\ \A j \in 1 .. Len(rd.buf) :
                              rd.offset + j <= rd.due[2] => rd.buf[j] = wal'.frames[rd.offset + j]
  BY <1>1 DEF DueInv
<1>3. /\ wal.salt # 0 /\ rd.due[2] \in Points
      /\ rd.pc \in {"seed", "tail", "snapshot"} => rd.salt = wal.salt
      /\ rd.pc \in {"tail", "snapshot"} =>
           /\ rd.seed = Seed(wal, rd.salt, rd.offset)
           /\ \A j \in 1 .. Len(rd.buf) :
                rd.offset + j <= rd.due[2] => rd.buf[j] = wal.frames[rd.offset + j]
  BY DEF DueInv
<1>4. rd.due[2] \in Points' /\ rd.due[2] <= mx
  BY <1>3, MorePoints, PointsAre
<1>5. ASSUME rd.pc \in {"tail", "snapshot"}
      PROVE  Seed(wal', rd.salt, rd.offset) = Seed(wal, rd.salt, rd.offset)
  <2>1. rd.offset = 0 \/ rd.offset \in Points
    <3>1. CASE rd.pc = "snapshot"
      BY <3>1 DEF ReadInv
    <3>2. CASE rd.pc = "tail"
      <4>1. pos.txid > 0 /\ rd.offset = IF pos.salt = rd.salt THEN pos.offset ELSE 0
        BY <3>2 DEF ReadInv
      <4> QED
        BY <1>3, <3>2, <4>1 DEF PosInv
    <3> QED
      BY <1>5, <3>1, <3>2
  <2>2. rd.offset <= mx
    BY <1>1, <2>1, PointsAre
  <2>3. rd.offset # 0 => rd.offset \in 1 .. mx
    BY <1>1, <1>2, <2>2
  <2> QED
    BY <1>1, <2>3 DEF Seed
<1>6. ASSUME rd.pc \in {"tail", "snapshot"}, NEW j \in 1 .. Len(rd.buf), rd.offset + j <= rd.due[2]
      PROVE  rd.buf[j] = wal'.frames[rd.offset + j]
  <2>1. rd.offset + j \in 1 .. mx
    BY <1>1, <1>2, <1>4, <1>6
  <2> QED
    BY <1>1, <1>3, <1>6, <2>1
<1> QED
  BY <1>3, <1>4, <1>5, <1>6

\* The files, while the application goes on.
LEMMA GoesOnChain ==
  ASSUME LogInv, PosInv, ChainInv, GoesOn
  PROVE  ChainInv'
<1>1. pos' = pos /\ chain' = chain /\ failed' = failed
  BY DEF GoesOn, syncVars
<1>2. pos.txid > 0 => hist'[Here] = hist[Here]
  BY GoesOnHere
<1>3. Here' = Here /\ Image' = Image
  BY <1>1 DEF Here, Image
<1> QED
  BY <1>1, <1>2, <1>3 DEF ChainInv

\* The parts about the syncer, while the application goes on.
LEMMA GoesOnKeeps ==
  ASSUME CapInv, GoesOn
  PROVE  PosInv' /\ ReadInv' /\ BufInv' /\ DueInv' /\ ChainInv'
BY GoesOnPos, GoesOnRead, GoesOnBuf, GoesOnDue, GoesOnChain DEF CapInv

(***************************************************************************)
(* Steps of the application.                                               *)
(***************************************************************************)
LEMMA HistSame ==
  ASSUME LogInv, HistInv, GoesOn, mx' = mx, hist' = hist, live' = live
  PROVE  HistInv'
<1>1. wal'.salt = wal.salt /\ main' = main /\ mx \in Nat
      /\ \A i \in 1 .. mx : wal'.frames[i] = wal.frames[i]
  BY LogFacts DEF GoesOn
<1>2. Points' = Points
  BY <1>1 DEF Points, is_commit
<1>3. \A k : At(k)' = At(k)
  BY <1>1 DEF At
<1>4. \A k \in Points \ {0} : wal'.frames[k] = wal.frames[k]
  BY <1>1, PointsAre
<1>5. ASSUME NEW o \in Points, NEW k \in Points, o < k
      PROVE  Follows(wal'.frames, o, k, At(o), At(k))
  <2>1. Follows(wal.frames, o, k, At(o), At(k))
    BY <1>5 DEF HistInv
  <2>2. o \in Nat /\ k \in Nat /\ k <= mx
    BY PointsAre
  <2>3. \A i \in o + 1 .. k : wal'.frames[i] = wal.frames[i]
    BY <1>1, <2>2
  <2> QED
    BY <1>5, <2>1, <2>2, <2>3, FollowsSame
<1>6. live \in Dbs /\ main \in Dbs /\ (\A at \in DOMAIN hist : hist[at] \in Dbs) /\ mx \in Points
      /\ (\A k \in Points : <<wal.salt, k>> \in DOMAIN hist) /\ At(0) = main /\ At(mx) = live
      /\ \A k \in Points \ {0} : DOMAIN At(k) = PagesOf(wal.frames[k].commit)
  BY DEF HistInv
<1>7. \A k \in Points \ {0} : DOMAIN At(k) = PagesOf(wal'.frames[k].commit)
  BY <1>4, <1>6
<1>8. (At(0) = main)' /\ (At(mx) = live)'
  BY <1>1, <1>3, <1>6
<1>9. \A o, k \in Points' : o < k => Follows(wal'.frames, o, k, At(o)', At(k)')
  BY <1>2, <1>3, <1>5
<1>10. \A k \in Points' \ {0} : DOMAIN At(k)' = PagesOf(wal'.frames[k].commit)
  BY <1>2, <1>3, <1>7
<1> QED
  BY <1>1, <1>2, <1>6, <1>8, <1>9, <1>10 DEF HistInv

\* The pages an application may write.
LEMMA AppPages ==
  /\ (1 .. MaxPgno) \ {LockPgno} \subseteq Pgnos
  /\ Sizes \subseteq Pgnos
BY CaptureAssumption DEF Pgnos, Sizes

\* A frame that a transaction spills.
LEMMA WriteKeeps ==
  ASSUME CapInv, AppWrite
  PROVE  LogInv' /\ HistInv' /\ GoesOn
<1>0. LogInv /\ HistInv
  BY DEF CapInv
<1>1. PICK p \in (1 .. MaxPgno) \ {LockPgno} :
        wal' = [wal EXCEPT !.frames = Put(top, Frame(p, 0, wal.salt, tx, Seed(wal, wal.salt, top)))]
  BY DEF AppWrite
<1> DEFINE F == Frame(p, 0, wal.salt, tx, Seed(wal, wal.salt, top))
<1>2. p \in Pgnos /\ p \in Nat
  BY AppPages DEF Pgnos
<1>3. Added(F, p, 0)
  BY <1>0, <1>2, FrameIs
<1> HIDE DEF F
<1>4. wal = [salt |-> wal.salt, frames |-> wal.frames] /\ top \in Nat /\ mx \in Nat /\ tx \in Nat
      /\ mx <= top /\ top <= Len(wal.frames) /\ Len(wal.frames) \in Nat
  BY <1>0, LogFacts
<1>5. wal'.salt = wal.salt /\ wal'.frames = Put(top, F)
      /\ wal' = [salt |-> wal'.salt, frames |-> wal'.frames]
  <2>1. wal' = [wal EXCEPT !.frames = Put(top, F)]
    BY <1>1 DEF F
  <2> QED
    BY <1>4, <2>1
<1>6. wal.salt # 0 /\ top' = top + 1 /\ gen' = gen /\ mx' = mx /\ live' = live /\ main' = main
      /\ tx' = tx /\ hist' = hist /\ UNCHANGED syncVars
  BY DEF AppWrite
<1>7. Grows(F)
  BY <1>4, <1>5, <1>6 DEF Grows
<1>8. LogInv'
  BY <1>0, <1>2, <1>3, <1>6, <1>7, GrowsLog
<1>9. PutOf(Put(top, F), F)
  BY <1>0, <1>3, PutIs DEF Added
<1>10. \A i \in 1 .. mx : wal'.frames[i] = wal.frames[i]
  <2>1. \A i \in 1 .. mx : i \in 1 .. Len(Put(top, F)) /\ i # top + 1
    BY <1>4, <1>9 DEF PutOf
  <2> QED
    BY <1>5, <1>9, <2>1 DEF PutOf
<1>11. GoesOn
  BY <1>4, <1>5, <1>6, <1>10 DEF GoesOn
<1>12. HistInv'
  BY <1>0, <1>6, <1>11, HistSame
<1> QED
  BY <1>8, <1>11, <1>12

\* A transaction is undone; its frames stay in the file.
LEMMA RollbackKeeps ==
  ASSUME CapInv, AppRollback
  PROVE  LogInv' /\ HistInv' /\ GoesOn
<1>0. LogInv /\ HistInv
  BY DEF CapInv
<1>1. top \in Nat /\ mx \in Nat /\ tx \in Nat /\ mx <= top /\ Len(wal.frames) \in Nat
      /\ top <= Len(wal.frames)
  BY <1>0, LogFacts
<1>2. top' = mx /\ tx' = tx + 1 /\ wal' = wal /\ gen' = gen /\ mx' = mx /\ live' = live
      /\ main' = main /\ hist' = hist /\ UNCHANGED syncVars
  BY DEF AppRollback
<1>3. GoesOn
  BY <1>1, <1>2 DEF GoesOn
<1>4. HistInv'
  BY <1>0, <1>2, <1>3, HistSame
<1>5. \A i \in 1 .. mx : i \in 1 .. top
  BY <1>1
<1>6. tx' \in Nat /\ mx <= Len(wal.frames)
  BY <1>1, <1>2
<1>7. LogInv'
  BY <1>0, <1>1, <1>2, <1>5, <1>6 DEF LogInv
<1> QED
  BY <1>3, <1>4, <1>7

\* An unreadable frame is no commit.
LEMMA UnreadableIs ==
  ASSUME NEW s \in Nat
  PROVE  Unreadable(s) \in FrameType /\ ~is_commit(Unreadable(s))
<1>1. << >> \in Seq(Seq(Nat))
  OBVIOUS
<1> QED
  BY <1>1 DEF Unreadable, FrameType, TornSum, is_commit

\* A torn frame at the end of the file.
LEMMA TearKeeps ==
  ASSUME CapInv, AppTear
  PROVE  LogInv' /\ HistInv' /\ GoesOn
<1>0. LogInv /\ HistInv
  BY DEF CapInv
<1> DEFINE U == Unreadable(wal.salt)
           w == wal.frames
           fr == Append(w, U)
<1>1. top \in Nat /\ mx \in Nat /\ mx <= top /\ Len(w) \in Nat /\ top <= Len(w)
      /\ w \in Seq(FrameType) /\ wal.salt \in Nat /\ wal = [salt |-> wal.salt, frames |-> w]
  BY <1>0, LogFacts
<1>2. wal' = [wal EXCEPT !.frames = fr] /\ wal.salt # 0 /\ mx = Len(w)
      /\ gen' = gen /\ mx' = mx /\ top' = top /\ live' = live
      /\ main' = main /\ tx' = tx /\ hist' = hist /\ UNCHANGED syncVars
  BY DEF AppTear
<1>3. U \in FrameType /\ ~is_commit(U)
  BY <1>1, UnreadableIs
<1> HIDE DEF U, w
<1>4. fr \in Seq(FrameType) /\ Len(fr) = Len(w) + 1 /\ fr[Len(w) + 1] = U
      /\ \A i \in 1 .. Len(w) : fr[i] = w[i]
  BY <1>1, <1>3
<1> HIDE DEF fr
<1>5. wal'.salt = wal.salt /\ wal'.frames = fr
      /\ wal' = [salt |-> wal.salt, frames |-> fr]
  BY <1>1, <1>2
<1>6. \A i \in 1 .. mx : wal'.frames[i] = wal.frames[i]
  BY <1>2, <1>4, <1>5 DEF w
<1>7. GoesOn
  BY <1>1, <1>2, <1>5, <1>6 DEF GoesOn
<1>8. HistInv'
  BY <1>0, <1>2, <1>7, HistSame
<1>9. LogInv'
  <2>1. top = mx /\ top <= Len(fr)
    BY <1>1, <1>2, <1>4
  <2>2. wal' \in [salt : Nat, frames : Seq(FrameType)]
    BY <1>1, <1>4, <1>5
  <2>3. ASSUME NEW i \in 1 .. top
        PROVE  /\ fr[i].salt = wal.salt /\ fr[i].pgno \in Pgnos
               /\ fr[i].sum = wal_checksum(Seed(wal', wal.salt, i - 1), fr[i])
    <3>1. fr[i] = wal.frames[i]
      BY <1>5, <1>6, <2>1
    <3>2. i - 1 = 0 \/ i - 1 \in 1 .. mx
      BY <1>1, <2>1
    <3>3. Seed(wal', wal.salt, i - 1) = Seed(wal, wal.salt, i - 1)
      BY <1>6, <3>2 DEF Seed
    <3>4. /\ wal.frames[i].salt = wal.salt /\ wal.frames[i].pgno \in Pgnos
          /\ wal.frames[i].sum = wal_checksum(Seed(wal, wal.salt, i - 1), wal.frames[i])
      BY <1>0 DEF LogInv
    <3> QED
      BY <3>1, <3>3, <3>4
  <2>4. ASSUME NEW i \in 1 .. Len(fr), is_commit(fr[i])
        PROVE  i <= mx /\ fr[i].commit \in Pgnos /\ fr[i].pgno \in PagesOf(fr[i].commit)
    <3>1. i # Len(w) + 1
      BY <1>3, <1>4, <2>4
    <3>2. i \in 1 .. Len(w)
      BY <1>1, <1>4, <3>1
    <3>3. fr[i] = wal.frames[i]
      BY <1>4, <3>2 DEF w
    <3> QED
      BY <1>0, <2>4, <3>2, <3>3 DEF LogInv, w
  <2>5. wal'.salt <= gen'
    BY <1>0, <1>2, <1>5 DEF LogInv
  <2>6. mx' \in Nat /\ top' \in Nat /\ gen' \in Nat /\ tx' \in Nat
    BY <1>0, <1>2, LogFacts
  <2> QED
    BY <1>1, <1>2, <1>5, <2>1, <2>2, <2>3, <2>4, <2>5, <2>6 DEF LogInv
<1> QED
  BY <1>7, <1>8, <1>9

\* A database has a size.
LEMMA DbIs ==
  ASSUME NEW d, d \in Dbs
  PROVE  \E n \in Pgnos : d \in [PagesOf(n) -> Nat]
BY DEF Dbs

\* A commit over the frames fr: the database at o with the newest frames up to
\* there, given that at the previous commit.
LEMMA FollowsOn ==
  ASSUME NEW fr, NEW o \in Nat, NEW m \in Nat, NEW k \in Nat, o <= m, m < k,
         NEW a, NEW b, NEW new,
         \A q \in PagesOf(fr[k].commit) :
           IF q \in WrittenIn(fr, m, k) THEN new[q] = fr[Newest(fr, m, k, q)].data
           ELSE q \in DOMAIN b /\ new[q] = b[q],
         o = m => a = b,
         o < m => DOMAIN b = PagesOf(fr[m].commit) /\ Follows(fr, o, m, a, b)
  PROVE  Follows(fr, o, k, a, new)
<1> SUFFICES ASSUME NEW q \in PagesOf(fr[k].commit)
             PROVE  IF q \in WrittenIn(fr, o, k) THEN new[q] = fr[Newest(fr, o, k, q)].data
                    ELSE q \in DOMAIN a /\ new[q] = a[q]
  BY DEF Follows
<1>1. CASE q \in WrittenIn(fr, m, k)
  <2> DEFINE n == Newest(fr, m, k, q)
  <2>1. n \in m + 1 .. k /\ fr[n].pgno = q /\ \A i \in m + 1 .. k : fr[i].pgno = q => i <= n
    BY <1>1, NewestIs
  <2>2. new[q] = fr[n].data
    BY <1>1
  <2> HIDE DEF n
  <2>3. n \in o + 1 .. k /\ \A i \in o + 1 .. k : fr[i].pgno = q => i <= n
    BY <2>1
  <2>4. q \in WrittenIn(fr, o, k) /\ Newest(fr, o, k, q) = n
    BY <2>1, <2>3, NewestUnique
  <2> QED
    BY <2>2, <2>4
<1>2. CASE q \notin WrittenIn(fr, m, k)
  <2>1. q \in DOMAIN b /\ new[q] = b[q]
    BY <1>2
  <2>2. \A i \in m + 1 .. k : fr[i].pgno # q
    BY <1>2 DEF WrittenIn
  <2>3. CASE o = m
    BY <1>2, <2>1, <2>3
  <2>4. CASE o < m
    <3>1. IF q \in WrittenIn(fr, o, m) THEN b[q] = fr[Newest(fr, o, m, q)].data
          ELSE q \in DOMAIN a /\ b[q] = a[q]
      BY <2>1, <2>4 DEF Follows
    <3>2. CASE q \in WrittenIn(fr, o, m)
      <4> DEFINE n == Newest(fr, o, m, q)
      <4>1. n \in o + 1 .. m /\ fr[n].pgno = q /\ \A i \in o + 1 .. m : fr[i].pgno = q => i <= n
        BY <3>2, NewestIs
      <4>2. new[q] = fr[n].data
        BY <2>1, <3>1, <3>2
      <4> HIDE DEF n
      <4>3. n \in o + 1 .. k
        BY <4>1
      <4>4. ASSUME NEW i \in o + 1 .. k, fr[i].pgno = q PROVE i <= n
        <5>1. i \in o + 1 .. m \/ i \in m + 1 .. k
          OBVIOUS
        <5> QED
          BY <2>2, <4>1, <4>4, <5>1
      <4>5. q \in WrittenIn(fr, o, k) /\ Newest(fr, o, k, q) = n
        <5>1. fr[n].pgno = q /\ \A i \in o + 1 .. k : fr[i].pgno = q => i <= n
          BY <4>1, <4>4
        <5> QED
          BY <4>3, <5>1, NewestUnique
      <4> QED
        BY <4>2, <4>5
    <3>3. CASE q \notin WrittenIn(fr, o, m)
      <4>1. \A i \in o + 1 .. m : fr[i].pgno # q
        BY <3>3 DEF WrittenIn
      <4>2. \A i \in o + 1 .. k : i \in o + 1 .. m \/ i \in m + 1 .. k
        OBVIOUS
      <4>3. q \notin WrittenIn(fr, o, k)
        BY <2>2, <4>1, <4>2 DEF WrittenIn
      <4> QED
        BY <2>1, <3>1, <3>3, <4>3
    <3> QED
      BY <3>2, <3>3
  <2> QED
    BY <2>3, <2>4
<1> QED
  BY <1>1, <1>2

\* A commit: the database it makes is the one before it with the newest frames
\* of the transaction.
LEMMA CommitKeeps ==
  ASSUME CapInv, AppCommit
  PROVE  LogInv' /\ HistInv' /\ GoesOn
<1>0. LogInv /\ HistInv
  BY DEF CapInv
<1>1. wal = [salt |-> wal.salt, frames |-> wal.frames] /\ top \in Nat /\ mx \in Nat /\ tx \in Nat
      /\ mx <= top /\ top <= Len(wal.frames) /\ Len(wal.frames) \in Nat /\ wal.salt \in Nat
      /\ \A i \in 1 .. Len(wal.frames) : wal.frames[i] \in FrameType
  BY <1>0, LogFacts
<1>2. PICK size \in Sizes, p \in 1 .. MaxPgno :
        LET frames == Put(top, Frame(p, size, wal.salt, tx, Seed(wal, wal.salt, top)))
            newest(q) == Max({i \in mx + 1 .. top + 1 : frames[i].pgno = q})
            new == [q \in PagesOf(size) |->
                      IF q \in Written \cup {p} THEN frames[newest(q)].data ELSE live[q]]
        IN  /\ p \in PagesOf(size)
            /\ PagesOf(size) \subseteq DOMAIN live \cup Written \cup {p}
            /\ wal' = [wal EXCEPT !.frames = frames]
            /\ live' = new
            /\ hist' = Recorded(hist, <<wal.salt, top + 1>>, new)
  BY DEF AppCommit
<1>3. PICK k \in Nat : k = top + 1
  BY <1>1
<1> DEFINE F == Frame(p, size, wal.salt, tx, Seed(wal, wal.salt, top))
           fr == Put(top, F)
           new == [q \in PagesOf(size) |->
                     IF q \in Written \cup {p} THEN fr[Newest(fr, mx, k, q)].data ELSE live[q]]
<1>4. /\ p \in PagesOf(size)
      /\ PagesOf(size) \subseteq DOMAIN live \cup Written \cup {p}
      /\ wal' = [wal EXCEPT !.frames = fr]
      /\ live' = new
      /\ hist' = Recorded(hist, <<wal.salt, k>>, new)
  BY <1>2, <1>3 DEF Newest
<1>5. size \in Pgnos /\ size \in Nat /\ p \in Pgnos /\ p \in Nat
  <2>1. size \in Pgnos
    BY AppPages
  <2>2. p \in Pgnos
    BY <1>4, <2>1, PagesAre
  <2> QED
    BY <2>1, <2>2 DEF Pgnos
<1>6. Added(F, p, size)
  BY <1>0, <1>5, FrameIs
<1>7. PutOf(fr, F)
  BY <1>0, <1>6, PutIs DEF Added
<1> HIDE DEF F, fr
<1>8. wal'.salt = wal.salt /\ wal'.frames = fr
      /\ wal' = [salt |-> wal'.salt, frames |-> wal'.frames]
  BY <1>1, <1>4
<1>9. wal.salt # 0 /\ top' = k /\ mx' = k /\ gen' = gen /\ tx' = tx + 1 /\ main' = main
      /\ UNCHANGED syncVars
  BY <1>3 DEF AppCommit
<1>10. Grows(F)
  BY <1>1, <1>8, <1>9, <1>3 DEF Grows, fr
<1>11. LogInv'
  BY <1>0, <1>4, <1>3, <1>5, <1>6, <1>9, <1>10, GrowsLog
<1>12. /\ \A i \in 1 .. top : i \in 1 .. Len(fr) /\ fr[i] = wal.frames[i]
       /\ fr[k] = F /\ k \in 1 .. Len(fr) /\ \A i \in 1 .. Len(fr) : fr[i] \in FrameType
  <2>1. \A i \in 1 .. top : i \in 1 .. Len(fr) /\ i # k
    BY <1>1, <1>7, <1>3 DEF PutOf
  <2> QED
    BY <1>1, <1>7, <1>3, <2>1 DEF PutOf
<1>13. \A i \in 1 .. mx : wal'.frames[i] = wal.frames[i]
  BY <1>1, <1>8, <1>12
<1> HIDE DEF new
<1>14. /\ DOMAIN hist' = DOMAIN hist \cup {<<wal.salt, k>>}
      /\ hist'[<<wal.salt, k>>] = new
      /\ \A at \in DOMAIN hist : at # <<wal.salt, k>> => hist'[at] = hist[at]
  <2> DEFINE at == <<wal.salt, k>>
             h == Recorded(hist, at, new)
  <2>1. /\ DOMAIN h = DOMAIN hist \cup {at} /\ h[at] = new
        /\ \A a \in DOMAIN hist : a # at => h[a] = hist[a]
    BY DEF Recorded
  <2>2. hist' = h
    BY <1>4
  <2> HIDE DEF h
  <2> QED
    BY <2>1, <2>2
<1>15. GoesOn
  <2>1. ASSUME NEW s \in Nat, NEW o \in Nat, <<s, o>> \in DOMAIN hist, s = wal.salt => o <= mx
        PROVE  <<s, o>> \in DOMAIN hist' /\ hist'[<<s, o>>] = hist[<<s, o>>]
    <3>1. <<s, o>> # <<wal.salt, k>>
      BY <1>1, <1>3, <2>1
    <3> QED
      BY <1>14, <2>1, <3>1
  <2> QED
    BY <1>1, <1>3, <1>8, <1>9, <1>13, <2>1 DEF GoesOn
<1>16. Points \subseteq Nat /\ (\A o \in Points : o <= mx) /\ 0 \in Points
       /\ \A o \in Points \ {0} : o \in 1 .. mx
  BY <1>0, PointsAre
<1>17. Points' = Points \cup {k}
  <2>1. ASSUME NEW i \in 1 .. k PROVE is_commit(fr[i]) <=> i = k \/ i \in Points
    <3>1. CASE i = k
      BY <1>5, <1>6, <1>12, <3>1 DEF is_commit, Added, Pgnos
    <3>2. CASE i # k
      <4>1. i \in 1 .. top /\ fr[i] = wal.frames[i] /\ i \in 1 .. Len(wal.frames)
        BY <1>1, <1>3, <1>12, <3>2
      <4>2. is_commit(wal.frames[i]) => i \in Points
        BY <1>0, <4>1, PointsAre
      <4>3. i \in Points /\ i # 0 => is_commit(wal.frames[i])
        BY <1>0, PointsAre
      <4> QED
        BY <3>2, <4>1, <4>2, <4>3
    <3> QED
      BY <3>1, <3>2
  <2>2. Points' = {0} \cup {i \in 1 .. k : is_commit(fr[i])}
    BY <1>8, <1>9 DEF Points
  <2>3. \A o \in Points : o = 0 \/ o \in 1 .. k
    BY <1>1, <1>3, <1>16
  <2>4. k \in 1 .. k
    BY <1>1, <1>3
  <2> QED
    BY <1>16, <2>1, <2>2, <2>3, <2>4
<1>18. \A o \in Points : At(o)' = At(o)
  <2>1. ASSUME NEW o \in Points PROVE hist'[<<wal.salt, o>>] = hist[<<wal.salt, o>>]
    <3>1. o \in Nat /\ o <= mx /\ <<wal.salt, o>> \in DOMAIN hist
      BY <1>0, <1>16 DEF HistInv
    <3> QED
      BY <1>1, <1>15, <3>1 DEF GoesOn
  <2> QED
    BY <1>8, <2>1 DEF At
<1>19. At(k)' = new /\ live' = new /\ DOMAIN new = PagesOf(size)
  <2>1. live' = new /\ DOMAIN new = PagesOf(size)
    BY <1>4 DEF new
  <2> QED
    BY <1>8, <1>14, <2>1 DEF At
<1>20. \A q \in PagesOf(fr[k].commit) :
         IF q \in WrittenIn(fr, mx, k) THEN new[q] = fr[Newest(fr, mx, k, q)].data
         ELSE q \in DOMAIN live /\ new[q] = live[q]
  <2>1. fr[k].commit = size /\ fr[k].pgno = p
    BY <1>6, <1>12 DEF Added
  <2>2. WrittenIn(fr, mx, k) = Written \cup {p}
    <3>1. \A q : q \in Written <=> \E i \in mx + 1 .. top : fr[i].pgno = q
      <4>1. \A i \in mx + 1 .. top : i \in 1 .. top
        BY <1>1
      <4> QED
        BY <1>12, <4>1 DEF Written
    <3>2. \A i : i \in mx + 1 .. k <=> i \in mx + 1 .. top \/ i = k
      BY <1>1, <1>3
    <3> QED
      BY <2>1, <3>1, <3>2 DEF WrittenIn
  <2>3. \A q \in PagesOf(size) : new[q] =
           IF q \in Written \cup {p} THEN fr[Newest(fr, mx, k, q)].data ELSE live[q]
    BY DEF new
  <2> QED
    BY <1>4, <2>1, <2>2, <2>3
<1>21. k \in Nat /\ mx < k
  BY <1>1, <1>3
<1>22. live \in Dbs /\ main \in Dbs /\ (\A at \in DOMAIN hist : hist[at] \in Dbs) /\ mx \in Points
       /\ (\A o \in Points : <<wal.salt, o>> \in DOMAIN hist) /\ At(0) = main /\ At(mx) = live
       /\ (\A o \in Points \ {0} : DOMAIN At(o) = PagesOf(wal.frames[o].commit))
       /\ (\A o, m \in Points : o < m => Follows(wal.frames, o, m, At(o), At(m)))
  BY <1>0 DEF HistInv
<1>23. ASSUME NEW o \in Points, NEW m \in Points, o < m
       PROVE  Follows(fr, o, m, At(o), At(m))
  <2>1. \A i \in o + 1 .. m : fr[i] = wal.frames[i]
    <3>1. \A i \in o + 1 .. m : i \in 1 .. top
      BY <1>1, <1>16
    <3> QED
      BY <1>12, <3>1
  <2>2. o \in Nat /\ m \in Nat /\ Follows(wal.frames, o, m, At(o), At(m))
    BY <1>16, <1>22, <1>23
  <2> QED
    BY <1>23, <2>1, <2>2, FollowsSame
<1>24. ASSUME NEW o \in Points PROVE Follows(fr, o, k, At(o), new)
  <2>1. o \in Nat /\ o <= mx
    BY <1>16
  <2>2. o = mx => At(o) = live
    BY <1>22
  <2>3. ASSUME o < mx
        PROVE  DOMAIN live = PagesOf(fr[mx].commit) /\ Follows(fr, o, mx, At(o), live)
    <3>1. mx # 0 /\ mx \in 1 .. top
      BY <1>1, <2>1, <2>3
    <3>2. fr[mx] = wal.frames[mx]
      BY <1>12, <3>1
    <3>3. Follows(fr, o, mx, At(o), At(mx))
      BY <1>22, <1>23, <2>3
    <3> QED
      BY <1>22, <3>1, <3>2, <3>3
  <2> QED
    BY <1>1, <1>20, <1>21, <2>1, <2>2, <2>3, FollowsOn
<1>25. new \in [PagesOf(size) -> Nat]
  <2>1. ASSUME NEW q \in PagesOf(size) PROVE new[q] \in Nat
    <3>1. fr[k].commit = size
      BY <1>6, <1>12 DEF Added
    <3>2. CASE q \in WrittenIn(fr, mx, k)
      <4>1. Newest(fr, mx, k, q) \in mx + 1 .. k
        BY <1>1, <1>21, <3>2, NewestIs
      <4>2. Newest(fr, mx, k, q) \in 1 .. Len(fr)
        BY <1>1, <1>7, <1>3, <4>1 DEF PutOf
      <4>3. fr[Newest(fr, mx, k, q)].data \in Nat
        BY <1>12, <4>2, FrameFields
      <4> QED
        BY <1>20, <3>1, <3>2, <4>3
    <3>3. CASE q \notin WrittenIn(fr, mx, k)
      <4>1. PICK n \in Pgnos : live \in [PagesOf(n) -> Nat]
        BY <1>22, DbIs
      <4> QED
        BY <1>20, <3>1, <3>3, <4>1
    <3> QED
      BY <3>2, <3>3
  <2>2. new = [q \in PagesOf(size) |-> new[q]]
    BY DEF new
  <2> QED
    BY <2>1, <2>2
<1>26. new \in Dbs
  BY <1>5, <1>25 DEF Dbs
<1>27. HistInv'
  <2>1. live' \in Dbs /\ main' \in Dbs /\ \A at \in DOMAIN hist' : hist'[at] \in Dbs
    <3>1. ASSUME NEW at \in DOMAIN hist' PROVE hist'[at] \in Dbs
      <4>1. at \in DOMAIN hist \/ at = <<wal.salt, k>>
        BY <1>14
      <4>2. CASE at = <<wal.salt, k>>
        BY <1>14, <1>26, <4>2
      <4>3. CASE at # <<wal.salt, k>>
        BY <1>14, <1>22, <4>1, <4>3
      <4> QED
        BY <4>2, <4>3
    <3> QED
      BY <1>9, <1>19, <1>22, <1>26, <3>1
  <2>2. mx' \in Points' /\ \A o \in Points' : <<wal'.salt, o>> \in DOMAIN hist'
    BY <1>8, <1>9, <1>17, <1>22, <1>14
  <2>3. (At(0) = main)' /\ (At(mx) = live)'
    <3>1. At(0)' = main
      BY <1>16, <1>18, <1>22
    <3>2. hist'[<<wal'.salt, mx'>>] = live'
      BY <1>8, <1>9, <1>19, <1>14
    <3> QED
      BY <1>9, <3>1, <3>2 DEF At
  <2>4. ASSUME NEW o \in Points' \ {0} PROVE DOMAIN At(o)' = PagesOf(wal'.frames[o].commit)
    <3>1. CASE o = k
      BY <1>6, <1>8, <1>12, <1>19, <3>1 DEF Added
    <3>2. CASE o # k
      <4>1. o \in Points /\ o \in 1 .. mx
        BY <1>16, <1>17, <3>2
      <4> QED
        BY <1>13, <1>18, <1>22, <4>1
    <3> QED
      BY <3>1, <3>2
  <2>5. ASSUME NEW o \in Points', NEW m \in Points', o < m
        PROVE  Follows(fr, o, m, At(o)', At(m)')
    <3>1. o \in Points
      <4>1. o # k
        <5>1. m \in Nat /\ m <= k
          BY <1>1, <1>16, <1>17, <1>21
        <5> QED
          BY <1>21, <2>5, <5>1
      <4> QED
        BY <1>17, <4>1
    <3>2. CASE m = k
      BY <1>18, <1>19, <1>24, <3>1, <3>2
    <3>3. CASE m # k
      BY <1>17, <1>18, <1>23, <2>5, <3>1, <3>3
    <3> QED
      BY <3>2, <3>3
  <2> QED
    BY <1>8, <2>1, <2>2, <2>3, <2>4, <2>5 DEF HistInv
<1> QED
  BY <1>11, <1>15, <1>27

\* A log may be folded when its commits are captured: the position is at the
\* live database, and nothing that a reader holds is still to be published.
Foldable == wal.salt = 0 \/ Captured

\* What folding relies on.
FoldedRight ==
  /\ pos.txid > 0 => Here \in DOMAIN hist /\ hist[Here] = live
  /\ rd.pc = "snapshot" => main = live
  /\ rd.pc \in {"tail", "snapshot"} =>
       \A n \in 1 .. Len(rd.buf) : ~(AllRead(n) /\ is_commit(rd.buf[n]))

\* When the log may be folded, everything is captured, and no commit is left in
\* what a sync has read.
LEMMA FoldFacts ==
  ASSUME CapInv, Foldable
  PROVE  FoldedRight
<1>0. LogInv /\ HistInv /\ PosInv /\ ReadInv /\ BufInv
  BY DEF CapInv
<1>1. mx \in Nat /\ (wal.salt = 0 => mx = 0) /\ wal.salt \in Nat
  BY <1>0, LogFacts
<1>2. rd.offset \in Nat /\ Len(rd.buf) \in Nat
  BY <1>0, RdType
<1>3. At(0) = main /\ At(mx) = live /\ (mx = 0 => main = live)
  BY <1>0 DEF HistInv, At
<1>4. mx = 0 => Points = {0}
  BY <1>0, <1>1, PointsAre
<1>5. (pos.salt = wal.salt /\ pos.offset = mx) \/ mx = 0
  BY <1>1 DEF Foldable, Captured
<1>6. ASSUME pos.txid > 0 PROVE Here \in DOMAIN hist /\ hist[Here] = live
  <2>1. Here \in DOMAIN hist /\ (pos.salt = wal.salt => pos.offset \in Points)
        /\ (pos.salt # wal.salt => hist[Here] = main)
    BY <1>0, <1>6 DEF PosInv
  <2>2. CASE mx = 0
    <3>1. CASE pos.salt = wal.salt
      <4>1. Here = <<wal.salt, 0>>
        BY <1>4, <2>1, <2>2, <3>1 DEF Here
      <4> QED
        BY <1>3, <2>1, <2>2, <4>1 DEF At
    <3>2. CASE pos.salt # wal.salt
      BY <1>3, <2>1, <2>2, <3>2
    <3> QED
      BY <3>1, <3>2
  <2>3. CASE mx # 0
    <3>1. Here = <<wal.salt, mx>>
      BY <1>5, <2>3 DEF Here
    <3> QED
      BY <1>3, <2>1, <3>1 DEF At
  <2> QED
    BY <2>2, <2>3
<1>7. ASSUME rd.pc = "snapshot" PROVE mx = 0
  <2>1. wal.salt = 0 \/ wal.salt # pos.salt
    BY <1>0, <1>7 DEF ReadInv
  <2> QED
    BY <1>1, <1>5, <2>1
<1>8. ASSUME rd.pc \in {"tail", "snapshot"}, NEW n \in 1 .. Len(rd.buf), AllRead(n), is_commit(rd.buf[n])
      PROVE  FALSE
  <2>1. rd.salt = wal.salt /\ rd.offset + n <= mx /\ n \in Nat /\ n >= 1
    BY <1>0, <1>2, <1>8 DEF BufInv
  <2>2. mx # 0
    BY <1>1, <1>2, <2>1
  <2>3. rd.pc = "tail" /\ pos.salt = wal.salt /\ pos.offset = mx
    BY <1>5, <1>7, <1>8, <2>2
  <2>4. rd.offset = mx
    BY <1>0, <2>1, <2>3 DEF ReadInv
  <2> QED
    BY <1>1, <2>1, <2>4
<1> QED
  BY <1>3, <1>6, <1>7, <1>8 DEF FoldedRight

\* The log is gone; a new one, with nothing committed, has the salt s.
Folds(s) ==
  /\ wal'.salt = s /\ wal'.frames \in Seq(FrameType)
  /\ wal' = [salt |-> wal'.salt, frames |-> wal'.frames]
  /\ \A i \in 1 .. Len(wal'.frames) : ~is_commit(wal'.frames[i])
  /\ \/ s = gen + 1 /\ gen' = s
     \/ s = 0 /\ gen' = gen /\ pos.txid > 0 /\ wal'.frames = << >>
  /\ mx' = 0 /\ top' = 0 /\ main' = live /\ live' = live /\ tx' = tx
  /\ hist' = Remember(s) /\ UNCHANGED syncVars

\* What is kept of older generations.
LEMMA RememberIs ==
  ASSUME NEW s
  PROVE  /\ <<s, 0>> \in DOMAIN Remember(s) /\ Remember(s)[<<s, 0>>] = live
         /\ \A at \in {Here, <<rd.salt, rd.offset>>} \cap DOMAIN hist :
              at \in DOMAIN Remember(s) /\ (at # <<s, 0>> => Remember(s)[at] = hist[at])
         /\ \A at \in DOMAIN Remember(s) : Remember(s)[at] = live \/
              (at \in DOMAIN hist /\ Remember(s)[at] = hist[at])
<1> DEFINE kept == {Here, <<rd.salt, rd.offset>>} \cap DOMAIN hist
           old == [at \in kept |-> hist[at]]
           z == <<s, 0>>
<1>1. Remember(s) = [a \in DOMAIN old \cup {z} |-> IF a = z THEN live ELSE old[a]]
  BY DEF Remember, Recorded, Here
<1>2. DOMAIN old = kept /\ \A at \in kept : old[at] = hist[at] /\ at \in DOMAIN hist
  OBVIOUS
<1> HIDE DEF z, old
<1> DEFINE R == Remember(s)
<1>3. DOMAIN R = kept \cup {z} /\ R[z] = live /\ \A at \in kept : at # z => R[at] = hist[at]
  BY <1>1, <1>2
<1> HIDE DEF R, kept
<1>4. z \in DOMAIN R /\ \A at \in kept : at \in DOMAIN R
  BY <1>3
<1>5. ASSUME NEW at \in DOMAIN R PROVE R[at] = live \/ (at \in DOMAIN hist /\ R[at] = hist[at])
  <2>1. CASE at = z
    BY <1>3, <2>1
  <2>2. CASE at # z
    <3>1. at \in kept
      BY <1>3, <2>2
    <3> QED
      BY <1>2, <1>3, <2>2, <3>1
  <2> QED
    BY <2>1, <2>2
<1> QED
  BY <1>3, <1>4, <1>5 DEF R, kept, z

\* Folding the log.
LEMMA FoldsKeep ==
  ASSUME CapInv, FoldedRight, NEW s \in Nat, Folds(s)
  PROVE  CapInv'
<1>0. LogInv /\ HistInv /\ PosInv /\ ReadInv /\ BufInv /\ ChainInv
  BY DEF CapInv
<1>1. gen \in Nat /\ tx \in Nat
  BY <1>0, LogFacts
<1>2. /\ wal'.salt = s /\ wal'.frames \in Seq(FrameType)
      /\ wal' = [salt |-> wal'.salt, frames |-> wal'.frames]
      /\ \A i \in 1 .. Len(wal'.frames) : ~is_commit(wal'.frames[i])
      /\ \/ s = gen + 1 /\ gen' = s
         \/ s = 0 /\ gen' = gen /\ pos.txid > 0 /\ wal'.frames = << >>
      /\ mx' = 0 /\ top' = 0 /\ main' = live /\ live' = live /\ tx' = tx
      /\ hist' = Remember(s) /\ pos' = pos /\ rd' = rd /\ chain' = chain /\ failed' = failed
  BY DEF Folds, syncVars
<1>3. gen' \in Nat /\ s <= gen' /\ gen <= gen'
  BY <1>1, <1>2
<1>4. LogInv'
  <2>1. wal' \in [salt : Nat, frames : Seq(FrameType)] /\ Len(wal'.frames) \in Nat
    BY <1>2
  <2>2. wal'.salt = 0 => wal'.frames = << >>
    BY <1>1, <1>2
  <2>3. 0 <= Len(wal'.frames)
    BY <2>1
  <2> QED
    BY <1>1, <1>2, <1>3, <2>1, <2>2, <2>3 DEF LogInv
<1>5. Points' = {0}
  BY <1>2 DEF Points
<1>6. /\ <<s, 0>> \in DOMAIN hist' /\ hist'[<<s, 0>>] = live
      /\ \A at \in {Here, <<rd.salt, rd.offset>>} \cap DOMAIN hist :
           at \in DOMAIN hist' /\ (at # <<s, 0>> => hist'[at] = hist[at])
      /\ \A at \in DOMAIN hist' : hist'[at] = live \/
           (at \in DOMAIN hist /\ hist'[at] = hist[at])
  BY <1>2, RememberIs
<1>7. At(0)' = live
  BY <1>2, <1>6 DEF At
<1>8. HistInv'
  <2>1. live \in Dbs /\ \A at \in DOMAIN hist : hist[at] \in Dbs
    BY <1>0 DEF HistInv
  <2>2. \A at \in DOMAIN hist' : hist'[at] \in Dbs
    BY <1>6, <2>1
  <2>3. \A k \in Points' : <<wal'.salt, k>> \in DOMAIN hist'
    BY <1>2, <1>5, <1>6
  <2>4. (At(mx) = live)'
    BY <1>2, <1>6 DEF At
  <2> QED
    BY <1>2, <1>5, <1>7, <2>1, <2>2, <2>3, <2>4 DEF HistInv
<1>9. ASSUME pos.txid > 0 PROVE Here \in DOMAIN hist' /\ hist'[Here] = live /\ hist'[Here] = hist[Here]
  <2>1. Here \in DOMAIN hist /\ hist[Here] = live
    BY <1>9 DEF FoldedRight
  <2>2. Here \in DOMAIN hist' /\ (Here # <<s, 0>> => hist'[Here] = hist[Here])
    BY <1>6, <2>1
  <2> QED
    BY <1>6, <2>1, <2>2
<1>10. pos.salt \in Nat /\ pos.salt <= gen /\ (pos.salt = 0 => pos.offset = 0)
  BY <1>0, PosType DEF PosInv
<1>11. Here' = Here /\ Image' = Image
  BY <1>2 DEF Here, Image
<1>12. PosInv'
  <2>1. pos.salt = s => pos.offset = 0
    BY <1>1, <1>2, <1>10
  <2>2. pos.salt <= gen'
    BY <1>1, <1>3, <1>10
  <2>3. pos.txid = 0 => s # 0 /\ pos.salt = 0
    <3>1. pos.txid = 0 => pos.salt = 0
      BY <1>0 DEF PosInv
    <3>2. s = 0 => pos.txid > 0
      BY <1>1, <1>2
    <3> QED
      BY <3>1, <3>2
  <2>4. pos \in [txid : Nat, offset : Nat, salt : Nat, toEnd : BOOLEAN]
    BY <1>0 DEF PosInv
  <2> QED
    BY <1>2, <1>5, <1>9, <1>10, <1>11, <2>1, <2>2, <2>3, <2>4 DEF PosInv
<1>13. rd.salt \in Nat /\ rd.salt <= gen /\ rd.due[1] \in Nat /\ rd.due[1] <= gen
  BY <1>0, RdType DEF ReadInv
<1>14. ASSUME rd.pc = "snapshot"
       PROVE  <<rd.salt, 0>> \in DOMAIN hist' /\ hist'[<<rd.salt, 0>>] = live
  <2>1. <<rd.salt, 0>> \in DOMAIN hist /\ hist[<<rd.salt, 0>>] = main /\ rd.offset = 0
    BY <1>0, <1>14 DEF ReadInv
  <2>2. main = live
    BY <1>14 DEF FoldedRight
  <2>3. <<rd.salt, 0>> \in {Here, <<rd.salt, rd.offset>>} \cap DOMAIN hist
    BY <2>1
  <2>4. <<rd.salt, 0>> \in DOMAIN hist' /\ (<<rd.salt, 0>> # <<s, 0>> =>
          hist'[<<rd.salt, 0>>] = hist[<<rd.salt, 0>>])
    BY <1>6, <2>3
  <2> QED
    BY <1>6, <2>1, <2>2, <2>4
<1>15. s = 0 \/ s # pos.salt
  BY <1>1, <1>2, <1>10
<1>16. ReadInv'
  <2>1. rd.salt <= gen' /\ rd.due[1] <= gen'
    BY <1>1, <1>3, <1>13
  <2> QED
    BY <1>0, <1>2, <1>14, <1>15, <2>1 DEF ReadInv
<1>17. BufInv'
  <2>1. \A n : AllRead(n)' <=> AllRead(n)
    BY <1>2 DEF AllRead
  <2> QED
    BY <1>2, <2>1 DEF BufInv, FoldedRight
<1>18. DueInv'
  <2>1. rd.due[2] # 0 => rd.due[1] # s
    <3>1. rd.due[1] = 0 => rd.due[2] = 0
      BY <1>0 DEF ReadInv
    <3> QED
      BY <1>1, <1>2, <1>13, <3>1
  <2> QED
    BY <1>2, <2>1 DEF DueInv
<1>19. ChainInv'
  BY <1>0, <1>2, <1>9, <1>11 DEF ChainInv
<1> QED
  BY <1>4, <1>8, <1>12, <1>16, <1>17, <1>18, <1>19 DEF CapInv

\* The next generation over the old frames.
LEMMA RestartKeeps ==
  ASSUME CapInv, Restart
  PROVE  CapInv'
<1>0. LogInv
  BY DEF CapInv
<1>1. FoldedRight
  BY FoldFacts DEF Restart, Foldable
<1> DEFINE w == wal.frames
           fr == [i \in DOMAIN w |-> Unreadable(w[i].salt)]
<1>2. gen \in Nat /\ w \in Seq(FrameType) /\ Len(w) \in Nat /\ DOMAIN w = 1 .. Len(w)
      /\ \A i \in 1 .. Len(w) : w[i] \in FrameType
  BY <1>0, LogFacts
<1>3. \A i \in 1 .. Len(w) : w[i].salt \in Nat
  BY <1>2, FrameFields
<1>4. \A i \in 1 .. Len(w) : fr[i] \in FrameType /\ ~is_commit(fr[i])
  BY <1>2, <1>3, UnreadableIs
<1>5. fr \in Seq(FrameType) /\ Len(fr) = Len(w)
  <2>1. fr \in [1 .. Len(w) -> FrameType]
    BY <1>2, <1>4
  <2> HIDE DEF fr
  <2> QED
    BY <1>2, <2>1
<1>6. wal' = [salt |-> gen + 1, frames |-> fr] /\ gen' = gen + 1
      /\ mx' = 0 /\ top' = 0 /\ main' = live /\ live' = live /\ tx' = tx
      /\ hist' = Remember(gen + 1) /\ UNCHANGED syncVars
  BY DEF Restart
<1> HIDE DEF fr, w
<1>7. PICK s \in Nat : s = gen + 1
  BY <1>2
<1>8. Folds(s)
  BY <1>4, <1>5, <1>6, <1>7 DEF Folds
<1> QED
  BY <1>1, <1>8, FoldsKeep

\* The log is cut to nothing.
LEMMA TruncateKeeps ==
  ASSUME CapInv, Truncate
  PROVE  CapInv'
<1>1. FoldedRight
  BY FoldFacts DEF Truncate, Foldable
<1>2. wal' = [salt |-> 0, frames |-> << >>] /\ pos.txid > 0
      /\ mx' = 0 /\ top' = 0 /\ main' = live /\ live' = live /\ tx' = tx /\ gen' = gen
      /\ hist' = Remember(0) /\ UNCHANGED syncVars
  BY DEF Truncate, NoWal, Captured
<1>3. << >> \in Seq(FrameType) /\ Len(<< >>) = 0
  OBVIOUS
<1>4. Folds(0)
  BY <1>2, <1>3 DEF Folds
<1> QED
  BY <1>1, <1>4, FoldsKeep

\* No sync is in progress.
LEMMA IdleKeeps ==
  ASSUME rd' = Idle, gen' \in Nat
  PROVE  ReadInv' /\ BufInv' /\ DueInv'
<1>1. << >> \in Seq(FrameType) /\ << >> \in Seq(Seq(Nat)) /\ <<0, 0>> \in Nat \X Nat
  OBVIOUS
<1>2. rd' = [pc |-> "idle", salt |-> 0, offset |-> 0, len |-> 0, seed |-> << >>,
             buf |-> << >>, due |-> <<0, 0>>]
  BY DEF Idle
<1>3. rd' \in [pc : {"idle", "open", "seed", "tail", "snapshot"}, salt : Nat, offset : Nat,
               len : Nat, seed : Seq(Seq(Nat)), buf : Seq(FrameType), due : Nat \X Nat]
  BY <1>1, <1>2
<1>4. rd'.pc = "idle" /\ rd'.salt = 0 /\ rd'.offset = 0 /\ rd'.buf = << >>
      /\ rd'.due[1] = 0 /\ rd'.due[2] = 0
  BY <1>2
<1>5. ReadInv'
  BY <1>3, <1>4 DEF ReadInv
<1>6. BufInv' /\ DueInv'
  BY <1>4 DEF BufInv, DueInv
<1> QED
  BY <1>5, <1>6

\* A power loss that takes back only what was not captured.
LEMMA PowerLossKeeps ==
  ASSUME CapInv, PowerLoss, ~LosesCaptured
  PROVE  CapInv'
<1>0. LogInv /\ HistInv /\ PosInv /\ ChainInv
  BY DEF CapInv
<1>1. wal = [salt |-> wal.salt, frames |-> wal.frames] /\ top \in Nat /\ mx \in Nat /\ tx \in Nat
      /\ mx <= top /\ top <= Len(wal.frames) /\ Len(wal.frames) \in Nat /\ wal.salt \in Nat
      /\ gen \in Nat /\ wal.frames \in Seq(FrameType) /\ (wal.salt = 0 => mx = 0)
  BY <1>0, LogFacts
<1>2. PICK n \in 0 .. mx - 1 :
       /\ n > 0 => is_commit(wal.frames[n])
       /\ LosesCaptured \/ pos.salt # wal.salt \/ pos.offset <= n
       /\ wal' = [wal EXCEPT !.frames = SubSeq(@, 1, n)]
       /\ live' = hist[<<wal.salt, n>>]
       /\ mx' = n /\ top' = n
       /\ hist' = [at \in {a \in DOMAIN hist : a[1] = wal.salt => a[2] <= n}
                           \cup ({<<pos.salt, pos.offset>>} \cap DOMAIN hist) |-> hist[at]]
  BY DEF PowerLoss
<1>3. rd' = Idle /\ pos' = [pos EXCEPT !.toEnd = FALSE] /\ gen' = gen /\ main' = main
      /\ tx' = tx /\ chain' = chain /\ failed' = failed
  BY DEF PowerLoss
<1>4. n \in Nat /\ n <= mx /\ n < mx /\ wal.salt # 0
  BY <1>1
<1> DEFINE fr == SubSeq(wal.frames, 1, n)
<1>5. fr \in Seq(FrameType) /\ Len(fr) = n /\ \A i \in 1 .. n : fr[i] = wal.frames[i]
  BY <1>1, <1>4
<1> HIDE DEF fr
<1>6. wal'.salt = wal.salt /\ wal'.frames = fr
      /\ wal' = [salt |-> wal.salt, frames |-> fr]
  <2>1. wal' = [wal EXCEPT !.frames = fr]
    BY <1>1, <1>2 DEF fr
  <2> QED
    BY <1>1, <2>1
<1>7. LogInv'
  <2>1. wal' \in [salt : Nat, frames : Seq(FrameType)]
    BY <1>1, <1>5, <1>6
  <2>2. ASSUME NEW i \in 1 .. n
        PROVE  /\ fr[i].salt = wal.salt /\ fr[i].pgno \in Pgnos
               /\ fr[i].sum = wal_checksum(Seed(wal', wal.salt, i - 1), fr[i])
    <3>1. i \in 1 .. top /\ (i - 1 = 0 \/ i - 1 \in 1 .. n)
      BY <1>1, <1>4
    <3>2. Seed(wal', wal.salt, i - 1) = Seed(wal, wal.salt, i - 1)
      BY <1>5, <1>6, <3>1 DEF Seed
    <3>3. /\ wal.frames[i].salt = wal.salt /\ wal.frames[i].pgno \in Pgnos
          /\ wal.frames[i].sum = wal_checksum(Seed(wal, wal.salt, i - 1), wal.frames[i])
      BY <1>0, <3>1 DEF LogInv
    <3> QED
      BY <1>5, <3>2, <3>3
  <2>3. ASSUME NEW i \in 1 .. n, is_commit(fr[i])
        PROVE  i <= n /\ fr[i].commit \in Pgnos /\ fr[i].pgno \in PagesOf(fr[i].commit)
    <3>1. i \in 1 .. Len(wal.frames) /\ i <= n
      BY <1>1, <1>4
    <3> QED
      BY <1>0, <1>5, <2>3, <3>1 DEF LogInv
  <2>4. wal'.salt <= gen' /\ n <= Len(fr)
    BY <1>0, <1>3, <1>4, <1>5, <1>6 DEF LogInv
  <2>5. mx' = n /\ top' = n /\ n <= n
    BY <1>2, <1>4
  <2> QED
    BY <1>1, <1>3, <1>4, <1>5, <1>6, <2>1, <2>2, <2>3, <2>4, <2>5 DEF LogInv
<1>8. Points \subseteq Nat /\ 0 \in Points /\ (\A k \in Points : k <= mx)
      /\ \A k \in Points \ {0} : k \in 1 .. mx /\ is_commit(wal.frames[k])
  BY <1>0, PointsAre
<1>9. ASSUME NEW k PROVE k \in Points' <=> k \in Points /\ k <= n
  <2>1. k \in Points' <=> k = 0 \/ (k \in 1 .. n /\ is_commit(fr[k]))
    BY <1>2, <1>6 DEF Points
  <2>2. k \in Points <=> k = 0 \/ (k \in 1 .. mx /\ is_commit(wal.frames[k]))
    BY DEF Points
  <2>3. k \in 1 .. n => fr[k] = wal.frames[k]
    BY <1>5
  <2> QED
    BY <1>1, <1>4, <2>1, <2>2, <2>3
<1>10. n \in Points
  <2>1. n = 0 \/ n \in 1 .. mx
    BY <1>1, <1>4
  <2> QED
    BY <1>2, <1>4, <2>1 DEF Points
<1> DEFINE kept == {a \in DOMAIN hist : a[1] = wal.salt => a[2] <= n}
                     \cup ({Here} \cap DOMAIN hist)
<1>11. hist' = [at \in kept |-> hist[at]]
  BY <1>2 DEF Here
<1>12. kept \subseteq DOMAIN hist
  OBVIOUS
<1>13. \A k \in Points' : <<wal.salt, k>> \in kept
  BY <1>0, <1>9 DEF HistInv
<1>14. Here \in DOMAIN hist => Here \in kept
  OBVIOUS
<1> HIDE DEF kept
<1>15. DOMAIN hist' = kept /\ \A at \in kept : hist'[at] = hist[at]
  BY <1>11
<1>16. \A k \in Points' : At(k)' = At(k)
  BY <1>6, <1>13, <1>15 DEF At
<1>17. live \in Dbs /\ main \in Dbs /\ (\A at \in DOMAIN hist : hist[at] \in Dbs) /\ mx \in Points
       /\ (\A o \in Points : <<wal.salt, o>> \in DOMAIN hist) /\ At(0) = main /\ At(mx) = live
       /\ (\A o \in Points \ {0} : DOMAIN At(o) = PagesOf(wal.frames[o].commit))
       /\ (\A o, m \in Points : o < m => Follows(wal.frames, o, m, At(o), At(m)))
  BY <1>0 DEF HistInv
<1>18. HistInv'
  <2>1. live' \in Dbs /\ main' \in Dbs /\ \A at \in DOMAIN hist' : hist'[at] \in Dbs
    BY <1>2, <1>3, <1>10, <1>12, <1>15, <1>17
  <2>2. mx' \in Points' /\ 0 \in Points'
    BY <1>2, <1>4, <1>8, <1>9, <1>10
  <2>3. \A k \in Points' : <<wal'.salt, k>> \in DOMAIN hist'
    BY <1>6, <1>13, <1>15
  <2>4. At(0)' = main' /\ (At(mx) = live)'
    <3>1. At(0)' = main'
      BY <1>3, <1>16, <1>17, <2>2
    <3>2. hist'[<<wal'.salt, mx'>>] = live'
      BY <1>2, <1>6, <1>13, <1>15, <2>2
    <3> QED
      BY <3>1, <3>2 DEF At
  <2>5. ASSUME NEW k \in Points' \ {0} PROVE DOMAIN At(k)' = PagesOf(wal'.frames[k].commit)
    <3>1. k \in Points \ {0} /\ k \in 1 .. n
      <4>1. k \in Points \ {0} /\ k <= n
        BY <1>9
      <4> QED
        BY <1>1, <1>4, <1>8, <4>1
    <3> QED
      BY <1>5, <1>6, <1>16, <1>17, <3>1
  <2>6. ASSUME NEW o \in Points', NEW k \in Points', o < k
        PROVE  Follows(wal'.frames, o, k, At(o)', At(k)')
    <3>1. o \in Points /\ k \in Points /\ o \in Nat /\ k \in Nat /\ k <= n
      BY <1>8, <1>9
    <3>2. Follows(wal.frames, o, k, At(o), At(k))
      BY <1>17, <2>6, <3>1
    <3>3. \A i \in o + 1 .. k : fr[i] = wal.frames[i]
      BY <1>4, <1>5, <3>1
    <3>4. Follows(fr, o, k, At(o), At(k))
      BY <2>6, <3>1, <3>2, <3>3, FollowsSame
    <3> QED
      BY <1>6, <1>16, <3>4
  <2> QED
    BY <2>1, <2>2, <2>3, <2>4, <2>5, <2>6 DEF HistInv
<1>19. pos'.txid = pos.txid /\ pos'.offset = pos.offset /\ pos'.salt = pos.salt
       /\ pos' \in [txid : Nat, offset : Nat, salt : Nat, toEnd : BOOLEAN]
  <2>1. pos \in [txid : Nat, offset : Nat, salt : Nat, toEnd : BOOLEAN]
    BY <1>0 DEF PosInv
  <2> QED
    BY <1>3, <2>1
<1>20. Here' = Here /\ Image' = Image
  BY <1>3, <1>19 DEF Here, Image
<1>21. pos.txid > 0 => Here \in DOMAIN hist' /\ hist'[Here] = hist[Here]
  BY <1>0, <1>14, <1>15 DEF PosInv
<1>22. PosInv'
  <2>1. ASSUME pos.txid > 0, pos.salt = wal.salt PROVE pos.offset \in Points'
    BY <1>0, <1>2, <1>9, <2>1 DEF PosInv
  <2> QED
    BY <1>0, <1>3, <1>4, <1>6, <1>19, <1>20, <1>21, <2>1 DEF PosInv
<1>23. ChainInv'
  BY <1>0, <1>3, <1>19, <1>20, <1>21 DEF ChainInv
<1>24. ReadInv' /\ BufInv' /\ DueInv'
  BY <1>1, <1>3, IdleKeeps
<1> QED
  BY <1>7, <1>18, <1>22, <1>23, <1>24 DEF CapInv

(***************************************************************************)
(* Steps of the syncer that publish nothing.                               *)
(***************************************************************************)
LEMMA AppSame ==
  ASSUME UNCHANGED appVars
  PROVE  /\ wal' = wal /\ gen' = gen /\ mx' = mx /\ top' = top /\ live' = live /\ main' = main
         /\ tx' = tx /\ hist' = hist
         /\ LogInv' = LogInv /\ HistInv' = HistInv /\ Points' = Points
<1>1. /\ wal' = wal /\ gen' = gen /\ mx' = mx /\ top' = top /\ live' = live /\ main' = main
      /\ tx' = tx /\ hist' = hist
  BY DEF appVars
<1>2. Points' = Points
  BY <1>1 DEF Points
<1>3. LogInv' = LogInv
  BY <1>1 DEF LogInv
<1>4. HistInv' = HistInv
  BY <1>1, <1>2 DEF HistInv, At
<1> QED
  BY <1>1, <1>2, <1>3, <1>4

\* The parts that do not mention the sync in progress.
LEMMA SyncSame ==
  ASSUME CapInv, UNCHANGED <<appVars, pos, chain, failed>>
  PROVE  LogInv' /\ HistInv' /\ PosInv' /\ ChainInv'
<1>0. LogInv /\ HistInv /\ PosInv /\ ChainInv
  BY DEF CapInv
<1>1. UNCHANGED appVars /\ pos' = pos /\ chain' = chain /\ failed' = failed
  OBVIOUS
<1>2. wal' = wal /\ gen' = gen /\ main' = main /\ hist' = hist /\ Points' = Points
      /\ LogInv' /\ HistInv'
  BY <1>0, <1>1, AppSame
<1>3. Here' = Here /\ Image' = Image
  BY <1>1 DEF Here, Image
<1>4. PosInv'
  BY <1>0, <1>1, <1>2, <1>3 DEF PosInv
<1>5. ChainInv'
  BY <1>0, <1>1, <1>2, <1>3 DEF ChainInv
<1> QED
  BY <1>2, <1>4, <1>5

\* Nothing changes.
LEMMA Stutters ==
  ASSUME CapInv, UNCHANGED vars
  PROVE  CapInv'
<1>1. UNCHANGED <<appVars, pos, chain, failed>> /\ rd' = rd
  BY DEF vars, syncVars
<1>2. LogInv' /\ HistInv' /\ PosInv' /\ ChainInv'
  BY <1>1, SyncSame
<1>3. wal' = wal /\ gen' = gen /\ main' = main /\ hist' = hist /\ Points' = Points /\ mx' = mx /\ pos' = pos
  BY <1>1, AppSame
<1>4. ReadInv' /\ BufInv' /\ DueInv'
  BY <1>1, <1>3 DEF CapInv, ReadInv, BufInv, DueInv, AllRead, Matches
<1> QED
  BY <1>2, <1>4 DEF CapInv

\* What is due when a sync begins.
LEMMA DueBegins ==
  ASSUME CapInv
  PROVE  /\ <<wal.salt, mx>> \in Nat \X Nat /\ wal.salt <= gen
         /\ wal.salt = 0 => mx = 0
         /\ mx \in Points
<1>1. LogInv /\ HistInv
  BY DEF CapInv
<1>2. wal.salt \in Nat /\ mx \in Nat /\ (wal.salt = 0 => mx = 0)
  BY <1>1, LogFacts
<1> QED
  BY <1>1, <1>2 DEF LogInv, HistInv

\* The type of rd.
RdRecord ==
  [pc : {"idle", "open", "seed", "tail", "snapshot"}, salt : Nat, offset : Nat,
   len : Nat, seed : Seq(Seq(Nat)), buf : Seq(FrameType), due : Nat \X Nat]

\* The empty sequence has every type.
LEMMA EmptySeqs == << >> \in Seq(FrameType) /\ << >> \in Seq(Seq(Nat)) /\ Len(<< >>) = 0
OBVIOUS

\* A sync that will write a snapshot begins.
LEMMA SnapshotBegins ==
  ASSUME CapInv, SyncSnapshot
  PROVE  CapInv'
<1>0. LogInv /\ HistInv /\ PosInv
  BY DEF CapInv
<1>1. UNCHANGED <<appVars, pos, chain, failed>>
      /\ rd' = [Idle EXCEPT !.pc = "open", !.due = <<wal.salt, mx>>]
      /\ (pos.txid = 0 \/ wal.salt = 0)
  BY DEF SyncSnapshot, HasHeader
<1>2. LogInv' /\ HistInv' /\ PosInv' /\ ChainInv'
  BY <1>1, SyncSame
<1>3. wal' = wal /\ gen' = gen /\ Points' = Points /\ pos' = pos
  BY <1>1, AppSame
<1>4. <<wal.salt, mx>> \in Nat \X Nat /\ wal.salt <= gen /\ (wal.salt = 0 => mx = 0) /\ mx \in Points
  BY DueBegins
<1>5. rd' = [pc |-> "open", salt |-> 0, offset |-> 0, len |-> 0, seed |-> << >>,
             buf |-> << >>, due |-> <<wal.salt, mx>>]
  BY <1>1 DEF Idle
<1>6. rd' \in RdRecord /\ rd'.pc = "open" /\ rd'.salt = 0 /\ rd'.offset = 0 /\ rd'.buf = << >>
      /\ rd'.due[1] = wal.salt /\ rd'.due[2] = mx
  <2>1. rd'.due = <<wal.salt, mx>>
    BY <1>5
  <2>2. rd'.due[1] = wal.salt /\ rd'.due[2] = mx
    BY <2>1
  <2>3. rd' \in RdRecord
    BY <1>4, <1>5, EmptySeqs DEF RdRecord
  <2> QED
    BY <1>5, <2>2, <2>3
<1>7. wal.salt = 0 \/ wal.salt # pos.salt
  BY <1>0, <1>1 DEF PosInv
<1>8. 0 <= gen
  BY <1>0, LogFacts
<1>9. ReadInv'
  BY <1>3, <1>4, <1>6, <1>7, <1>8 DEF ReadInv, RdRecord
<1>10. BufInv' /\ DueInv'
  BY <1>3, <1>4, <1>6 DEF BufInv, DueInv
<1> QED
  BY <1>2, <1>9, <1>10 DEF CapInv

\* A sync that will write a tail begins, at the position or at the log's start.
LEMMA IncrementalBegins ==
  ASSUME CapInv, SyncIncremental
  PROVE  CapInv'
<1>0. LogInv /\ HistInv /\ PosInv
  BY DEF CapInv
<1> DEFINE off == PlanOffset(wal.salt, Len(wal.frames))
<1>1. UNCHANGED <<appVars, pos, chain, failed>>
      /\ rd' = [Idle EXCEPT !.pc = "seed", !.salt = wal.salt, !.len = Len(wal.frames),
                  !.offset = off, !.due = <<wal.salt, mx>>]
      /\ pos.txid > 0 /\ wal.salt # 0
  BY CaptureAssumption DEF SyncIncremental, HasHeader
<1>2. LogInv' /\ HistInv' /\ PosInv' /\ ChainInv'
  BY <1>1, SyncSame
<1>3. wal' = wal /\ gen' = gen /\ Points' = Points /\ pos' = pos
  BY <1>1, AppSame
<1>4. <<wal.salt, mx>> \in Nat \X Nat /\ wal.salt <= gen /\ (wal.salt = 0 => mx = 0) /\ mx \in Points
  BY DueBegins
<1>5. wal.salt \in Nat /\ Len(wal.frames) \in Nat /\ mx \in Nat /\ mx <= Len(wal.frames)
  BY <1>0, LogFacts
<1>6. off = (IF pos.salt = wal.salt THEN pos.offset ELSE 0) /\ off \in Nat
  <2>1. pos.offset \in Nat
    BY <1>0, PosType
  <2>2. pos.salt = wal.salt => pos.offset <= mx
    BY <1>0, <1>1, PointsAre DEF PosInv
  <2> QED
    BY <1>5, <2>1, <2>2 DEF PlanOffset
<1> HIDE DEF off
<1>7. rd' = [pc |-> "seed", salt |-> wal.salt, offset |-> off, len |-> Len(wal.frames), seed |-> << >>,
             buf |-> << >>, due |-> <<wal.salt, mx>>]
  BY <1>1 DEF Idle
<1>8. rd' \in RdRecord /\ rd'.pc = "seed" /\ rd'.salt = wal.salt /\ rd'.offset = off
      /\ rd'.buf = << >> /\ rd'.due[1] = wal.salt /\ rd'.due[2] = mx
  <2>1. rd'.due = <<wal.salt, mx>>
    BY <1>7
  <2>2. rd'.due[1] = wal.salt /\ rd'.due[2] = mx
    BY <2>1
  <2>3. rd' \in RdRecord
    BY <1>4, <1>5, <1>6, <1>7, EmptySeqs DEF RdRecord
  <2> QED
    BY <1>7, <2>2, <2>3
<1>9. ReadInv'
  BY <1>1, <1>3, <1>4, <1>6, <1>8 DEF ReadInv, RdRecord
<1>10. BufInv' /\ DueInv'
  BY <1>1, <1>3, <1>4, <1>8 DEF BufInv, DueInv
<1> QED
  BY <1>2, <1>9, <1>10 DEF CapInv

\* A sync ends with nothing published.
LEMMA EndsIdle ==
  ASSUME CapInv, UNCHANGED <<appVars, pos, chain, failed>>, rd' = Idle
  PROVE  CapInv'
<1>1. LogInv' /\ HistInv' /\ PosInv' /\ ChainInv'
  BY SyncSame
<1>2. gen' \in Nat
  BY <1>1 DEF LogInv
<1>3. ReadInv' /\ BufInv' /\ DueInv'
  BY <1>2, IdleKeeps
<1> QED
  BY <1>1, <1>3 DEF CapInv

\* The sync in progress as a record.
LEMMA RdFields ==
  ASSUME ReadInv
  PROVE  rd \in RdRecord
         /\ rd = [pc |-> rd.pc, salt |-> rd.salt, offset |-> rd.offset, len |-> rd.len,
                  seed |-> rd.seed, buf |-> rd.buf, due |-> rd.due]
BY DEF ReadInv, RdRecord

\* The checksum before the tail is read, or the sync ends.
LEMMA SeedKeeps ==
  ASSUME CapInv, ReadSeed
  PROVE  CapInv'
<1>0. LogInv /\ HistInv /\ PosInv /\ ReadInv /\ DueInv
  BY DEF CapInv
<1>1. UNCHANGED <<appVars, pos, chain, failed>> /\ rd.pc = "seed"
  BY DEF ReadSeed
<1>2. CASE ~SeedKnown(wal, rd.salt, rd.offset)
  <2>1. rd' = Idle
    BY <1>2 DEF ReadSeed
  <2> QED
    BY <1>1, <2>1, EndsIdle
<1>3. CASE SeedKnown(wal, rd.salt, rd.offset)
  <2> DEFINE s == Seed(wal, rd.salt, rd.offset)
  <2>1. rd' = [rd EXCEPT !.pc = "tail", !.seed = s]
    BY <1>3 DEF ReadSeed
  <2>2. rd.salt \in Nat /\ rd.offset \in Nat /\ rd.len \in Nat
        /\ rd \in RdRecord /\ rd = [pc |-> rd.pc, salt |-> rd.salt, offset |-> rd.offset, len |-> rd.len,
                  seed |-> rd.seed, buf |-> rd.buf, due |-> rd.due]
    BY <1>0, RdType, RdFields
  <2>3. s \in Seq(Seq(Nat))
    <3>1. rd.offset <= Len(wal.frames)
      <4>1. Len(wal.frames) \in Nat
        BY <1>0, LogFacts
      <4> QED
        BY <1>3, <2>2, <4>1 DEF SeedKnown
    <3> QED
      BY <1>0, <2>2, <3>1, SeedType
  <2> HIDE DEF s
  <2>4. rd' = [pc |-> "tail", salt |-> rd.salt, offset |-> rd.offset, len |-> rd.len,
               seed |-> s, buf |-> rd.buf, due |-> rd.due]
    BY <2>1, <2>2
  <2>5. rd' \in RdRecord
    BY <2>2, <2>3, <2>4 DEF RdRecord
  <2>6. rd'.pc = "tail" /\ rd'.salt = rd.salt /\ rd'.offset = rd.offset /\ rd'.seed = s
        /\ rd'.buf = rd.buf /\ rd'.due = rd.due
    BY <2>4
  <2>7. LogInv' /\ HistInv' /\ PosInv' /\ ChainInv'
    BY <1>1, SyncSame
  <2>8. wal' = wal /\ gen' = gen /\ Points' = Points /\ pos' = pos
    BY <1>1, AppSame
  <2>9. rd.buf = << >>
    BY <1>0, <1>1 DEF ReadInv
  <2>10. ReadInv'
    BY <1>0, <1>1, <2>5, <2>6, <2>8 DEF ReadInv, RdRecord
  <2>11. BufInv' /\ DueInv'
    <3>1. 1 .. Len(rd.buf) = {}
      BY <2>9, EmptySeqs
    <3>2. BufInv'
      BY <2>6, <3>1 DEF BufInv
    <3>3. DueInv'
      BY <1>0, <1>1, <2>6, <2>8, <3>1 DEF DueInv, s
    <3> QED
      BY <3>2, <3>3
  <2> QED
    BY <2>7, <2>10, <2>11 DEF CapInv
<1> QED
  BY <1>2, <1>3

\* A snapshot reads the header.
LEMMA HeaderKeeps ==
  ASSUME CapInv, ReadHeader
  PROVE  CapInv'
<1>0. LogInv /\ HistInv /\ PosInv /\ ReadInv /\ DueInv
  BY DEF CapInv
<1> DEFINE s == HeaderSum(wal.salt)
<1>1. UNCHANGED <<appVars, pos, chain, failed>> /\ rd.pc = "open"
      /\ rd' = [rd EXCEPT !.pc = "snapshot", !.salt = wal.salt, !.seed = s]
  BY DEF ReadHeader
<1>2. rd.salt \in Nat /\ rd.offset \in Nat /\ rd.len \in Nat /\ wal.salt \in Nat /\ Len(wal.frames) \in Nat
      /\ rd \in RdRecord /\ rd = [pc |-> rd.pc, salt |-> rd.salt, offset |-> rd.offset, len |-> rd.len,
                seed |-> rd.seed, buf |-> rd.buf, due |-> rd.due]
  BY <1>0, RdType, RdFields, LogFacts
<1>3. s \in Seq(Seq(Nat)) /\ s = Seed(wal, wal.salt, 0)
  <2>1. Seed(wal, wal.salt, 0) \in Seq(Seq(Nat))
    BY <1>0, <1>2, SeedType
  <2> QED
    BY <2>1 DEF Seed
<1> HIDE DEF s
<1>4. rd' = [pc |-> "snapshot", salt |-> wal.salt, offset |-> rd.offset, len |-> rd.len,
             seed |-> s, buf |-> rd.buf, due |-> rd.due]
  BY <1>1, <1>2
<1>5. rd' \in RdRecord
  BY <1>2, <1>3, <1>4 DEF RdRecord
<1>6. rd'.pc = "snapshot" /\ rd'.salt = wal.salt /\ rd'.offset = rd.offset /\ rd'.seed = s
      /\ rd'.buf = rd.buf /\ rd'.due = rd.due
  BY <1>4
<1>7. LogInv' /\ HistInv' /\ PosInv' /\ ChainInv'
  BY <1>1, SyncSame
<1>8. wal' = wal /\ gen' = gen /\ Points' = Points /\ pos' = pos /\ hist' = hist /\ main' = main
  BY <1>1, AppSame
<1>9. rd.buf = << >> /\ rd.offset = 0
  BY <1>0, <1>1 DEF ReadInv
<1>10. <<wal.salt, 0>> \in DOMAIN hist /\ hist[<<wal.salt, 0>>] = main /\ wal.salt <= gen
  <2>1. 0 \in Points
    BY DEF Points
  <2> QED
    BY <1>0, <2>1 DEF HistInv, At, LogInv
<1>11. ReadInv'
  BY <1>0, <1>1, <1>5, <1>6, <1>8, <1>9, <1>10 DEF ReadInv, RdRecord
<1>12. BufInv' /\ DueInv'
  <2>1. 1 .. Len(rd.buf) = {}
    BY <1>9, EmptySeqs
  <2>2. BufInv'
    BY <1>6, <2>1 DEF BufInv
  <2>3. DueInv'
    BY <1>0, <1>3, <1>6, <1>8, <1>9, <2>1 DEF DueInv
  <2> QED
    BY <2>2, <2>3
<1> QED
  BY <1>7, <1>11, <1>12 DEF CapInv

\* Checksums, by name: each is the sequence of what it covers.
Sums == Seq(Seq(Nat))

\* Frames that pass the checksums and end in a commit of the log are the log:
\* from the last one down, each checksum determines the frame before.
LEMMA ChecksumsMatch ==
  ASSUME LogInv, NEW o \in Nat, NEW n \in Nat, n >= 1, o + n <= top,
         NEW buf \in Seq(FrameType), n <= Len(buf), NEW s \in Sums, NEW salt, salt = wal.salt,
         \A j \in 1 .. n : read_frame(salt, s, buf, j),
         buf[n] = wal.frames[o + n]
  PROVE  \A j \in 1 .. n : buf[j] = wal.frames[o + j]
<1>1. top \in Nat /\ top <= Len(wal.frames) /\ Len(wal.frames) \in Nat
      /\ \A i \in 1 .. Len(wal.frames) : wal.frames[i] \in FrameType
  BY LogFacts
<1>2. Len(buf) \in Nat /\ \A j \in 1 .. Len(buf) : buf[j] \in FrameType
  OBVIOUS
<1> SUFFICES ASSUME ~ \A j \in 1 .. n : buf[j] = wal.frames[o + j] PROVE FALSE
  OBVIOUS
<1> DEFINE T == {j \in 1 .. n : buf[j] # wal.frames[o + j]}
<1>3. T \subseteq Nat /\ T # {} /\ \A y \in T : y <= n
  OBVIOUS
<1>4. PICK j \in T : \A y \in T : y <= j
  BY <1>3, GreatestOf
<1>5. j \in 1 .. n /\ buf[j] # wal.frames[o + j]
  BY <1>4
<1>6. j # n /\ j + 1 \in 1 .. n
  BY <1>5
<1>7. buf[j + 1] = wal.frames[o + (j + 1)]
  <2>1. j + 1 \notin T
    BY <1>4, <1>5
  <2> QED
    BY <1>6, <2>1
<1> HIDE DEF T
<1>8. ASSUME NEW i \in 1 .. n
      PROVE  /\ o + i \in 1 .. top /\ o + i \in 1 .. Len(wal.frames) /\ i \in 1 .. Len(buf)
             /\ buf[i] \in FrameType /\ wal.frames[o + i] \in FrameType
             /\ wal.frames[o + i].salt = wal.salt
             /\ wal.frames[o + i].sum = wal_checksum(Seed(wal, wal.salt, o + i - 1), wal.frames[o + i])
             /\ buf[i].salt = wal.salt
             /\ buf[i].sum = wal_checksum(IF i = 1 THEN s ELSE buf[i - 1].sum, buf[i])
  <2>1. o + i \in 1 .. top /\ o + i \in 1 .. Len(wal.frames) /\ i \in 1 .. Len(buf)
    BY <1>1, <1>2
  <2>2. wal.frames[o + i].salt = wal.salt
        /\ wal.frames[o + i].sum = wal_checksum(Seed(wal, wal.salt, o + i - 1), wal.frames[o + i])
    <3> DEFINE P(k) ==
          /\ wal.frames[k].salt = wal.salt
          /\ wal.frames[k].sum = wal_checksum(Seed(wal, wal.salt, k - 1), wal.frames[k])
    <3>1. \A k \in 1 .. top : P(k)
      BY DEF LogInv
    <3> HIDE DEF P
    <3>2. P(o + i)
      BY <2>1, <3>1
    <3> QED
      BY <3>2 DEF P
  <2>3. buf[i].salt = wal.salt
        /\ buf[i].sum = wal_checksum(IF i = 1 THEN s ELSE buf[i - 1].sum, buf[i])
    BY DEF read_frame
  <2> QED
    BY <1>1, <1>2, <2>1, <2>2, <2>3
\* The frame after it tells the checksum of this one ...
<1>9. buf[j].sum = wal.frames[o + j].sum
  <2> DEFINE f == wal.frames[o + (j + 1)]
             x == <<f.pgno, f.commit, f.data>>
             a == buf[j].sum
             b == wal.frames[o + j].sum
  <2>1. j \in Nat /\ j + 1 # 1 /\ (j + 1) - 1 = j /\ o + (j + 1) - 1 = o + j /\ o + j # 0
    BY <1>5
  <2>2. f.sum = wal_checksum(a, f)
    BY <1>6, <1>7, <1>8, <2>1
  <2>3. f.sum = wal_checksum(Seed(wal, wal.salt, o + j), f)
    BY <1>6, <1>8, <2>1
  <2>4. Seed(wal, wal.salt, o + j) = b
    BY <2>1 DEF Seed
  <2>5. f \in FrameType /\ buf[j] \in FrameType /\ wal.frames[o + j] \in FrameType
    BY <1>5, <1>6, <1>8
  <2>6. a \in Seq(Seq(Nat)) /\ b \in Seq(Seq(Nat)) /\ x \in Seq(Nat)
    BY <2>5, FrameFields
  <2>7. Append(a, x) = Append(b, x)
    BY <2>2, <2>3, <2>4 DEF wal_checksum
  <2> HIDE DEF a, b, x, f
  <2>8. \A c, d \in Seq(Seq(Nat)) : Append(c, x) = Append(d, x) => c = d
    BY <2>6, SumsDiffer, Zenon
  <2>9. a = b
    BY <2>6, <2>7, <2>8, Zenon
  <2> QED
    BY <2>9 DEF a, b
\* ... and the checksum tells the frame.
<1>10. buf[j] = wal.frames[o + j]
  <2> DEFINE f == buf[j]
             g == wal.frames[o + j]
             a == IF j = 1 THEN s ELSE buf[j - 1].sum
             b == Seed(wal, wal.salt, o + j - 1)
  <2>1. f \in FrameType /\ g \in FrameType /\ f.salt = g.salt /\ f.sum = g.sum
        /\ f.sum = wal_checksum(a, f) /\ g.sum = wal_checksum(b, g)
    BY <1>5, <1>8, <1>9
  <2>2. b \in Seq(Seq(Nat))
    <3>1. wal.salt \in Nat
      BY LogFacts
    <3>2. o + j - 1 \in Nat /\ o + j - 1 <= Len(wal.frames)
      <4>1. o + j <= top /\ o + j >= 1
        BY <1>1, <1>5, <1>8
      <4> QED
        BY <1>1, <1>5, <4>1
    <3> QED
      BY <3>1, <3>2, SeedType
  <2>3. a \in Seq(Seq(Nat))
    <3>1. CASE j = 1
      BY <3>1 DEF Sums
    <3>2. CASE j # 1
      <4>1. j - 1 \in 1 .. n
        BY <1>5, <3>2
      <4>2. buf[j - 1] \in FrameType
        BY <1>8, <4>1
      <4>3. buf[j - 1].sum \in Seq(Seq(Nat))
        BY <4>2, FrameFields
      <4> QED
        BY <3>2, <4>3
    <3> QED
      BY <3>1, <3>2
  <2> HIDE DEF f, g, a, b
  <2>4. f = g
    BY <2>1, <2>2, <2>3, SameFrame, Zenon
  <2> QED
    BY <2>4 DEF f, g
<1> QED
  BY <1>5, <1>10

\* One more frame is read: when it is a commit that passes, so does the log up
\* to it, by ChecksumsMatch.
LEMMA TailKeeps ==
  ASSUME CapInv, ReadTail
  PROVE  CapInv'
<1>0. LogInv /\ HistInv /\ PosInv /\ ReadInv /\ DueInv /\ BufInv
  BY DEF CapInv
<1> DEFINE N == Len(rd.buf)
           o == rd.offset
           F == wal.frames[o + N + 1]
           buf == Append(rd.buf, F)
<1>1. UNCHANGED <<appVars, pos, chain, failed>> /\ rd.pc \in {"tail", "snapshot"}
      /\ rd.salt # 0 /\ ~(o + N + 1 > Len(wal.frames)) /\ rd' = [rd EXCEPT !.buf = buf]
  BY DEF ReadTail, AtEof, NextFrame
<1>2. rd.salt \in Nat /\ o \in Nat /\ N \in Nat /\ rd.buf \in Seq(FrameType)
      /\ rd.seed \in Seq(Seq(Nat)) /\ rd.due[2] \in Nat
      /\ rd \in RdRecord /\ rd = [pc |-> rd.pc, salt |-> rd.salt, offset |-> rd.offset, len |-> rd.len,
                seed |-> rd.seed, buf |-> rd.buf, due |-> rd.due]
  BY <1>0, RdType, RdFields
<1>3. Len(wal.frames) \in Nat /\ mx \in Nat /\ top \in Nat /\ mx <= top
      /\ \A i \in 1 .. Len(wal.frames) : wal.frames[i] \in FrameType
  BY <1>0, LogFacts
<1>4. F \in FrameType /\ o + N + 1 \in 1 .. Len(wal.frames) /\ o + (N + 1) = o + N + 1
  <2> HIDE DEF N, o
  <2>1. o + N + 1 \in 1 .. Len(wal.frames) /\ o + (N + 1) = o + N + 1
    BY <1>1, <1>2, <1>3
  <2> QED
    BY <1>3, <2>1
<1> HIDE DEF F, N, o
<1>5. buf \in Seq(FrameType) /\ Len(buf) = N + 1 /\ buf[N + 1] = F
      /\ \A j \in 1 .. N : buf[j] = rd.buf[j]
  BY <1>2, <1>4 DEF N
<1> HIDE DEF buf
<1>6. rd' = [pc |-> rd.pc, salt |-> rd.salt, offset |-> rd.offset, len |-> rd.len,
             seed |-> rd.seed, buf |-> buf, due |-> rd.due]
  BY <1>1, <1>2
<1>7. rd' \in RdRecord
  BY <1>2, <1>5, <1>6 DEF RdRecord
<1>8. rd'.pc = rd.pc /\ rd'.salt = rd.salt /\ rd'.offset = o /\ rd'.seed = rd.seed
      /\ rd'.buf = buf /\ rd'.due = rd.due
  BY <1>6 DEF o
<1>9. LogInv' /\ HistInv' /\ PosInv' /\ ChainInv'
  BY <1>1, SyncSame
<1>10. wal' = wal /\ gen' = gen /\ mx' = mx /\ Points' = Points /\ pos' = pos /\ hist' = hist /\ main' = main
  BY <1>1, AppSame
<1>11. ReadInv'
  BY <1>0, <1>1, <1>7, <1>8, <1>10 DEF ReadInv, RdRecord, o
<1>12. DueInv'
  <2>1. ASSUME rd.due[2] # 0, rd.due[1] = wal.salt, NEW j \in 1 .. N + 1, o + j <= rd.due[2]
        PROVE  buf[j] = wal.frames[o + j]
    <3>1. CASE j = N + 1
      BY <1>4, <1>5, <3>1 DEF F
    <3>2. CASE j # N + 1
      <4>1. j \in 1 .. N
        BY <1>2, <3>2
      <4>2. rd.buf[j] = wal.frames[o + j]
        BY <1>0, <1>1, <2>1, <4>1 DEF DueInv, N, o
      <4> QED
        BY <1>5, <4>1, <4>2
    <3> QED
      BY <3>1, <3>2
  <2> QED
    BY <1>0, <1>1, <1>5, <1>8, <1>10, <2>1 DEF DueInv, o
<1>13. BufInv'
  <2> SUFFICES ASSUME NEW n \in 1 .. N + 1, \A j \in 1 .. n : read_frame(rd.salt, rd.seed, buf, j),
                      is_commit(buf[n])
               PROVE  rd.salt = wal.salt /\ o + n <= mx /\ \A j \in 1 .. n : buf[j] = wal.frames[o + j]
    BY <1>5, <1>8, <1>10 DEF BufInv, AllRead, Matches
  <2>1. CASE n # N + 1
    <3>1. n \in 1 .. N
      BY <1>2, <2>1
    <3>2. ASSUME NEW j \in 1 .. n PROVE read_frame(rd.salt, rd.seed, rd.buf, j)
      <4>1. j \in 1 .. N /\ (j # 1 => j - 1 \in 1 .. N)
        BY <1>2, <3>1
      <4>2. buf[j] = rd.buf[j] /\ (j # 1 => buf[j - 1] = rd.buf[j - 1])
        BY <1>5, <4>1
      <4>3. read_frame(rd.salt, rd.seed, buf, j)
        OBVIOUS
      <4> QED
        BY <4>2, <4>3 DEF read_frame
    <3>3. AllRead(n) /\ is_commit(rd.buf[n])
      BY <1>5, <3>1, <3>2 DEF AllRead
    <3>4. rd.salt = wal.salt /\ o + n <= mx /\ Matches(n)
      BY <1>0, <1>1, <3>1, <3>3 DEF BufInv, o, N
    <3>5. \A j \in 1 .. n : j \in 1 .. N
      BY <1>2, <3>1
    <3> QED
      BY <1>5, <3>4, <3>5 DEF Matches, o
  <2>2. CASE n = N + 1
    <3>1. buf[n] = wal.frames[o + n]
      BY <1>4, <1>5, <2>2 DEF F
    <3>2. o + n <= mx
      BY <1>0, <1>4, <2>2, <3>1 DEF LogInv
    <3>3. o + n <= top /\ o + n \in 1 .. top /\ n \in Nat /\ n >= 1
      BY <1>2, <1>3, <3>2
    <3>4. wal.frames[o + n].salt = wal.salt
      BY <1>0, <3>3 DEF LogInv
    <3>5. rd.salt = wal.salt
      <4>1. read_frame(rd.salt, rd.seed, buf, n)
        BY <3>3
      <4> QED
        BY <3>1, <3>4, <4>1 DEF read_frame
    <3>6. n <= Len(buf)
      BY <1>2, <1>5, <2>2
    <3>7. \A j \in 1 .. n : buf[j] = wal.frames[o + j]
      BY <1>0, <1>2, <1>5, <3>1, <3>3, <3>5, <3>6, ChecksumsMatch DEF Sums
    <3> QED
      BY <3>2, <3>5, <3>7
  <2> QED
    BY <2>1, <2>2
<1> QED
  BY <1>9, <1>11, <1>12, <1>13 DEF CapInv

\* A new process knows less of the log's end.
LEMMA ReopenKeeps ==
  ASSUME CapInv, Reopen
  PROVE  CapInv'
<1>0. LogInv /\ HistInv /\ PosInv /\ ReadInv /\ BufInv /\ DueInv /\ ChainInv
  BY DEF CapInv
<1>1. UNCHANGED appVars /\ rd' = rd /\ chain' = chain /\ failed' = failed
      /\ pos' = [pos EXCEPT !.toEnd = FALSE]
  BY DEF Reopen
<1>2. wal' = wal /\ gen' = gen /\ main' = main /\ hist' = hist /\ Points' = Points /\ mx' = mx
      /\ LogInv' /\ HistInv'
  BY <1>0, <1>1, AppSame
<1>3. pos'.txid = pos.txid /\ pos'.offset = pos.offset /\ pos'.salt = pos.salt
      /\ pos' \in [txid : Nat, offset : Nat, salt : Nat, toEnd : BOOLEAN]
  <2>1. pos \in [txid : Nat, offset : Nat, salt : Nat, toEnd : BOOLEAN]
    BY <1>0 DEF PosInv
  <2> QED
    BY <1>1, <2>1
<1>4. Here' = Here /\ Image' = Image
  BY <1>1, <1>3 DEF Here, Image
<1>5. PosInv'
  BY <1>0, <1>2, <1>3, <1>4 DEF PosInv
<1>6. ChainInv'
  BY <1>0, <1>1, <1>2, <1>3, <1>4 DEF ChainInv
<1>7. ReadInv' /\ BufInv' /\ DueInv'
  BY <1>0, <1>1, <1>2, <1>3 DEF ReadInv, BufInv, DueInv, AllRead, Matches
<1> QED
  BY <1>2, <1>5, <1>6, <1>7 DEF CapInv

\* Neighbours are merged.
LEMMA CompactKeeps ==
  ASSUME CapInv, Compact
  PROVE  CapInv'
<1>0. LogInv /\ HistInv /\ PosInv /\ ReadInv /\ BufInv /\ DueInv /\ ChainInv
  BY DEF CapInv
<1>1. PICK i \in DOMAIN chain, j \in DOMAIN chain :
       LET inputs == SubSeq(chain, i, j)
           h == MergedHeader(inputs)
           pages == Ascending(MergedPages(inputs))
       IN  /\ i < j
           /\ failed' = ~Accepts(h, pages)
           /\ chain' = IF Accepts(h, pages)
                         THEN SubSeq(chain, 1, i - 1) \o << Encode(h, pages) >>
                                \o SubSeq(chain, j + 1, Len(chain))
                         ELSE chain
  BY DEF Compact
<1> DEFINE inputs == SubSeq(chain, i, j)
           h == MergedHeader(inputs)
           pages == Ascending(MergedPages(inputs))
           M == Encode(h, pages)
           new == SubSeq(chain, 1, i - 1) \o << M >> \o SubSeq(chain, j + 1, Len(chain))
<1>2. UNCHANGED appVars /\ pos' = pos /\ rd' = rd
  BY DEF Compact
<1>3. i < j /\ failed' = ~Accepts(h, pages)
      /\ chain' = IF Accepts(h, pages) THEN new ELSE chain
  BY <1>1
<1>4. chain \in Seq(Range(chain)) /\ ChainOK(chain) /\ Len(chain) \in Nat
      /\ i \in 1 .. Len(chain) /\ j \in 1 .. Len(chain)
  <2>1. chain \in Seq(Range(chain)) /\ ChainOK(chain)
    BY <1>0 DEF ChainInv
  <2>2. Len(chain) \in Nat /\ DOMAIN chain = 1 .. Len(chain)
    BY <2>1
  <2> QED
    BY <2>1, <2>2
<1>5. Accepts(h, pages) /\ StandsFor(M, chain, i, j)
  BY <1>3, <1>4, MergeStands
<1>6. new \in Seq(Range(new)) /\ new # << >> /\ Replaces(new, chain, i, j, M)
  BY <1>3, <1>4, ReplacesIs
<1>7. failed' = FALSE /\ chain' = new
  BY <1>3, <1>5
<1> HIDE DEF M, new, h, pages
<1>8. ChainOK(new) /\ MergedPages(new) = MergedPages(chain)
  BY <1>3, <1>4, <1>5, <1>6, ReplaceOK, ReplaceImage
<1>9. wal' = wal /\ gen' = gen /\ main' = main /\ hist' = hist /\ Points' = Points /\ mx' = mx
      /\ LogInv' /\ HistInv'
  BY <1>0, <1>2, AppSame
<1>10. ASSUME NEW m \in 1 .. Len(new) PROVE new[m].header.max <= pos.txid
  <2>1. \A k \in 1 .. Len(chain) : chain[k].header.max <= pos.txid
    BY <1>0 DEF ChainInv
  <2>2. Len(new) = Len(chain) - (j - i)
        /\ new[m] = IF m < i THEN chain[m] ELSE IF m = i THEN M ELSE chain[m + (j - i)]
    BY <1>6 DEF Replaces
  <2>3. M.header.max = chain[j].header.max
    BY <1>5 DEF StandsFor
  <2>4. CASE m < i
    <3>1. m \in 1 .. Len(chain)
      BY <1>4, <2>4
    <3> QED
      BY <2>1, <2>2, <2>4, <3>1
  <2>5. CASE m = i
    BY <1>4, <2>1, <2>2, <2>3, <2>5
  <2>6. CASE m > i
    <3>1. m + (j - i) \in 1 .. Len(chain) /\ ~(m < i) /\ m # i
      BY <1>3, <1>4, <2>2, <2>6
    <3> QED
      BY <2>1, <2>2, <3>1
  <2> QED
    BY <1>4, <2>4, <2>5, <2>6
<1>11. Here' = Here /\ Image' = Image
  BY <1>2, <1>7, <1>8 DEF Here, Image
<1>12. chain # << >>
  BY <1>4
<1>13. ChainInv'
  BY <1>0, <1>2, <1>6, <1>7, <1>8, <1>9, <1>10, <1>11, <1>12 DEF ChainInv
<1>14. PosInv'
  BY <1>0, <1>2, <1>9, <1>11 DEF PosInv
<1>15. ReadInv' /\ BufInv' /\ DueInv'
  BY <1>0, <1>2, <1>9 DEF ReadInv, BufInv, DueInv, AllRead, Matches
<1> QED
  BY <1>9, <1>13, <1>14, <1>15 DEF CapInv

(***************************************************************************)
(* Steps of the syncer that publish.                                       *)
(***************************************************************************)
LastRead == LastCommit(rd.salt, rd.seed, rd.buf)

\* The frame that ends what is promoted: the last commit before the first
\* frame that does not pass.
LEMMA LastReadIs ==
  ASSUME ReadInv
  PROVE  /\ LastRead \in 0 .. Len(rd.buf)
         /\ LastRead # 0 => AllRead(LastRead) /\ is_commit(rd.buf[LastRead])
         /\ \A n \in 1 .. Len(rd.buf) : AllRead(n) /\ is_commit(rd.buf[n]) => n <= LastRead
<1> DEFINE N == Len(rd.buf)
           T == {n \in 0 .. N : AllRead(n)}
           V == ValidFrames(rd.salt, rd.seed, rd.buf)
           C == {0} \cup {i \in 1 .. V : is_commit(rd.buf[i])}
<1>1. N \in Nat
  BY RdType
<1> HIDE DEF N
<1>2. V = Max(T)
  BY DEF ValidFrames, AllRead, N
<1>3. 0 \in T /\ T \subseteq Nat /\ \A n \in T : n <= N
  BY <1>1 DEF AllRead
<1>4. Max(T) \in T /\ \A n \in T : n <= Max(T)
  BY <1>1, <1>3, MaxExists
<1>5. V \in 0 .. N /\ AllRead(V) /\ \A n \in 0 .. N : AllRead(n) => n <= V
  BY <1>2, <1>4
<1> HIDE DEF V, T
<1>6. LastRead = Max(C)
  BY DEF LastRead, LastCommit, V
<1>7. C \subseteq Nat /\ C # {} /\ \A n \in C : n <= V
  BY <1>1, <1>5
<1>8. Max(C) \in C /\ \A n \in C : n <= Max(C)
  BY <1>1, <1>5, <1>7, MaxExists
<1>9. LastRead \in 0 .. N
  BY <1>1, <1>5, <1>6, <1>8
<1>10. ASSUME LastRead # 0 PROVE AllRead(LastRead) /\ is_commit(rd.buf[LastRead])
  <2>1. LastRead \in 1 .. V /\ is_commit(rd.buf[LastRead])
    BY <1>6, <1>8, <1>10
  <2>2. \A j \in 1 .. LastRead : j \in 1 .. V
    BY <1>5, <2>1
  <2> QED
    BY <1>5, <2>1, <2>2 DEF AllRead
<1>11. ASSUME NEW n \in 1 .. N, AllRead(n), is_commit(rd.buf[n]) PROVE n <= LastRead
  <2>1. n <= V
    BY <1>1, <1>5, <1>11
  <2>2. n \in C
    BY <1>1, <1>5, <1>11, <2>1
  <2> QED
    BY <1>6, <1>8, <2>2
<1> QED
  BY <1>9, <1>10, <1>11 DEF N

\* page_map over a tail without a commit.
LEMMA MapsNone ==
  ASSUME LastRead = 0
  PROVE  Mapped.commit = 0 /\ DOMAIN Mapped.pages = {} /\ Mapped.end_offset = 0
<1> DEFINE pgnos == {rd.buf[i].pgno : i \in 1 .. LastRead}
                      \cap (1 .. (IF LastRead = 0 THEN 0 ELSE rd.buf[LastRead].commit))
           newest == [p \in pgnos |-> Max({i \in 1 .. LastRead : rd.buf[i].pgno = p})]
<1>1. Mapped = [pages      |-> [p \in pgnos |-> rd.buf[newest[p]].data],
                commit     |-> IF LastRead = 0 THEN 0 ELSE rd.buf[LastRead].commit,
                end_offset |-> IF pgnos = {} THEN 0
                               ELSE rd.offset + Max({newest[p] : p \in pgnos})]
  BY DEF Mapped, page_map, LastRead
<1>2. pgnos = {}
  OBVIOUS
<1> HIDE DEF pgnos, newest
<1> QED
  BY <1>1, <1>2

\* page_map stops at k, with the newest frames up to there.
MapsTo(k) ==
  /\ rd.salt = wal.salt /\ k \in Points \ {0} /\ rd.offset < k
  /\ Mapped.commit = wal.frames[k].commit /\ Mapped.end_offset = k
  /\ DOMAIN Mapped.pages # {}
  /\ Mapped.pages \in
       [WrittenIn(wal.frames, rd.offset, k) \cap PagesOf(wal.frames[k].commit) -> Nat]
  /\ \A p \in DOMAIN Mapped.pages :
       Mapped.pages[p] = wal.frames[Newest(wal.frames, rd.offset, k, p)].data

\* page_map over a tail that was read: the log between the two places.
LEMMA MapsSome ==
  ASSUME LogInv, ReadInv, BufInv, rd.pc \in {"tail", "snapshot"}, LastRead # 0
  PROVE  MapsTo(rd.offset + LastRead)
<1> DEFINE L == LastRead
           o == rd.offset
           buf == rd.buf
           fr == wal.frames
           k == o + L
           c == buf[L].commit
           pgnos == {buf[i].pgno : i \in 1 .. L} \cap (1 .. c)
           newest == [p \in pgnos |-> Max({i \in 1 .. L : buf[i].pgno = p})]
           ends == {newest[p] : p \in pgnos}
<1>1. o \in Nat /\ Len(buf) \in Nat
  BY RdType
<1>2. L \in 0 .. Len(buf) /\ AllRead(L) /\ is_commit(buf[L])
  BY LastReadIs
<1>3. L \in Nat /\ L \in 1 .. Len(buf) /\ L >= 1
  BY <1>1, <1>2
<1>4. rd.salt = wal.salt /\ k <= mx /\ Matches(L)
  BY <1>2, <1>3 DEF BufInv
<1>5. \A i \in 1 .. L : buf[i] = fr[o + i]
  BY <1>4 DEF Matches
<1>6. Mapped = [pages      |-> [p \in pgnos |-> buf[newest[p]].data],
                commit     |-> c,
                end_offset |-> IF pgnos = {} THEN 0 ELSE o + Max(ends)]
  BY DEF Mapped, page_map, LastRead
<1>7. mx \in Nat /\ mx <= top /\ top \in Nat /\ top <= Len(fr) /\ Len(fr) \in Nat
      /\ \A i \in 1 .. Len(fr) : fr[i] \in FrameType
  BY LogFacts
<1> HIDE DEF L, o, buf, fr
<1>8. k \in Nat /\ k \in 1 .. Len(fr) /\ o < k /\ k # 0
  BY <1>1, <1>3, <1>4, <1>7
<1>9. buf[L] = fr[k]
  BY <1>3, <1>5
<1>10. k \in Points \ {0}
  BY <1>2, <1>8, <1>9, PointsAre DEF fr
<1>11. c = fr[k].commit /\ c \in Pgnos /\ buf[L].pgno \in PagesOf(c)
  BY <1>9, <1>10, PointsAre DEF fr
<1> HIDE DEF c, k
<1>12. k = o + L
  BY DEF k
<1>13. \A i \in 1 .. L : o + i \in o + 1 .. k /\ o + i \in 1 .. top
  BY <1>1, <1>3, <1>4, <1>7, <1>12
<1>14. \A i \in o + 1 .. k : i - o \in 1 .. L /\ o + (i - o) = i
  BY <1>1, <1>3, <1>8, <1>12
<1>15. \A q : (\E i \in 1 .. L : buf[i].pgno = q) <=> q \in WrittenIn(fr, o, k)
  <2>1. ASSUME NEW i \in 1 .. L PROVE buf[i].pgno \in WrittenIn(fr, o, k)
    BY <1>5, <1>13 DEF WrittenIn
  <2>2. ASSUME NEW q \in WrittenIn(fr, o, k) PROVE \E i \in 1 .. L : buf[i].pgno = q
    <3>1. PICK i \in o + 1 .. k : fr[i].pgno = q
      BY DEF WrittenIn
    <3>2. i - o \in 1 .. L /\ buf[i - o] = fr[i]
      BY <1>5, <1>14
    <3> QED
      BY <3>1, <3>2
  <2> QED
    BY <2>1, <2>2
<1>16. \A i \in 1 .. L : buf[i].pgno \in Pgnos
  <2>1. \A i \in 1 .. top : fr[i].pgno \in Pgnos
    BY DEF LogInv, fr
  <2> QED
    BY <1>5, <1>13, <2>1
<1>17. \A q : q \in PagesOf(c) <=> q \in Pgnos /\ q <= c
  BY <1>11, PagesAre
<1>18. c \in Nat /\ \A q \in Pgnos : q \in 1 .. c <=> q <= c
  BY <1>11 DEF Pgnos
<1>19. pgnos = WrittenIn(fr, o, k) \cap PagesOf(c)
  <2>1. ASSUME NEW q PROVE q \in pgnos <=> q \in WrittenIn(fr, o, k) /\ q \in PagesOf(c)
    <3>1. q \in pgnos <=> q \in WrittenIn(fr, o, k) /\ q \in 1 .. c
      BY <1>15
    <3>2. q \in WrittenIn(fr, o, k) => q \in Pgnos
      BY <1>15, <1>16
    <3> HIDE DEF pgnos
    <3> QED
      BY <1>17, <1>18, <3>1, <3>2
  <2> QED
    BY <2>1
<1> HIDE DEF pgnos
<1>20. ASSUME NEW p \in pgnos
       PROVE  /\ newest[p] \in 1 .. L /\ o + newest[p] = Newest(fr, o, k, p)
              /\ buf[newest[p]].data = fr[Newest(fr, o, k, p)].data
  <2> DEFINE n == Newest(fr, o, k, p)
             m == n - o
             T == {i \in 1 .. L : buf[i].pgno = p}
  <2>1. p \in WrittenIn(fr, o, k)
    BY <1>19
  <2>2. n \in o + 1 .. k /\ fr[n].pgno = p /\ \A i \in o + 1 .. k : fr[i].pgno = p => i <= n
    BY <1>1, <1>8, <2>1, NewestIs
  <2> HIDE DEF n
  <2>3. m \in 1 .. L /\ o + m = n
    BY <1>14, <2>2
  <2> HIDE DEF m
  <2>4. T \subseteq Nat /\ m \in T
    BY <1>5, <2>2, <2>3
  <2>5. ASSUME NEW i \in T PROVE i <= m
    <3>1. i \in 1 .. L /\ fr[o + i].pgno = p /\ o + i \in o + 1 .. k
      BY <1>5, <1>13
    <3>2. o + i <= n
      BY <2>2, <3>1
    <3> QED
      BY <1>1, <2>3, <3>1, <3>2
  <2>6. Max(T) = m
    BY <2>4, <2>5, MaxIs
  <2>7. newest[p] = m
    BY <2>6
  <2> QED
    BY <1>5, <2>3, <2>7 DEF n
<1>21. buf[L].pgno \in pgnos
  BY <1>3, <1>11, <1>15, <1>19
<1>22. newest[buf[L].pgno] = L
  <2> DEFINE T == {i \in 1 .. L : buf[i].pgno = buf[L].pgno}
  <2>1. T \subseteq Nat /\ L \in T /\ \A i \in T : i <= L
    BY <1>3
  <2>2. Max(T) = L
    BY <2>1, MaxIs
  <2> QED
    BY <1>21, <2>2
<1> HIDE DEF newest
<1>23. Max(ends) = L
  <2>1. ends \subseteq Nat /\ L \in ends /\ \A n \in ends : n <= L
    BY <1>20, <1>21, <1>22
  <2> QED
    BY <2>1, MaxIs
<1> HIDE DEF ends
<1>24. Mapped.commit = c /\ Mapped.end_offset = k /\ DOMAIN Mapped.pages = pgnos
       /\ Mapped.pages = [p \in pgnos |-> buf[newest[p]].data]
  BY <1>6, <1>12, <1>21, <1>23
<1>25. ASSUME NEW p \in pgnos
       PROVE  Mapped.pages[p] = fr[Newest(fr, o, k, p)].data /\ Mapped.pages[p] \in Nat
  <2>1. Mapped.pages[p] = fr[Newest(fr, o, k, p)].data
    BY <1>20, <1>24
  <2>2. o + newest[p] \in 1 .. top /\ o + newest[p] = Newest(fr, o, k, p)
    BY <1>13, <1>20
  <2>3. Newest(fr, o, k, p) \in 1 .. Len(fr)
    BY <1>7, <2>2
  <2>4. fr[Newest(fr, o, k, p)].data \in Nat
    BY <1>7, <2>3, FrameFields
  <2> QED
    BY <2>1, <2>4
<1>26. Mapped.pages \in [WrittenIn(fr, o, k) \cap PagesOf(c) -> Nat]
  BY <1>19, <1>24, <1>25
<1> QED
  BY <1>4, <1>8, <1>10, <1>11, <1>21, <1>24, <1>25, <1>26 DEF MapsTo, fr, o, k, L

\* A file with the pages c under the header h brings the replica to a place of
\* the log: the place e of the generation h.wal_salt.
Brings(h, c, e) ==
  /\ Encodable(h, DOMAIN c) /\ c \in [DOMAIN c -> Nat]
  /\ h.min = NextTxid /\ h.max = NextTxid
  /\ e \in Nat /\ e = h.wal_offset + h.wal_size
  /\ h.wal_salt \in Nat /\ h.wal_salt <= gen /\ (h.wal_salt = 0 => e = 0)
  /\ h.wal_salt = wal.salt => e \in Points
  /\ <<h.wal_salt, e>> \in DOMAIN hist
  /\ h.wal_salt # wal.salt => hist[<<h.wal_salt, e>>] = main
  /\ pos.txid > 0 => PagesOf(h.commit) \subseteq DOMAIN Image \cup DOMAIN c
  /\ pos.txid = 0 => DOMAIN c = PagesOf(h.commit)
  /\ hist[<<h.wal_salt, e>>] =
       [p \in PagesOf(h.commit) |-> IF p \in DOMAIN c THEN c[p] ELSE Image[p]]

\* A file is published that brings the chain to a place of the log.
LEMMA PublishKeeps ==
  ASSUME CapInv, UNCHANGED appVars, rd' = Idle, NEW h, NEW c, NEW e, NEW toEnd \in BOOLEAN,
         Brings(h, c, e), Publish(h, Ascending(c), toEnd)
  PROVE  CapInv' /\ pos'.salt = h.wal_salt /\ pos'.offset = e
<1>0. LogInv /\ HistInv /\ PosInv /\ ChainInv
  BY DEF CapInv
<1>1. Encodable(h, DOMAIN c) /\ c \in [DOMAIN c -> Nat]
  BY DEF Brings
<1>2. Accepts(h, Ascending(c))
  BY <1>1, AcceptsPages
<1> DEFINE f == Encode(h, Ascending(c))
<1>3. FileOK(f) /\ read_file(f) = c /\ f.header = h
  BY <1>1, EncodeOK
<1>4. failed' = FALSE /\ chain' = Append(chain, f)
      /\ pos' = [txid |-> NextTxid, offset |-> h.wal_offset + h.wal_size,
                 salt |-> h.wal_salt, toEnd |-> toEnd]
  BY <1>2 DEF Publish
<1> HIDE DEF f
<1>5. pos.txid \in Nat /\ NextTxid = pos.txid + 1
  BY <1>0, PosType DEF NextTxid
<1>6. chain \in Seq(Range(chain)) /\ ChainOK(chain) /\ Len(chain) \in Nat
      /\ (Len(chain) = 0 <=> pos.txid = 0)
      /\ \A m \in 1 .. Len(chain) : chain[m].header.max <= pos.txid
  <2>1. chain \in Seq(Range(chain)) /\ ChainOK(chain) /\ (chain = << >> <=> pos.txid = 0)
        /\ \A m \in 1 .. Len(chain) : chain[m].header.max <= pos.txid
    BY <1>0 DEF ChainInv
  <2>2. Len(chain) \in Nat /\ (Len(chain) = 0 <=> chain = << >>)
    BY <2>1
  <2> QED
    BY <2>1, <2>2
<1>7. h.min = pos.txid + 1 /\ h.max = pos.txid + 1
      /\ (pos.txid > 0 => PagesOf(h.commit) \subseteq DOMAIN Image \cup DOMAIN c)
      /\ (pos.txid = 0 => DOMAIN c = PagesOf(h.commit))
  BY <1>5 DEF Brings
<1>8. ASSUME NEW m \in 1 .. Len(chain) PROVE chain[m].header.max \in Nat
  <2>1. FileOK(chain[m])
    BY <1>6 DEF ChainOK
  <2> QED
    BY <2>1, HeaderNumbers
<1>9. MayFollow(chain, f)
  <2>1. Len(chain) = 0 => is_snapshot(f.header)
    BY <1>3, <1>5, <1>6, <1>7 DEF is_snapshot
  <2>2. \A m \in 1 .. Len(chain) : chain[m].header.max < f.header.min
    BY <1>3, <1>5, <1>6, <1>7, <1>8
  <2>3. ASSUME Len(chain) > 0
        PROVE  PagesOf(f.header.commit) \subseteq SizeAt(chain, Len(chain)) \cup DOMAIN read_file(f)
    <3>1. DOMAIN Image = SizeAt(chain, Len(chain))
      BY <1>6, <2>3, ImageIs DEF Image
    <3>2. pos.txid > 0
      BY <1>5, <1>6, <2>3
    <3> QED
      BY <1>3, <1>7, <3>1, <3>2
  <2> QED
    BY <1>3, <2>1, <2>2, <2>3 DEF MayFollow
<1> DEFINE new == Append(chain, f)
<1>10. /\ new \in Seq(Range(new)) /\ new # << >> /\ ChainOK(new)
       /\ MergedPages(new) = Overlay(f, MergedPages(chain))
  BY <1>6, <1>9, AppendImage
<1>11. Len(new) = Len(chain) + 1 /\ new[Len(chain) + 1] = f
       /\ \A m \in 1 .. Len(chain) : new[m] = chain[m]
  BY <1>6
<1> HIDE DEF new
<1>12. ASSUME NEW m \in 1 .. Len(new) PROVE new[m].header.max <= pos.txid + 1
  <2>1. CASE m = Len(chain) + 1
    BY <1>3, <1>5, <1>7, <1>11, <2>1
  <2>2. CASE m # Len(chain) + 1
    <3>1. m \in 1 .. Len(chain)
      BY <1>6, <1>11, <2>2
    <3> QED
      BY <1>5, <1>6, <1>8, <1>11, <3>1
  <2> QED
    BY <2>1, <2>2
<1>13. wal' = wal /\ gen' = gen /\ main' = main /\ hist' = hist /\ Points' = Points
       /\ LogInv' /\ HistInv'
  BY <1>0, AppSame
<1>14. /\ e \in Nat /\ e = h.wal_offset + h.wal_size
       /\ h.wal_salt \in Nat /\ h.wal_salt <= gen /\ (h.wal_salt = 0 => e = 0)
       /\ h.wal_salt = wal.salt => e \in Points
       /\ <<h.wal_salt, e>> \in DOMAIN hist
       /\ h.wal_salt # wal.salt => hist[<<h.wal_salt, e>>] = main
       /\ hist[<<h.wal_salt, e>>] =
            [p \in PagesOf(h.commit) |-> IF p \in DOMAIN c THEN c[p] ELSE Image[p]]
  BY DEF Brings
<1>15. pos' = [txid |-> pos.txid + 1, offset |-> e, salt |-> h.wal_salt, toEnd |-> toEnd]
  BY <1>4, <1>5, <1>14
<1>16. pos'.txid = pos.txid + 1 /\ pos'.offset = e /\ pos'.salt = h.wal_salt
       /\ pos' \in [txid : Nat, offset : Nat, salt : Nat, toEnd : BOOLEAN]
  BY <1>5, <1>14, <1>15
<1>17. Here' = <<h.wal_salt, e>>
  BY <1>16 DEF Here
<1>18. pos'.txid # 0
  BY <1>5, <1>16
<1>19. PosInv'
  BY <1>13, <1>14, <1>16, <1>17, <1>18 DEF PosInv
<1>20. Image' = hist[<<h.wal_salt, e>>]
  <2>1. Image' = MergedPages(new)
    BY <1>4 DEF Image, new
  <2>2. Overlay(f, MergedPages(chain)) =
          [p \in PagesOf(h.commit) |-> IF p \in DOMAIN c THEN c[p] ELSE Image[p]]
    BY <1>3 DEF Overlay, Image
  <2> QED
    BY <1>10, <1>14, <2>1, <2>2
<1>21. ChainInv'
  <2>1. chain' = new
    BY <1>4 DEF new
  <2>2. chain' # << >>
    BY <1>10, <2>1
  <2>3. \A m \in 1 .. Len(chain') : chain'[m].header.max <= pos'.txid
    BY <1>12, <1>16, <2>1
  <2>4. Image' = hist'[Here']
    BY <1>13, <1>17, <1>20
  <2>5. chain' \in Seq(Range(chain')) /\ ChainOK(chain')
    BY <1>10, <2>1
  <2> QED
    BY <1>4, <1>18, <2>2, <2>3, <2>4, <2>5 DEF ChainInv
<1>22. ReadInv' /\ BufInv' /\ DueInv'
  BY <1>13, IdleKeeps DEF LogInv
<1> QED
  BY <1>13, <1>16, <1>19, <1>21, <1>22 DEF CapInv

\* build_incremental: the tail brings the replica to the last commit read.
LEMMA IncrementalBrings ==
  ASSUME CapInv, rd.pc = "tail", NEW k, MapsTo(k)
  PROVE  Brings(Header(NextTxid, NextTxid, Mapped.commit, rd.offset,
                       Mapped.end_offset - rd.offset, rd.salt), Mapped.pages, k)
<1>0. LogInv /\ HistInv /\ PosInv /\ ReadInv /\ ChainInv
  BY DEF CapInv
<1> DEFINE o == rd.offset
           fr == wal.frames
           c == Mapped.pages
           n == Mapped.commit
           h == Header(NextTxid, NextTxid, n, o, Mapped.end_offset - o, rd.salt)
<1>1. /\ rd.salt = wal.salt /\ k \in Points \ {0} /\ o < k
      /\ n = fr[k].commit /\ Mapped.end_offset = k
      /\ c \in [WrittenIn(fr, o, k) \cap PagesOf(n) -> Nat]
      /\ \A p \in DOMAIN c : c[p] = fr[Newest(fr, o, k, p)].data
  BY DEF MapsTo
<1>2. o \in Nat /\ wal.salt \in Nat /\ rd.salt # 0 /\ pos.txid > 0 /\ wal.salt <= gen
      /\ o = (IF pos.salt = rd.salt THEN pos.offset ELSE 0)
  BY <1>0, RdType, LogFacts DEF ReadInv, LogInv
<1>3. k \in Nat /\ n \in Pgnos /\ 0 \in Points
  BY <1>0, <1>1, PointsAre
<1>4. pos.txid \in Nat /\ NextTxid = pos.txid + 1
  BY <1>0, PosType DEF NextTxid
<1> HIDE DEF c, n
<1>5. h.min = pos.txid + 1 /\ h.max = pos.txid + 1 /\ h.commit = n /\ h.wal_offset = o
      /\ h.wal_size = k - o /\ h.wal_salt = wal.salt
      /\ h = [min |-> pos.txid + 1, max |-> pos.txid + 1, commit |-> n, wal_offset |-> o,
              wal_size |-> k - o, wal_salt |-> wal.salt]
  BY <1>1, <1>4 DEF Header
<1>6. h \in HeaderType
  <2>1. n \in Nat
    BY <1>3 DEF Pgnos
  <2>2. pos.txid + 1 \in Nat /\ o \in Int /\ k - o \in Int
    BY <1>2, <1>3, <1>4
  <2> HIDE DEF h
  <2> QED
    BY <1>2, <1>5, <2>1, <2>2 DEF HeaderType
<1> HIDE DEF h
<1>7. DOMAIN c = WrittenIn(fr, o, k) \cap PagesOf(n)
  BY <1>1
<1>8. Encodable(h, DOMAIN c)
  <2>1. 1 <= h.min /\ h.min <= h.max /\ h.min # 1
    BY <1>2, <1>4, <1>5
  <2> QED
    BY <1>3, <1>5, <1>6, <1>7, <2>1 DEF Encodable
<1>9. o \in Points /\ At(o) = Image
  <2>1. Here \in DOMAIN hist /\ (pos.salt = wal.salt => pos.offset \in Points)
        /\ (pos.salt # wal.salt => hist[Here] = main) /\ Image = hist[Here]
    BY <1>0, <1>2 DEF PosInv, ChainInv
  <2>2. CASE pos.salt = wal.salt
    <3>1. o = pos.offset
      BY <1>1, <1>2, <2>2
    <3> QED
      BY <2>1, <2>2, <3>1 DEF At, Here
  <2>3. CASE pos.salt # wal.salt
    <3>1. o = 0
      BY <1>1, <1>2, <2>3
    <3> QED
      BY <1>0, <1>3, <2>1, <2>3, <3>1 DEF HistInv
  <2> QED
    BY <2>2, <2>3
<1>10. Follows(fr, o, k, Image, At(k)) /\ DOMAIN At(k) = PagesOf(n) /\ <<wal.salt, k>> \in DOMAIN hist
       /\ At(k) \in Dbs
  BY <1>0, <1>1, <1>9 DEF HistInv, At
<1>11. \A q \in PagesOf(n) : IF q \in DOMAIN c THEN At(k)[q] = c[q]
                             ELSE q \in DOMAIN Image /\ At(k)[q] = Image[q]
  <2>1. \A q \in PagesOf(n) :
          IF q \in WrittenIn(fr, o, k) THEN At(k)[q] = fr[Newest(fr, o, k, q)].data
          ELSE q \in DOMAIN Image /\ At(k)[q] = Image[q]
    BY <1>1, <1>10 DEF Follows
  <2> QED
    BY <1>1, <1>7, <2>1
<1>12. At(k) = [p \in PagesOf(n) |-> IF p \in DOMAIN c THEN c[p] ELSE Image[p]]
  <2>1. PICK z \in Pgnos : At(k) \in [PagesOf(z) -> Nat]
    BY <1>10, DbIs
  <2>2. At(k) = [p \in PagesOf(n) |-> At(k)[p]]
    BY <1>10, <2>1
  <2> QED
    BY <1>11, <2>2
<1>13. k = h.wal_offset + h.wal_size
  BY <1>2, <1>3, <1>5
<1>14. PagesOf(n) \subseteq DOMAIN Image \cup DOMAIN c
  BY <1>11
<1>15. c \in [DOMAIN c -> Nat]
  BY <1>1
<1>16. Brings(h, c, k)
  <2>1. hist[<<h.wal_salt, k>>] =
          [p \in PagesOf(h.commit) |-> IF p \in DOMAIN c THEN c[p] ELSE Image[p]]
    BY <1>5, <1>12 DEF At
  <2>2. h.min = NextTxid /\ h.max = NextTxid
    BY <1>4, <1>5
  <2>3. h.wal_salt \in Nat /\ h.wal_salt <= gen /\ h.wal_salt # 0 /\ h.wal_salt = wal.salt
        /\ <<h.wal_salt, k>> \in DOMAIN hist /\ k \in Points
    BY <1>1, <1>2, <1>5, <1>10
  <2>4. PagesOf(h.commit) \subseteq DOMAIN Image \cup DOMAIN c
    BY <1>5, <1>14
  <2>5. pos.txid # 0
    BY <1>2
  <2> HIDE DEF h
  <2> QED
    BY <1>3, <1>8, <1>13, <1>15, <2>1, <2>2, <2>3, <2>4, <2>5 DEF Brings
<1> QED
  BY <1>16 DEF h, c, n

\* What build_snapshot writes.
SnapshotCommit == IF Mapped.commit > 0 THEN Mapped.commit ELSE SizeOf(main)
SnapshotContent ==
  [p \in SnapshotPages(SnapshotCommit) |->
     IF p \in DOMAIN Mapped.pages THEN Mapped.pages[p]
     ELSE IF p \in DOMAIN main THEN main[p] ELSE 0]

\* All pages of a database d that is the committed one at a place.
LEMMA FullBrings ==
  ASSUME CapInv, NEW n \in Pgnos, NEW d \in [PagesOf(n) -> Nat], NEW e \in Nat, NEW s \in Nat,
         s <= gen, s = 0 => e = 0, s = wal.salt => e \in Points,
         <<s, e>> \in DOMAIN hist, hist[<<s, e>>] = d, s # wal.salt => d = main
  PROVE  Brings(Header(NextTxid, NextTxid, n, 0, e, s), d, e)
<1>0. PosInv
  BY DEF CapInv
<1> DEFINE h == Header(NextTxid, NextTxid, n, 0, e, s)
<1>1. pos.txid \in Nat /\ NextTxid = pos.txid + 1
  BY <1>0, PosType DEF NextTxid
<1>2. h = [min |-> NextTxid, max |-> NextTxid, commit |-> n, wal_offset |-> 0,
           wal_size |-> e, wal_salt |-> s]
  BY DEF Header
<1>3. h.min = NextTxid /\ h.max = NextTxid /\ h.commit = n /\ h.wal_offset = 0
      /\ h.wal_size = e /\ h.wal_salt = s
  BY <1>2
<1>4. n \in Nat /\ NextTxid \in Nat /\ 0 \in Int /\ e \in Int
  BY <1>1 DEF Pgnos
<1>5. h \in HeaderType
  <2> HIDE DEF h
  <2> QED
    BY <1>2, <1>4 DEF HeaderType
<1> HIDE DEF h
<1>6. DOMAIN d = PagesOf(n)
  OBVIOUS
<1>7. Encodable(h, DOMAIN d)
  <2>1. 1 <= h.min /\ h.min <= h.max
    BY <1>1, <1>3
  <2> QED
    BY <1>3, <1>5, <1>6, <2>1 DEF Encodable
<1>8. e = h.wal_offset + h.wal_size
  BY <1>3
<1>9. d = [p \in PagesOf(n) |-> IF p \in DOMAIN d THEN d[p] ELSE Image[p]]
  BY <1>6
<1>10. Brings(h, d, e)
  BY <1>3, <1>6, <1>7, <1>8, <1>9 DEF Brings
<1> QED
  BY <1>10 DEF h

\* The pages of the log over those of the database file are the database at
\* the last commit that was read.
LEMMA SnapshotBrings ==
  ASSUME CapInv, rd.pc = "snapshot"
  PROVE  Brings(Header(NextTxid, NextTxid, SnapshotCommit, 0, Mapped.end_offset, rd.salt),
                SnapshotContent, Mapped.end_offset)
<1>0. LogInv /\ HistInv /\ PosInv /\ ReadInv /\ BufInv
  BY DEF CapInv
<1>1. rd.salt \in Nat /\ rd.salt <= gen /\ rd.offset = 0 /\ <<rd.salt, 0>> \in DOMAIN hist
      /\ hist[<<rd.salt, 0>>] = main /\ (rd.salt = 0 => rd.buf = << >>)
  BY <1>0, RdType DEF ReadInv
<1>2. CASE LastRead = 0
  <2>1. Mapped.commit = 0 /\ DOMAIN Mapped.pages = {} /\ Mapped.end_offset = 0
    BY <1>2, MapsNone
  <2>2. PICK n \in Pgnos : main \in [PagesOf(n) -> Nat]
    BY <1>0, DbIs DEF HistInv
  <2>3. SizeOf(main) = n
    <3>1. PagesOf(n) \subseteq Nat /\ n \in PagesOf(n) /\ \A q \in PagesOf(n) : q <= n
      BY PagesAre
    <3>2. Max(PagesOf(n)) = n
      BY <3>1, MaxIs
    <3> QED
      BY <2>2, <3>2 DEF SizeOf
  <2>4. SnapshotCommit = n
    BY <2>1, <2>3 DEF SnapshotCommit
  <2>5. SnapshotContent = main
    <3>1. SnapshotContent = [p \in PagesOf(n) |-> main[p]]
      BY <2>1, <2>2, <2>4 DEF SnapshotContent, SnapshotPages
    <3> QED
      BY <2>2, <3>1
  <2>6. 0 \in Points
    BY DEF Points
  <2>7. Brings(Header(NextTxid, NextTxid, n, 0, 0, rd.salt), main, 0)
    BY <1>1, <2>2, <2>6, FullBrings
  <2> QED
    BY <2>1, <2>4, <2>5, <2>7
<1>3. CASE LastRead # 0
  <2>0. LastRead \in 0 .. Len(rd.buf) /\ Len(rd.buf) \in Nat
    BY <1>0, LastReadIs, RdType
  <2>1. PICK k : k = 0 + LastRead /\ MapsTo(k)
    BY <1>0, <1>1, <1>3, MapsSome
  <2> DEFINE fr == wal.frames
             n == Mapped.commit
  <2>2. /\ rd.salt = wal.salt /\ k \in Points \ {0}
        /\ n = fr[k].commit /\ Mapped.end_offset = k
        /\ Mapped.pages \in [WrittenIn(fr, 0, k) \cap PagesOf(n) -> Nat]
        /\ \A p \in DOMAIN Mapped.pages : Mapped.pages[p] = fr[Newest(fr, 0, k, p)].data
    BY <1>1, <2>1 DEF MapsTo
  <2>3. k \in Nat /\ 0 < k /\ n \in Pgnos /\ 0 \in Points
    <3>1. k \in Nat /\ k # 0 /\ n \in Pgnos /\ 0 \in Points
      BY <1>0, <2>2, PointsAre
    <3> QED
      BY <3>1
  <2>4. SnapshotCommit = n
    BY <2>3 DEF SnapshotCommit, Pgnos
  <2>5. At(0) = main /\ Follows(fr, 0, k, At(0), At(k)) /\ DOMAIN At(k) = PagesOf(n)
        /\ <<wal.salt, k>> \in DOMAIN hist /\ At(k) \in Dbs
    BY <1>0, <2>2, <2>3 DEF HistInv, At
  <2>6. \A q \in PagesOf(n) :
          IF q \in WrittenIn(fr, 0, k) THEN At(k)[q] = fr[Newest(fr, 0, k, q)].data
          ELSE q \in DOMAIN main /\ At(k)[q] = main[q]
    BY <2>2, <2>5 DEF Follows
  <2>7. DOMAIN Mapped.pages = WrittenIn(fr, 0, k) \cap PagesOf(n)
    BY <2>2
  <2> HIDE DEF fr, n
  <2>8. SnapshotContent = [p \in PagesOf(n) |->
          IF p \in DOMAIN Mapped.pages THEN Mapped.pages[p]
          ELSE IF p \in DOMAIN main THEN main[p] ELSE 0]
    BY <2>4 DEF SnapshotContent, SnapshotPages
  <2>9. PICK z \in Pgnos : At(k) \in [PagesOf(z) -> Nat]
    BY <2>5, DbIs
  <2>10. At(k) \in [PagesOf(n) -> Nat]
    BY <2>5, <2>9
  <2>11. SnapshotContent = At(k)
    <3>1. ASSUME NEW p \in PagesOf(n) PROVE SnapshotContent[p] = At(k)[p]
      BY <2>2, <2>6, <2>7, <2>8
    <3>2. SnapshotContent = [p \in PagesOf(n) |-> SnapshotContent[p]]
      BY <2>8
    <3>3. At(k) = [p \in PagesOf(n) |-> At(k)[p]]
      BY <2>10
    <3> QED
      BY <3>1, <3>2, <3>3
  <2>12. wal.salt # 0 /\ wal.salt \in Nat /\ wal.salt <= gen
    <3>1. wal.salt = 0 => k = 0
      BY <1>0, <2>2, LogFacts, PointsAre
    <3> QED
      BY <1>1, <2>2, <2>3, <3>1
  <2>13. hist[<<wal.salt, k>>] = At(k)
    BY DEF At
  <2>14. Brings(Header(NextTxid, NextTxid, n, 0, k, wal.salt), At(k), k)
    <3>1. PICK d \in [PagesOf(n) -> Nat] : d = At(k)
      BY <2>10
    <3>2. PICK s \in Nat : s = wal.salt
      BY <2>12
    <3>3. PICK m \in Pgnos : m = n
      BY <2>3
    <3>4. Brings(Header(NextTxid, NextTxid, m, 0, k, s), d, k)
      BY <2>2, <2>3, <2>5, <2>12, <2>13, <3>1, <3>2, <3>3, FullBrings
    <3> QED
      BY <3>1, <3>2, <3>3, <3>4
  <2> QED
    BY <2>2, <2>4, <2>11, <2>14 DEF n
<1> QED
  BY <1>2, <1>3

\* Where a sync that publishes leads.
LEMMA IncrementalKeeps ==
  ASSUME CapInv, BuildIncremental
  PROVE  /\ CapInv' /\ LastRead # 0
         /\ pos'.salt = rd.salt /\ pos'.offset = rd.offset + LastRead
<1>0. LogInv /\ ReadInv /\ BufInv
  BY DEF CapInv
<1> DEFINE h == Header(NextTxid, NextTxid, Mapped.commit, rd.offset,
                       Mapped.end_offset - rd.offset, rd.salt)
           toEnd == Mapped.end_offset >= rd.len
<1>1. rd.pc = "tail" /\ DOMAIN Mapped.pages # {} /\ rd' = Idle /\ UNCHANGED appVars
      /\ Publish(h, Ascending(Mapped.pages), toEnd)
  BY DEF BuildIncremental
<1>2. LastRead # 0
  BY <1>1, MapsNone
<1>3. PICK k : k = rd.offset + LastRead
  OBVIOUS
<1>4. MapsTo(k)
  BY <1>0, <1>1, <1>2, <1>3, MapsSome
<1>5. Brings(h, Mapped.pages, k)
  BY <1>1, <1>4, IncrementalBrings
<1>6. toEnd \in BOOLEAN /\ h.wal_salt = rd.salt
  BY DEF Header
<1> HIDE DEF h, toEnd
<1>7. CapInv' /\ pos'.salt = h.wal_salt /\ pos'.offset = k
  BY <1>1, <1>5, <1>6, PublishKeeps
<1> QED
  BY <1>2, <1>3, <1>6, <1>7

\* A snapshot is published.
LEMMA SnapshotKeeps ==
  ASSUME CapInv, BuildSnapshot
  PROVE  /\ CapInv' /\ rd.offset = 0
         /\ pos'.salt = rd.salt /\ pos'.offset = rd.offset + LastRead
<1>0. LogInv /\ ReadInv /\ BufInv
  BY DEF CapInv
<1> DEFINE h == Header(NextTxid, NextTxid, SnapshotCommit, 0, Mapped.end_offset, rd.salt)
           toEnd == Mapped.end_offset >= Len(rd.buf)
<1>1. rd.pc = "snapshot" /\ rd' = Idle /\ UNCHANGED appVars
      /\ Publish(h, Ascending(SnapshotContent), toEnd)
  BY DEF BuildSnapshot, SnapshotContent, SnapshotCommit
<1>2. PICK e : e = Mapped.end_offset
  OBVIOUS
<1>3. Brings(h, SnapshotContent, e)
  BY <1>1, <1>2, SnapshotBrings
<1>4. toEnd \in BOOLEAN /\ h.wal_salt = rd.salt
  BY DEF Header
<1> HIDE DEF h, toEnd
<1>5. CapInv' /\ pos'.salt = h.wal_salt /\ pos'.offset = e
  BY <1>1, <1>3, <1>4, PublishKeeps
<1>6. rd.offset = 0 /\ LastRead \in 0 .. Len(rd.buf) /\ Len(rd.buf) \in Nat
  BY <1>0, <1>1, LastReadIs, RdType DEF ReadInv
<1>7. e = LastRead
  <2>1. CASE LastRead = 0
    BY <1>2, <2>1, MapsNone
  <2>2. CASE LastRead # 0
    <3>1. MapsTo(rd.offset + LastRead)
      BY <1>0, <1>1, <2>2, MapsSome
    <3>2. e = rd.offset + LastRead
      BY <1>2, <3>1 DEF MapsTo
    <3> QED
      BY <1>6, <3>2
  <2> QED
    BY <2>1, <2>2
<1> QED
  BY <1>4, <1>5, <1>6, <1>7

(***************************************************************************)
(* The invariant, and what follows from it.                                *)
(***************************************************************************)
\* A database of one page and an empty log of the first generation.
LEMMA InitHolds ==
  ASSUME Init
  PROVE  CapInv
<1>1. /\ wal = [salt |-> 1, frames |-> << >>] /\ gen = 1 /\ mx = 0 /\ top = 0 /\ tx = 1
      /\ live = [p \in {1} |-> 0] /\ main = live /\ hist = [at \in {<<1, 0>>} |-> live]
      /\ pos = [txid |-> 0, offset |-> 0, salt |-> 0, toEnd |-> FALSE]
      /\ rd = Idle /\ chain = << >> /\ failed = FALSE
  BY DEF Init, NoWal
<1>2. << >> \in Seq(FrameType) /\ Len(<< >>) = 0
  OBVIOUS
<1>3. LogInv
  BY <1>1, <1>2 DEF LogInv
<1>4. Points = {0}
  BY <1>1 DEF Points
<1>5. live \in Dbs
  <2>1. LockPgno # 1
    BY CaptureAssumption
  <2>2. 1 \in Pgnos
    BY <2>1 DEF Pgnos
  <2>3. PagesOf(1) = {1}
    BY <2>1 DEF PagesOf
  <2>4. live \in [PagesOf(1) -> Nat]
    BY <1>1, <2>3
  <2> QED
    BY <2>2, <2>4 DEF Dbs
<1>6. wal.salt = 1 /\ <<1, 0>> \in DOMAIN hist /\ hist[<<1, 0>>] = live
      /\ \A at \in DOMAIN hist : hist[at] = live
  BY <1>1
<1>7. HistInv
  <2>1. At(0) = live
    BY <1>6 DEF At
  <2>2. \A k \in Points \ {0} : FALSE
    BY <1>4
  <2>3. \A o, k \in Points : ~(o < k)
    BY <1>4
  <2> QED
    BY <1>1, <1>4, <1>5, <1>6, <2>1, <2>2, <2>3 DEF HistInv
<1>8. PosInv
  BY <1>1 DEF PosInv
<1>9. ReadInv /\ BufInv /\ DueInv
  <2>1. << >> \in Seq(Seq(Nat)) /\ <<0, 0>> \in Nat \X Nat
    OBVIOUS
  <2>2. rd = [pc |-> "idle", salt |-> 0, offset |-> 0, len |-> 0, seed |-> << >>,
              buf |-> << >>, due |-> <<0, 0>>]
    BY <1>1 DEF Idle
  <2>3. rd.pc = "idle" /\ rd.salt = 0 /\ rd.offset = 0 /\ rd.buf = << >>
        /\ rd.due[1] = 0 /\ rd.due[2] = 0
    BY <2>2
  <2>4. rd \in [pc : {"idle", "open", "seed", "tail", "snapshot"}, salt : Nat, offset : Nat,
                len : Nat, seed : Seq(Seq(Nat)), buf : Seq(FrameType), due : Nat \X Nat]
    BY <1>2, <2>1, <2>2
  <2> QED
    BY <1>1, <2>3, <2>4 DEF ReadInv, BufInv, DueInv
<1>10. ChainInv
  <2>1. chain \in Seq(Range(chain)) /\ Len(chain) = 0
    BY <1>1
  <2>2. ChainOK(chain)
    BY <2>1 DEF ChainOK
  <2> QED
    BY <1>1, <2>1, <2>2 DEF ChainInv
<1> QED
  BY <1>3, <1>7, <1>8, <1>9, <1>10 DEF CapInv

\* Every step keeps the invariant.
LEMMA NextKeeps ==
  ASSUME CapInv, [Next]_vars, ~LosesCaptured
  PROVE  CapInv'
<1>1. CASE UNCHANGED vars
  BY <1>1, Stutters
<1>2. CASE AppStep
  <2>1. ASSUME LogInv' /\ HistInv' /\ GoesOn PROVE CapInv'
    BY <2>1, GoesOnKeeps DEF CapInv
  <2>2. CASE AppWrite
    BY <2>1, <2>2, WriteKeeps
  <2>3. CASE AppCommit
    BY <2>1, <2>3, CommitKeeps
  <2>4. CASE AppRollback
    BY <2>1, <2>4, RollbackKeeps
  <2>5. CASE AppTear
    BY <2>1, <2>5, TearKeeps
  <2>6. CASE Restart
    BY <2>6, RestartKeeps
  <2>7. CASE Truncate
    BY <2>7, TruncateKeeps
  <2>8. CASE PowerLoss
    BY <2>8, PowerLossKeeps
  <2> QED
    BY <1>2, <2>2, <2>3, <2>4, <2>5, <2>6, <2>7, <2>8 DEF AppStep
<1>3. CASE SyncStep
  <2>1. CASE SyncSkip
    BY <2>1, Stutters DEF SyncSkip
  <2>2. CASE SyncSnapshot
    BY <2>2, SnapshotBegins
  <2>3. CASE SyncIncremental
    BY <2>3, IncrementalBegins
  <2>4. CASE ReadSeed
    BY <2>4, SeedKeeps
  <2>5. CASE ReadHeader
    BY <2>5, HeaderKeeps
  <2>6. CASE ReadTail
    BY <2>6, TailKeeps
  <2>7. CASE BuildIncremental
    BY <2>7, IncrementalKeeps
  <2>8. CASE NothingNew
    BY <2>8, EndsIdle DEF NothingNew
  <2>9. CASE BuildSnapshot
    BY <2>9, SnapshotKeeps
  <2>10. CASE Reopen
    BY <2>10, ReopenKeeps
  <2>11. CASE Compact
    BY <2>11, CompactKeeps
  <2> QED
    BY <1>3, <2>1, <2>2, <2>3, <2>4, <2>5, <2>6, <2>7, <2>8, <2>9, <2>10, <2>11 DEF SyncStep
<1> QED
  BY <1>1, <1>2, <1>3 DEF Next

\* The properties of the chain are parts of the invariant.
LEMMA CapturedHolds ==
  ASSUME CapInv
  PROVE  CapturedIsCommitted /\ EncoderAccepts
BY DEF CapInv, PosInv, ChainInv, CapturedIsCommitted, EncoderAccepts, Here

\* What was due is read to its end: the frames up to it pass, and it is a commit.
LEMMA ReadsWhatIsDue ==
  ASSUME CapInv, rd.pc \in {"tail", "snapshot"}, AtEof,
         rd.due[1] = wal.salt, rd.due[2] # 0
  PROVE  /\ rd.salt = wal.salt /\ LastRead \in Nat
         /\ rd.due[2] > rd.offset => LastRead # 0
         /\ rd.due[2] <= rd.offset + LastRead
<1>0. LogInv /\ ReadInv /\ DueInv
  BY DEF CapInv
<1> DEFINE d == rd.due[2]
           o == rd.offset
           n == d - o
<1>1. /\ rd.salt = wal.salt /\ wal.salt # 0 /\ d \in Points
      /\ rd.seed = Seed(wal, rd.salt, o)
      /\ \A j \in 1 .. Len(rd.buf) : o + j <= d => rd.buf[j] = wal.frames[o + j]
  BY <1>0 DEF DueInv
<1>2. o \in Nat /\ Len(rd.buf) \in Nat /\ d \in Nat /\ d # 0
      /\ LastRead \in 0 .. Len(rd.buf)
  BY <1>0, RdType, LastReadIs
<1>3. /\ d <= mx /\ mx \in Nat /\ top \in Nat /\ mx <= top /\ is_commit(wal.frames[d])
      /\ top <= Len(wal.frames) /\ Len(wal.frames) \in Nat
  BY <1>0, <1>1, <1>2, PointsAre, LogFacts
<1>4. CASE d <= o
  BY <1>1, <1>2, <1>4
<1>5. CASE d > o
  <2>1. o + Len(rd.buf) >= Len(wal.frames)
    BY <1>1, <1>2, <1>3 DEF AtEof, NextFrame
  <2> HIDE DEF d, o
  <2>2. n \in 1 .. Len(rd.buf) /\ o + n = d /\ n \in Nat
    BY <1>2, <1>3, <1>5, <2>1
  <2> HIDE DEF n
  <2>3. ASSUME NEW j \in 1 .. n PROVE read_frame(rd.salt, rd.seed, rd.buf, j)
    <3>1. j \in Nat /\ j \in 1 .. Len(rd.buf) /\ o + j <= d /\ o + j \in 1 .. top /\ (o + j) - 1 = o + (j - 1)
      BY <1>2, <1>3, <2>2
    <3>2. rd.buf[j] = wal.frames[o + j]
      BY <1>1, <3>1
    <3>3. wal.frames[o + j].salt = wal.salt
          /\ wal.frames[o + j].sum
               = wal_checksum(Seed(wal, wal.salt, o + (j - 1)), wal.frames[o + j])
      BY <1>0, <3>1 DEF LogInv
    <3>4. Seed(wal, wal.salt, o + (j - 1)) = IF j = 1 THEN rd.seed ELSE rd.buf[j - 1].sum
      <4>1. CASE j = 1
        <5>1. o + (j - 1) = o
          BY <1>2, <4>1
        <5> QED
          BY <1>1, <4>1, <5>1
      <4>2. CASE j # 1
        <5>1. j - 1 \in 1 .. Len(rd.buf) /\ o + (j - 1) <= d /\ o + (j - 1) # 0
          BY <1>2, <2>2, <3>1, <4>2
        <5>2. rd.buf[j - 1] = wal.frames[o + (j - 1)]
          BY <1>1, <5>1
        <5> QED
          BY <4>2, <5>1, <5>2 DEF Seed
      <4> QED
        BY <4>1, <4>2
    <3> QED
      BY <1>1, <3>2, <3>3, <3>4 DEF read_frame
  <2>4. AllRead(n)
    BY <2>3 DEF AllRead
  <2>5. rd.buf[n] = wal.frames[d]
    BY <1>1, <1>2, <2>2
  <2>6. n <= LastRead
    BY <1>0, <1>3, <2>2, <2>4, <2>5, LastReadIs
  <2> QED
    BY <1>1, <1>2, <2>2, <2>6 DEF d, o
<1> QED
  BY <1>2, <1>4, <1>5

\* The action of SyncReaches.
Reaches ==
  (BuildIncremental \/ NothingNew \/ BuildSnapshot) /\ rd.due[1] = wal.salt
    => \/ rd.due[2] = 0
       \/ pos'.salt = rd.due[1] /\ pos'.offset >= rd.due[2]

\* A step that ends a sync reaches what was due: it publishes up to the last
\* commit that was read, or the position was there before.
LEMMA SyncEnds ==
  ASSUME CapInv
  PROVE  Reaches
<1> SUFFICES ASSUME BuildIncremental \/ NothingNew \/ BuildSnapshot,
                    rd.due[1] = wal.salt, rd.due[2] # 0
             PROVE  pos'.salt = rd.due[1] /\ pos'.offset >= rd.due[2]
  BY DEF Reaches
<1>0. LogInv /\ ReadInv /\ BufInv /\ PosInv
  BY DEF CapInv
<1>1. rd.offset \in Nat /\ rd.due[2] \in Nat /\ pos.offset \in Nat
  BY <1>0, RdType, PosType
<1>2. rd.pc \in {"tail", "snapshot"} /\ AtEof
  BY DEF BuildIncremental, NothingNew, BuildSnapshot
<1>3. /\ rd.salt = wal.salt /\ LastRead \in Nat
      /\ rd.due[2] > rd.offset => LastRead # 0
      /\ rd.due[2] <= rd.offset + LastRead
  BY <1>2, ReadsWhatIsDue
<1>4. CASE BuildIncremental
  <2>1. pos'.salt = rd.salt /\ pos'.offset = rd.offset + LastRead
    BY <1>4, IncrementalKeeps
  <2> QED
    BY <1>1, <1>3, <2>1
<1>5. CASE BuildSnapshot
  <2>1. pos'.salt = rd.salt /\ pos'.offset = rd.offset + LastRead
    BY <1>5, SnapshotKeeps
  <2> QED
    BY <1>1, <1>3, <2>1
<1>6. CASE NothingNew
  <2>1. rd.pc = "tail" /\ DOMAIN Mapped.pages = {} /\ pos' = pos
    BY <1>6 DEF NothingNew
  <2>2. LastRead = 0
    <3> SUFFICES ASSUME LastRead # 0 PROVE FALSE
      OBVIOUS
    <3>1. MapsTo(rd.offset + LastRead)
      BY <1>0, <2>1, MapsSome
    <3> QED
      BY <2>1, <3>1 DEF MapsTo
  <2>3. rd.due[2] <= rd.offset
    BY <1>1, <1>3, <2>2
  <2>4. rd.offset # 0
    BY <1>1, <2>3
  <2>5. pos.salt = rd.salt /\ rd.offset = pos.offset
    BY <1>0, <2>1, <2>4 DEF ReadInv
  <2> QED
    BY <1>1, <1>3, <2>1, <2>3, <2>5
<1> QED
  BY <1>4, <1>5, <1>6

\* The inductive invariant holds of every behaviour, when a power loss takes back
\* nothing that was captured.
THEOREM CapInvariant ==
  ASSUME ~LosesCaptured
  PROVE  Spec => []CapInv
<1>1. Init => CapInv
  BY InitHolds
<1>2. CapInv /\ [Next]_vars => CapInv'
  BY NextKeeps
<1> QED
  BY <1>1, <1>2, PTL DEF Spec

\* The replica restores to the committed database at exactly the commit the
\* position names (build_snapshot, build_incremental, page_map, compaction and
\* restore together), whatever was spilled, rolled back, torn or overwritten
\* while the tail was read.
THEOREM CapturedIsCommittedTheorem ==
  ASSUME ~LosesCaptured
  PROVE  Spec => []CapturedIsCommitted
<1>1. CapInv => CapturedIsCommitted
  BY CapturedHolds
<1> QED
  BY <1>1, CapInvariant, PTL

\* The encoder accepts whatever a sync or a merge hands it: no sync and no
\* compaction ends in an encoder error.
THEOREM EncoderAcceptsTheorem ==
  ASSUME ~LosesCaptured
  PROVE  Spec => []EncoderAccepts
<1>1. CapInv => EncoderAccepts
  BY CapturedHolds
<1> QED
  BY <1>1, CapInvariant, PTL

\* A sync that ends without an error has captured every commit that was in the
\* log when it began, unless the log was restarted meanwhile.
THEOREM SyncReachesTheorem ==
  ASSUME ~LosesCaptured
  PROVE  Spec => SyncReaches
<1>1. CapInv => [Reaches]_vars
  BY SyncEnds
<1>2. [][Reaches]_vars => SyncReaches
  BY PTL DEF SyncReaches, Reaches
<1> QED
  BY <1>1, <1>2, CapInvariant, PTL
=============================================================================
