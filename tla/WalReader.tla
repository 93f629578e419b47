----------------------------- MODULE WalReader ------------------------------
(***************************************************************************)
(* The reader of a SQLite write-ahead log (src/wal/reader.rs and           *)
(* src/wal/format.rs), as operators on a log file that anyone may be       *)
(* writing to.                                                             *)
(*                                                                         *)
(* A log file is a salt, the generation its header names (0: no header),   *)
(* and a sequence of frames: page number, commit size (0: not a commit),   *)
(* salt, page data and checksum.  Offsets count frames after the header.   *)
(*                                                                         *)
(* The two salts of SQLite are one number.  The running checksum is        *)
(* abstracted to what it is computed from: the header's salt and, frame by *)
(* frame, page number, commit size and data.  Equal checksums therefore    *)
(* mean equal prefixes, which a 64-bit sum only makes likely.              *)
(***************************************************************************)
EXTENDS Naturals, Sequences, FiniteSetsExt

NoWal == [salt |-> 0, frames |-> << >>]
HasHeader(wal) == wal.salt # 0

\* wal_checksum, seeded by the header and carried from frame to frame.
HeaderSum(salt) == << <<salt>> >>
wal_checksum(seed, f) == Append(seed, <<f.pgno, f.commit, f.data>>)

\* What a frame holds whose page data is not yet, or never was, all written.
TornSum == << >>

Frame(pgno, commit, salt, data, seed) ==
  [pgno |-> pgno, commit |-> commit, salt |-> salt, data |-> data,
   sum |-> wal_checksum(seed, [pgno |-> pgno, commit |-> commit, data |-> data])]

is_commit(f) == f.commit # 0

\* Mutation: frames are accepted without following the checksum.
Mutread_frame(salt, seed, buf, i) == buf[i].salt = salt

\* read_frame returns the i-th frame of a buffer: same generation, and the
\* running checksum of all that precedes it agrees.
read_frame(salt, seed, buf, i) ==
  /\ buf[i].salt = salt
  /\ buf[i].sum = wal_checksum(IF i = 1 THEN seed ELSE buf[i - 1].sum, buf[i])

\* Mutation: a frame that ends where the file ends counts as torn.
MutValidFrames(salt, seed, buf) ==
  Max({0} \cup {n \in 1 .. Len(buf) - 1 : \A i \in 1 .. n : read_frame(salt, seed, buf, i)})

\* How many frames read_frame returns before None.
ValidFrames(salt, seed, buf) ==
  Max({n \in 0 .. Len(buf) : \A i \in 1 .. n : read_frame(salt, seed, buf, i)})

\* The last frame that promotes what was staged before it, 0 for none.
LastCommit(salt, seed, buf) ==
  Max({0} \cup {i \in 1 .. ValidFrames(salt, seed, buf) : is_commit(buf[i])})

(***************************************************************************)
(* page_map: the newest committed frame of each page, without the pages    *)
(* past the size of the last commit; where the highest of these frames     *)
(* ends, 0 for no pages.                                                   *)
(***************************************************************************)
page_map(salt, seed, buf, base) ==
  LET last   == LastCommit(salt, seed, buf)
      commit == IF last = 0 THEN 0 ELSE buf[last].commit
      pgnos  == {buf[i].pgno : i \in 1 .. last} \cap (1 .. commit)
      newest == [p \in pgnos |-> Max({i \in 1 .. last : buf[i].pgno = p})]
  IN  [pages      |-> [p \in pgnos |-> buf[newest[p]].data],
       commit     |-> commit,
       end_offset |-> IF pgnos = {} THEN 0
                      ELSE base + Max({newest[p] : p \in pgnos})]

(***************************************************************************)
(* The checksum a tail is verified from: the header's, or the one stored   *)
(* in the frame that ends at the offset.  Its own frames are not read.     *)
(***************************************************************************)
\* Otherwise PrevFrameMismatch, or an error for a file that became shorter.
SeedKnown(wal, salt, offset) ==
  offset > 0 => offset <= Len(wal.frames) /\ wal.frames[offset].salt = salt

Seed(wal, salt, offset) ==
  IF offset = 0 THEN HeaderSum(salt) ELSE wal.frames[offset].sum
=============================================================================
