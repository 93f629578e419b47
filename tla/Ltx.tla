-------------------------------- MODULE Ltx ---------------------------------
(***************************************************************************)
(* LTX files: the encoder's rules (src/ltx/encoder.rs), what a reader      *)
(* finds in a file (src/ltx/decoder.rs) and the merge                      *)
(* (src/ltx/compactor.rs).  Pure operators.                                *)
(*                                                                         *)
(* A file is a header and its page frames in the order they were written.  *)
(* The layout of a file is not modelled: the page index with its offsets,  *)
(* the compression, the checksums.                                         *)
(***************************************************************************)
EXTENDS Integers, FiniteSets, Sequences, SequencesExt

CONSTANT LockPgno      \* lock_pgno: the page of SQLite's lock byte
ASSUME LockAssumption == LockPgno \in Nat \ {0}

Header(min, max, commit, offset, size, salt) ==
  [min |-> min, max |-> max, commit |-> commit,
   wal_offset |-> offset, wal_size |-> size, wal_salt |-> salt]

is_snapshot(h) == h.min = 1

validate(h) == h.min # 0 /\ h.min <= h.max

(***************************************************************************)
(* The encoder.  A page it refuses ends in an error and no file.           *)
(***************************************************************************)
\* The page a snapshot continues with: every page but the lock page.
NextOfSnapshot(prev) == IF prev # 0 /\ prev = LockPgno - 1 THEN prev + 2 ELSE prev + 1

InOrder(h, prev, pgno) ==
  IF is_snapshot(h) THEN pgno = NextOfSnapshot(prev) ELSE pgno > prev

AcceptsPage(h, prev, pgno) ==
  /\ pgno # 0
  /\ pgno <= h.commit
  /\ pgno # LockPgno
  /\ InOrder(h, prev, pgno)

\* pages is the sequence of calls of encode_page.
Accepts(h, pages) ==
  /\ validate(h)
  /\ \A i \in 1 .. Len(pages) :
       AcceptsPage(h, IF i = 1 THEN 0 ELSE pages[i - 1].pgno, pages[i].pgno)

Encode(h, pages) == [header |-> h, pages |-> pages]

\* A set of numbers in ascending order: each has the place that the smaller
\* ones leave.
Sorted(S) ==
  [i \in 1 .. Cardinality(S) |-> CHOOSE n \in S : Cardinality({m \in S : m < n}) = i - 1]

\* Pages in ascending order of their numbers, from a function.
Ascending(content) ==
  LET pgnos == Sorted(DOMAIN content)
  IN  [i \in 1 .. Len(pgnos) |-> [pgno |-> pgnos[i], data |-> content[pgnos[i]]]]

\* read_file: every page the index names, and finish puts each page there.
read_file(f) == [p \in {e.pgno : e \in Range(f.pages)} |->
                   (CHOOSE e \in Range(f.pages) : e.pgno = p).data]

(***************************************************************************)
(* compact_to_writer and merge_to_writer: of each page the version of the  *)
(* last input that has it, unless the last input's size excludes it.       *)
(***************************************************************************)
MergedHeader(inputs) ==
  Header(Head(inputs).header.min, Last(inputs).header.max,
         Last(inputs).header.commit, 0, 0, 0)

MergedPages(inputs) ==
  LET has(p) == {i \in DOMAIN inputs : p \in DOMAIN read_file(inputs[i])}
      pgnos  == UNION {DOMAIN read_file(inputs[i]) : i \in DOMAIN inputs}
  IN  [p \in pgnos \cap (1 .. Last(inputs).header.commit) |->
         read_file(inputs[Max(has(p))])[p]]
=============================================================================
