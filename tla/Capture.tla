------------------------------ MODULE Capture -------------------------------
(***************************************************************************)
(* From the frames of the log to LTX files and back to a database, page by *)
(* page: an application writes frames, spills, rolls back, commits and     *)
(* tears the last frame (SQLite, external); the syncer plans, reads the    *)
(* tail frame by frame while that goes on, builds and encodes the next     *)
(* file (src/sync/mod.rs); files are merged; a restore reads them.         *)
(*                                                                         *)
(* When a log may be restarted, and that reads are taken under the pin, is *)
(* the subject of Db and Syncer.  Here a log is folded, restarted or       *)
(* truncated only once its commits are captured, and uploads succeed.      *)
(***************************************************************************)
EXTENDS Integers, WalReader, Ltx

CONSTANTS
  MaxPgno,    \* pages are numbered 1 .. MaxPgno
  MaxFrames,  \* bound: frames of one generation
  MaxGens,    \* bound: generations of the log
  MaxTx,      \* bound: transactions of the application, undone ones included
  MaxTxid,    \* bound: files published
  LosesCaptured  \* a power loss may take back what was already captured

ASSUME CaptureAssumption ==
  /\ MaxPgno \in Nat /\ MaxFrames \in Nat /\ MaxGens \in Nat /\ MaxTx \in Nat
  /\ MaxTxid \in Nat
  /\ LockPgno # 1 /\ LosesCaptured \in BOOLEAN

VARIABLES
  wal,     \* the -wal file
  gen,     \* number of the last generation
  mx,      \* frames of the log that are committed
  top,     \* frames of the log, those of the open transaction included
  live,    \* the committed database: a function from its pages
  main,    \* the database file
  tx,      \* number of the open or next transaction, and what it writes
  hist,    \* the committed database where each commit ends
  pos,     \* the syncer's position
  rd,      \* the sync in progress
  chain,   \* the LTX files a restore applies, oldest first
  failed   \* the encoder refused a page

appVars == <<wal, gen, mx, top, live, main, tx, hist>>
syncVars == <<pos, rd, chain, failed>>
vars == <<appVars, syncVars>>

\* All pages of a database of a size; the lock page holds no data.
PagesOf(size) == (1 .. size) \ {LockPgno}
Sizes == (1 .. MaxPgno) \ {LockPgno}
SizeOf(db) == Max(DOMAIN db)

Idle == [pc |-> "idle", salt |-> 0, offset |-> 0, len |-> 0, seed |-> << >>,
         buf |-> << >>, due |-> <<0, 0>>]

Init ==
  /\ wal = [NoWal EXCEPT !.salt = 1] /\ gen = 1 /\ mx = 0 /\ top = 0 /\ tx = 1
  /\ live = [p \in {1} |-> 0]
  /\ main = live
  /\ hist = [at \in {<<1, 0>>} |-> live]
  /\ pos = [txid |-> 0, offset |-> 0, salt |-> 0, toEnd |-> FALSE]
  /\ rd = Idle /\ chain = << >> /\ failed = FALSE

(***************************************************************************)
(* The application and SQLite.                                             *)
(***************************************************************************)
\* The frame after the n-th is overwritten; what follows it stays in the file.
Put(n, f) ==
  IF n < Len(wal.frames) THEN [wal.frames EXCEPT ![n + 1] = f]
  ELSE Append(wal.frames, f)

\* Pages the open transaction has already written.
Written == {wal.frames[i].pgno : i \in mx + 1 .. top}

\* A frame of a transaction that spills its cache.
AppWrite ==
  /\ wal.salt # 0 /\ top + 1 < MaxFrames /\ tx <= MaxTx
  /\ \E p \in 1 .. MaxPgno \ {LockPgno} :
       wal' = [wal EXCEPT !.frames =
                 Put(top, Frame(p, 0, wal.salt, tx, Seed(wal, wal.salt, top)))]
  /\ top' = top + 1
  /\ UNCHANGED <<gen, mx, live, main, tx, hist, syncVars>>

\* The databases h, with db at one place more.
Recorded(h, at, db) == [a \in DOMAIN h \cup {at} |-> IF a = at THEN db ELSE h[a]]

\* The last frame carries the new size; every page the database grows by is
\* in the transaction.
AppCommit ==
  /\ wal.salt # 0 /\ top < MaxFrames /\ tx <= MaxTx
  /\ \E size \in Sizes, p \in 1 .. MaxPgno :
       LET frames == Put(top, Frame(p, size, wal.salt, tx, Seed(wal, wal.salt, top)))
           newest(q) == Max({i \in mx + 1 .. top + 1 : frames[i].pgno = q})
           new == [q \in PagesOf(size) |->
                     IF q \in Written \cup {p} THEN frames[newest(q)].data ELSE live[q]]
       IN  /\ p \in PagesOf(size)
           /\ PagesOf(size) \subseteq DOMAIN live \cup Written \cup {p}
           /\ wal' = [wal EXCEPT !.frames = frames]
           /\ live' = new
           /\ hist' = Recorded(hist, <<wal.salt, top + 1>>, new)
  /\ mx' = top + 1 /\ top' = top + 1 /\ tx' = tx + 1
  /\ UNCHANGED <<gen, main, syncVars>>

\* What the next transaction writes is something else.
AppRollback ==
  /\ top > mx
  /\ top' = mx
  /\ tx' = tx + 1
  /\ UNCHANGED <<wal, gen, mx, live, main, hist, syncVars>>

\* A frame of which nothing but the salt is looked at: one half written, or one
\* of an older generation.
Unreadable(salt) == [pgno |-> 0, commit |-> 0, salt |-> salt, data |-> 0, sum |-> TornSum]

\* A frame half written at the end of the file, by a writer at work or one
\* that died.
AppTear ==
  /\ wal.salt # 0 /\ mx = Len(wal.frames) /\ top < MaxFrames /\ tx <= MaxTx
  /\ wal' = [wal EXCEPT !.frames = Append(@, Unreadable(wal.salt))]
  /\ UNCHANGED <<gen, mx, top, live, main, tx, hist, syncVars>>

Captured == pos.txid > 0 /\ (mx = 0 \/ <<pos.salt, pos.offset>> = <<wal.salt, mx>>)

\* Of older generations only the places that can still be named are kept:
\* the position, and where the sync in progress started.
Remember(salt) ==
  LET kept == {<<pos.salt, pos.offset>>, <<rd.salt, rd.offset>>} \cap DOMAIN hist
  IN  Recorded([at \in kept |-> hist[at]], <<salt, 0>>, live)

\* The log is folded into the database file; the next writer starts a new
\* generation over the old frames, or after TRUNCATE in an empty file.
Restart ==
  /\ gen < MaxGens /\ tx <= MaxTx
  /\ top = mx
  /\ wal.salt = 0 \/ (mx > 0 /\ Captured)
  /\ gen' = gen + 1
  /\ wal' = [salt |-> gen + 1,
             frames |-> [i \in DOMAIN wal.frames |-> Unreadable(wal.frames[i].salt)]]
  /\ mx' = 0 /\ top' = 0 /\ main' = live
  /\ hist' = Remember(gen + 1)
  /\ UNCHANGED <<live, tx, syncVars>>

Truncate ==
  /\ gen < MaxGens /\ tx <= MaxTx
  /\ wal.salt # 0 /\ top = mx /\ Captured
  /\ wal' = NoWal
  /\ mx' = 0 /\ top' = 0 /\ main' = live
  /\ hist' = Remember(0)
  /\ UNCHANGED <<gen, live, tx, syncVars>>

\* A power loss takes back commits the log's file had not been synced for.
\* With synchronous = FULL there are none; with NORMAL, which the syncer leaves
\* to the application, they may have been captured already.
PowerLoss ==
  /\ tx <= MaxTx
  /\ \E n \in 0 .. mx - 1 :
       /\ n > 0 => is_commit(wal.frames[n])
       /\ LosesCaptured \/ pos.salt # wal.salt \/ pos.offset <= n
       /\ wal' = [wal EXCEPT !.frames = SubSeq(@, 1, n)]
       /\ live' = hist[<<wal.salt, n>>]
       /\ mx' = n /\ top' = n
       /\ hist' = [at \in {a \in DOMAIN hist : a[1] = wal.salt => a[2] <= n}
                           \cup ({<<pos.salt, pos.offset>>} \cap DOMAIN hist) |-> hist[at]]
  /\ rd' = Idle
  /\ pos' = [pos EXCEPT !.toEnd = FALSE]
  /\ UNCHANGED <<gen, main, tx, chain, failed>>

(***************************************************************************)
(* The syncer.                                                             *)
(***************************************************************************)
NextTxid == pos.txid + 1

\* plan: where an incremental starts.
PlanOffset(salt, len) ==
  IF pos.offset > len \/ pos.salt # salt THEN 0 ELSE pos.offset

\* build_under_lock: length, header, plan.
SyncSkip ==
  /\ rd.pc = "idle" /\ pos.txid > 0 /\ ~HasHeader(wal) /\ pos.toEnd
  /\ UNCHANGED vars

SyncSnapshot ==
  /\ rd.pc = "idle" /\ pos.txid < MaxTxid
  /\ pos.txid = 0 \/ (~HasHeader(wal) /\ ~pos.toEnd)
  /\ rd' = [Idle EXCEPT !.pc = "open", !.due = <<wal.salt, mx>>]
  /\ UNCHANGED <<appVars, pos, chain, failed>>

SyncIncremental ==
  /\ rd.pc = "idle" /\ pos.txid \in 1 .. MaxTxid - 1 /\ HasHeader(wal)
  /\ rd' = [Idle EXCEPT !.pc = "seed", !.salt = wal.salt, !.len = Len(wal.frames),
              !.offset = PlanOffset(wal.salt, Len(wal.frames)),
              !.due = <<wal.salt, mx>>]
  /\ UNCHANGED <<appVars, pos, chain, failed>>

\* build_incremental: the checksum before the tail, or an error.
ReadSeed ==
  /\ rd.pc = "seed"
  /\ rd' = IF SeedKnown(wal, rd.salt, rd.offset)
             THEN [rd EXCEPT !.pc = "tail",
                             !.seed = Seed(wal, rd.salt, rd.offset)]
             ELSE Idle
  /\ UNCHANGED <<appVars, pos, chain, failed>>

\* The header a snapshot works with is the one its own read returns.
ReadHeader ==
  /\ rd.pc = "open"
  /\ rd' = [rd EXCEPT !.pc = "snapshot", !.salt = wal.salt,
                      !.seed = HeaderSum(wal.salt)]
  /\ UNCHANGED <<appVars, pos, chain, failed>>

\* read_tail, and the fs::read of a snapshot: one frame of the file as it is now.
NextFrame == rd.offset + Len(rd.buf) + 1

AtEof == rd.salt = 0 \/ NextFrame > Len(wal.frames)

ReadTail ==
  /\ rd.pc \in {"tail", "snapshot"} /\ ~AtEof
  /\ rd' = [rd EXCEPT !.buf = Append(@, wal.frames[NextFrame])]
  /\ UNCHANGED <<appVars, pos, chain, failed>>

Mapped == page_map(rd.salt, rd.seed, rd.buf, rd.offset)

\* stage and upload: the encoder's error ends the sync.
Publish(h, pages, toEnd) ==
  /\ failed' = ~Accepts(h, pages)
  /\ chain' = IF Accepts(h, pages) THEN Append(chain, Encode(h, pages)) ELSE chain
  /\ pos' = IF Accepts(h, pages)
              THEN [txid |-> NextTxid, offset |-> h.wal_offset + h.wal_size,
                    salt |-> h.wal_salt, toEnd |-> toEnd]
              ELSE pos

BuildIncremental ==
  /\ rd.pc = "tail" /\ AtEof /\ DOMAIN Mapped.pages # {}
  /\ LET size == Mapped.end_offset - rd.offset
         h == Header(NextTxid, NextTxid, Mapped.commit, rd.offset, size, rd.salt)
     IN  Publish(h, Ascending(Mapped.pages), Mapped.end_offset >= rd.len)
  /\ rd' = Idle
  /\ UNCHANGED appVars

NothingNew ==
  /\ rd.pc = "tail" /\ AtEof /\ DOMAIN Mapped.pages = {}
  /\ rd' = Idle
  /\ UNCHANGED <<appVars, pos, chain, failed>>

\* Mutation: the lock page is not skipped.
MutSnapshotPages(commit) == 1 .. commit

SnapshotPages(commit) == PagesOf(commit)

\* build_snapshot: pages of the log, the others from the database file, in
\* which the lock page is zeroes.
BuildSnapshot ==
  /\ rd.pc = "snapshot" /\ AtEof
  /\ LET commit == IF Mapped.commit > 0 THEN Mapped.commit ELSE SizeOf(main)
         size == Mapped.end_offset
         content == [p \in SnapshotPages(commit) |->
                       IF p \in DOMAIN Mapped.pages THEN Mapped.pages[p]
                       ELSE IF p \in DOMAIN main THEN main[p] ELSE 0]
         h == Header(NextTxid, NextTxid, commit, 0, size, rd.salt)
     IN  Publish(h, Ascending(content), size >= Len(rd.buf))
  /\ rd' = Idle
  /\ UNCHANGED appVars

\* A new process derives its position from the newest file of level 0; what
\* it does not know matters to plan only while the log has no header.
Reopen ==
  /\ rd.pc = "idle" /\ pos.txid > 0 /\ pos.toEnd /\ ~HasHeader(wal)
  /\ pos' = [pos EXCEPT !.toEnd = FALSE]
  /\ UNCHANGED <<appVars, rd, chain, failed>>

\* compact_to_writer over two or more neighbours.
Compact ==
  /\ rd.pc = "idle"
  /\ \E i, j \in DOMAIN chain :
       LET inputs == SubSeq(chain, i, j)
           h == MergedHeader(inputs)
           pages == Ascending(MergedPages(inputs))
       IN  /\ i < j
           /\ failed' = ~Accepts(h, pages)
           /\ chain' = IF Accepts(h, pages)
                         THEN SubSeq(chain, 1, i - 1) \o << Encode(h, pages) >>
                                \o SubSeq(chain, j + 1, Len(chain))
                         ELSE chain
  /\ UNCHANGED <<appVars, pos, rd>>

AppStep ==
  AppWrite \/ AppCommit \/ AppRollback \/ AppTear \/ Restart \/ Truncate \/ PowerLoss

SyncStep ==
  \/ SyncSkip \/ SyncSnapshot \/ SyncIncremental \/ ReadSeed \/ ReadHeader \/ ReadTail
  \/ BuildIncremental \/ NothingNew \/ BuildSnapshot \/ Reopen \/ Compact

Next == AppStep \/ SyncStep

Spec == Init /\ [][Next]_vars

(***************************************************************************)
(* Properties.                                                             *)
(***************************************************************************)
\* What apply_plan makes of the chain: the newest version of each page up to
\* the last file's size.
Image == MergedPages(chain)

\* The image the replica restores to is the committed database at exactly the
\* commit the syncer's position names, whatever was spilled, rolled back, torn
\* or overwritten while the tail was read, and however files were merged: no
\* page of an unfinished, undone or older transaction, none missing.
CapturedIsCommitted ==
  pos.txid > 0 =>
    /\ <<pos.salt, pos.offset>> \in DOMAIN hist
    /\ Image = hist[<<pos.salt, pos.offset>>]

\* A sync that ends without an error has captured every commit that was in the
\* log when it began, also when it finds no pages and publishes nothing.
SyncReaches ==
  [][(BuildIncremental \/ NothingNew \/ BuildSnapshot) /\ rd.due[1] = wal.salt
       => \/ rd.due[2] = 0
          \/ pos'.salt = rd.due[1] /\ pos'.offset >= rd.due[2]]_vars

\* The encoder refuses nothing that a sync or a merge hands it: pages are in
\* order, within the size, without the lock page, and a file that starts at
\* TXID 1 holds every page.
EncoderAccepts == ~failed
=============================================================================
