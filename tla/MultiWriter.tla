---------------------------- MODULE MultiWriter -----------------------------
(***************************************************************************)
(* Several processes on several hosts, one replica: the lock of a host     *)
(* (src/lock.rs), the staging directory the processes of a host share, the *)
(* compare-and-swap upload, and failover to a host that restores the       *)
(* replica (Syncer::open, plan, build, stage, upload in src/sync/mod.rs).  *)
(*                                                                         *)
(* A database is the sequence of commits that led to it.  An LTX file is   *)
(* the commits it adds, or for a snapshot all of them, who built it from   *)
(* which database, and its timestamp, which counts when the file is built  *)
(* again.  The log of a host holds the commits after a base; its           *)
(* generation is unique, as the salts are.  Checkpoints and the reads of   *)
(* one build are the subject of Syncer; here a build is one step.          *)
(***************************************************************************)
EXTENDS Integers, Sequences, FiniteSets, SequencesExt

CONSTANTS
  Hosts,
  Procs,           \* processes of one host
  MaxCommits, MaxTxid, MaxFaults   \* bounds

ASSUME MultiWriterAssumption ==
  /\ MaxCommits \in Nat /\ MaxTxid \in Nat /\ MaxFaults \in Nat

VARIABLES
  setup,    \* orderly: a host takes over only after the others stopped for good;
            \* large: a snapshot reaches MULTIPART_THRESHOLD
  db,       \* by host: the database
  wal,      \* by host: generation (0: no header) and the length of the base
  gens,     \* generations so far
  lock,     \* by host: the processes that hold the lock
  staging,  \* by host: staged files by TXID
  pc, pos, next,   \* by process: step, position, position after the upload
  replica,  \* level 0, by TXID
  retired,  \* hosts that stopped for good
  commits, faults,
  acked,    \* files whose upload was acknowledged to their writer, by TXID
  conflict, \* a process was told Equivocation
  leftover, \* a host took over with a staged file that the replica does not hold
  lost      \* a stored upload was answered with an error, and its writer went on

hostVars == <<db, wal, gens>>
procVars == <<pc, pos, next>>
historyVars == <<acked, conflict, leftover, lost>>
vars == <<setup, hostVars, lock, staging, procVars, replica, retired, commits, faults,
          historyVars>>

All == Hosts \X Procs
HostOf(p) == p[1]

DefaultPosition == [txid |-> 0, gen |-> 0, off |-> 0, toEnd |-> FALSE]

\* In an orderly set-up one host runs and the others have no database before
\* they take over; otherwise each has its own.
Init ==
  /\ setup \in [orderly : BOOLEAN, large : BOOLEAN]
  /\ db = [h \in Hosts |-> << >>]
  /\ wal = [h \in Hosts |-> [gen |-> 0, base |-> 0]] /\ gens = 0
  /\ lock = [h \in Hosts |-> {}] /\ staging = [h \in Hosts |-> << >>]
  /\ pc = [p \in All |-> "down"] /\ pos = [p \in All |-> DefaultPosition]
  /\ next = [p \in All |-> DefaultPosition]
  /\ replica = << >>
  /\ IF setup.orderly THEN \E h \in Hosts : retired = Hosts \ {h} ELSE retired = {}
  /\ commits = 0 /\ faults = 0 /\ acked = {} /\ conflict = FALSE
  /\ leftover = FALSE /\ lost = FALSE

(***************************************************************************)
(* The replica a reader restores: a snapshot starts over, another file     *)
(* adds to what precedes it.                                               *)
(***************************************************************************)
Images ==
  LET image[n \in 0 .. Len(replica)] ==
        IF n = 0 THEN << >>
        ELSE IF replica[n].full THEN replica[n].new
        ELSE image[n - 1] \o replica[n].new
  IN  image

Image(n) == Images[n]

(***************************************************************************)
(* The application, and the failover.                                      *)
(***************************************************************************)
AppCommit(h) ==
  /\ h \notin retired /\ commits < MaxCommits
  /\ db' = [db EXCEPT ![h] = Append(@, <<h, commits + 1>>)]
  /\ IF wal[h].gen = 0
       THEN wal' = [wal EXCEPT ![h] = [gen |-> gens + 1, base |-> Len(db[h])]]
            /\ gens' = gens + 1
       ELSE UNCHANGED <<wal, gens>>
  /\ commits' = commits + 1
  /\ UNCHANGED <<setup, lock, staging, procVars, replica, retired, faults, historyVars>>

\* A staged file that the replica holds as it is.
Shipped(h, t) == t <= Len(replica) /\ replica[t] = staging[h][t]

\* The running host is gone; another one, with no log beside its database,
\* restores the replica and goes on.  restore_to_path writes the database; what
\* the host staged in an earlier life stays where it is.
Failover(h) ==
  /\ setup.orderly /\ h \in retired /\ replica # << >>
  /\ \A p \in All : pc[p] = "down"
  /\ retired' = Hosts \ {h}
  /\ db' = [db EXCEPT ![h] = Image(Len(replica))]
  /\ wal' = [wal EXCEPT ![h] = [gen |-> 0, base |-> Len(Image(Len(replica)))]]
  /\ leftover' = (leftover \/ \E t \in DOMAIN staging[h] : ~Shipped(h, t))
  /\ UNCHANGED <<setup, gens, lock, staging, procVars, replica, commits, faults, acked, conflict,
                 lost>>

(***************************************************************************)
(* ProcessLock and Syncer::open.                                           *)
(***************************************************************************)
\* Mutation: a shared lock.
MutLockFree(h) == TRUE

LockFree(h) == lock[h] = {}

Down(p) ==
  /\ pc' = [pc EXCEPT ![p] = "down"]
  /\ pos' = [pos EXCEPT ![p] = DefaultPosition] /\ next' = [next EXCEPT ![p] = DefaultPosition]
  /\ lock' = [lock EXCEPT ![HostOf(p)] = @ \ {p}]

Acquire(p) ==
  /\ pc[p] = "down" /\ HostOf(p) \notin retired /\ LockFree(HostOf(p))
  /\ lock' = [lock EXCEPT ![HostOf(p)] = @ \cup {p}]
  /\ pc' = [pc EXCEPT ![p] = "recover"]
  /\ UNCHANGED <<setup, hostVars, staging, pos, next, replica, retired, commits, faults, historyVars>>

\* upload_ltx_file of the file staged under a TXID: put_ltx_multipart for a
\* large one, put_ltx_cas for any other.
Staged(h, t) == staging[h][t]

\* Mutation: every file is streamed.
MutGuarded(f) == FALSE

Guarded(f) == ~(setup.large /\ f.full)

Created(t) == t > Len(replica)

\* Mutation: an object that exists is a conflict whatever it holds.
MutAlreadyIdentical(h, t) == FALSE

AlreadyIdentical(h, t) == t <= Len(replica) /\ replica[t] = Staged(h, t)

Accepted(h, t) ==
  /\ t \in DOMAIN staging[h]
  /\ Created(t) \/ AlreadyIdentical(h, t) \/ ~Guarded(Staged(h, t))

Conflict(h, t) == t \in DOMAIN staging[h] /\ ~Accepted(h, t)

Stored(h, t) ==
  IF Created(t) THEN Append(replica, Staged(h, t))
  ELSE [replica EXCEPT ![t] = Staged(h, t)]

Put(h, t) ==
  /\ Accepted(h, t) /\ replica' = Stored(h, t)
  /\ acked' = acked \cup {<<t, Staged(h, t)>>} /\ UNCHANGED <<conflict, leftover, lost>>

Unstage(h, t) == [s \in DOMAIN staging[h] \ {t} |-> staging[h][s]]

OldestStaged(h) == CHOOSE t \in DOMAIN staging[h] : \A s \in DOMAIN staging[h] : t <= s

RecoverStaging(p) ==
  LET h == HostOf(p) IN
  /\ pc[p] = "recover" /\ staging[h] # << >>
  /\ Put(h, OldestStaged(h))
  /\ staging' = [staging EXCEPT ![h] = Unstage(h, OldestStaged(h))]
  /\ UNCHANGED <<setup, hostVars, lock, procVars, retired, commits, faults>>

\* open returns Equivocation and drops the lock.
OpenFails(p) ==
  /\ pc[p] = "recover" /\ staging[HostOf(p)] # << >>
  /\ Conflict(HostOf(p), OldestStaged(HostOf(p)))
  /\ conflict' = TRUE /\ UNCHANGED <<acked, leftover, lost>>
  /\ Down(p)
  /\ UNCHANGED <<setup, hostVars, staging, replica, retired, commits, faults>>

derive_position ==
  IF replica = << >> THEN DefaultPosition
  ELSE [txid |-> Len(replica), gen |-> Last(replica).gen, off |-> Last(replica).off,
        toEnd |-> FALSE]

OpenDone(p) ==
  /\ pc[p] = "recover" /\ staging[HostOf(p)] = << >>
  /\ pos' = [pos EXCEPT ![p] = derive_position]
  /\ pc' = [pc EXCEPT ![p] = "idle"]
  /\ UNCHANGED <<setup, hostVars, lock, staging, next, replica, retired, commits, faults, historyVars>>

(***************************************************************************)
(* sync: plan, build, stage; then upload.                                  *)
(***************************************************************************)
\* plan: another generation, or a log that is shorter, is read from its start.
PlanStart(p) ==
  LET w == wal[HostOf(p)]
  IN  IF pos[p].gen # w.gen \/ pos[p].off > Len(db[HostOf(p)]) THEN w.base ELSE pos[p].off

PlansSnapshot(p) ==
  pos[p].txid = 0 \/ (wal[HostOf(p)].gen = 0 /\ ~pos[p].toEnd)

\* The timestamp of the header.
Now(t) == IF Created(t) THEN {0} ELSE {0, 1}

Stage(p, full, start, stamp) ==
  LET h == HostOf(p)
      t == pos[p].txid + 1
      f == [by |-> h, full |-> full, new |-> SubSeq(db[h], start + 1, Len(db[h])),
            at |-> db[h], gen |-> wal[h].gen, off |-> Len(db[h]), stamp |-> stamp]
  IN  /\ t <= MaxTxid
      /\ staging' = [staging EXCEPT ![h] = [s \in DOMAIN @ \cup {t} |-> IF s = t THEN f ELSE @[s]]]
      /\ next' = [next EXCEPT ![p] = [txid |-> t, gen |-> f.gen, off |-> f.off, toEnd |-> TRUE]]
      /\ pc' = [pc EXCEPT ![p] = "staged"]
      /\ UNCHANGED <<setup, hostVars, lock, pos, replica, retired, commits, faults, historyVars>>

BuildSnapshot(p) ==
  /\ pc[p] = "idle" /\ PlansSnapshot(p)
  /\ \E stamp \in Now(pos[p].txid + 1) : Stage(p, TRUE, 0, stamp)

BuildIncremental(p) ==
  /\ pc[p] = "idle" /\ ~PlansSnapshot(p) /\ wal[HostOf(p)].gen # 0
  /\ PlanStart(p) < Len(db[HostOf(p)])
  /\ \E stamp \in Now(pos[p].txid + 1) : Stage(p, FALSE, PlanStart(p), stamp)

\* The file under the staged name is uploaded, whoever wrote it last.
Upload(p) ==
  LET h == HostOf(p)  t == next[p].txid IN
  /\ pc[p] = "staged"
  /\ Put(h, t)
  /\ staging' = [staging EXCEPT ![h] = Unstage(h, t)]
  /\ pos' = [pos EXCEPT ![p] = next[p]]
  /\ pc' = [pc EXCEPT ![p] = "idle"]
  /\ UNCHANGED <<setup, hostVars, lock, next, retired, commits, faults>>

UploadConflict(p) ==
  /\ pc[p] = "staged"
  /\ Conflict(HostOf(p), next[p].txid)
  /\ conflict' = TRUE /\ UNCHANGED <<acked, leftover, lost>>
  /\ pc' = [pc EXCEPT ![p] = "idle"]
  /\ UNCHANGED <<setup, hostVars, lock, staging, pos, next, replica, retired, commits, faults>>

\* The store is out of reach; the file stays staged.
UploadFails(p) ==
  /\ pc[p] = "staged" /\ faults < MaxFaults /\ faults' = faults + 1
  /\ pc' = [pc EXCEPT ![p] = "idle"]
  /\ UNCHANGED <<setup, hostVars, lock, staging, pos, next, replica, retired, commits,
                 historyVars>>

\* The file is stored, but the answer is an error: the next sync builds again
\* for the same TXID.
UploadLost(p) ==
  LET h == HostOf(p)  t == next[p].txid IN
  /\ pc[p] = "staged" /\ Accepted(h, t) /\ faults < MaxFaults /\ faults' = faults + 1
  /\ replica' = Stored(h, t) /\ lost' = TRUE
  /\ pc' = [pc EXCEPT ![p] = "idle"]
  /\ UNCHANGED <<setup, hostVars, lock, staging, pos, next, retired, commits, acked, conflict,
                 leftover>>

\* The process is killed, or open returns an error; the kernel drops the lock.
Crash(p) ==
  /\ pc[p] # "down" /\ faults < MaxFaults /\ faults' = faults + 1
  /\ Down(p)
  /\ UNCHANGED <<setup, hostVars, staging, replica, retired, commits, historyVars>>

\* The file a process uploads.
Uploading(p) == IF pc[p] = "recover" THEN OldestStaged(HostOf(p)) ELSE next[p].txid

\* The same between the upload and the removal of the staged file.
CrashUploaded(p) ==
  LET h == HostOf(p)  t == Uploading(p) IN
  /\ pc[p] \in {"recover", "staged"} /\ staging[h] # << >> /\ Accepted(h, t)
  /\ faults < MaxFaults /\ faults' = faults + 1
  /\ replica' = Stored(h, t)
  /\ Down(p)
  /\ UNCHANGED <<setup, hostVars, staging, retired, commits, historyVars>>

\* A checkpoint with everything captured empties the log.
Fold(p) ==
  LET h == HostOf(p) IN
  /\ pc[p] = "idle" /\ wal[h].gen # 0
  /\ pos[p].gen = wal[h].gen /\ pos[p].off = Len(db[h])
  /\ wal' = [wal EXCEPT ![h] = [gen |-> 0, base |-> Len(db[h])]]
  /\ UNCHANGED <<setup, db, gens, lock, staging, procVars, replica, retired, commits, faults, historyVars>>

Next ==
  \/ \E h \in Hosts : AppCommit(h) \/ Failover(h)
  \/ \E p \in All :
       \/ Acquire(p) \/ RecoverStaging(p) \/ OpenFails(p) \/ OpenDone(p)
       \/ BuildSnapshot(p) \/ BuildIncremental(p) \/ Upload(p) \/ UploadConflict(p)
       \/ UploadFails(p) \/ UploadLost(p) \/ Crash(p) \/ CrashUploaded(p) \/ Fold(p)

Spec == Init /\ [][Next]_vars

(***************************************************************************)
(* Properties.                                                             *)
(***************************************************************************)
\* Used as intended, one host at a time, the replica tells one history: after
\* every file it restores to exactly the database its writer had when it built
\* the file, and no file takes back what an earlier one published.  It does not
\* hold once a host has taken over again with a file left from its earlier life,
\* which open publishes on top of a database that does not have it.
OneHistory ==
  setup.orderly /\ ~leftover =>
    \A n \in 1 .. Len(replica) :
      /\ Image(n) = replica[n].at
      /\ IsPrefix(Image(n - 1), Image(n))

\* Used as intended the compare-and-swap guard never fires: neither a crash
\* between upload and clean-up nor a retry of an upload that failed makes a
\* writer collide with itself or with its predecessor.  It fires after an upload
\* that was stored but answered with an error, when the retry is another file.
NeverConflicts == setup.orderly /\ ~leftover /\ ~lost => ~conflict

\* Of the writers that race for one TXID, on any hosts, one wins: a file whose
\* upload was acknowledged stays in the replica, unless snapshots are streamed
\* without the guard.
AcknowledgedIsKept ==
  ~setup.large =>
    \A a \in acked : a[1] <= Len(replica) /\ replica[a[1]] = a[2]
=============================================================================
