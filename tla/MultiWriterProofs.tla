-------------------------- MODULE MultiWriterProofs --------------------------
(***************************************************************************)
(* Any number of hosts, processes, commits and faults: of the writers that *)
(* race for a TXID one wins.  Used as intended, one host at a time, the    *)
(* replica tells one history as long as no host takes over with a staged   *)
(* file of an earlier life that the replica lacks; and the compare-and-    *)
(* swap guard does not fire if besides no stored upload was answered with  *)
(* an error.                                                               *)
(***************************************************************************)
EXTENDS MultiWriter, RestorePlanProofs, SequenceTheorems

Commit == Hosts \X Nat
File == [by : Hosts, full : BOOLEAN, new : Seq(Commit), at : Seq(Commit), gen : Nat, off : Nat,
         stamp : {0, 1}]
Position == [txid : Nat, gen : Nat, off : Nat, toEnd : BOOLEAN]

(***************************************************************************)
(* Prefixes.                                                               *)
(***************************************************************************)
LEMMA PrefixIs ==
  ASSUME NEW E, NEW s \in Seq(E), NEW t \in Seq(E)
  PROVE  IsPrefix(s, t) <=> Len(s) <= Len(t) /\ \A i \in 1 .. Len(s) : s[i] = t[i]
<1>1. Len(s) \in Nat /\ Len(t) \in Nat
  OBVIOUS
<1>2. SubSeq(s, 1, Len(s)) = [i \in 1 .. Len(s) |-> s[i]]
  BY <1>1, SubSeqProperties
<1>3. ASSUME Len(s) <= Len(t) PROVE SubSeq(t, 1, Len(s)) = [i \in 1 .. Len(s) |-> t[i]]
  BY <1>1, <1>3, SubSeqProperties
<1> QED
  BY <1>1, <1>2, <1>3 DEF IsPrefix

LEMMA PrefixRefl ==
  ASSUME NEW E, NEW s \in Seq(E)
  PROVE  IsPrefix(s, s) /\ IsPrefix(<< >>, s)
<1> DEFINE z == << >>
<1>1. z \in Seq(E) /\ Len(z) = 0 /\ Len(s) \in Nat
  OBVIOUS
<1> HIDE DEF z
<1>2. IsPrefix(s, s)
  BY <1>1, PrefixIs
<1>3. Len(z) <= Len(s) /\ \A i \in 1 .. Len(z) : z[i] = s[i]
  BY <1>1
<1>4. IsPrefix(z, s)
  BY <1>1, <1>3, PrefixIs
<1> QED
  BY <1>2, <1>4 DEF z

LEMMA PrefixTrans ==
  ASSUME NEW E, NEW s \in Seq(E), NEW t \in Seq(E), NEW u \in Seq(E),
         IsPrefix(s, t), IsPrefix(t, u)
  PROVE  IsPrefix(s, u)
<1>1. Len(s) \in Nat /\ Len(t) \in Nat /\ Len(u) \in Nat
  OBVIOUS
<1> QED
  BY <1>1, PrefixIs

LEMMA PrefixAppend ==
  ASSUME NEW E, NEW s \in Seq(E), NEW e \in E
  PROVE  IsPrefix(s, Append(s, e))
<1> DEFINE t == Append(s, e)
<1>1. t \in Seq(E) /\ Len(t) = Len(s) + 1 /\ Len(s) \in Nat
      /\ \A i \in 1 .. Len(s) : t[i] = s[i]
  BY AppendProperties
<1> HIDE DEF t
<1>2. IsPrefix(s, t)
  BY <1>1, PrefixIs
<1> QED
  BY <1>2 DEF t

\* Two prefixes of one sequence.
LEMMA PrefixSame ==
  ASSUME NEW E, NEW s \in Seq(E), NEW t \in Seq(E), IsPrefix(s, t), Len(s) = Len(t)
  PROVE  s = t
<1>1. \A i \in 1 .. Len(s) : s[i] = t[i]
  BY PrefixIs
<1> QED
  BY <1>1, SeqEqual

\* What comes after a prefix.
LEMMA PrefixRest ==
  ASSUME NEW E, NEW s \in Seq(E), NEW t \in Seq(E), IsPrefix(s, t)
  PROVE  t = s \o SubSeq(t, Len(s) + 1, Len(t))
<1> DEFINE r == SubSeq(t, Len(s) + 1, Len(t))
<1>1. Len(s) \in Nat /\ Len(t) \in Nat /\ Len(s) <= Len(t)
      /\ \A i \in 1 .. Len(s) : s[i] = t[i]
  BY PrefixIs
<1>2. r \in Seq(E) /\ Len(r) = Len(t) - Len(s)
      /\ \A i \in 1 .. Len(r) : r[i] = t[Len(s) + i]
  BY <1>1, SubSeqProperties
<1> HIDE DEF r
<1>3. s \o r \in Seq(E) /\ Len(s \o r) = Len(t)
  BY <1>1, <1>2, ConcatProperties
<1>4. ASSUME NEW i \in 1 .. Len(t) PROVE (s \o r)[i] = t[i]
  BY <1>1, <1>2, ConcatProperties
<1> QED
  BY <1>3, <1>4, SeqEqual DEF r

(***************************************************************************)
(* Types.  A staged file or a position is never more than one TXID ahead   *)
(* of the replica.                                                         *)
(***************************************************************************)
TypeOK ==
  /\ setup \in [orderly : BOOLEAN, large : BOOLEAN]
  /\ db \in [Hosts -> Seq(Commit)]
  /\ wal \in [Hosts -> [gen : Nat, base : Nat]] /\ gens \in Nat
  /\ lock \in [Hosts -> SUBSET All]
  /\ staging = [h \in Hosts |-> staging[h]]
  /\ \A h \in Hosts : staging[h] \in [DOMAIN staging[h] -> File]
  /\ pc \in [All -> {"down", "recover", "idle", "staged"}]
  /\ pos \in [All -> Position] /\ next \in [All -> Position]
  /\ replica \in Seq(File)
  /\ retired \in SUBSET Hosts
  /\ commits \in Nat /\ faults \in Nat
  /\ acked \in SUBSET (Nat \X File)
  /\ conflict \in BOOLEAN /\ leftover \in BOOLEAN /\ lost \in BOOLEAN

BoundInv ==
  /\ \A p \in All : pos[p].txid <= Len(replica)
  /\ \A h \in Hosts : DOMAIN staging[h] \subseteq 1 .. Len(replica) + 1

LEMMA HostOfIs ==
  ASSUME NEW p \in All
  PROVE  HostOf(p) \in Hosts
BY DEF All, HostOf

\* The oldest staged file is one of them.
LEMMA OldestIs ==
  ASSUME TypeOK, BoundInv, NEW h \in Hosts, staging[h] # << >>
  PROVE  /\ OldestStaged(h) \in DOMAIN staging[h]
         /\ \A s \in DOMAIN staging[h] : OldestStaged(h) <= s
<1> DEFINE T == DOMAIN staging[h]
<1>1. T # {}
  <2> SUFFICES ASSUME T = {} PROVE FALSE
    OBVIOUS
  <2>1. staging[h] \in [{} -> File]
    BY DEF TypeOK
  <2> QED
    BY <2>1
<1>2. T \subseteq Nat
  BY DEF BoundInv, TypeOK
<1>3. \E t \in T : \A s \in T : t <= s
  BY <1>1, <1>2, LeastOf
<1> QED
  BY <1>3, Zenon DEF OldestStaged

\* What a host stages is a file.
LEMMA StagedIs ==
  ASSUME TypeOK, BoundInv, NEW h \in Hosts, NEW t \in DOMAIN staging[h]
  PROVE  Staged(h, t) \in File /\ t \in Nat /\ 1 <= t /\ t <= Len(replica) + 1
<1>1. staging[h] \in [DOMAIN staging[h] -> File] /\ DOMAIN staging[h] \subseteq 1 .. Len(replica) + 1
      /\ Len(replica) \in Nat
  BY DEF TypeOK, BoundInv
<1> QED
  BY <1>1 DEF Staged

\* What the replica is after an upload.
LEMMA StoredIs ==
  ASSUME TypeOK, BoundInv, NEW h \in Hosts, NEW t \in DOMAIN staging[h]
  PROVE  /\ Stored(h, t) \in Seq(File) /\ Len(replica) \in Nat
         /\ t = Len(replica) + 1 =>
              /\ Stored(h, t) = Append(replica, Staged(h, t))
              /\ Len(Stored(h, t)) = Len(replica) + 1
              /\ Stored(h, t)[t] = Staged(h, t)
              /\ \A n \in 1 .. Len(replica) : Stored(h, t)[n] = replica[n]
         /\ t # Len(replica) + 1 =>
              /\ t \in 1 .. Len(replica)
              /\ Len(Stored(h, t)) = Len(replica)
              /\ \A n \in 1 .. Len(replica) :
                   Stored(h, t)[n] = IF n = t THEN Staged(h, t) ELSE replica[n]
<1>1. Staged(h, t) \in File /\ t \in Nat /\ 1 <= t /\ t <= Len(replica) + 1
  BY StagedIs
<1>2. replica \in Seq(File) /\ Len(replica) \in Nat
  BY DEF TypeOK
<1>3. CASE t = Len(replica) + 1
  <2>1. Stored(h, t) = Append(replica, Staged(h, t))
    BY <1>2, <1>3 DEF Stored, Created
  <2> QED
    BY <1>1, <1>2, <1>3, <2>1, AppendProperties
<1>4. CASE t # Len(replica) + 1
  <2>1. t \in 1 .. Len(replica)
    BY <1>1, <1>2, <1>4
  <2>2. Stored(h, t) = [replica EXCEPT ![t] = Staged(h, t)]
    BY <1>2, <2>1 DEF Stored, Created
  <2>3. Stored(h, t) \in Seq(File) /\ Len(Stored(h, t)) = Len(replica)
        /\ \A n \in 1 .. Len(replica) :
             Stored(h, t)[n] = IF n = t THEN Staged(h, t) ELSE replica[n]
    BY <1>1, <1>2, <2>1, <2>2, ExceptSeq
  <2> QED
    BY <1>2, <1>4, <2>1, <2>3
<1> QED
  BY <1>3, <1>4

\* The directory without a file.
LEMMA UnstageIs ==
  ASSUME TypeOK, NEW h \in Hosts, NEW t
  PROVE  /\ DOMAIN Unstage(h, t) = DOMAIN staging[h] \ {t}
         /\ Unstage(h, t) \in [DOMAIN staging[h] \ {t} -> File]
         /\ \A s \in DOMAIN staging[h] \ {t} : Unstage(h, t)[s] = staging[h][s]
BY DEF Unstage, TypeOK

\* The file a process builds.
Built(p, full, start, stamp) ==
  LET h == HostOf(p) IN
  [by |-> h, full |-> full, new |-> SubSeq(db[h], start + 1, Len(db[h])),
   at |-> db[h], gen |-> wal[h].gen, off |-> Len(db[h]), stamp |-> stamp]

Stages(p, f) ==
  LET h == HostOf(p)
      t == pos[p].txid + 1
  IN  /\ f \in File /\ t \in Nat
      /\ staging' = [staging EXCEPT ![h] = staging'[h]]
      /\ staging'[h] \in [DOMAIN staging[h] \cup {t} -> File]
      /\ staging'[h][t] = f
      /\ \A s \in DOMAIN staging[h] \ {t} : staging'[h][s] = staging[h][s]
      /\ next' = [next EXCEPT ![p] = [txid |-> t, gen |-> f.gen, off |-> f.off, toEnd |-> TRUE]]
      /\ pc' = [pc EXCEPT ![p] = "staged"]
      /\ UNCHANGED <<setup, hostVars, lock, pos, replica, retired, commits, faults, historyVars>>

LEMMA StageIs ==
  ASSUME TypeOK, NEW p \in All, NEW full \in BOOLEAN, NEW start \in Nat,
         NEW stamp \in {0, 1}, Stage(p, full, start, stamp)
  PROVE  Stages(p, Built(p, full, start, stamp))
<1> DEFINE h == HostOf(p)
           t == pos[p].txid + 1
           f == Built(p, full, start, stamp)
           g == [s \in DOMAIN staging[h] \cup {t} |-> IF s = t THEN f ELSE staging[h][s]]
<1>1. h \in Hosts
  BY HostOfIs
<1>2. f \in File
  <2>1. db[h] \in Seq(Commit) /\ wal[h].gen \in Nat /\ Len(db[h]) \in Nat
    BY <1>1 DEF TypeOK
  <2>2. \A i \in start + 1 .. Len(db[h]) : db[h][i] \in Commit
    BY <2>1
  <2>3. SubSeq(db[h], start + 1, Len(db[h])) \in Seq(Commit)
    BY <2>1, <2>2, SubSeqProperties
  <2> HIDE DEF h
  <2> QED
    BY <1>1, <2>1, <2>3 DEF Built, File, h
<1>3. t \in Nat
  BY DEF TypeOK, Position
<1>4. /\ staging' = [staging EXCEPT ![h] = g]
      /\ next' = [next EXCEPT ![p] = [txid |-> t, gen |-> f.gen, off |-> f.off,
                                      toEnd |-> TRUE]]
      /\ pc' = [pc EXCEPT ![p] = "staged"]
      /\ UNCHANGED <<setup, hostVars, lock, pos, replica, retired, commits, faults,
                     historyVars>>
  BY DEF Stage, Built
<1>5. staging[h] \in [DOMAIN staging[h] -> File] /\ staging = [x \in Hosts |-> staging[x]]
  BY <1>1 DEF TypeOK
<1> HIDE DEF f, t, h
<1>6. /\ g \in [DOMAIN staging[h] \cup {t} -> File] /\ g[t] = f
      /\ \A s \in DOMAIN staging[h] \ {t} : g[s] = staging[h][s]
  BY <1>2, <1>5
<1> HIDE DEF g
<1>7. staging'[h] = g
  BY <1>1, <1>4, <1>5
<1> QED
  BY <1>2, <1>3, <1>4, <1>6, <1>7 DEF f, t, h, Stages

LEMMA PlanStartIs ==
  ASSUME TypeOK, NEW p \in All
  PROVE  PlanStart(p) \in Nat
BY HostOfIs DEF TypeOK, PlanStart, Position

(***************************************************************************)
(* A host has one running process.                                         *)
(***************************************************************************)
LockInv ==
  /\ \A p \in All : pc[p] # "down" <=> p \in lock[HostOf(p)]
  /\ \A p, q \in All :
       pc[p] # "down" /\ pc[q] # "down" /\ HostOf(p) = HostOf(q) => p = q

SafeInv == TypeOK /\ BoundInv /\ LockInv

LEMMA SafeInit == Init => SafeInv
<1> SUFFICES ASSUME Init PROVE SafeInv
  OBVIOUS
<1>1. DefaultPosition \in Position /\ DefaultPosition.txid = 0
  BY DEF DefaultPosition, Position
<1>2. TypeOK
  <2>1. << >> \in Seq(Commit) /\ << >> \in Seq(File)
    OBVIOUS
  <2>2. staging = [h \in Hosts |-> staging[h]]
    BY DEF Init
  <2>3. \A h \in Hosts : staging[h] = << >>
    BY DEF Init
  <2>4. << >> \in [DOMAIN << >> -> File]
    OBVIOUS
  <2>5. retired \in SUBSET Hosts
    BY DEF Init
  <2> QED
    BY <1>1, <2>1, <2>2, <2>3, <2>4, <2>5 DEF Init, TypeOK
<1>3. BoundInv
  <2>1. DOMAIN << >> = {}
    OBVIOUS
  <2> QED
    BY <1>1, <2>1 DEF Init, BoundInv
<1>4. LockInv
  BY HostOfIs DEF Init, LockInv
<1> QED
  BY <1>2, <1>3, <1>4 DEF SafeInv

\* A process stops.
LEMMA DownIs ==
  ASSUME SafeInv, NEW p \in All, Down(p)
  PROVE  /\ pc' \in [All -> {"down", "recover", "idle", "staged"}]
         /\ lock' \in [Hosts -> SUBSET All]
         /\ pos' \in [All -> Position] /\ next' \in [All -> Position]
         /\ LockInv'
         /\ pc'[p] = "down"
         /\ \A q \in All : q # p => pc'[q] = pc[q] /\ pos'[q] = pos[q] /\ next'[q] = next[q]
         /\ pos'[p].txid = 0
<1>1. DefaultPosition \in Position /\ DefaultPosition.txid = 0
  BY DEF DefaultPosition, Position
<1>2. HostOf(p) \in Hosts
  BY HostOfIs
<1>3. /\ pc' \in [All -> {"down", "recover", "idle", "staged"}]
      /\ lock' \in [Hosts -> SUBSET All]
      /\ pos' \in [All -> Position] /\ next' \in [All -> Position]
  BY <1>1, <1>2 DEF Down, SafeInv, TypeOK
<1>4. /\ pc'[p] = "down" /\ pos'[p].txid = 0
      /\ \A q \in All : q # p => pc'[q] = pc[q] /\ pos'[q] = pos[q] /\ next'[q] = next[q]
  BY <1>1 DEF Down, SafeInv, TypeOK
<1>5. \A q \in All : q \in lock'[HostOf(q)] <=> q \in lock[HostOf(q)] /\ q # p
  BY <1>2, HostOfIs DEF Down, SafeInv, TypeOK
<1>6. LockInv'
  BY <1>4, <1>5 DEF SafeInv, LockInv, HostOf
<1> QED
  BY <1>3, <1>4, <1>6

\* An upload never shortens the replica.
LEMMA StoredGrows ==
  ASSUME SafeInv, NEW h \in Hosts, NEW t \in DOMAIN staging[h], replica' = Stored(h, t)
  PROVE  /\ replica' \in Seq(File) /\ Len(replica) \in Nat /\ Len(replica') \in Nat
         /\ Len(replica) <= Len(replica') /\ t <= Len(replica') /\ t \in Nat
<1>1. Staged(h, t) \in File /\ t \in Nat /\ 1 <= t /\ t <= Len(replica) + 1
  BY StagedIs DEF SafeInv
<1>2. Stored(h, t) \in Seq(File) /\ Len(replica) \in Nat
  BY StoredIs DEF SafeInv
<1>3. CASE t = Len(replica) + 1
  <2>1. Len(Stored(h, t)) = Len(replica) + 1
    BY <1>3, StoredIs DEF SafeInv
  <2> QED
    BY <1>1, <1>2, <1>3, <2>1
<1>4. CASE t # Len(replica) + 1
  <2>1. Len(Stored(h, t)) = Len(replica)
    BY <1>4, StoredIs DEF SafeInv
  <2> QED
    BY <1>1, <1>2, <1>4, <2>1
<1> QED
  BY <1>3, <1>4

\* What stays in bounds while the replica grows.
LEMMA BoundsGrow ==
  ASSUME SafeInv, replica' \in Seq(File), Len(replica) <= Len(replica'),
         NEW p \in All, pos' = [pos EXCEPT ![p] = pos'[p]], pos'[p].txid <= Len(replica'),
         \A h \in Hosts : DOMAIN staging'[h] \subseteq 1 .. Len(replica') + 1
                          \/ DOMAIN staging'[h] \subseteq DOMAIN staging[h]
  PROVE  BoundInv'
<1>1. Len(replica) \in Nat /\ Len(replica') \in Nat
  BY DEF SafeInv, TypeOK
<1>2. ASSUME NEW q \in All PROVE pos'[q].txid <= Len(replica')
  <2>1. pos[q].txid \in Nat /\ pos[q].txid <= Len(replica)
    BY DEF SafeInv, TypeOK, BoundInv, Position
  <2>2. q # p => pos'[q] = pos[q]
    BY DEF SafeInv, TypeOK
  <2> QED
    BY <1>1, <2>1, <2>2
<1>3. \A h \in Hosts : DOMAIN staging'[h] \subseteq 1 .. Len(replica') + 1
  <2>1. \A h \in Hosts : DOMAIN staging[h] \subseteq 1 .. Len(replica') + 1
    BY <1>1 DEF SafeInv, BoundInv
  <2> QED
    BY <2>1
<1> QED
  BY <1>2, <1>3 DEF BoundInv

LEMMA SafeApp ==
  ASSUME SafeInv, NEW h \in Hosts, AppCommit(h)
  PROVE  SafeInv'
<1>1. <<h, commits + 1>> \in Commit
  BY DEF SafeInv, TypeOK, Commit
<1>2. db' \in [Hosts -> Seq(Commit)] /\ db' = [db EXCEPT ![h] = Append(db[h], <<h, commits + 1>>)]
  BY <1>1 DEF AppCommit, SafeInv, TypeOK
<1>3. Len(db[h]) \in Nat
  BY DEF SafeInv, TypeOK
<1>4. wal' \in [Hosts -> [gen : Nat, base : Nat]] /\ gens' \in Nat
  <2>1. CASE wal[h].gen = 0
    <3>1. [gen |-> gens + 1, base |-> Len(db[h])] \in [gen : Nat, base : Nat]
      BY <1>3 DEF SafeInv, TypeOK
    <3>2. wal' = [wal EXCEPT ![h] = [gen |-> gens + 1, base |-> Len(db[h])]] /\ gens' = gens + 1
      BY <2>1 DEF AppCommit
    <3> QED
      BY <3>1, <3>2 DEF SafeInv, TypeOK
  <2>2. CASE wal[h].gen # 0
    BY <2>2 DEF AppCommit, SafeInv, TypeOK
  <2> QED
    BY <2>1, <2>2
<1>5. UNCHANGED <<setup, lock, staging, procVars, replica, retired, faults, historyVars>>
      /\ commits' \in Nat
  BY DEF AppCommit, SafeInv, TypeOK
<1> QED
  BY <1>2, <1>4, <1>5 DEF SafeInv, TypeOK, BoundInv, LockInv, procVars, historyVars

LEMMA SafeAcquire ==
  ASSUME SafeInv, NEW p \in All, Acquire(p)
  PROVE  SafeInv'
<1>1. HostOf(p) \in Hosts
  BY HostOfIs
<1>2. /\ lock' = [lock EXCEPT ![HostOf(p)] = lock[HostOf(p)] \cup {p}]
      /\ pc' = [pc EXCEPT ![p] = "recover"]
      /\ lock[HostOf(p)] = {} /\ pc[p] = "down"
      /\ UNCHANGED <<setup, hostVars, staging, pos, next, replica, retired, commits, faults,
                     historyVars>>
  BY DEF Acquire, LockFree
<1>3. TypeOK'
  BY <1>1, <1>2 DEF SafeInv, TypeOK, hostVars, historyVars
<1>4. BoundInv'
  BY <1>2 DEF SafeInv, BoundInv
<1>5. \A q \in All : q \in lock'[HostOf(q)] <=> q \in lock[HostOf(q)] \/ q = p
  BY <1>1, <1>2, HostOfIs DEF SafeInv, TypeOK
<1>6. \A q \in All : pc'[q] = IF q = p THEN "recover" ELSE pc[q]
  BY <1>2 DEF SafeInv, TypeOK
<1>7. \A q \in All : HostOf(q) = HostOf(p) => pc[q] = "down"
  BY <1>2 DEF SafeInv, LockInv
<1>8. LockInv'
  BY <1>5, <1>6, <1>7 DEF SafeInv, LockInv, HostOf
<1> QED
  BY <1>3, <1>4, <1>8 DEF SafeInv

\* A running process that goes on running keeps the lock as it is.
LEMMA LockStays ==
  ASSUME SafeInv, NEW p \in All, pc[p] # "down", NEW l \in {"recover", "idle", "staged"},
         pc' = [pc EXCEPT ![p] = l], UNCHANGED lock
  PROVE  LockInv'
<1>1. \A q \in All : pc'[q] # "down" <=> pc[q] # "down"
  BY DEF SafeInv, TypeOK
<1> QED
  BY <1>1 DEF SafeInv, LockInv, HostOf

LEMMA SafeStage ==
  ASSUME SafeInv, NEW p \in All, NEW full \in BOOLEAN, NEW start \in Nat,
         NEW stamp \in {0, 1}, pc[p] = "idle", Stage(p, full, start, stamp)
  PROVE  SafeInv'
<1> DEFINE h == HostOf(p)
           t == pos[p].txid + 1
           f == Built(p, full, start, stamp)
<1>1. h \in Hosts /\ Stages(p, f)
  BY HostOfIs, StageIs DEF SafeInv
<1>2. /\ f \in File /\ t \in Nat
      /\ staging' = [staging EXCEPT ![h] = staging'[h]]
      /\ staging'[h] \in [DOMAIN staging[h] \cup {t} -> File]
      /\ next' = [next EXCEPT ![p] = [txid |-> t, gen |-> f.gen, off |-> f.off, toEnd |-> TRUE]]
      /\ pc' = [pc EXCEPT ![p] = "staged"]
      /\ UNCHANGED <<setup, hostVars, lock, pos, replica, retired, commits, faults, historyVars>>
  BY <1>1 DEF Stages
<1>3. t \in 1 .. Len(replica) + 1
  BY DEF SafeInv, TypeOK, BoundInv, Position
<1> HIDE DEF f, t, h
<1>4. \A x \in Hosts : x # h => staging'[x] = staging[x]
  BY <1>2 DEF SafeInv, TypeOK
<1>5. [txid |-> t, gen |-> f.gen, off |-> f.off, toEnd |-> TRUE] \in Position
  BY <1>2 DEF Position, File
<1>6. next' \in [All -> Position] /\ pc' \in [All -> {"down", "recover", "idle", "staged"}]
  BY <1>2, <1>5 DEF SafeInv, TypeOK
<1>7. /\ staging' = [x \in Hosts |-> staging'[x]]
      /\ \A x \in Hosts : staging'[x] \in [DOMAIN staging'[x] -> File]
  BY <1>1, <1>2, <1>4 DEF SafeInv, TypeOK
<1>8. TypeOK'
  BY <1>2, <1>6, <1>7 DEF SafeInv, TypeOK, hostVars, historyVars
<1>9. DOMAIN staging'[h] = DOMAIN staging[h] \cup {t}
  BY <1>2
<1>10. BoundInv'
  BY <1>1, <1>2, <1>3, <1>4, <1>9 DEF SafeInv, BoundInv
<1>11. LockInv'
  BY <1>2, LockStays
<1> QED
  BY <1>8, <1>10, <1>11 DEF SafeInv

\* A file leaves the directory for the replica.
LEMMA SafePut ==
  ASSUME SafeInv, NEW p \in All, pc[p] # "down", NEW t, Put(HostOf(p), t),
         staging' = [staging EXCEPT ![HostOf(p)] = Unstage(HostOf(p), t)],
         pos' = [pos EXCEPT ![p] = pos'[p]], pos'[p] \in Position,
         pos'[p].txid <= pos[p].txid \/ pos'[p].txid <= t,
         pc' = [pc EXCEPT ![p] = pc'[p]], pc'[p] \in {"recover", "idle"},
         UNCHANGED <<setup, hostVars, lock, next, retired, commits, faults>>
  PROVE  SafeInv'
<1> DEFINE h == HostOf(p)
<1>1. h \in Hosts
  BY HostOfIs
<1>2. t \in DOMAIN staging[h] /\ replica' = Stored(h, t)
      /\ acked' = acked \cup {<<t, Staged(h, t)>>} /\ UNCHANGED <<conflict, leftover, lost>>
  BY DEF Put, Accepted
<1>3. Staged(h, t) \in File
  BY <1>1, <1>2, StagedIs DEF SafeInv
<1>4. /\ replica' \in Seq(File) /\ Len(replica) \in Nat /\ Len(replica') \in Nat
      /\ Len(replica) <= Len(replica') /\ t <= Len(replica') /\ t \in Nat
  BY <1>1, <1>2, StoredGrows
<1>5. /\ DOMAIN Unstage(h, t) = DOMAIN staging[h] \ {t}
      /\ Unstage(h, t) \in [DOMAIN staging[h] \ {t} -> File]
  BY <1>1, UnstageIs DEF SafeInv
<1> HIDE DEF h
<1>6. staging' = [staging EXCEPT ![h] = Unstage(h, t)]
  BY DEF h
<1>7. /\ staging' = [x \in Hosts |-> staging'[x]]
      /\ \A x \in Hosts : staging'[x] = IF x = h THEN Unstage(h, t) ELSE staging[x]
  BY <1>1, <1>6 DEF SafeInv, TypeOK
<1>8. \A x \in Hosts : staging'[x] \in [DOMAIN staging'[x] -> File]
  BY <1>5, <1>7 DEF SafeInv, TypeOK
<1>9. acked' \in SUBSET (Nat \X File)
  BY <1>2, <1>3, <1>4 DEF SafeInv, TypeOK
<1>10. pos' \in [All -> Position] /\ pc' \in [All -> {"down", "recover", "idle", "staged"}]
  BY DEF SafeInv, TypeOK
<1>11. TypeOK'
  BY <1>2, <1>4, <1>7, <1>8, <1>9, <1>10 DEF SafeInv, TypeOK, hostVars
<1>12. pos'[p].txid <= Len(replica')
  <2>1. pos[p].txid \in Nat /\ pos[p].txid <= Len(replica) /\ pos'[p].txid \in Nat
    BY DEF SafeInv, TypeOK, BoundInv, Position
  <2> QED
    BY <1>4, <2>1
<1>13. \A x \in Hosts : DOMAIN staging'[x] \subseteq DOMAIN staging[x]
  BY <1>5, <1>7
<1>14. BoundInv'
  BY <1>4, <1>12, <1>13, BoundsGrow
<1>15. LockInv'
  BY LockStays
<1> QED
  BY <1>11, <1>14, <1>15 DEF SafeInv

(***************************************************************************)
(* What a reader restores.                                                 *)
(***************************************************************************)
Adds(f, before) == IF f.full THEN f.new ELSE before \o f.new

LEMMA ImagesAre ==
  ASSUME TypeOK
  PROVE  /\ Images[0] = << >>
         /\ \A n \in 1 .. Len(replica) : Images[n] = Adds(replica[n], Images[n - 1])
         /\ \A n \in 0 .. Len(replica) : Images[n] \in Seq(Commit)
<1> DEFINE N == Len(replica)
           D == Seq(Commit)
           step == [n \in 1 .. N |-> [d \in D |-> Adds(replica[n], d)]]
<1>1. N \in Nat /\ << >> \in D /\ \A n \in 1 .. N : replica[n] \in File
  BY DEF TypeOK
<1>2. ASSUME NEW n \in 1 .. N, NEW d \in D PROVE Adds(replica[n], d) \in D
  <2>1. replica[n].new \in Seq(Commit)
    BY <1>1 DEF File
  <2> QED
    BY <2>1, ConcatProperties DEF Adds
<1>3. step \in [1 .. N -> [D -> D]]
  BY <1>2
<1>4. PICK f : Recursive(f, N, D, << >>, step)
  <2> HIDE DEF step, N, D
  <2> QED
    BY <1>1, <1>3, RecursionExists
<1>5. f = [n \in 0 .. N |-> f[n]] /\ f[0] = << >>
  BY <1>4 DEF Recursive
<1>6. ASSUME NEW n \in 1 .. N PROVE f[n] = Adds(replica[n], f[n - 1])
  <2>1. f[n - 1] \in D
    BY <1>1, <1>4 DEF Recursive
  <2> HIDE DEF D
  <2> QED
    BY <1>4, <2>1 DEF Recursive
<1>7. \A n \in 0 .. N : f[n] = IF n = 0 THEN << >> ELSE Adds(replica[n], f[n - 1])
  BY <1>5, <1>6
<1>8. f = [n \in 0 .. N |-> IF n = 0 THEN << >> ELSE Adds(replica[n], f[n - 1])]
  BY <1>5, <1>7, Zenon
<1>9. \E i : i = [n \in 0 .. Len(replica) |->
                    IF n = 0 THEN << >>
                    ELSE IF replica[n].full THEN replica[n].new
                    ELSE i[n - 1] \o replica[n].new]
  BY <1>8, Zenon DEF Adds
<1> DEFINE i == Images
<1>10. i = [n \in 0 .. Len(replica) |->
             IF n = 0 THEN << >>
             ELSE IF replica[n].full THEN replica[n].new
             ELSE i[n - 1] \o replica[n].new]
  BY <1>9, Zenon DEF Images
<1> HIDE DEF i
<1>11. 0 \in 0 .. Len(replica) /\ \A n \in 1 .. Len(replica) : n \in 0 .. Len(replica) /\ n # 0
  BY <1>1
<1>12. i[0] = << >>
  BY <1>10, <1>11, Zenon
<1>13. ASSUME NEW n \in 1 .. Len(replica) PROVE i[n] = Adds(replica[n], i[n - 1])
  BY <1>10, <1>11, Zenon DEF Adds
<1> DEFINE Bad == {n \in Nat : n \in 0 .. N /\ i[n] \notin D}
<1>14. Bad = {}
  <2> SUFFICES ASSUME Bad # {} PROVE FALSE
    OBVIOUS
  <2>1. PICK n \in Bad : \A m \in Bad : n <= m
    BY LeastOf
  <2>2. n # 0 /\ n \in 1 .. N
    <3>1. i[0] \in D
      BY <1>1, <1>12
    <3> HIDE DEF D
    <3>2. n # 0
      BY <3>1
    <3> QED
      BY <3>2
  <2>3. n - 1 \notin Bad /\ n - 1 \in Nat /\ n - 1 \in 0 .. N
    BY <1>1, <2>1, <2>2
  <2>4. i[n - 1] \in D
    BY <2>3
  <2> HIDE DEF D
  <2> QED
    BY <1>2, <1>13, <2>2, <2>4
<1>15. \A n \in 0 .. N : i[n] \in D
  BY <1>1, <1>14
<1> QED
  BY <1>12, <1>13, <1>15 DEF i

LEMMA SafeFailover ==
  ASSUME SafeInv, NEW h \in Hosts, Failover(h)
  PROVE  SafeInv'
<1> DEFINE d == Image(Len(replica))
<1>1. d \in Seq(Commit) /\ Len(d) \in Nat
  <2>1. Len(replica) \in 0 .. Len(replica)
    BY DEF SafeInv, TypeOK
  <2> QED
    BY <2>1, ImagesAre DEF SafeInv, Image
<1> HIDE DEF d
<1>2. /\ db' = [db EXCEPT ![h] = d] /\ retired' = Hosts \ {h}
      /\ wal' = [wal EXCEPT ![h] = [gen |-> 0, base |-> Len(d)]]
      /\ UNCHANGED <<setup, gens, lock, staging, procVars, replica, commits, faults, acked,
                     conflict, lost>>
  BY DEF Failover, d
<1>3. leftover' \in BOOLEAN
  BY DEF Failover, SafeInv, TypeOK
<1>4. db' \in [Hosts -> Seq(Commit)] /\ wal' \in [Hosts -> [gen : Nat, base : Nat]]
  BY <1>1, <1>2 DEF SafeInv, TypeOK
<1>5. TypeOK'
  BY <1>2, <1>3, <1>4 DEF SafeInv, TypeOK, procVars
<1>6. BoundInv'
  BY <1>2 DEF SafeInv, BoundInv, procVars
<1>7. LockInv'
  BY <1>2 DEF SafeInv, LockInv, procVars
<1> QED
  BY <1>5, <1>6, <1>7 DEF SafeInv

\* A process stops, and may have uploaded before.
LEMMA SafeDown ==
  ASSUME SafeInv, NEW p \in All, Down(p), UNCHANGED <<setup, hostVars, staging, retired, commits>>,
         faults' \in Nat, acked' \in SUBSET (Nat \X File), conflict' \in BOOLEAN,
         leftover' \in BOOLEAN, lost' \in BOOLEAN,
         replica' = replica \/ \E t \in DOMAIN staging[HostOf(p)] : replica' = Stored(HostOf(p), t)
  PROVE  SafeInv'
<1>1. HostOf(p) \in Hosts /\ Len(replica) \in Nat
  BY HostOfIs DEF SafeInv, TypeOK
<1>2. /\ replica' \in Seq(File) /\ Len(replica') \in Nat /\ Len(replica) <= Len(replica')
  <2>1. CASE replica' = replica
    BY <1>1, <2>1 DEF SafeInv, TypeOK
  <2>2. ASSUME NEW t \in DOMAIN staging[HostOf(p)], replica' = Stored(HostOf(p), t)
        PROVE  replica' \in Seq(File) /\ Len(replica') \in Nat /\ Len(replica) <= Len(replica')
    BY <1>1, <2>2, StoredGrows
  <2> QED
    BY <2>1, <2>2
<1>3. TypeOK'
  BY <1>2, DownIs DEF SafeInv, TypeOK, hostVars
<1>4. BoundInv'
  <2>1. pos' = [pos EXCEPT ![p] = pos'[p]]
    BY DEF Down, SafeInv, TypeOK
  <2>2. pos'[p].txid <= Len(replica')
    BY <1>2, DownIs
  <2> QED
    BY <1>2, <2>1, <2>2, BoundsGrow
<1> QED
  BY <1>3, <1>4, DownIs DEF SafeInv

\* Only the position and the step of a running process change.
LEMMA SafeProcess ==
  ASSUME SafeInv, NEW p \in All, pc[p] # "down", NEW l \in {"recover", "idle", "staged"},
         pc' = [pc EXCEPT ![p] = l], pos' = [pos EXCEPT ![p] = pos'[p]],
         pos'[p] \in Position, pos'[p].txid <= Len(replica),
         UNCHANGED <<setup, hostVars, lock, staging, next, replica, retired, commits, acked>>,
         faults' \in Nat, conflict' \in BOOLEAN, UNCHANGED <<leftover, lost>>
  PROVE  SafeInv'
<1>1. TypeOK'
  <2>1. pc' \in [All -> {"down", "recover", "idle", "staged"}] /\ pos' \in [All -> Position]
    BY DEF SafeInv, TypeOK
  <2> QED
    BY <2>1 DEF SafeInv, TypeOK, hostVars
<1>2. BoundInv'
  <2>1. \A q \in All : pos'[q] = IF q = p THEN pos'[p] ELSE pos[q]
    BY DEF SafeInv, TypeOK
  <2> QED
    BY <2>1 DEF SafeInv, BoundInv
<1> QED
  BY <1>1, <1>2, LockStays DEF SafeInv

\* The file is stored, and its writer goes on as if it was not.
LEMMA SafeLost ==
  ASSUME SafeInv, NEW p \in All, UploadLost(p)
  PROVE  SafeInv'
<1> DEFINE h == HostOf(p)
           t == next[p].txid
<1>1. /\ pc[p] = "staged" /\ t \in DOMAIN staging[h] /\ replica' = Stored(h, t)
      /\ pc' = [pc EXCEPT ![p] = "idle"] /\ faults' = faults + 1 /\ lost' = TRUE
      /\ UNCHANGED <<setup, hostVars, lock, staging, pos, next, retired, commits, acked, conflict,
                     leftover>>
  BY DEF UploadLost, Accepted
<1>2. replica' \in Seq(File) /\ Len(replica) <= Len(replica') /\ Len(replica) \in Nat
      /\ Len(replica') \in Nat
  BY <1>1, HostOfIs, StoredGrows
<1>3. TypeOK'
  BY <1>1, <1>2 DEF SafeInv, TypeOK, hostVars
<1>4. BoundInv'
  <2>1. pos' = [pos EXCEPT ![p] = pos'[p]] /\ pos'[p].txid <= Len(replica')
    BY <1>1, <1>2 DEF SafeInv, TypeOK, BoundInv, Position
  <2> QED
    BY <1>1, <1>2, <2>1, BoundsGrow
<1>5. LockInv'
  BY <1>1, LockStays
<1> QED
  BY <1>3, <1>4, <1>5 DEF SafeInv

LEMMA PositionIs ==
  ASSUME SafeInv
  PROVE  /\ derive_position \in Position /\ derive_position.txid = Len(replica)
         /\ replica # << >> => /\ Len(replica) \in 1 .. Len(replica)
                               /\ derive_position.gen = replica[Len(replica)].gen
                               /\ derive_position.off = replica[Len(replica)].off
<1>1. replica \in Seq(File)
  BY DEF SafeInv, TypeOK
<1>2. CASE replica = << >>
  BY <1>2 DEF derive_position, DefaultPosition, Position
<1>3. CASE replica # << >>
  <2>1. Len(replica) \in 1 .. Len(replica)
    BY <1>1, <1>3, EmptySeq
  <2>2. replica[Len(replica)] \in File
    BY <1>1, <2>1
  <2> QED
    BY <1>1, <1>3, <2>1, <2>2 DEF derive_position, Position, File, Last
<1> QED
  BY <1>2, <1>3

LEMMA SafeNext == SafeInv /\ [Next]_vars => SafeInv'
<1> SUFFICES ASSUME SafeInv, [Next]_vars PROVE SafeInv'
  OBVIOUS
<1>1. ASSUME NEW h \in Hosts, AppCommit(h) PROVE SafeInv'
  BY <1>1, SafeApp
<1>2. ASSUME NEW h \in Hosts, Failover(h) PROVE SafeInv'
  BY <1>2, SafeFailover
<1> DEFINE Types(p) == /\ HostOf(p) \in Hosts /\ pos[p] \in Position /\ next[p] \in Position
                       /\ pos[p].txid <= Len(replica)
                       /\ pos = [pos EXCEPT ![p] = pos[p]] /\ pc = [pc EXCEPT ![p] = pc[p]]
<1>3. ASSUME NEW p \in All PROVE Types(p)
  BY HostOfIs DEF SafeInv, TypeOK, BoundInv
<1>4. /\ faults \in Nat /\ acked \in SUBSET (Nat \X File)
      /\ conflict \in BOOLEAN /\ leftover \in BOOLEAN /\ lost \in BOOLEAN
  BY DEF SafeInv, TypeOK
<1>5. ASSUME NEW p \in All, Acquire(p) PROVE SafeInv'
  BY <1>5, SafeAcquire
<1>6. ASSUME NEW p \in All, RecoverStaging(p) PROVE SafeInv'
  <2> DEFINE t == OldestStaged(HostOf(p))
  <2>1. /\ pc[p] = "recover" /\ Put(HostOf(p), t)
        /\ staging' = [staging EXCEPT ![HostOf(p)] = Unstage(HostOf(p), t)]
        /\ UNCHANGED <<setup, hostVars, lock, pc, pos, next, retired, commits, faults>>
    BY <1>6 DEF RecoverStaging, procVars
  <2>2. pos[p].txid <= pos[p].txid
    BY <1>3 DEF Position
  <2> QED
    BY <1>3, <2>1, <2>2, SafePut
<1>7. ASSUME NEW p \in All, OpenFails(p) PROVE SafeInv'
  BY <1>4, <1>7, SafeDown DEF OpenFails
<1>8. ASSUME NEW p \in All, OpenDone(p) PROVE SafeInv'
  <2>1. /\ pc[p] = "recover" /\ pos' = [pos EXCEPT ![p] = derive_position]
        /\ pc' = [pc EXCEPT ![p] = "idle"]
        /\ UNCHANGED <<setup, hostVars, lock, staging, next, replica, retired, commits, faults,
                       acked, conflict, leftover, lost>>
    BY <1>8 DEF OpenDone, historyVars
  <2>2. pos'[p] = derive_position /\ derive_position \in Position
        /\ derive_position.txid <= Len(replica)
    BY <2>1, PositionIs DEF SafeInv, TypeOK
  <2> QED
    BY <1>4, <2>1, <2>2, SafeProcess
<1>9. ASSUME NEW p \in All, BuildSnapshot(p) PROVE SafeInv'
  BY <1>9, SafeStage DEF BuildSnapshot, Now
<1>10. ASSUME NEW p \in All, BuildIncremental(p) PROVE SafeInv'
  BY <1>10, SafeStage, PlanStartIs DEF BuildIncremental, SafeInv, Now
<1>11. ASSUME NEW p \in All, Upload(p) PROVE SafeInv'
  <2> DEFINE t == next[p].txid
  <2>1. /\ pc[p] = "staged" /\ Put(HostOf(p), t)
        /\ staging' = [staging EXCEPT ![HostOf(p)] = Unstage(HostOf(p), t)]
        /\ pos' = [pos EXCEPT ![p] = next[p]] /\ pc' = [pc EXCEPT ![p] = "idle"]
        /\ UNCHANGED <<setup, hostVars, lock, next, retired, commits, faults>>
    BY <1>11 DEF Upload
  <2>2. pos'[p] = next[p] /\ pc'[p] = "idle" /\ next[p] \in Position /\ t <= t
    BY <1>3, <2>1 DEF SafeInv, TypeOK, Position
  <2> QED
    BY <2>1, <2>2, SafePut
<1>12. ASSUME NEW p \in All, UploadConflict(p) PROVE SafeInv'
  BY <1>3, <1>4, <1>12, SafeProcess DEF UploadConflict
<1>13. ASSUME NEW p \in All, UploadFails(p) PROVE SafeInv'
  <2>1. /\ pc[p] = "staged" /\ pc' = [pc EXCEPT ![p] = "idle"] /\ faults' \in Nat
        /\ UNCHANGED <<setup, hostVars, lock, staging, pos, next, replica, retired, commits,
                       acked, conflict, leftover, lost>>
    BY <1>4, <1>13 DEF UploadFails, historyVars
  <2>2. pos' = [pos EXCEPT ![p] = pos'[p]] /\ pos'[p] \in Position /\ pos'[p].txid <= Len(replica)
    BY <1>3, <2>1
  <2> QED
    BY <1>4, <2>1, <2>2, SafeProcess
<1>14. ASSUME NEW p \in All, Crash(p) PROVE SafeInv'
  BY <1>4, <1>14, SafeDown DEF Crash, historyVars
<1>15. ASSUME NEW p \in All, CrashUploaded(p) PROVE SafeInv'
  <2>1. /\ Uploading(p) \in DOMAIN staging[HostOf(p)]
        /\ replica' = Stored(HostOf(p), Uploading(p))
    BY <1>15 DEF CrashUploaded, Accepted
  <2> QED
    BY <1>4, <1>15, <2>1, SafeDown DEF CrashUploaded, historyVars
<1>16. ASSUME NEW p \in All, Fold(p) PROVE SafeInv'
  <2>1. wal' = [wal EXCEPT ![HostOf(p)] = [gen |-> 0, base |-> Len(db[HostOf(p)])]]
        /\ UNCHANGED <<setup, db, gens, lock, staging, procVars, replica, retired, commits, faults,
                       historyVars>>
    BY <1>16 DEF Fold
  <2>2. [gen |-> 0, base |-> Len(db[HostOf(p)])] \in [gen : Nat, base : Nat]
    BY <1>3 DEF SafeInv, TypeOK
  <2>3. wal' \in [Hosts -> [gen : Nat, base : Nat]]
    BY <2>1, <2>2 DEF SafeInv, TypeOK
  <2> QED
    BY <2>1, <2>3 DEF SafeInv, TypeOK, BoundInv, LockInv, procVars, historyVars
<1>17. CASE UNCHANGED vars
  BY <1>17 DEF SafeInv, TypeOK, BoundInv, LockInv, vars, hostVars, procVars, historyVars
<1>18. ASSUME NEW p \in All, UploadLost(p) PROVE SafeInv'
  BY <1>18, SafeLost
<1> QED
  BY <1>1, <1>2, <1>5, <1>6, <1>7, <1>8, <1>9, <1>10, <1>11, <1>12, <1>13, <1>14, <1>15, <1>16,
     <1>17, <1>18 DEF Next

LEMMA SafeHolds == Spec => []SafeInv
BY SafeInit, SafeNext, PTL DEF Spec

\* A host's lock (flock with LOCK_EX | LOCK_NB, src/lock.rs) admits one process
\* at a time, through every crash and failed open: what no two processes of one
\* host may do at once, staging and positions rest on.
THEOREM LockIsExclusive == Spec => []LockInv
<1>1. SafeInv => LockInv
  BY DEF SafeInv
<1> QED
  BY <1>1, SafeHolds, PTL

(***************************************************************************)
(* One host at a time.  What the replica restores to after n files; a file *)
(* that may come next; a file the log of a host goes on from: the log is   *)
(* of the file's generation, or starts where the file ends.                *)
(***************************************************************************)
Published(n) == IF n = 0 THEN << >> ELSE replica[n].at

Follows(f, n) ==
  /\ f.off = Len(f.at)
  /\ IsPrefix(Published(n), f.at)
  /\ f.full => f.new = f.at
  /\ ~f.full => f.at = Published(n) \o f.new

GoesOnFrom(h, f) ==
  /\ f.gen <= gens /\ IsPrefix(f.at, db[h])
  /\ f.gen # wal[h].gen => Len(f.at) = wal[h].base

ChainInv == \A n \in 1 .. Len(replica) : Follows(replica[n], n - 1)

\* A staged file comes after the replica, or in the place of its last file when
\* that one was stored without an answer.
Fits(h, t) ==
  /\ t = Len(replica) + 1 \/ (t = Len(replica) /\ lost)
  /\ Follows(staging[h][t], t - 1) /\ GoesOnFrom(h, staging[h][t])
  /\ wal[h].gen = 0 => staging[h][t].at = db[h]

HostInv(h) ==
  LET last == Len(replica) IN
  /\ wal[h].gen <= gens
  /\ IsPrefix(Published(last), db[h])
  /\ wal[h].gen = 0 => db[h] = Published(last) /\ wal[h].base = Len(db[h])
  /\ last > 0 => GoesOnFrom(h, replica[last])
  /\ \A t \in DOMAIN staging[h] : Shipped(h, t) \/ Fits(h, t)

\* A running process is at the last file, or before one that was stored without
\* an answer.
ProcInv(p) ==
  LET h == HostOf(p)
      n == pos[p].txid
  IN  pc[p] \in {"idle", "staged"} =>
        /\ n = Len(replica) \/ (n + 1 = Len(replica) /\ lost)
        /\ n = 0 => pos[p].gen = 0
        /\ n > 0 => /\ pos[p].gen = replica[n].gen /\ pos[p].off = replica[n].off
                    /\ GoesOnFrom(h, replica[n])
        /\ wal[h].gen = 0 => db[h] = Published(n)
        /\ DOMAIN staging[h] \subseteq {n + 1}
        /\ pc[p] = "staged" =>
             /\ n + 1 \in DOMAIN staging[h] /\ next[p].txid = n + 1
             /\ next[p].gen = staging[h][n + 1].gen
             /\ next[p].off = staging[h][n + 1].off

OneStaged == \A h \in Hosts : \A s, t \in DOMAIN staging[h] : s = t

HostsInv == \A h \in Hosts \ retired : HostInv(h)
ProcsInv == \A p \in All : ProcInv(p)

\* One host runs, and all is well with it.
Orderly ==
  /\ \E h \in Hosts : retired = Hosts \ {h}
  /\ \A p \in All : pc[p] # "down" => HostOf(p) \notin retired
  /\ OneStaged /\ ChainInv /\ HostsInv /\ ProcsInv
  /\ conflict => lost

OrderlyInv == setup.orderly /\ ~leftover => Orderly

LEMMA PublishedIs ==
  ASSUME SafeInv
  PROVE  \A n \in 0 .. Len(replica) : Published(n) \in Seq(Commit) /\ Len(Published(n)) \in Nat
<1> SUFFICES ASSUME NEW n \in 0 .. Len(replica) PROVE Published(n) \in Seq(Commit)
  OBVIOUS
<1>1. CASE n = 0
  BY <1>1 DEF Published
<1>2. CASE n # 0
  <2>1. replica[n] \in File
    BY <1>2 DEF SafeInv, TypeOK
  <2> QED
    BY <1>2, <2>1 DEF Published, File
<1> QED
  BY <1>1, <1>2

\* While one process runs the others are down.
LEMMA OthersDown ==
  ASSUME SafeInv, Orderly, NEW p \in All, pc[p] # "down"
  PROVE  /\ HostOf(p) \in Hosts \ retired /\ \A h \in Hosts \ retired : h = HostOf(p)
         /\ \A q \in All : q # p => pc[q] = "down"
<1>1. \A q \in All : pc[q] # "down" => HostOf(q) \in Hosts \ retired
  BY HostOfIs DEF Orderly
<1>2. \A h, g \in Hosts \ retired : h = g
  BY DEF Orderly
<1> QED
  BY <1>1, <1>2 DEF SafeInv, LockInv

\* What a running host has staged either is in the replica or fits there; it is
\* refused only in the place of a file that was stored without an answer.
LEMMA StagedFits ==
  ASSUME SafeInv, Orderly, NEW a \in Hosts \ retired, NEW t \in DOMAIN staging[a]
  PROVE  /\ \/ t \in 1 .. Len(replica) /\ replica[t] = Staged(a, t) /\ Stored(a, t) = replica
            \/ Fits(a, t)
         /\ Conflict(a, t) => lost
         /\ DOMAIN staging[a] = {t}
<1>1. a \in Hosts /\ Len(replica) \in Nat /\ replica \in Seq(File) /\ t \in Nat /\ 1 <= t
  BY StagedIs DEF SafeInv, TypeOK
<1>2. CASE Shipped(a, t)
  <2>1. t \in 1 .. Len(replica) /\ replica[t] = Staged(a, t)
    BY <1>1, <1>2 DEF Shipped, Staged
  <2>2. Stored(a, t) \in Seq(File) /\ Len(Stored(a, t)) = Len(replica)
        /\ \A n \in 1 .. Len(replica) :
              Stored(a, t)[n] = IF n = t THEN Staged(a, t) ELSE replica[n]
    BY <1>1, <2>1, StoredIs DEF SafeInv
  <2>3. Stored(a, t) = replica
    BY <1>1, <2>1, <2>2, SeqEqual
  <2>4. ~Conflict(a, t)
    BY <1>1, <2>1 DEF Conflict, Accepted, AlreadyIdentical
  <2> QED
    BY <2>1, <2>3, <2>4 DEF Orderly, OneStaged
<1>3. CASE Fits(a, t)
  <2>1. Conflict(a, t) => t # Len(replica) + 1
    BY <1>1 DEF Conflict, Accepted, Created
  <2> QED
    BY <1>3, <2>1 DEF Fits, Orderly, OneStaged
<1> QED
  BY <1>2, <1>3 DEF Orderly, HostsInv, HostInv

\* What only the replica, the databases and the logs determine.
LEMMA Frame ==
  ASSUME UNCHANGED <<replica, hostVars>>
  PROVE  /\ \A n : Published(n)' = Published(n)
         /\ \A f, n : Follows(f, n)' = Follows(f, n)
         /\ \A h, f : GoesOnFrom(h, f)' = GoesOnFrom(h, f)
         /\ ChainInv' = ChainInv
<1>1. \A n : Published(n)' = Published(n)
  BY DEF Published
<1>2. \A f, n : Follows(f, n)' = Follows(f, n)
  BY <1>1 DEF Follows
<1>3. \A h, f : GoesOnFrom(h, f)' = GoesOnFrom(h, f)
  BY DEF GoesOnFrom, hostVars
<1>4. ChainInv' = ChainInv
  BY <1>2 DEF ChainInv
<1> QED
  BY <1>1, <1>2, <1>3, <1>4

\* Nothing is staged that was not.
LEMMA HostsStay ==
  ASSUME HostsInv, UNCHANGED <<replica, hostVars, retired, lost>>,
         \A h \in Hosts \ retired : \A t \in DOMAIN staging'[h] :
           t \in DOMAIN staging[h] /\ staging'[h][t] = staging[h][t]
  PROVE  HostsInv'
<1> SUFFICES ASSUME NEW h \in Hosts \ retired PROVE HostInv(h)'
  BY DEF HostsInv
<1>1. HostInv(h)
  BY DEF HostsInv
<1>2. ASSUME NEW t \in DOMAIN staging'[h] PROVE (Shipped(h, t) \/ Fits(h, t))'
  <2>1. t \in DOMAIN staging[h] /\ staging'[h][t] = staging[h][t]
    OBVIOUS
  <2>2. Shipped(h, t) \/ Fits(h, t)
    BY <1>1, <2>1 DEF HostInv
  <2>3. Shipped(h, t) => Shipped(h, t)'
    BY <2>1 DEF Shipped
  <2>4. Fits(h, t) => Fits(h, t)'
    BY <2>1, Frame DEF Fits, hostVars
  <2> QED
    BY <2>2, <2>3, <2>4
<1>3. /\ wal'[h].gen <= gens'
      /\ IsPrefix(Published(Len(replica))', db'[h])
      /\ wal'[h].gen = 0 => db'[h] = Published(Len(replica))' /\ wal'[h].base = Len(db'[h])
      /\ Len(replica) > 0 => GoesOnFrom(h, replica[Len(replica)])'
  BY <1>1, Frame DEF HostInv, hostVars
<1> QED
  BY <1>2, <1>3 DEF HostInv

\* A staged file arrives; what is still staged is that file or nothing.
LEMMA Arrives ==
  ASSUME SafeInv, Orderly, NEW a \in Hosts \ retired, NEW t \in DOMAIN staging[a],
         replica' = Stored(a, t), UNCHANGED <<hostVars, retired>>,
         \A s \in DOMAIN staging'[a] : s = t /\ staging'[a][s] = Staged(a, t)
  PROVE  /\ t \in Nat /\ t \in 1 .. Len(replica') /\ replica'[t] = Staged(a, t)
         /\ \A n \in 1 .. t - 1 : replica'[n] = replica[n]
         /\ t >= Len(replica) => Len(replica') = t
         /\ ChainInv' /\ HostsInv'
<1>0. PICK last, f : last = Len(replica) /\ f = Staged(a, t)
  OBVIOUS
<1>1. a \in Hosts /\ last \in Nat /\ replica \in Seq(File) /\ t \in Nat /\ 1 <= t /\ f \in File
      /\ t <= last + 1
  BY <1>0, StagedIs DEF SafeInv, TypeOK
<1>2. \A h \in Hosts \ retired' : h = a
  BY DEF Orderly
<1>3. CASE t \in 1 .. last /\ replica[t] = f /\ replica' = replica
  <2>1. ChainInv'
    BY <1>3, Frame DEF Orderly
  <2>2. HostInv(a)'
    <3>1. HostInv(a)
      BY DEF Orderly, HostsInv
    <3>2. \A s \in DOMAIN staging'[a] : Shipped(a, s)'
      BY <1>0, <1>3 DEF Shipped
    <3>3. /\ wal'[a].gen <= gens'
          /\ IsPrefix(Published(last)', db'[a])
          /\ wal'[a].gen = 0 => db'[a] = Published(last)' /\ wal'[a].base = Len(db'[a])
          /\ last > 0 => GoesOnFrom(a, replica[last])'
      BY <1>0, <1>3, <3>1, Frame DEF HostInv, hostVars
    <3> QED
      BY <1>0, <1>3, <3>2, <3>3 DEF HostInv
  <2>3. HostsInv'
    BY <1>2, <2>2 DEF HostsInv
  <2> QED
    BY <1>0, <1>1, <1>3, <2>1, <2>3
<1>4. CASE Fits(a, t)
  <2>1. /\ t = last + 1 \/ t = last
        /\ Follows(f, t - 1) /\ GoesOnFrom(a, f) /\ (wal[a].gen = 0 => f.at = db[a])
    BY <1>0, <1>4 DEF Fits, Staged
  <2>2. /\ Len(replica') = t /\ replica'[t] = f
        /\ \A n \in 1 .. t - 1 : replica'[n] = replica[n]
    <3>1. CASE t = last + 1
      BY <1>0, <1>1, <3>1, StoredIs DEF SafeInv
    <3>2. CASE t = last
      <4>1. t # last + 1
        BY <1>1, <3>2
      <4>2. Len(replica') = last /\ \A n \in 1 .. last : replica'[n] = IF n = t THEN f ELSE replica[n]
        BY <1>0, <1>1, <4>1, StoredIs DEF SafeInv
      <4> QED
        BY <1>1, <3>2, <4>2
    <3> QED
      BY <2>1, <3>1, <3>2
  <2>3. t \in 1 .. t /\ t # 0 /\ \A n \in 0 .. t - 1 : n # 0 => n \in 1 .. t - 1
    BY <1>1
  <2>4. \A n \in 0 .. t - 1 : Published(n)' = Published(n)
    BY <2>2, <2>3 DEF Published
  <2>5. Published(t)' = f.at
    BY <2>2, <2>3 DEF Published
  <2>6. ChainInv'
    <3> SUFFICES ASSUME NEW n \in 1 .. t PROVE Follows(replica[n], n - 1)'
      BY <2>2 DEF ChainInv
    <3>1. n - 1 \in 0 .. t - 1
      BY <1>1
    <3>2. \A g : Follows(g, n - 1)' = Follows(g, n - 1)
      BY <2>4, <3>1 DEF Follows
    <3>3. CASE n = t
      BY <2>1, <2>2, <3>2, <3>3
    <3>4. CASE n # t
      <4>1. n \in 1 .. t - 1 /\ n \in 1 .. last
        BY <1>1, <3>4
      <4>2. Follows(replica[n], n - 1)
        BY <1>0, <4>1 DEF Orderly, ChainInv
      <4>3. replica'[n] = replica[n]
        BY <2>2, <4>1
      <4> QED
        BY <3>2, <4>2, <4>3
    <3> QED
      BY <3>3, <3>4
  <2>7. GoesOnFrom(a, f)'
    BY <2>1 DEF GoesOnFrom, hostVars
  <2>8. HostInv(a)'
    <3>1. /\ wal[a].gen <= gens /\ (wal[a].gen = 0 => wal[a].base = Len(db[a]))
          /\ db' = db /\ wal' = wal /\ gens' = gens
      BY <1>0 DEF Orderly, HostsInv, HostInv, hostVars
    <3>2. IsPrefix(Published(t)', db'[a])
      BY <2>1, <2>5, <3>1 DEF GoesOnFrom
    <3>3. wal'[a].gen = 0 => db'[a] = Published(t)' /\ wal'[a].base = Len(db'[a])
      BY <2>1, <2>5, <3>1
    <3>4. \A s \in DOMAIN staging'[a] : Shipped(a, s)'
      BY <1>0, <1>1, <2>2 DEF Shipped
    <3> QED
      BY <2>2, <2>7, <3>1, <3>2, <3>3, <3>4 DEF HostInv
  <2>9. HostsInv'
    BY <1>2, <2>8 DEF HostsInv
  <2> QED
    BY <1>0, <1>1, <2>2, <2>3, <2>6, <2>9
<1> QED
  BY <1>0, <1>3, <1>4, StagedFits

\* A file that leaves the directory leaves at most one there.
LEMMA OneStays ==
  ASSUME SafeInv, Orderly,
         \A h \in Hosts : DOMAIN staging'[h] \subseteq DOMAIN staging[h]
  PROVE  OneStaged'
BY DEF Orderly, OneStaged

\* A process that uploads.
LEMMA UploaderIs ==
  ASSUME SafeInv, Orderly, NEW p \in All, pc[p] = "staged",
         NEW a, a = HostOf(p), NEW n, n = pos[p].txid
  PROVE  /\ n \in Nat /\ Len(replica) \in Nat /\ n + 1 >= Len(replica)
         /\ next[p].txid = n + 1 /\ n + 1 \in DOMAIN staging[a]
         /\ DOMAIN staging[a] \subseteq {n + 1}
         /\ next[p].gen = staging[a][n + 1].gen /\ next[p].off = staging[a][n + 1].off
         /\ n = 0 => pos[p].gen = 0
         /\ n > 0 => /\ pos[p].gen = replica[n].gen /\ pos[p].off = replica[n].off
                     /\ GoesOnFrom(a, replica[n])
         /\ wal[a].gen = 0 => db[a] = Published(n)
<1>1. n \in Nat /\ Len(replica) \in Nat
  BY DEF SafeInv, TypeOK, Position
<1>2. ProcInv(p)
  BY DEF Orderly, ProcsInv
<1>3. n = Len(replica) \/ n + 1 = Len(replica)
  BY <1>2 DEF ProcInv
<1>4. n + 1 >= Len(replica)
  BY <1>1, <1>3
<1> QED
  BY <1>1, <1>2, <1>4 DEF ProcInv

LEMMA OrderlyUpload ==
  ASSUME SafeInv, Orderly, NEW p \in All, Upload(p)
  PROVE  Orderly'
<1> DEFINE t == next[p].txid
<1>0. PICK a, n, f : a = HostOf(p) /\ n = pos[p].txid /\ f = Staged(a, n + 1)
  OBVIOUS
<1>1. /\ pc[p] = "staged" /\ Put(HostOf(p), t)
      /\ staging' = [staging EXCEPT ![HostOf(p)] = Unstage(HostOf(p), t)]
      /\ pos' = [pos EXCEPT ![p] = next[p]] /\ pc' = [pc EXCEPT ![p] = "idle"]
      /\ UNCHANGED <<setup, hostVars, lock, next, retired, commits, faults>>
  BY DEF Upload
<1>2. /\ a \in Hosts \ retired /\ \A h \in Hosts \ retired : h = a
      /\ \A q \in All : q # p => pc[q] = "down"
  BY <1>0, <1>1, OthersDown
<1>3. /\ t = n + 1 /\ n + 1 \in DOMAIN staging[a] /\ DOMAIN staging[a] \subseteq {n + 1}
      /\ next[p].gen = f.gen /\ next[p].off = f.off /\ n + 1 >= Len(replica)
  BY <1>0, <1>1, UploaderIs DEF Staged
<1>4. replica' = Stored(a, n + 1) /\ UNCHANGED <<conflict, leftover, lost>>
  BY <1>0, <1>1, <1>3 DEF Put
<1>5. DOMAIN staging'[a] = {} /\ \A h \in Hosts : DOMAIN staging'[h] \subseteq DOMAIN staging[h]
  <2>1. /\ staging'[a] = Unstage(a, n + 1)
        /\ \A h \in Hosts : h # a => staging'[h] = staging[h]
    BY <1>0, <1>1, <1>2, <1>3 DEF SafeInv, TypeOK
  <2>2. DOMAIN Unstage(a, n + 1) = DOMAIN staging[a] \ {n + 1}
    BY <1>2, UnstageIs DEF SafeInv
  <2> QED
    BY <1>3, <2>1, <2>2
<1>6. /\ n + 1 \in 1 .. Len(replica') /\ replica'[n + 1] = f /\ Len(replica') = n + 1
      /\ ChainInv' /\ HostsInv'
  <2>1. /\ replica' = Stored(a, n + 1) /\ UNCHANGED <<hostVars, retired>>
        /\ n + 1 \in DOMAIN staging[a]
        /\ \A s \in DOMAIN staging'[a] : s = n + 1 /\ staging'[a][s] = Staged(a, n + 1)
    BY <1>1, <1>3, <1>4, <1>5
  <2> QED
    BY <1>0, <1>2, <1>3, <2>1, Arrives
<1>7. /\ \A q \in All : q # p => pc'[q] = "down"
      /\ pc'[p] = "idle" /\ pos'[p] = next[p]
  BY <1>1, <1>2 DEF SafeInv, TypeOK
<1>8. ASSUME NEW q \in All PROVE ProcInv(q)'
  <2>1. CASE q # p
    BY <1>7, <2>1 DEF ProcInv
  <2>2. CASE q = p
    <3>1. HostInv(a)'
      BY <1>1, <1>2, <1>6 DEF HostsInv
    <3>2. n + 1 > 0 /\ n + 1 # 0
      BY <1>6
    <3>3. /\ GoesOnFrom(a, replica[n + 1])'
          /\ wal'[a].gen = 0 => db'[a] = Published(n + 1)'
      BY <1>6, <3>1, <3>2 DEF HostInv
    <3> QED
      BY <1>0, <1>3, <1>5, <1>6, <1>7, <2>2, <3>2, <3>3 DEF ProcInv, HostOf
  <2> QED
    BY <2>1, <2>2
<1>9. \A q \in All : pc'[q] # "down" => HostOf(q) \notin retired'
  BY <1>0, <1>1, <1>2, <1>7
<1>10. OneStaged'
  BY <1>5, OneStays
<1> QED
  BY <1>1, <1>4, <1>6, <1>8, <1>9, <1>10 DEF Orderly, ProcsInv, HostOf

LEMMA OrderlyRecover ==
  ASSUME SafeInv, Orderly, NEW p \in All, RecoverStaging(p)
  PROVE  Orderly'
<1>0. PICK a, t : a = HostOf(p) /\ t = OldestStaged(a)
  OBVIOUS
<1>1. /\ pc[p] = "recover" /\ staging[a] # << >> /\ Put(a, t)
      /\ staging' = [staging EXCEPT ![a] = Unstage(a, t)]
      /\ UNCHANGED <<setup, hostVars, lock, procVars, retired, commits, faults>>
  BY <1>0 DEF RecoverStaging
<1>2. /\ a \in Hosts \ retired /\ \A h \in Hosts \ retired : h = a
      /\ \A q \in All : q # p => pc[q] = "down"
  BY <1>0, <1>1, OthersDown
<1>3. t \in DOMAIN staging[a] /\ DOMAIN staging[a] = {t}
  <2>1. t \in DOMAIN staging[a]
    BY <1>0, <1>1, <1>2, OldestIs DEF SafeInv
  <2> QED
    BY <1>2, <2>1, StagedFits
<1>4. replica' = Stored(a, t) /\ UNCHANGED <<conflict, leftover, lost>>
  BY <1>1 DEF Put
<1>5. DOMAIN staging'[a] = {} /\ \A h \in Hosts : DOMAIN staging'[h] \subseteq DOMAIN staging[h]
  <2>1. /\ staging'[a] = Unstage(a, t)
        /\ \A h \in Hosts : h # a => staging'[h] = staging[h]
    BY <1>1, <1>2 DEF SafeInv, TypeOK
  <2>2. DOMAIN Unstage(a, t) = DOMAIN staging[a] \ {t}
    BY <1>2, UnstageIs DEF SafeInv
  <2> QED
    BY <1>3, <2>1, <2>2
<1>6. ChainInv' /\ HostsInv'
  BY <1>1, <1>2, <1>3, <1>4, <1>5, Arrives
<1>7. ProcsInv'
  BY <1>1, <1>2 DEF ProcsInv, ProcInv, procVars
<1>8. OneStaged'
  BY <1>5, OneStays
<1> QED
  BY <1>1, <1>4, <1>6, <1>7, <1>8 DEF Orderly, procVars, HostOf

LEMMA OrderlyCrashUploaded ==
  ASSUME SafeInv, Orderly, NEW p \in All, CrashUploaded(p)
  PROVE  Orderly'
<1>0. PICK a, t : a = HostOf(p) /\ t = Uploading(p)
  OBVIOUS
<1>1. /\ pc[p] # "down" /\ replica' = Stored(a, t) /\ t \in DOMAIN staging[a] /\ Down(p)
      /\ UNCHANGED <<setup, hostVars, staging, retired, commits, historyVars>>
  BY <1>0 DEF CrashUploaded, Accepted
<1>2. /\ a \in Hosts \ retired /\ \A h \in Hosts \ retired : h = a
      /\ \A q \in All : q # p => pc[q] = "down"
  BY <1>0, <1>1, OthersDown
<1>3. \A s \in DOMAIN staging'[a] : s = t /\ staging'[a][s] = Staged(a, t)
  BY <1>1, <1>2, StagedFits DEF Staged
<1>4. ChainInv' /\ HostsInv'
  BY <1>1, <1>2, <1>3, Arrives
<1>5. \A q \in All : pc'[q] = "down"
  BY <1>1, <1>2, DownIs
<1>6. OneStaged'
  BY <1>1, OneStays
<1> QED
  BY <1>1, <1>4, <1>5, <1>6 DEF Orderly, ProcsInv, ProcInv, historyVars

\* The file is stored, and its writer stays before it.
LEMMA OrderlyLost ==
  ASSUME SafeInv, Orderly, NEW p \in All, UploadLost(p)
  PROVE  Orderly'
<1>0. PICK a, n : a = HostOf(p) /\ n = pos[p].txid
  OBVIOUS
<1>1. /\ pc[p] = "staged" /\ replica' = Stored(a, next[p].txid) /\ lost' = TRUE
      /\ pc' = [pc EXCEPT ![p] = "idle"]
      /\ UNCHANGED <<setup, hostVars, lock, staging, pos, next, retired, commits, acked, conflict,
                     leftover>>
  BY <1>0 DEF UploadLost
<1>2. /\ a \in Hosts \ retired /\ \A h \in Hosts \ retired : h = a
      /\ \A q \in All : q # p => pc[q] = "down"
  BY <1>0, <1>1, OthersDown
<1>3. /\ next[p].txid = n + 1 /\ n + 1 \in DOMAIN staging[a] /\ DOMAIN staging[a] \subseteq {n + 1}
      /\ n + 1 >= Len(replica) /\ n \in Nat /\ Len(replica) \in Nat
      /\ n = 0 => pos[p].gen = 0
      /\ n > 0 => /\ pos[p].gen = replica[n].gen /\ pos[p].off = replica[n].off
                  /\ GoesOnFrom(a, replica[n])
      /\ wal[a].gen = 0 => db[a] = Published(n)
  BY <1>0, <1>1, UploaderIs
<1>4. \A s \in DOMAIN staging'[a] : s = n + 1 /\ staging'[a][s] = Staged(a, n + 1)
  BY <1>1, <1>3 DEF Staged
<1>5. /\ Len(replica') = n + 1 /\ ChainInv' /\ HostsInv'
      /\ \A m \in 1 .. (n + 1) - 1 : replica'[m] = replica[m]
  BY <1>1, <1>2, <1>3, <1>4, Arrives
<1>6. n > 0 => n \in 1 .. (n + 1) - 1
  BY <1>3
<1>7. \A q \in All : pc'[q] = IF q = p THEN "idle" ELSE "down"
  BY <1>1, <1>2 DEF SafeInv, TypeOK
<1>8. ProcInv(p)'
  <2>1. n > 0 => GoesOnFrom(a, replica[n])' /\ replica'[n] = replica[n]
    BY <1>1, <1>3, <1>5, <1>6 DEF GoesOnFrom, hostVars
  <2>2. Published(n)' = Published(n)
    BY <1>3, <1>5, <1>6 DEF Published
  <2> QED
    BY <1>0, <1>1, <1>3, <1>5, <1>7, <2>1, <2>2 DEF ProcInv, HostOf, hostVars
<1>9. ProcsInv'
  BY <1>7, <1>8 DEF ProcsInv, ProcInv
<1>10. \A q \in All : pc'[q] # "down" => HostOf(q) \notin retired'
  BY <1>0, <1>1, <1>2, <1>7
<1>11. OneStaged'
  BY <1>1, OneStays
<1> QED
  BY <1>1, <1>5, <1>9, <1>10, <1>11 DEF Orderly, HostOf

\* The replica and the directories stay as they are.
LEMMA OrderlyQuiet ==
  ASSUME SafeInv, Orderly, UNCHANGED <<replica, hostVars, retired, staging, lost>>,
         conflict' => lost,
         \A q \in All : pc'[q] # "down" => HostOf(q) \notin retired,
         ProcsInv'
  PROVE  Orderly'
<1>1. ChainInv' /\ HostsInv'
  BY Frame, HostsStay DEF Orderly
<1>2. OneStaged'
  BY OneStays
<1> QED
  BY <1>1, <1>2 DEF Orderly, HostOf

LEMMA OrderlyDown ==
  ASSUME SafeInv, Orderly, NEW p \in All, pc[p] # "down", Down(p),
         UNCHANGED <<replica, hostVars, retired, staging, lost>>, conflict' => lost
  PROVE  Orderly'
<1>1. \A q \in All : pc'[q] = "down"
  BY OthersDown, DownIs
<1>2. ProcsInv'
  BY <1>1 DEF ProcsInv, ProcInv
<1> QED
  BY <1>1, <1>2, OrderlyQuiet

LEMMA OrderlyAcquire ==
  ASSUME SafeInv, Orderly, NEW p \in All, Acquire(p)
  PROVE  Orderly'
<1>1. \A q \in All : pc'[q] = IF q = p THEN "recover" ELSE pc[q]
  BY DEF Acquire, SafeInv, TypeOK
<1>2. /\ HostOf(p) \notin retired
      /\ UNCHANGED <<hostVars, staging, pos, next, replica, retired, conflict, lost>>
  BY DEF Acquire, historyVars
<1>3. ProcsInv'
  BY <1>1, <1>2, Frame DEF Orderly, ProcsInv, ProcInv, HostOf, hostVars
<1>4. \A q \in All : pc'[q] # "down" => HostOf(q) \notin retired
  BY <1>1, <1>2 DEF Orderly
<1> QED
  BY <1>2, <1>3, <1>4, OrderlyQuiet DEF Orderly

LEMMA OrderlyOpenDone ==
  ASSUME SafeInv, Orderly, NEW p \in All, OpenDone(p)
  PROVE  Orderly'
<1> DEFINE a == HostOf(p)
           last == Len(replica)
<1>1. /\ pc[p] = "recover" /\ staging[a] = << >>
      /\ pos' = [pos EXCEPT ![p] = derive_position] /\ pc' = [pc EXCEPT ![p] = "idle"]
      /\ UNCHANGED <<hostVars, staging, next, replica, retired, conflict, lost>>
  BY DEF OpenDone, historyVars
<1>2. a \in Hosts \ retired /\ \A q \in All : q # p => pc[q] = "down"
  BY <1>1, OthersDown
<1>3. pos'[p] = derive_position /\ \A q \in All : pc'[q] = IF q = p THEN "idle" ELSE "down"
  BY <1>1, <1>2 DEF SafeInv, TypeOK
<1>4. DOMAIN staging[a] = {}
  BY <1>1
<1>5. /\ derive_position.txid = last
      /\ last = 0 => derive_position.gen = 0
      /\ last > 0 => /\ derive_position.gen = replica[last].gen
                     /\ derive_position.off = replica[last].off
  <2>1. replica \in Seq(File)
    BY DEF SafeInv, TypeOK
  <2>2. last = 0 => replica = << >>
    BY <2>1, EmptySeq
  <2>3. last > 0 => replica # << >>
    BY <2>1
  <2>4. last = 0 => derive_position.gen = 0
    BY <2>2 DEF derive_position, DefaultPosition
  <2> QED
    BY <2>3, <2>4, PositionIs
<1>6. /\ last > 0 => GoesOnFrom(a, replica[last])'
      /\ wal'[a].gen = 0 => db'[a] = Published(last)'
  <2>1. /\ last > 0 => GoesOnFrom(a, replica[last])
        /\ wal[a].gen = 0 => db[a] = Published(last)
    BY <1>2 DEF Orderly, HostsInv, HostInv
  <2> QED
    BY <1>1, <2>1, Frame DEF hostVars
<1>7. ProcInv(p)'
  <2> HIDE DEF last
  <2> QED
    BY <1>1, <1>3, <1>4, <1>5, <1>6 DEF ProcInv, HostOf, last
<1>8. ProcsInv'
  BY <1>3, <1>7 DEF ProcsInv, ProcInv
<1>9. \A q \in All : pc'[q] # "down" => HostOf(q) \notin retired
  BY <1>2, <1>3
<1> QED
  BY <1>1, <1>8, <1>9, OrderlyQuiet DEF Orderly

\* The upload fails, or is refused: the file stays staged.
LEMMA OrderlyUploadFails ==
  ASSUME SafeInv, Orderly, NEW p \in All, pc[p] = "staged", pc' = [pc EXCEPT ![p] = "idle"],
         UNCHANGED <<hostVars, staging, pos, next, replica, retired, lost>>, conflict' => lost
  PROVE  Orderly'
<1>1. HostOf(p) \in Hosts \ retired /\ \A q \in All : q # p => pc[q] = "down"
  BY OthersDown
<1>2. \A q \in All : pc'[q] = IF q = p THEN "idle" ELSE "down"
  BY <1>1 DEF SafeInv, TypeOK
<1>3. ProcInv(p)'
  BY <1>2, Frame DEF Orderly, ProcsInv, ProcInv, HostOf, hostVars
<1>4. ProcsInv'
  BY <1>2, <1>3 DEF ProcsInv, ProcInv
<1>5. \A q \in All : pc'[q] # "down" => HostOf(q) \notin retired
  BY <1>1, <1>2
<1> QED
  BY <1>4, <1>5, OrderlyQuiet

\* A process that is idle.
LEMMA BuilderIs ==
  ASSUME SafeInv, Orderly, NEW p \in All, pc[p] = "idle",
         NEW a, a = HostOf(p), NEW n, n = pos[p].txid
  PROVE  /\ a \in Hosts \ retired /\ (\A h \in Hosts \ retired : h = a)
         /\ \A q \in All : q # p => pc[q] = "down"
         /\ n \in 0 .. Len(replica) /\ Len(replica) \in Nat
         /\ n = Len(replica) \/ (n + 1 = Len(replica) /\ lost)
         /\ DOMAIN staging[a] \subseteq {n + 1}
         /\ n = 0 => pos[p].gen = 0
         /\ n > 0 => /\ pos[p].gen = replica[n].gen /\ pos[p].off = replica[n].off
                     /\ GoesOnFrom(a, replica[n]) /\ n \in 1 .. Len(replica)
                     /\ Published(n) = replica[n].at /\ replica[n].off = Len(Published(n))
         /\ wal[a].gen = 0 => db[a] = Published(n)
         /\ db[a] \in Seq(Commit) /\ Published(n) \in Seq(Commit) /\ IsPrefix(Published(n), db[a])
<1>1. n \in Nat /\ Len(replica) \in Nat
  BY DEF SafeInv, TypeOK, Position
<1>2. ProcInv(p)
  BY DEF Orderly, ProcsInv
<1>3. n = Len(replica) \/ (n + 1 = Len(replica) /\ lost)
  BY <1>2 DEF ProcInv
<1>4. n \in 0 .. Len(replica) /\ (n > 0 => n \in 1 .. Len(replica))
  BY <1>1, <1>3
<1>5. a \in Hosts \ retired /\ (\A h \in Hosts \ retired : h = a)
      /\ \A q \in All : q # p => pc[q] = "down"
  BY OthersDown
<1>6. n > 0 => Published(n) = replica[n].at /\ replica[n].off = Len(Published(n))
  <2> SUFFICES ASSUME n > 0
               PROVE  Published(n) = replica[n].at /\ replica[n].off = Len(Published(n))
    OBVIOUS
  <2>1. n # 0
    OBVIOUS
  <2>2. Published(n) = replica[n].at
    BY <2>1 DEF Published
  <2>3. replica[n].off = Len(replica[n].at)
    BY <1>4 DEF Orderly, ChainInv, Follows
  <2> QED
    BY <2>2, <2>3
<1>7. db[a] \in Seq(Commit) /\ Published(n) \in Seq(Commit)
  BY <1>4, <1>5, PublishedIs DEF SafeInv, TypeOK
<1>8. IsPrefix(Published(n), db[a])
  <2>1. CASE n > 0
    BY <1>2, <1>6, <2>1 DEF ProcInv, GoesOnFrom
  <2>2. CASE n = 0
    BY <1>7, <2>2, PrefixRefl DEF Published
  <2> QED
    BY <1>1, <2>1, <2>2
<1> QED
  BY <1>1, <1>2, <1>3, <1>4, <1>5, <1>6, <1>7, <1>8 DEF ProcInv

\* A built file goes on from the writer's position, so it fits there.
LEMMA OrderlyStage ==
  ASSUME SafeInv, Orderly, NEW p \in All, pc[p] = "idle", NEW full \in BOOLEAN,
         NEW start \in Nat, NEW stamp \in {0, 1}, Stage(p, full, start, stamp),
         Follows(Built(p, full, start, stamp), pos[p].txid)
  PROVE  Orderly'
<1>0. PICK a, n, f : a = HostOf(p) /\ n = pos[p].txid /\ f = Built(p, full, start, stamp)
  OBVIOUS
<1>1. Stages(p, f)
  BY <1>0, StageIs DEF SafeInv
<1>2. /\ a \in Hosts \ retired /\ (\A h \in Hosts \ retired : h = a)
      /\ (\A q \in All : q # p => pc[q] = "down")
      /\ n \in 0 .. Len(replica) /\ Len(replica) \in Nat
      /\ n = Len(replica) \/ (n + 1 = Len(replica) /\ lost)
      /\ DOMAIN staging[a] \subseteq {n + 1}
  BY <1>0, BuilderIs
<1>3. /\ f \in File
      /\ staging' = [staging EXCEPT ![a] = staging'[a]]
      /\ staging'[a] \in [DOMAIN staging[a] \cup {n + 1} -> File]
      /\ staging'[a][n + 1] = f
      /\ next' = [next EXCEPT ![p] = [txid |-> n + 1, gen |-> f.gen, off |-> f.off,
                                      toEnd |-> TRUE]]
      /\ pc' = [pc EXCEPT ![p] = "staged"]
      /\ UNCHANGED <<hostVars, pos, replica, retired, conflict, lost>>
  BY <1>0, <1>1 DEF Stages, historyVars
<1>4. DOMAIN staging'[a] = {n + 1} /\ \A h \in Hosts : h # a => staging'[h] = staging[h]
  BY <1>2, <1>3 DEF SafeInv, TypeOK
<1>5. Follows(f, n) /\ GoesOnFrom(a, f) /\ f.at = db[a]
  <2>1. db[a] \in Seq(Commit) /\ f.at = db[a] /\ f.gen = wal[a].gen
    BY <1>0, <1>2 DEF SafeInv, TypeOK, Built
  <2>2. wal[a].gen <= gens
    BY <1>2 DEF Orderly, HostsInv, HostInv
  <2> QED
    BY <1>0, <2>1, <2>2, PrefixRefl DEF GoesOnFrom
<1>6. ChainInv' /\ Follows(f, n)' /\ GoesOnFrom(a, f)'
  BY <1>3, <1>5, Frame DEF Orderly
<1>7. ASSUME NEW t, t = n + 1 PROVE Fits(a, t)'
  <2>1. t - 1 = n
    BY <1>2, <1>7
  <2>2. t = Len(replica') + 1 \/ (t = Len(replica') /\ lost')
    BY <1>2, <1>3, <1>7
  <2>3. f.at = db'[a]
    BY <1>3, <1>5 DEF hostVars
  <2>4. UNCHANGED <<replica, hostVars>> /\ staging'[a][t] = f
    BY <1>3, <1>7
  <2>5. Follows(f, t - 1)' /\ GoesOnFrom(a, f)'
    <3>1. Follows(f, t - 1)
      BY <1>5, <2>1
    <3> QED
      BY <1>6, <2>4, <3>1, Frame
  <2> QED
    BY <2>2, <2>3, <2>4, <2>5 DEF Fits
<1>8. HostInv(a)'
  <2>1. HostInv(a)
    BY <1>2 DEF Orderly, HostsInv
  <2>2. /\ wal'[a].gen <= gens'
        /\ IsPrefix(Published(Len(replica))', db'[a])
        /\ wal'[a].gen = 0 => db'[a] = Published(Len(replica))' /\ wal'[a].base = Len(db'[a])
        /\ Len(replica) > 0 => GoesOnFrom(a, replica[Len(replica)])'
    BY <1>3, <2>1, Frame DEF HostInv, hostVars
  <2> QED
    BY <1>3, <1>4, <1>7, <2>2 DEF HostInv
<1>9. HostsInv'
  BY <1>2, <1>3, <1>8 DEF HostsInv
<1>10. /\ \A q \in All : pc'[q] = IF q = p THEN "staged" ELSE "down"
       /\ next'[p] = [txid |-> n + 1, gen |-> f.gen, off |-> f.off, toEnd |-> TRUE]
  BY <1>2, <1>3 DEF SafeInv, TypeOK
<1>11. ProcInv(p)'
  <2>1. /\ n = 0 => pos[p].gen = 0
        /\ n > 0 => /\ pos[p].gen = replica[n].gen /\ pos[p].off = replica[n].off
                    /\ GoesOnFrom(a, replica[n])
        /\ wal[a].gen = 0 => db[a] = Published(n)
    BY <1>0, BuilderIs
  <2>2. /\ n > 0 => GoesOnFrom(a, replica[n])'
        /\ wal'[a].gen = 0 => db'[a] = Published(n)'
    BY <1>3, <2>1, Frame DEF hostVars
  <2> QED
    BY <1>0, <1>2, <1>3, <1>4, <1>10, <2>1, <2>2 DEF ProcInv, HostOf
<1>12. ProcsInv'
  BY <1>10, <1>11 DEF ProcsInv, ProcInv
<1>13. \A q \in All : pc'[q] # "down" => HostOf(q) \notin retired'
  BY <1>0, <1>2, <1>3, <1>10
<1>14. OneStaged'
  BY <1>4 DEF Orderly, OneStaged
<1> QED
  BY <1>3, <1>6, <1>9, <1>12, <1>13, <1>14 DEF Orderly, HostOf

\* A snapshot is the whole database.
LEMMA OrderlySnapshot ==
  ASSUME SafeInv, Orderly, NEW p \in All, BuildSnapshot(p)
  PROVE  Orderly'
<1> DEFINE a == HostOf(p)
           n == pos[p].txid
<1>1. PICK stamp \in {0, 1} : pc[p] = "idle" /\ Stage(p, TRUE, 0, stamp)
  BY DEF BuildSnapshot, Now
<1>2. db[a] \in Seq(Commit) /\ IsPrefix(Published(n), db[a])
  BY <1>1, BuilderIs
<1>3. SubSeq(db[a], 0 + 1, Len(db[a])) = db[a]
  BY <1>2, SubSeqFull
<1>4. Follows(Built(p, TRUE, 0, stamp), n)
  BY <1>2, <1>3 DEF Follows, Built
<1> QED
  BY <1>1, <1>4, OrderlyStage

\* An incremental starts where the position ends, whether the log still is the
\* one it was read from or a new one.
LEMMA OrderlyIncremental ==
  ASSUME SafeInv, Orderly, NEW p \in All, BuildIncremental(p)
  PROVE  Orderly'
<1> DEFINE a == HostOf(p)
           n == pos[p].txid
           P == Published(n)
           start == PlanStart(p)
<1>1. PICK stamp \in {0, 1} : pc[p] = "idle" /\ Stage(p, FALSE, start, stamp) /\ n # 0
  BY DEF BuildIncremental, PlansSnapshot, Now
<1>2. /\ n \in 0 .. Len(replica) /\ db[a] \in Seq(Commit) /\ P \in Seq(Commit)
      /\ IsPrefix(P, db[a])
  BY <1>1, BuilderIs
<1>3. n > 0
  BY <1>1, <1>2
<1>4. /\ pos[p].gen = replica[n].gen /\ pos[p].off = replica[n].off
      /\ GoesOnFrom(a, replica[n]) /\ P = replica[n].at /\ replica[n].off = Len(P)
  BY <1>1, <1>3, BuilderIs
<1>5. Len(P) <= Len(db[a]) /\ Len(P) \in Nat /\ Len(db[a]) \in Nat
  BY <1>2, PrefixIs
<1>6. replica[n].gen # wal[a].gen => Len(P) = wal[a].base
  BY <1>4 DEF GoesOnFrom
<1>7. start = Len(P)
  <2> HIDE DEF P, n
  <2> QED
    BY <1>4, <1>5, <1>6 DEF PlanStart
<1>8. db[a] = P \o SubSeq(db[a], start + 1, Len(db[a]))
  BY <1>2, <1>7, PrefixRest
<1>9. Follows(Built(p, FALSE, start, stamp), n)
  <2> HIDE DEF start
  <2> QED
    BY <1>2, <1>8 DEF Follows, Built
<1>10. start \in Nat
  BY PlanStartIs DEF SafeInv
<1> HIDE DEF start
<1> QED
  BY <1>1, <1>9, <1>10, OrderlyStage

\* Between what is published and the database there is nothing, if they are
\* the same.
LEMMA Between ==
  ASSUME NEW s \in Seq(Commit), NEW t \in Seq(Commit), IsPrefix(s, t), IsPrefix(t, s)
  PROVE  s = t
<1>1. Len(s) \in Nat /\ Len(t) \in Nat /\ Len(s) <= Len(t) /\ Len(t) <= Len(s)
  BY PrefixIs
<1> QED
  BY <1>1, PrefixSame

\* A checkpoint finds everything captured: what the writer has published, what
\* the replica holds and what is staged are all the database.
LEMMA OrderlyFold ==
  ASSUME SafeInv, Orderly, NEW p \in All, Fold(p)
  PROVE  Orderly'
<1>0. PICK a, n, last : a = HostOf(p) /\ n = pos[p].txid /\ last = Len(replica)
  OBVIOUS
<1>1. /\ pc[p] = "idle" /\ wal[a].gen # 0 /\ pos[p].gen = wal[a].gen /\ pos[p].off = Len(db[a])
      /\ wal' = [wal EXCEPT ![a] = [gen |-> 0, base |-> Len(db[a])]]
      /\ UNCHANGED <<db, gens, staging, pc, pos, next, replica, retired, conflict, lost>>
  BY <1>0 DEF Fold, procVars, historyVars
<1>2. /\ a \in Hosts \ retired /\ (\A h \in Hosts \ retired : h = a)
      /\ (\A q \in All : q # p => pc[q] = "down")
      /\ n \in 0 .. last /\ last \in Nat /\ (n = last \/ n + 1 = last)
      /\ DOMAIN staging[a] \subseteq {n + 1}
      /\ db[a] \in Seq(Commit) /\ Published(n) \in Seq(Commit) /\ IsPrefix(Published(n), db[a])
      /\ n = 0 => pos[p].gen = 0
  BY <1>0, <1>1, BuilderIs
<1>3. HostInv(a) /\ ProcInv(p)
  BY <1>2 DEF Orderly, HostsInv, ProcsInv
<1>4. n > 0 /\ n # 0 /\ last > 0
  BY <1>1, <1>2
<1>5. /\ pos[p].off = replica[n].off /\ Published(n) = replica[n].at
      /\ replica[n].off = Len(Published(n)) /\ GoesOnFrom(a, replica[n])
  BY <1>0, <1>1, <1>4, BuilderIs
<1>6. db[a] = Published(n)
  BY <1>1, <1>2, <1>5, PrefixSame
<1>7. ASSUME NEW f, f.at \in Seq(Commit), IsPrefix(Published(n), f.at), IsPrefix(f.at, db[a])
      PROVE  f.at = db[a]
  BY <1>2, <1>6, <1>7, Between
<1>8. db[a] = Published(last) /\ replica[last].at = db[a] /\ GoesOnFrom(a, replica[last])
  <2>1. GoesOnFrom(a, replica[last]) /\ Published(last) = replica[last].at
    BY <1>0, <1>3, <1>4 DEF HostInv, Published
  <2>2. CASE n = last
    BY <1>6, <2>1, <2>2
  <2>3. CASE n + 1 = last
    <3>1. last \in 1 .. Len(replica) /\ last - 1 = n
      BY <1>0, <1>2, <2>3
    <3>2. IsPrefix(Published(n), replica[last].at)
      BY <3>1 DEF Orderly, ChainInv, Follows
    <3>3. replica[last] \in File
      BY <3>1 DEF SafeInv, TypeOK
    <3>4. replica[last].at \in Seq(Commit)
      BY <3>3 DEF File
    <3> QED
      BY <1>7, <2>1, <3>2, <3>4 DEF GoesOnFrom
  <2> QED
    BY <1>2, <2>2, <2>3
<1>9. /\ \A m : Published(m)' = Published(m)
      /\ \A f, m : Follows(f, m)' = Follows(f, m)
  <2>1. \A m : Published(m)' = Published(m)
    BY <1>1 DEF Published
  <2> QED
    BY <2>1 DEF Follows
<1>10. wal'[a] = [gen |-> 0, base |-> Len(db[a])] /\ gens \in Nat
  BY <1>1, <1>2 DEF SafeInv, TypeOK
<1>11. ASSUME NEW f, GoesOnFrom(a, f), f.at = db[a] PROVE GoesOnFrom(a, f)'
  BY <1>1, <1>10, <1>11 DEF GoesOnFrom
<1>12. ASSUME NEW t \in DOMAIN staging[a] PROVE (Shipped(a, t) \/ Fits(a, t))'
  <2>1. CASE Shipped(a, t)
    BY <1>1, <2>1 DEF Shipped
  <2>2. CASE Fits(a, t)
    <3>1. t = n + 1 /\ t - 1 = n
      BY <1>2
    <3>2. staging[a][t] \in File
      BY <1>2, StagedIs DEF SafeInv, Staged
    <3>3. /\ t = last + 1 \/ (t = last /\ lost)
          /\ Follows(staging[a][t], t - 1) /\ GoesOnFrom(a, staging[a][t])
      BY <1>0, <2>2 DEF Fits
    <3>4. staging[a][t].at = db[a]
      BY <1>7, <3>1, <3>2, <3>3 DEF Follows, GoesOnFrom, File
    <3>5. GoesOnFrom(a, staging[a][t])'
      BY <1>1, <1>11, <3>3, <3>4
    <3>6. Follows(staging[a][t], t - 1)'
      BY <1>1, <1>9, <3>3
    <3> QED
      BY <1>0, <1>1, <3>3, <3>4, <3>5, <3>6 DEF Fits
  <2> QED
    BY <1>3, <2>1, <2>2 DEF HostInv
<1>13. HostInv(a)'
  <2>1. IsPrefix(Published(last), db[a])
    BY <1>0, <1>3 DEF HostInv
  <2>2. GoesOnFrom(a, replica[last])'
    BY <1>1, <1>8, <1>11
  <2> QED
    BY <1>0, <1>1, <1>8, <1>9, <1>10, <1>12, <2>1, <2>2 DEF HostInv
<1>14. ChainInv' /\ HostsInv' /\ OneStaged'
  BY <1>1, <1>2, <1>9, <1>13 DEF Orderly, ChainInv, HostsInv, OneStaged
<1>15. ProcInv(p)'
  <2>1. GoesOnFrom(a, replica[n])'
    BY <1>1, <1>5, <1>6, <1>11
  <2>2. db'[a] = Published(n)'
    BY <1>1, <1>6, <1>9
  <2> QED
    BY <1>0, <1>1, <1>3, <2>1, <2>2 DEF ProcInv, HostOf
<1>16. ProcsInv'
  BY <1>1, <1>2, <1>15 DEF ProcsInv, ProcInv
<1> QED
  BY <1>1, <1>14, <1>16 DEF Orderly, HostOf

LEMMA OrderlyApp ==
  ASSUME SafeInv, Orderly, NEW h \in Hosts, AppCommit(h)
  PROVE  Orderly'
<1>0. PICK last, e : last = Len(replica) /\ e = <<h, commits + 1>>
  OBVIOUS
<1>1. /\ h \in Hosts \ retired /\ db' = [db EXCEPT ![h] = Append(db[h], e)]
      /\ wal[h].gen = 0 => wal' = [wal EXCEPT ![h] = [gen |-> gens + 1, base |-> Len(db[h])]]
                           /\ gens' = gens + 1
      /\ wal[h].gen # 0 => UNCHANGED <<wal, gens>>
      /\ UNCHANGED <<staging, pc, pos, next, replica, retired, conflict, lost>>
  BY <1>0 DEF AppCommit, procVars, historyVars
<1>2. HostInv(h) /\ \A x \in Hosts \ retired : x = h
  BY <1>1 DEF Orderly, HostsInv
<1>3. /\ db[h] \in Seq(Commit) /\ e \in Commit /\ db'[h] = Append(db[h], e)
      /\ Append(db[h], e) \in Seq(Commit) /\ IsPrefix(db[h], db'[h])
      /\ last \in Nat /\ gens \in Nat /\ Len(db[h]) \in Nat /\ wal[h].gen \in Nat
  <2>1. db[h] \in Seq(Commit) /\ db'[h] = Append(db[h], e) /\ last \in Nat /\ gens \in Nat
        /\ wal[h].gen \in Nat
    BY <1>0, <1>1 DEF SafeInv, TypeOK
  <2>2. e \in Commit
    BY <1>0 DEF SafeInv, TypeOK, Commit
  <2>3. IsPrefix(db[h], db'[h]) /\ Append(db[h], e) \in Seq(Commit)
    BY <2>1, <2>2, PrefixAppend, AppendProperties
  <2> QED
    BY <2>1, <2>2, <2>3
<1>4. /\ \A n : Published(n)' = Published(n)
      /\ \A f, n : Follows(f, n)' = Follows(f, n)
  <2>1. \A n : Published(n)' = Published(n)
    BY <1>1 DEF Published
  <2> QED
    BY <2>1 DEF Follows
<1>5. /\ gens' \in Nat /\ gens <= gens' /\ wal'[h].gen # 0 /\ wal'[h].gen <= gens'
      /\ wal[h].gen # 0 => wal'[h] = wal[h]
      /\ wal[h].gen = 0 => wal'[h] = [gen |-> gens + 1, base |-> Len(db[h])]
  <2>1. CASE wal[h].gen = 0
    <3>1. wal'[h] = [gen |-> gens + 1, base |-> Len(db[h])] /\ gens' = gens + 1
      BY <1>1, <2>1 DEF SafeInv, TypeOK
    <3> QED
      BY <1>3, <2>1, <3>1
  <2>2. CASE wal[h].gen # 0
    BY <1>1, <1>2, <1>3, <2>2 DEF HostInv
  <2> QED
    BY <2>1, <2>2
<1>6. ASSUME NEW f, f.at \in Seq(Commit), f.gen \in Nat, GoesOnFrom(h, f),
             wal[h].gen = 0 => f.at = db[h]
      PROVE  GoesOnFrom(h, f)'
  <2>1. f.gen <= gens /\ IsPrefix(f.at, db[h]) /\ (f.gen # wal[h].gen => Len(f.at) = wal[h].base)
    BY <1>6 DEF GoesOnFrom
  <2>2. f.gen <= gens'
    BY <1>3, <1>5, <1>6, <2>1
  <2>3. IsPrefix(f.at, db'[h])
    BY <1>3, <1>6, <2>1, PrefixTrans
  <2>4. f.gen # wal'[h].gen => Len(f.at) = wal'[h].base
    BY <1>5, <1>6, <2>1
  <2> QED
    BY <2>2, <2>3, <2>4 DEF GoesOnFrom
<1>7. wal[h].gen = 0 => db[h] = Published(last)
  BY <1>0, <1>2 DEF HostInv
<1>8. ASSUME last > 0 PROVE GoesOnFrom(h, replica[last])'
  <2>1. replica[last] \in File
    BY <1>0, <1>3, <1>8 DEF SafeInv, TypeOK
  <2>2. GoesOnFrom(h, replica[last])
    BY <1>0, <1>2, <1>8 DEF HostInv
  <2>3. Published(last) = replica[last].at
    BY <1>8 DEF Published
  <2>4. replica[last].at \in Seq(Commit) /\ replica[last].gen \in Nat
    BY <2>1 DEF File
  <2> QED
    BY <1>1, <1>6, <1>7, <2>2, <2>3, <2>4
<1>9. ASSUME NEW t \in DOMAIN staging[h] PROVE (Shipped(h, t) \/ Fits(h, t))'
  <2>1. CASE Shipped(h, t)
    BY <1>1, <2>1 DEF Shipped
  <2>2. CASE Fits(h, t)
    <3>1. staging[h][t] \in File
      BY <1>1, StagedIs DEF SafeInv, Staged
    <3>2. staging[h][t].at \in Seq(Commit) /\ staging[h][t].gen \in Nat
      BY <3>1 DEF File
    <3>3. /\ t = Len(replica) + 1 \/ (t = Len(replica) /\ lost)
          /\ Follows(staging[h][t], t - 1) /\ GoesOnFrom(h, staging[h][t])
          /\ wal[h].gen = 0 => staging[h][t].at = db[h]
      BY <2>2 DEF Fits
    <3>4. GoesOnFrom(h, staging[h][t])'
      BY <1>1, <1>6, <3>2, <3>3
    <3>5. Follows(staging[h][t], t - 1)'
      BY <1>1, <1>4, <3>3
    <3> QED
      BY <1>1, <1>5, <3>3, <3>4, <3>5 DEF Fits
  <2> QED
    BY <1>2, <2>1, <2>2 DEF HostInv
<1>10. IsPrefix(Published(last), db'[h])
  <2>1. IsPrefix(Published(last), db[h]) /\ Published(last) \in Seq(Commit)
    BY <1>0, <1>2, <1>3, PublishedIs DEF HostInv
  <2> QED
    BY <1>3, <2>1, PrefixTrans
<1>11. HostInv(h)'
  BY <1>0, <1>1, <1>4, <1>5, <1>8, <1>9, <1>10 DEF HostInv
<1>12. ChainInv' /\ HostsInv'
  BY <1>1, <1>2, <1>4, <1>11 DEF Orderly, ChainInv, HostsInv
<1>13. ASSUME NEW p \in All PROVE ProcInv(p)'
  <2> SUFFICES ASSUME pc[p] \in {"idle", "staged"} PROVE ProcInv(p)'
    BY <1>1 DEF ProcInv
  <2>1. PICK n : n = pos[p].txid
    OBVIOUS
  <2>2. HostOf(p) = h /\ ProcInv(p) /\ n \in Nat
    <3>1. pc[p] # "down"
      OBVIOUS
    <3>2. HostOf(p) = h
      BY <1>2, <3>1, OthersDown
    <3>3. n \in Nat
      BY <2>1 DEF SafeInv, TypeOK, Position
    <3> QED
      BY <3>2, <3>3 DEF Orderly, ProcsInv
  <2>3. ASSUME n > 0 PROVE GoesOnFrom(h, replica[n])'
    <3>1. n \in 1 .. Len(replica) /\ n # 0
      BY <1>0, <1>3, <2>1, <2>2, <2>3 DEF ProcInv
    <3>2. replica[n] \in File
      BY <3>1 DEF SafeInv, TypeOK
    <3>3. replica[n].at \in Seq(Commit) /\ replica[n].gen \in Nat /\ Published(n) = replica[n].at
      BY <3>1, <3>2 DEF File, Published
    <3>4. GoesOnFrom(h, replica[n]) /\ (wal[h].gen = 0 => db[h] = Published(n))
      BY <2>1, <2>2, <2>3 DEF ProcInv
    <3> QED
      BY <1>1, <1>6, <3>3, <3>4
  <2> QED
    BY <1>1, <1>5, <2>1, <2>2, <2>3 DEF ProcInv, HostOf
<1> QED
  BY <1>1, <1>12, <1>13 DEF Orderly, HostOf, OneStaged, ProcsInv

\* The replica restores to what its last writer had.
LEMMA ImagesArePublished ==
  ASSUME SafeInv, ChainInv
  PROVE  \A n \in 0 .. Len(replica) : Image(n) = Published(n)
<1> DEFINE Bad == {n \in Nat : n \in 0 .. Len(replica) /\ Images[n] # Published(n)}
<1>1. Len(replica) \in Nat
  BY DEF SafeInv, TypeOK
<1>2. /\ Images[0] = << >>
      /\ \A n \in 1 .. Len(replica) : Images[n] = Adds(replica[n], Images[n - 1])
  BY ImagesAre DEF SafeInv
<1>3. Bad = {}
  <2> SUFFICES ASSUME Bad # {} PROVE FALSE
    OBVIOUS
  <2>1. PICK n \in Bad : \A m \in Bad : n <= m
    BY LeastOf
  <2>2. n # 0
    BY <1>2 DEF Published
  <2>3. n \in 1 .. Len(replica) /\ n - 1 \in Nat /\ n - 1 \in 0 .. Len(replica)
    BY <1>1, <2>2
  <2>4. Images[n - 1] = Published(n - 1)
    BY <2>1, <2>3
  <2>5. Follows(replica[n], n - 1)
    BY <2>3 DEF ChainInv
  <2>6. replica[n].full \in BOOLEAN
    <3>1. replica[n] \in File
      BY <2>3 DEF SafeInv, TypeOK
    <3> QED
      BY <3>1 DEF File
  <2>7. Images[n] = replica[n].at
    BY <1>2, <2>3, <2>4, <2>5, <2>6 DEF Adds, Follows
  <2> QED
    BY <2>2, <2>7 DEF Published
<1> QED
  BY <1>1, <1>3 DEF Image

\* A host that takes over has exactly what the replica holds, and what it has
\* left in its directory is there too.
LEMMA OrderlyFailover ==
  ASSUME SafeInv, Orderly, NEW h \in Hosts, Failover(h), ~leftover'
  PROVE  Orderly'
<1>0. PICK last, d : last = Len(replica) /\ d = Image(last)
  OBVIOUS
<1>1. /\ replica # << >> /\ (\A p \in All : pc[p] = "down") /\ retired' = Hosts \ {h}
      /\ db' = [db EXCEPT ![h] = d] /\ wal' = [wal EXCEPT ![h] = [gen |-> 0, base |-> Len(d)]]
      /\ \A t \in DOMAIN staging[h] : Shipped(h, t)
      /\ UNCHANGED <<gens, pc, pos, next, replica, staging, conflict, lost>>
  BY <1>0 DEF Failover, procVars
<1>2. replica \in Seq(File) /\ last \in Nat /\ last # 0 /\ last \in 1 .. last /\ last \in 0 .. last
  <2>1. replica \in Seq(File) /\ last \in Nat
    BY <1>0 DEF SafeInv, TypeOK
  <2>2. last # 0
    BY <1>0, <1>1, <2>1, EmptySeq
  <2> QED
    BY <2>1, <2>2
<1>3. d = Published(last) /\ d = replica[last].at /\ d \in Seq(Commit)
  BY <1>0, <1>2, ImagesArePublished, PublishedIs DEF Orderly, Published
<1>4. /\ \A n : Published(n)' = Published(n)
      /\ \A f, n : Follows(f, n)' = Follows(f, n)
  <2>1. \A n : Published(n)' = Published(n)
    BY <1>1 DEF Published
  <2> QED
    BY <2>1 DEF Follows
<1>5. db'[h] = d /\ wal'[h] = [gen |-> 0, base |-> Len(d)] /\ gens \in Nat
  BY <1>1 DEF SafeInv, TypeOK
<1>6. IsPrefix(d, d)
  BY <1>3, PrefixRefl
<1>7. GoesOnFrom(h, replica[last])'
  <2>1. PICK a \in Hosts \ retired : HostInv(a)
    BY DEF Orderly, HostsInv
  <2>2. replica[last].gen <= gens
    BY <1>0, <1>2, <2>1 DEF HostInv, GoesOnFrom
  <2> QED
    BY <1>1, <1>3, <1>5, <1>6, <2>2 DEF GoesOnFrom
<1>8. HostInv(h)'
  <2>1. \A t \in DOMAIN staging'[h] : Shipped(h, t)'
    BY <1>1 DEF Shipped
  <2>2. wal'[h].gen = 0 /\ wal'[h].base = Len(d) /\ gens' \in Nat
    BY <1>1, <1>5
  <2>3. /\ wal'[h].gen <= gens' /\ Len(replica') = last /\ Published(last)' = d
    <3>1. wal'[h].gen <= gens'
      BY <2>2
    <3>2. Len(replica') = last
      BY <1>0, <1>1
    <3> QED
      BY <1>3, <1>4, <3>1, <3>2
  <2> QED
    BY <1>5, <1>6, <1>7, <2>1, <2>2, <2>3 DEF HostInv
<1>9. ChainInv' /\ HostsInv'
  BY <1>1, <1>4, <1>8 DEF Orderly, ChainInv, HostsInv
<1>10. ProcsInv'
  BY <1>1 DEF ProcsInv, ProcInv
<1> QED
  BY <1>1, <1>9, <1>10 DEF Orderly, OneStaged

LEMMA OrderlyInit == Init => OrderlyInv
<1> SUFFICES ASSUME Init, setup.orderly PROVE Orderly
  BY DEF OrderlyInv
<1>1. SafeInv
  BY SafeInit
<1>2. \E h \in Hosts : retired = Hosts \ {h}
  BY DEF Init
<1>3. replica = << >> /\ Len(replica) = 0 /\ ~conflict /\ \A p \in All : pc[p] = "down"
  BY DEF Init
<1>4. ChainInv /\ ProcsInv
  BY <1>3 DEF ChainInv, ProcsInv, ProcInv
<1>5. ASSUME NEW h \in Hosts PROVE HostInv(h)
  <2>1. db[h] = << >> /\ wal[h].gen = 0 /\ wal[h].base = 0 /\ gens = 0 /\ staging[h] = << >>
    BY DEF Init
  <2>2. DOMAIN << >> = {} /\ Len(<< >>) = 0 /\ << >> \in Seq(Commit)
    OBVIOUS
  <2>3. IsPrefix(db[h], db[h])
    BY <2>1, <2>2, PrefixRefl
  <2>4. Published(Len(replica)) = db[h]
    BY <1>3, <2>1 DEF Published
  <2> QED
    BY <1>3, <2>1, <2>2, <2>3, <2>4 DEF HostInv
<1>6. OneStaged
  <2>1. \A h \in Hosts : staging[h] = << >>
    BY DEF Init
  <2> QED
    BY <2>1 DEF OneStaged
<1> QED
  BY <1>2, <1>3, <1>4, <1>5, <1>6 DEF Orderly, HostsInv

LEMMA OrderlyNext == SafeInv /\ OrderlyInv /\ [Next]_vars => OrderlyInv'
<1> SUFFICES ASSUME SafeInv, OrderlyInv, [Next]_vars, setup'.orderly, ~leftover' PROVE Orderly'
  BY DEF OrderlyInv
<1>1. setup' = setup /\ ~leftover
  <2>1. setup' = setup
    BY DEF Next, vars, AppCommit, Failover, Acquire, RecoverStaging, OpenFails, OpenDone,
           BuildSnapshot, BuildIncremental, Stage, Upload, UploadConflict, UploadFails,
           UploadLost, Crash, CrashUploaded, Fold
  <2>2. ASSUME NEW h \in Hosts, Failover(h) PROVE ~leftover
    BY <2>2 DEF Failover
  <2>3. ASSUME NEW h \in Hosts, AppCommit(h) PROVE leftover' = leftover
    BY <2>3 DEF AppCommit, historyVars
  <2>4. ASSUME NEW p \in All,
               \/ Acquire(p) \/ RecoverStaging(p) \/ OpenFails(p) \/ OpenDone(p)
               \/ BuildSnapshot(p) \/ BuildIncremental(p) \/ Upload(p) \/ UploadConflict(p)
               \/ UploadFails(p) \/ UploadLost(p) \/ Crash(p) \/ CrashUploaded(p) \/ Fold(p)
        PROVE  leftover' = leftover
    BY <2>4 DEF Acquire, RecoverStaging, OpenFails, OpenDone, Put, BuildSnapshot,
                BuildIncremental, Stage, Upload, UploadConflict, UploadFails, UploadLost, Crash,
                CrashUploaded, Fold, historyVars
  <2>5. UNCHANGED vars => leftover' = leftover
    BY DEF vars, historyVars
  <2> QED
    BY <2>1, <2>2, <2>3, <2>4, <2>5 DEF Next
<1>2. Orderly
  BY <1>1 DEF OrderlyInv
<1>3. ASSUME NEW p \in All, pc[p] # "down", NEW t, Conflict(HostOf(p), t) PROVE lost
  <2>1. HostOf(p) \in Hosts \ retired
    BY <1>2, <1>3, OthersDown
  <2>2. t \in DOMAIN staging[HostOf(p)]
    BY <1>3 DEF Conflict
  <2> QED
    BY <1>2, <1>3, <2>1, <2>2, StagedFits
<1>4. ASSUME NEW h \in Hosts, AppCommit(h) PROVE Orderly'
  BY <1>2, <1>4, OrderlyApp
<1>5. ASSUME NEW h \in Hosts, Failover(h) PROVE Orderly'
  BY <1>2, <1>5, OrderlyFailover
<1>6. ASSUME NEW p \in All, Acquire(p) PROVE Orderly'
  BY <1>2, <1>6, OrderlyAcquire
<1>7. ASSUME NEW p \in All, RecoverStaging(p) PROVE Orderly'
  BY <1>2, <1>7, OrderlyRecover
<1>8. ASSUME NEW p \in All, OpenFails(p) PROVE Orderly'
  BY <1>2, <1>3, <1>8, OrderlyDown DEF OpenFails
<1>9. ASSUME NEW p \in All, OpenDone(p) PROVE Orderly'
  BY <1>2, <1>9, OrderlyOpenDone
<1>10. ASSUME NEW p \in All, BuildSnapshot(p) PROVE Orderly'
  BY <1>2, <1>10, OrderlySnapshot
<1>11. ASSUME NEW p \in All, BuildIncremental(p) PROVE Orderly'
  BY <1>2, <1>11, OrderlyIncremental
<1>12. ASSUME NEW p \in All, Upload(p) PROVE Orderly'
  BY <1>2, <1>12, OrderlyUpload
<1>13. ASSUME NEW p \in All, UploadConflict(p) PROVE Orderly'
  BY <1>2, <1>3, <1>13, OrderlyUploadFails DEF UploadConflict
<1>14. ASSUME NEW p \in All, UploadFails(p) PROVE Orderly'
  BY <1>2, <1>14, OrderlyUploadFails DEF UploadFails, historyVars, Orderly
<1>15. ASSUME NEW p \in All, Crash(p) PROVE Orderly'
  BY <1>2, <1>15, OrderlyDown DEF Crash, historyVars, Orderly
<1>16. ASSUME NEW p \in All, CrashUploaded(p) PROVE Orderly'
  BY <1>2, <1>16, OrderlyCrashUploaded
<1>17. ASSUME NEW p \in All, Fold(p) PROVE Orderly'
  BY <1>2, <1>17, OrderlyFold
<1>18. ASSUME NEW p \in All, UploadLost(p) PROVE Orderly'
  BY <1>2, <1>18, OrderlyLost
<1>19. CASE UNCHANGED vars
  <2>1. UNCHANGED <<replica, hostVars, retired, staging, conflict, lost, pc, pos, next>>
    BY <1>19 DEF vars, procVars, historyVars
  <2>2. ProcsInv'
    BY <1>2, <2>1, Frame DEF Orderly, ProcsInv, ProcInv, HostOf, hostVars
  <2>3. \A q \in All : pc'[q] # "down" => HostOf(q) \notin retired
    BY <1>2, <2>1 DEF Orderly
  <2> QED
    BY <1>2, <2>1, <2>2, <2>3, OrderlyQuiet DEF Orderly
<1> QED
  BY <1>4, <1>5, <1>6, <1>7, <1>8, <1>9, <1>10, <1>11, <1>12, <1>13, <1>14, <1>15, <1>16, <1>17,
     <1>18, <1>19 DEF Next

LEMMA OrderlyHolds == Spec => []OrderlyInv
<1>1. Init => SafeInv /\ OrderlyInv
  BY SafeInit, OrderlyInit
<1>2. (SafeInv /\ OrderlyInv) /\ [Next]_vars => (SafeInv /\ OrderlyInv)'
  BY SafeNext, OrderlyNext
<1> QED
  BY <1>1, <1>2, PTL DEF Spec

\* Used as intended, one host at a time, the replica tells one history: after
\* every upload, stored but unanswered upload, crash, recovery, checkpoint and
\* failover each file restores to exactly the database its writer had, and takes
\* back nothing, unless a host takes over with a file of its earlier life staged
\* that the replica does not hold.
THEOREM HistoryIsOne == Spec => []OneHistory
<1>1. SafeInv /\ OrderlyInv => OneHistory
  <2> SUFFICES ASSUME SafeInv, OrderlyInv, setup.orderly, ~leftover, NEW n \in 1 .. Len(replica)
               PROVE  Image(n) = replica[n].at /\ IsPrefix(Image(n - 1), Image(n))
    BY DEF OneHistory
  <2>1. ChainInv
    BY DEF OrderlyInv, Orderly
  <2>2. n \in 0 .. Len(replica) /\ n - 1 \in 0 .. Len(replica) /\ n # 0
    BY DEF SafeInv, TypeOK
  <2>3. Image(n) = Published(n) /\ Image(n - 1) = Published(n - 1)
    BY <2>1, <2>2, ImagesArePublished
  <2>4. Published(n) = replica[n].at
    BY <2>2 DEF Published
  <2>5. IsPrefix(Published(n - 1), replica[n].at)
    BY <2>1 DEF ChainInv, Follows
  <2> QED
    BY <2>3, <2>4, <2>5
<1> QED
  BY <1>1, SafeHolds, OrderlyHolds, PTL

\* Used as intended no writer is told Equivocation (put_ltx_cas): a crash
\* between upload and clean-up, an upload that failed and is built again and a
\* take-over always find their own bytes or a free name, until a host takes over
\* with a file left from its earlier life, or an upload is stored and answered
\* with an error.
THEOREM GuardNeverFires == Spec => []NeverConflicts
<1>1. OrderlyInv => NeverConflicts
  BY DEF OrderlyInv, Orderly, NeverConflicts
<1> QED
  BY <1>1, OrderlyHolds, PTL

(***************************************************************************)
(* Any number of hosts at once: what was acknowledged stays.               *)
(***************************************************************************)
Kept == ~setup.large

\* What is in the replica stays there.
Grown ==
  /\ Len(replica) <= Len(replica')
  /\ \A n \in 1 .. Len(replica) : replica'[n] = replica[n]

LEMMA StoredKeeps ==
  ASSUME SafeInv, Kept, NEW p \in All, NEW t, Accepted(HostOf(p), t),
         replica' = Stored(HostOf(p), t)
  PROVE  /\ Grown /\ t \in Nat /\ 1 <= t /\ t <= Len(replica')
         /\ replica'[t] = Staged(HostOf(p), t)
<1> DEFINE h == HostOf(p)
<1>1. h \in Hosts /\ t \in DOMAIN staging[h]
  BY HostOfIs DEF Accepted
<1>2. t \in Nat /\ 1 <= t /\ t <= Len(replica) + 1 /\ Len(replica) \in Nat
  BY <1>1, StagedIs DEF SafeInv, TypeOK
<1>3. CASE t = Len(replica) + 1
  <2>1. /\ Len(replica') = Len(replica) + 1 /\ replica'[t] = Staged(h, t)
        /\ \A n \in 1 .. Len(replica) : replica'[n] = replica[n]
    BY <1>1, <1>3, StoredIs DEF SafeInv
  <2> QED
    BY <1>2, <1>3, <2>1 DEF Grown
<1>4. CASE t # Len(replica) + 1
  <2>1. /\ t \in 1 .. Len(replica) /\ Len(replica') = Len(replica)
        /\ \A n \in 1 .. Len(replica) : replica'[n] = IF n = t THEN Staged(h, t) ELSE replica[n]
    BY <1>1, <1>4, StoredIs DEF SafeInv
  <2>2. replica[t] = Staged(h, t)
    <3>1. Guarded(Staged(h, t))
      BY DEF Kept, Guarded
    <3>2. ~Created(t)
      BY <1>2, <2>1 DEF Created
    <3> QED
      BY <3>1, <3>2 DEF Accepted, AlreadyIdentical
  <2>3. Grown
    BY <1>2, <2>1, <2>2 DEF Grown
  <2> QED
    BY <1>2, <2>1, <2>2, <2>3
<1> QED
  BY <1>3, <1>4

AckedInv == Kept => \A a \in acked : a[1] \in 1 .. Len(replica) /\ replica[a[1]] = a[2]

LEMMA AckedNext == SafeInv /\ AckedInv /\ [Next]_vars => AckedInv'
<1> SUFFICES ASSUME SafeInv, AckedInv, [Next]_vars, Kept'
             PROVE  AckedInv'
  BY DEF AckedInv
<1>1. setup' = setup
  BY DEF Next, vars, AppCommit, Failover, Acquire, RecoverStaging, OpenFails, OpenDone,
         BuildSnapshot, BuildIncremental, Stage, Upload, UploadConflict, UploadFails, UploadLost,
         Crash, CrashUploaded, Fold
<1>2. Kept
  BY <1>1 DEF Kept
<1>3. Len(replica) \in Nat /\ \A a \in acked : a[1] \in 1 .. Len(replica) /\ replica[a[1]] = a[2]
  BY <1>2 DEF AckedInv, SafeInv, TypeOK
<1>4. ASSUME UNCHANGED <<replica, acked>> PROVE AckedInv'
  BY <1>3, <1>4 DEF AckedInv
<1>5. replica' \in Seq(File) /\ Len(replica') \in Nat
  BY SafeNext DEF SafeInv, TypeOK
<1>6. ASSUME Grown, UNCHANGED acked PROVE AckedInv'
  BY <1>3, <1>5, <1>6 DEF AckedInv, Grown
<1>7. ASSUME NEW p \in All, NEW t, Put(HostOf(p), t) PROVE AckedInv'
  <2> DEFINE f == Staged(HostOf(p), t)
  <2>1. Grown /\ t \in Nat /\ 1 <= t /\ t <= Len(replica') /\ replica'[t] = f
    BY <1>2, <1>7, StoredKeeps DEF Put
  <2>2. acked' = acked \cup {<<t, f>>}
    BY <1>7 DEF Put
  <2> HIDE DEF f
  <2>3. ASSUME NEW a \in acked PROVE a[1] \in 1 .. Len(replica') /\ replica'[a[1]] = a[2]
    BY <1>3, <1>5, <2>1 DEF Grown
  <2>4. <<t, f>>[1] \in 1 .. Len(replica') /\ replica'[<<t, f>>[1]] = <<t, f>>[2]
    BY <1>5, <2>1
  <2> QED
    BY <2>2, <2>3, <2>4 DEF AckedInv
<1>8. ASSUME NEW h \in Hosts, AppCommit(h) \/ Failover(h) PROVE AckedInv'
  BY <1>4, <1>8 DEF AppCommit, Failover, historyVars
<1>9. ASSUME NEW p \in All,
             \/ Acquire(p) \/ OpenFails(p) \/ OpenDone(p) \/ BuildSnapshot(p)
             \/ BuildIncremental(p) \/ UploadConflict(p) \/ UploadFails(p) \/ Crash(p) \/ Fold(p)
      PROVE  AckedInv'
  BY <1>4, <1>9 DEF Acquire, OpenFails, OpenDone, BuildSnapshot, BuildIncremental, Stage,
                    UploadConflict, UploadFails, Crash, Fold, historyVars
<1>10. ASSUME NEW p \in All, RecoverStaging(p) PROVE AckedInv'
  BY <1>7, <1>10 DEF RecoverStaging
<1>11. ASSUME NEW p \in All, Upload(p) PROVE AckedInv'
  BY <1>7, <1>11 DEF Upload
<1>12. ASSUME NEW p \in All, UploadLost(p) \/ CrashUploaded(p) PROVE AckedInv'
  <2>1. Grown
    BY <1>2, <1>12, StoredKeeps DEF UploadLost, CrashUploaded
  <2> QED
    BY <1>6, <1>12, <2>1 DEF UploadLost, CrashUploaded, historyVars
<1>13. CASE UNCHANGED vars
  BY <1>4, <1>13 DEF vars, historyVars
<1> QED
  BY <1>8, <1>9, <1>10, <1>11, <1>12, <1>13 DEF Next

\* Of the writers that race for one TXID, on any hosts, one wins: a file whose
\* upload was acknowledged is never replaced (put_ltx_cas creates or finds its
\* own bytes), unless snapshots are streamed without the guard.
THEOREM AcknowledgedStays == Spec => []AcknowledgedIsKept
<1>1. Init => SafeInv /\ AckedInv
  BY SafeInit DEF Init, AckedInv
<1>2. (SafeInv /\ AckedInv) /\ [Next]_vars => (SafeInv /\ AckedInv)'
  BY SafeNext, AckedNext
<1>3. SafeInv /\ AckedInv => AcknowledgedIsKept
  BY DEF SafeInv, TypeOK, AckedInv, Kept, AcknowledgedIsKept
<1> QED
  BY <1>1, <1>2, <1>3, PTL DEF Spec
=============================================================================
