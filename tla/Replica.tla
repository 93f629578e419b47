------------------------------ MODULE Replica -------------------------------
(***************************************************************************)
(* What replication promises, without a word on how: the replica is a list *)
(* of database states, one per TXID, that only ever grows at its end; each *)
(* state is one the database really had, none is older than the one before *)
(* it, and everything committed is published in the end.                   *)
(***************************************************************************)
EXTENDS Integers, Sequences

VARIABLES
  committed,  \* number of the last commit of the database
  published   \* published[n]: the last commit in the state TXID n restores to

replicaVars == <<committed, published>>

LastPublished == IF published = << >> THEN 0 ELSE published[Len(published)]

ReplicaInit == committed \in Nat \ {0} /\ published = << >>

CommitOne ==
  /\ committed' = committed + 1
  /\ UNCHANGED published

Publish(h) ==
  /\ published' = Append(published, h)
  /\ UNCHANGED committed

\* A TXID may repeat the state before it (a catch-up snapshot of nothing).
Republish == LastPublished > 0 /\ Publish(LastPublished)

Advance == \E h \in LastPublished + 1 .. committed : Publish(h)

ReplicaNext == CommitOne \/ Republish \/ Advance

ReplicaSafe == ReplicaInit /\ [][ReplicaNext]_replicaVars

ReplicaSpec == ReplicaSafe /\ WF_replicaVars(Advance)
=============================================================================
