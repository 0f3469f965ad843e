------------------------------ MODULE Replica ------------------------------
(***************************************************************************)
(* What an incremental sync promises about one table, with nothing of how  *)
(* it works: a replica that only moves forward, and a claim, which may be  *)
(* made or withdrawn at any time, that is never more than the replica      *)
(* holds.  TableSync implements this with the Delta table as the replica   *)
(* and the checkpoint as the claim.                                        *)
(***************************************************************************)
EXTENDS SourceTable

VARIABLES
  replica,     \* replica[k]: the version of row k held, Absent when none
  claim        \* every source row marked 1 .. claim is held as it is

replicaVars == <<source, mark, writes, clock, replica, claim>>

Covered(b) == \A k \in Keys : InReach(k, b) => replica[k] = source[k]

ReplicaInit ==
  /\ SourceInit
  /\ replica = [k \in Keys |-> Absent]
  /\ claim = 0

SourceMoves == SourceNext /\ UNCHANGED <<replica, claim>>

(* Some rows move forward, to versions that exist, none past the source. *)
Advance ==
  /\ replica' \in [Keys -> 0 .. writes]
  /\ \A k \in Keys :
       /\ replica[k] <= replica'[k]
       /\ source[k] # Absent => replica'[k] <= source[k]
  /\ UNCHANGED <<source, mark, writes, clock, claim>>

(* A bound is claimed, above or below the one before: only when it is met. *)
Claim ==
  /\ claim' \in 0 .. clock
  /\ Covered(claim')
  /\ UNCHANGED <<source, mark, writes, clock, replica>>

ReplicaNext == SourceMoves \/ Advance \/ Claim

ReplicaSpec == ReplicaInit /\ [][ReplicaNext]_replicaVars
=============================================================================
