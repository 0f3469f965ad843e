---------------------------- MODULE SourceTable ----------------------------
(***************************************************************************)
(* One SQL Server table, as the synchroniser relies on it.  The database   *)
(* is outside the repository: what is modelled here is the contract its    *)
(* documents state for the watermark column, and the ways a real table     *)
(* departs from it.                                                        *)
(*                                                                         *)
(* Every write gives some key a new version, a number that identifies the  *)
(* content written; mark[v] is the watermark stored with version v.        *)
(* Watermarks are positive numbers, and Null is the SQL NULL, which ORDER  *)
(* BY ... ASC puts first and no comparison selects.                        *)
(***************************************************************************)
EXTENDS Integers, FiniteSets

CONSTANTS
  Keys,        \* primary key values
  MaxWrites,   \* bound on the writes of one behaviour
  Departures   \* how writes may depart from strictly increasing watermarks

ASSUME SourceAssumption ==
  /\ MaxWrites \in Nat
  /\ Departures \subseteq {"tie", "late", "null"}

VARIABLES
  source,      \* source[k]: the version of row k, Absent when there is none
  mark,        \* mark[v]: the watermark of version v
  writes,      \* how many versions were written
  clock        \* the greatest watermark handed out

sourceVars == <<source, mark, writes, clock>>

Versions == 1 .. MaxWrites
Absent == 0
Null == 0

SourceTypeOK ==
  /\ source \in [Keys -> 0 .. MaxWrites]
  /\ mark \in [Versions -> Nat]
  /\ writes \in 0 .. MaxWrites
  /\ clock \in Nat

SourceInit ==
  /\ source = [k \in Keys |-> Absent]
  /\ mark = [v \in Versions |-> Null]
  /\ writes = 0
  /\ clock = 0

(* The watermarks the next write may carry.  A strictly increasing column  *)
(* allows only a new greatest one; a tie repeats the greatest, a late one  *)
(* was assigned before writes already visible, and the column may be NULL. *)
NextMarks ==
  {clock + 1}
    \cup (IF "tie"  \in Departures THEN {clock} \ {0} ELSE {})
    \cup (IF "late" \in Departures THEN 1 .. clock ELSE {})
    \cup (IF "null" \in Departures THEN {Null} ELSE {})

(* An application inserts row k, or updates it together with its watermark. *)
Write(k) ==
  /\ writes < MaxWrites
  /\ writes' = writes + 1
  /\ source' = [source EXCEPT ![k] = writes + 1]
  /\ \E m \in NextMarks :
       /\ mark' = [mark EXCEPT ![writes + 1] = m]
       /\ clock' = IF m > clock THEN m ELSE clock

(* An application deletes row k, which no watermark query can see. *)
Delete(k) ==
  /\ source[k] # Absent
  /\ source' = [source EXCEPT ![k] = Absent]
  /\ UNCHANGED <<mark, writes, clock>>

SourceNext == \E k \in Keys : Write(k) \/ Delete(k)

(* Row k is there, and its watermark is in reach of a checkpoint at b. *)
InReach(k, b) ==
  /\ source[k] # Absent
  /\ mark[source[k]] \in 1 .. b
=============================================================================
