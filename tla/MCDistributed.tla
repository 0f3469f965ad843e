--------------------------- MODULE MCDistributed ---------------------------
(* Small instances of Distributed for TLC. *)
EXTENDS Distributed

CONSTANTS t1, t2

TwoTables == {t1, t2}
BothInOrder == <<t1, t2>>
TwoAttempts == {1, 2} \X {1, 2}

(* A bound: the second table changes twice, or the first one once. *)
FewChanges == 2 * changes[t1] + changes[t2] <= 2
=============================================================================
