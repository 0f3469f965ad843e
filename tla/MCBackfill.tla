----------------------------- MODULE MCBackfill -----------------------------
(* A small instance of Backfill for TLC. *)
EXTENDS Backfill, TLC

CONSTANTS k1, k2, k3, w1

OneWorker == {w1}
ThreeKeys == {k1, k2, k3}
NullMarks == {"null"}

Symmetry == Permutations(Keys)
=============================================================================
