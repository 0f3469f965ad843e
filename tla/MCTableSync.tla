---------------------------- MODULE MCTableSync ----------------------------
(* Small instances of TableSync for TLC. *)
EXTENDS TableSync, TLC

CONSTANTS k1, k2, w1, w2

OneWorker == {w1}
TwoWorkers == {w1, w2}
TwoKeys == {k1, k2}
Strict == {}
AnyMarks == {"tie", "late", "null"}

KeySymmetry == Permutations(Keys)
Symmetry == Permutations(Keys) \cup Permutations(Workers)
=============================================================================
