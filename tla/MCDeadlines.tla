---------------------------- MODULE MCDeadlines ----------------------------
(* A small instance of Deadlines for TLC. *)
EXTENDS Deadlines

CONSTANTS k1, k2, w1

TwoKeys == {k1, k2}
OneWorker == {w1}
Strict == {}
=============================================================================
