---------------------------- MODULE MCLiveScan ----------------------------
(* Small instances of LiveScan for TLC. *)
EXTENDS LiveScan

CONSTANTS k1, k2, w1

TwoKeys == {k1, k2}
OneWorker == {w1}
Strict == {}
NullMarks == {"null"}
IndexOnly == {"index"}
AllPlans == {"snapshot", "sort", "index"}
=============================================================================
