----------------------------- MODULE MCSyncRun -----------------------------
(* Small instances of SyncRun for TLC. *)
EXTENDS SyncRun

CONSTANTS t1, t2, r1, r2

TwoTables == {t1, t2}
BothInOrder == <<t1, t2>>
TwoRuns == {r1, r2}
OneRun == {r1}
=============================================================================
