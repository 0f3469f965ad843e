SPECIFICATION FairRunSpec
CONSTANTS
  t1 = t1
  t2 = t2
  r1 = r1
  r2 = r2
  Tables <- TwoTables
  Runs <- TwoRuns
  Catalog <- BothInOrder
  MaxChanges = 2
INVARIANTS
  RunTypeOK
  CheckpointsHeld
  ReportsHold
PROPERTIES
  RerunsRecover
