SPECIFICATION FairScanSpec
CONSTANTS
  k1 = k1
  k2 = k2
  w1 = w1
  Keys <- TwoKeys
  Workers <- OneWorker
  MaxWrites = 3
  FetchBatchSize = 2
  Departures <- NullMarks
  Rebases = FALSE
  Plans <- AllPlans
INVARIANTS
  ScanTypeOK
  LostOnlyToAScan
  NewestIsGreatest
  RowsBounded
PROPERTIES
  CheckpointOnlyAdvances
  CatchesUp
