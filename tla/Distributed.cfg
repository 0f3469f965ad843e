SPECIFICATION DistributedSpec
CONSTANTS
  t1 = t1
  t2 = t2
  NoRequest = NoRequest
  Tables <- TwoTables
  Runs <- TwoAttempts
  Catalog <- BothInOrder
  MaxChanges = 2
  Parallelism = 1
  Requested = NoRequest
  MaxAttempts = 2
  Zombies = TRUE
  RaiseOnError = TRUE
CHECK_DEADLOCK FALSE
INVARIANTS
  DriverTypeOK
  AccountedOnce
  CheckpointsHeld
  ResultsHold
CONSTRAINT FewChanges
