SPECIFICATION Spec
CONSTANTS
  k1 = k1
  k2 = k2
  w1 = w1
  w2 = w2
  Keys <- TwoKeys
  Workers <- TwoWorkers
  MaxWrites = 3
  FetchBatchSize = 1
  Departures <- AnyMarks
  Rebases = FALSE
SYMMETRY Symmetry
INVARIANTS
  TypeOK
  SnapshotDelivered
  FullResyncRepairs
