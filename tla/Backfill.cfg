SPECIFICATION BackfillSpec
CONSTANTS
  k1 = k1
  k2 = k2
  k3 = k3
  w1 = w1
  Keys <- ThreeKeys
  Workers <- OneWorker
  MaxWrites = 3
  FetchBatchSize = 2
  Departures <- NullMarks
  Rebases = FALSE
SYMMETRY Symmetry
INVARIANTS
  BackfillTypeOK
  CaptureCovers
PROPERTIES
  ImplementsReplica
