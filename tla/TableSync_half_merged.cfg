SPECIFICATION Spec
CONSTANTS
  k1 = k1
  k2 = k2
  w1 = w1
  w2 = w2
  Keys <- TwoKeys
  Workers <- OneWorker
  MaxWrites = 2
  FetchBatchSize = 1
  Departures <- Strict
  Rebases = FALSE
SYMMETRY KeySymmetry
PROPERTIES
  NeverLeftHalfMerged
