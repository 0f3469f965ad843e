SPECIFICATION DeadlineSpec
CONSTANTS
  k1 = k1
  k2 = k2
  w1 = w1
  Keys <- TwoKeys
  Workers <- OneWorker
  MaxWrites = 2
  FetchBatchSize = 1
  Departures <- Strict
  Rebases = FALSE
CHECK_DEADLOCK FALSE
PROPERTIES
  EveryRunEnds
