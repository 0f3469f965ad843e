SPECIFICATION ConfigSpec
CONSTANTS
  SourceTables <- Tables
  Columns <- IdAndAt
  Fold <- SmallLetters
  Blank <- BlankNames
  Unsafe <- UnsafeNames
  NeedsQuotes <- Reserved
  Offset <- Scales
  NoUri = "NoUri"
  Jobs <- SomeJobs
  MaxChanges = 2
  MaxDrops = 1
INVARIANTS
  ConfigTypeOK
  OneNamePerPath
  RightForItsStream
PROPERTIES
  VerdictsHold
  ReadsWhatItDescribed
