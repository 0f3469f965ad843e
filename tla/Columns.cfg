SPECIFICATION ColumnsSpec
CONSTANTS
  MaxPrecision = 3
  WideLimit = 1701
  Numbers <- SmallNumbers
  Offsets <- BothSidesOfUtc
  MaxRows = 2
CHECK_DEADLOCK FALSE
INVARIANTS
  ColumnsTypeOK
  NothingIsMisread
  OnlyAlteredTablesAreRefused
