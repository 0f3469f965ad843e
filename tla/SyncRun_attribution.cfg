SPECIFICATION RunSpec
CONSTANTS
  t1 = t1
  t2 = t2
  r1 = r1
  r2 = r2
  Tables <- TwoTables
  Runs <- OneRun
  Catalog <- BothInOrder
  MaxChanges = 1
INVARIANTS
  EveryFailureNamesItsTable
