SPECIFICATION FairSpec
CONSTANTS
  Invoices = {i1, i2}
  Paths = {i1, i2}
  PathOf <- MCOwnPaths
  Requests = {r1, r2}
  Serial = FALSE
  MaxEdits = 0
  MaxLosses = 1
  MaxFaults = 2
  None = None
  Empty = Empty
  Mixed = Mixed
PROPERTY Repaired
