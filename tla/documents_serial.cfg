SPECIFICATION Spec
CONSTANTS
  Invoices = {i1, i2}
  Paths = {i1, i2}
  PathOf <- MCOwnPaths
  Requests = {r1, r2}
  Serial = TRUE
  MaxEdits = 1
  MaxLosses = 2
  MaxFaults = 2
  None = None
  Empty = Empty
  Mixed = Mixed
SYMMETRY Symmetry
INVARIANTS WholeFiles HonestUntilFault
PROPERTY RenderedOnce
