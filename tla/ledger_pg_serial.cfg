SPECIFICATION Spec
CONSTANTS
  i1 = i1  i2 = i2  i3 = i3
  c1 = c1  c2 = c2
  Invoices = {i1, i2, i3}
  Clients = {c1, c2}
  ClientOf <- MCClientOf
  Initials <- MCSameInitials
  Months = {1}
  Total = 2
  Requests = {r1, r2}
  Engine = "postgres"
  Serial = TRUE
CHECK_DEADLOCK FALSE
SYMMETRY Symmetry
INVARIANTS TypeOK Gapless StatusMatchesPayments CreditNotesCancel NoNumberCollision CreditNotesGapless
PROPERTY ImplementsAtomicLedger
