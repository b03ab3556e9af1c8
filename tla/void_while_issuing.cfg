SPECIFICATION Spec
CONSTANTS
  i1 = i1  i2 = i2  i3 = i3
  c1 = c1  c2 = c2
  Invoices = {i1, i2}
  Clients = {c1, c2}
  ClientOf <- MCClientOf
  Initials <- MCInitials
  Months = {1}
  Total = 1
  Requests = {r1, r2}
  Engine = "postgres"
  Serial = FALSE
INVARIANT Gapless
CHECK_DEADLOCK FALSE
