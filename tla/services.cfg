SPECIFICATION Spec
CONSTANTS
  Requests = {r1, r2}
  Serial = TRUE
  None = None
  Quotes = {q1, q2}
  Drafts = {d1, d2, d3}
  Engine = "postgres"
  i1 = i1  i2 = i2
  c1 = c1
  Invoices = {i1, i2}
  Clients = {c1}
  ClientOf <- OneClientOf
  Initials <- OneInitials
  Months = {1}
  Total = 2
  MaxRestores = 1
  Keep = 2
  MaxDay = 4
  MaxData = 4
  Calls = {k1, k2}
  Limit = 3
  AuthLimit = 2
  Window = 2
  MaxTime = 4
  Documents <- MCDocuments
  Percents = {33, 101}
  Period = {1}
  MaxImports = 3
  Templates = {t1, t2, t3}
  Contents = {1, 2}
  MaxVersion = 2
  Amounts = {350, 750}
  Offs = {0, 50}
  Lines <- MCLines
  Discounts <- MCDiscounts
  MaxLines = 3
SYMMETRY Symmetry
CHECK_DEADLOCK FALSE
INVARIANTS
  ConvertHonoured
  NumberedOnce UndisturbedWhole
  NewestIsNewest EarlierDaysSaved
  LimitsHold
  CountedOnce
  OneDefault
  FiguresAgree
PROPERTIES
  DecidedStaysDecided RotationKeeps DecisionStands
