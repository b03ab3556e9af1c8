SPECIFICATION Spec
CONSTANTS
  Requests = {r1}
  Serial = TRUE
  None = None
  Quotes = {q1}
  Drafts = {d1}
  Engine = "postgres"
  i1 = i1  i2 = i2
  c1 = c1
  Invoices = {i1}
  Clients = {c1}
  ClientOf <- OneClientOf
  Initials <- OneInitials
  Months = {1}
  Total = 1
  MaxRestores = 1
  Keep = 1
  MaxDay = 1
  MaxData = 1
  Calls = {k1}
  Limit = 1
  AuthLimit = 1
  Window = 1
  MaxTime = 1
  Documents <- MCDocuments
  Percents = {33}
  Period = {1}
  MaxImports = 1
  Templates = {t1}
  Contents = {1}
  MaxVersion = 1
  Amounts = {600}
  Offs = {0}
  Lines <- MCLines
  Discounts <- MCDiscounts
  MaxLines = 4
CHECK_DEADLOCK FALSE
INVARIANT AllowancePartsExact
