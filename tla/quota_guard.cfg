SPECIFICATION Spec
CONSTANTS
  Requests = {r1, r2, r3}
  PoolSize = 3
  Limit = 2
  MaxMonth = 2
  MaxRows = 1
INVARIANTS WithinQuota
PROPERTIES RequestsEnd
