SPECIFICATION BuilderSpec
CONSTANTS
  Clients = {"be", "eu"}
  Foreign = {"eu"}
  MaxLines = 1
  MaxClicks = 4
  MaxFaults = 0
CHECK_DEADLOCK FALSE
INVARIANT ReverseChargeUntaxed
