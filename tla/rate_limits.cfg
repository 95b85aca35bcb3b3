SPECIFICATION LimitsFairSpec
CONSTANTS
  c1 = c1
  c2 = c2
  Calls = {c1, c2}
  Priced = {c1}
  Estimate <- MCEstimate
  Actual <- MCActual
  Cap = 3
  Window = 3
  Bucket = 2
  MaxReserveAttempts = 2
  MaxTime = 5
CHECK_DEADLOCK FALSE
INVARIANTS WindowCapped Accounts
PROPERTIES CallsEnd
