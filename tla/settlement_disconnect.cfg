CONSTANTS
  r1 = r1
  r2 = r2
  r3 = r3
  Requests = {r1}
  Streams = {}
  Workers = {w1}
  Hold <- MCHold
  Price <- MCPrice
  Opening = 3
  Deltas <- MCDeltas
  UnitCap = 1
  BatchSize = 1
  MaxAttempts = 2
  MaxAdjustments = 0
  Budget <- OneDisconnect
SPECIFICATION Spec
INVARIANTS ProviderFinishedSettles
CHECK_DEADLOCK FALSE
