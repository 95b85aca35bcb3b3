CONSTANTS
  r1 = r1
  r2 = r2
  r3 = r3
  Requests = {r1, r2, r3}
  Streams = {r1, r2}
  Workers = {w1}
  Hold <- MCHold
  Price <- MCPrice
  Opening = 4
  Deltas <- MCDebits
  UnitCap = 2
  BatchSize = 2
  MaxAttempts = 2
  MaxAdjustments = 1
  Budget <- CallsBudget
SPECIFICATION Spec
CHECK_DEADLOCK FALSE
INVARIANTS ExactlyOnce BalanceCovered HoldsAccounted
PROPERTIES BillsOnce
