SPECIFICATION Spec
CONSTANTS
  old = old
  new = new
  m1 = m1
  m2 = m2
  m3 = m3
  NoHolder = NoHolder
  NoSum = NoSum
  Sums = {1, 2}
  Files <- MCFiles
  Checksum <- MCChecksum
  Runners = {old, new}
  Transactional = {m2}
  Legacy = {m1}
  MaxRuns = 3
  Migrations = {m1, m2, m3}
CHECK_DEADLOCK FALSE
INVARIANTS RecordsTruthful SuccessMeansApplied OneTrusts
PROPERTIES RunsRecover
