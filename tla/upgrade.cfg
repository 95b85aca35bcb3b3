SPECIFICATION Spec
CONSTANTS
  Latest = 2
  Commands <- MCCommands
  MaxCommands = 3
  MaxWrites = 1
  MaxCuts = 1
  MaxKeep = 2
CHECK_DEADLOCK FALSE
INVARIANTS WayBackKept CutoverQuiet SchemaFits
PROPERTIES RollbackReturns GapsClose NeverStartedOnPartial
