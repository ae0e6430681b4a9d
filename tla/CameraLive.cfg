SPECIFICATION LiveSpec
CONSTANTS
  MaxEvents = 2
  MaxCancels = 1
  Setups <- MCSmall
PROPERTIES
  LiveSnapshotEnds
  PrepareEnds
CHECK_DEADLOCK FALSE
