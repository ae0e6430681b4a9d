SPECIFICATION Spec
CONSTANTS
  MaxEvents = 2
  MaxCancels = 1
  Setups <- MCPlain
INVARIANT
  RecordingKeepsHint
CHECK_DEADLOCK FALSE
