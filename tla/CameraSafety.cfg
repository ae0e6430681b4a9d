SPECIFICATION Spec
CONSTANTS
  MaxEvents = 2
  MaxCancels = 1
  Setups <- MCSetups
INVARIANTS
  RecordingMatchesState
  PreviewStopsWithState
  LiveThreadIsJoined
  PreviewRunsInState
  PostProcEnds
CHECK_DEADLOCK FALSE
