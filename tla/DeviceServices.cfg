SPECIFICATION Spec
CONSTANTS
  NumLibs = 3
  SensorLists <- MCSensorLists
  LightLevels = {0, 128, 255}
  LcdMax = 255
  Timeouts = {0, 1, 4}
  MsToUs = 2
  Word = 8
  Levels = {11, 12}
  MaxOns = 2
  NumBufs = 2
  MaxFrame = 3
  MaxCmds = 1
  MaxRequest = 1
  water_mark = 1
  look_back = 0
  post_frame_skip = 1
  max_unmatched_frames = 1
  Resets = {0, 2}
INVARIANTS
  HandlesMatchDevices
  SurvivorsAreOpen
  LedsShowStatus
  BundlesLead
  RefsCounted
CHECK_DEADLOCK FALSE
