SPECIFICATION FairSpec
CONSTANTS
  Callers = {"app", "binder"}
  Uses <- MCUses
  MaxStrays = 1
  Burst = 2
  MaxPictures = 2
  MaxJobs = 1
  Frames = {"f1", "f2"}
  PicFrames = 2
  Requests <- MCRequests
INVARIANTS
  WakesFindWork
  AnswersAccounted
  DeliversCurrent
  NoSurplusJpeg
  FrameInOnePlace
  CopiesLiveFrame
PROPERTIES
  CallsReturn
  EventsGetThrough
  PictureEnds
  FramesComeBack
  RequestEnds
CHECK_DEADLOCK FALSE
