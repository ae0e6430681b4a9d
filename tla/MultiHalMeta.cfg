SPECIFICATION Spec
CONSTANTS
  Capacity = 2
  NumQueues = 1
  MaxReads = 1
  EventTypes = {"reading", "meta"}
  LocalHandles <- MCLocalHandles
  full_to_global <- MCFullToGlobal
INVARIANT NoCorruptedEventUpstream
