SPECIFICATION FairSpec
CONSTANTS
  Capacity = 2
  NumQueues = 2
  MaxReads = 1
  EventTypes = {"reading"}
  LocalHandles <- MCLocalHandles
  full_to_global <- MCFullToGlobal
INVARIANTS
  NoLostWakeup
  BoundedBypass
PROPERTIES
  BlockedWriterProceeds
  EventsAreConsumed
