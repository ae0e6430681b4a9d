SPECIFICATION Spec
CONSTANTS
  Capacity = 4
  NumQueues = 1
  MaxReads = 2
  EventTypes = {"reading", "meta"}
  LocalHandles <- MCLocalHandles
  full_to_global <- MCFullToGlobal
INVARIANTS
  TypeOK
  WriterRegionPrivate
  RegionFitsQueue
  ReadingsHaveOwnHandle
PROPERTY ImplementsChannel
