SPECIFICATION FairSpec
CONSTANTS
  Shutdown = 2
  Temps <- MCFewTemps
  Hot <- MCHot
  Cold <- MCCold
  Hyst <- MCHyst
  Wants <- MCWants
  Sensors = {1, 2, 3}
  Monitored = {1, 2}
  MayFail = {}
  Polling = FALSE
  Short = 1
  Long = 2
  Clients = {}
PROPERTIES
  TriggeredIsExact
  Settles
