SPECIFICATION Spec
CONSTANTS
  Shutdown = 2
  Temps <- MCTemps
  Hot <- MCHot
  Cold <- MCCold
  Hyst <- MCHyst
  Wants <- MCWants
  Sensors = {1, 2}
  Monitored = {1, 2}
  MayFail = {2}
  Polling = TRUE
  Short = 1
  Long = 2
  Clients = {1, 2}
INVARIANTS
  ClientsInformed
  OnlyNews
