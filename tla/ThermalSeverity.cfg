SPECIFICATION SensorSpec
CONSTANTS
  Shutdown = 3
  Readings <- MCReadings
  Configs <- MCConfigs
  Hysteresis <- MCBand
INVARIANTS
  StableReading
PROPERTIES
  NeverUnderReported
  ClearedOnlyOutsideBand
  NoRiseOnFall
