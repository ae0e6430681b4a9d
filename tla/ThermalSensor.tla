---------------------------- MODULE ThermalSensor ---------------------------
(***************************************************************************)
(* One monitored sensor whose temperature moves freely and whose severity  *)
(* is recomputed at every reading from the previous hot and cold severity, *)
(* for every configuration ParseSensorInfo accepts.                        *)
(***************************************************************************)
EXTENDS ThermalSeverity

CONSTANTS Readings,         \* values the sensor may read
          Configs,          \* [hot, cold] threshold arrays of config files
          Hysteresis        \* hysteresis values

ASSUME SensorAssumption ==
  /\ Readings \subseteq Int /\ Hysteresis \subseteq Int
  /\ \A c \in Configs : \A thr \in {c.hot, c.cold} :
       DOMAIN thr \subseteq Severities /\ thr \in [DOMAIN thr -> Int]

VARIABLES hot, cold, hyst,  \* the sensor's configuration
          value,            \* current temperature
          prevHot, prevCold \* prev_hot_severity, prev_cold_severity

sensorVars == <<hot, cold, hyst, value, prevHot, prevCold>>

\* The watcher's first pass: ThermalHelper starts every sensor at NONE.
SensorInit ==
  /\ \E c \in Configs : /\ HotAccepted(c.hot) /\ hot = c.hot
                       /\ ColdAccepted(c.cold) /\ cold = c.cold
  /\ hyst \in [Severities -> Hysteresis]
  /\ value \in Readings
  /\ prevHot  = HotSeverity(hot, hyst, NONE, value)
  /\ prevCold = ColdSeverity(cold, hyst, NONE, value)

\* The watcher reads the sensor and stores both severities.
Read(v) ==
  /\ value' = v
  /\ prevHot'  = HotSeverity(hot, hyst, prevHot, v)
  /\ prevCold' = ColdSeverity(cold, hyst, prevCold, v)
  /\ UNCHANGED <<hot, cold, hyst>>

SensorNext == \E v \in Readings : Read(v)

SensorSpec == SensorInit /\ [][SensorNext]_sensorVars
-----------------------------------------------------------------------------
\* A reading at or above a hot threshold (at or below a cold one) is never
\* reported as a lower severity than that threshold's, whatever was reported
\* before: the highest severity reached bounds the result from below.
NeverUnderReported ==
  [][/\ \A i \in HotReached(hot, value') : prevHot' >= i
     /\ \A i \in ColdReached(cold, value') : prevCold' >= i]_sensorVars

\* A severity is given up only when the temperature has left its hysteresis
\* band: a reading that wanders inside the band does not flap.
ClearedOnlyOutsideBand ==
  [][/\ prevHot' < prevHot =>
          \A i \in Throttling(hot) :
            i > prevHot' /\ i <= prevHot => value' <= hot[i] - hyst[i]
     /\ prevCold' < prevCold =>
          \A i \in Throttling(cold) :
            i > prevCold' /\ i <= prevCold => value' >= cold[i] + hyst[i]]_sensorVars

\* A temperature that does not change gives no second notification: reading
\* it again yields the severities already stored.
StableReading ==
  /\ HotSeverity(hot, hyst, prevHot, value) = prevHot
  /\ ColdSeverity(cold, hyst, prevCold, value) = prevCold

\* The hysteresis band of a severity stays on its side of the thresholds of
\* the milder ones.
HotBandsApart ==
  \A i, j \in Throttling(hot) : i < j => hot[j] - hyst[j] >= hot[i]

ColdBandsApart ==
  \A i, j \in Throttling(cold) : i < j => cold[j] + hyst[j] <= cold[i]

\* If the bands do not overlap, a falling temperature never raises the hot
\* severity and a rising one never raises the cold severity.
NoRiseOnFall ==
  [][/\ HotBandsApart /\ value' <= value => prevHot' <= prevHot
     /\ ColdBandsApart /\ value' >= value => prevCold' <= prevCold]_sensorVars
=============================================================================
