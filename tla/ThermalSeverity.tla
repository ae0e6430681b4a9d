-------------------------- MODULE ThermalSeverity ---------------------------
(***************************************************************************)
(* The throttling decision of the thermal HAL (hidl/thermal):              *)
(* ThermalHelper::getSeverityFromThresholds, and the order check that      *)
(* ParseSensorInfo makes on the thresholds of thermal_info_config.json.    *)
(*                                                                         *)
(* A threshold array is a function on the severities that have one; a      *)
(* severity outside its domain has NAN.  Temperatures are integers, which  *)
(* is what the kernel's temp files hold before the multiplier is applied.  *)
(***************************************************************************)
EXTENDS Integers, FiniteSets, FiniteSetsExt

CONSTANT Shutdown   \* ThrottlingSeverity::SHUTDOWN, the highest severity

ASSUME ShutdownAssumption == Shutdown \in Nat \ {0}

NONE       == 0
Severities == NONE .. Shutdown

\* Mutant: the loop runs from NONE up.
LowestOf(S) == IF S = {} THEN NONE ELSE Min(S)

\* The loop runs from SHUTDOWN down and keeps the first hit.
HighestOf(S) == IF S = {} THEN NONE ELSE Max(S)

Throttling(thr) == DOMAIN thr \ {NONE}

HotReached(hot, value)  == {i \in Throttling(hot) : hot[i] <= value}
HotHeld(hot, hyst, value) ==
  {i \in Throttling(hot) : hot[i] - hyst[i] < value}
ColdReached(cold, value) == {i \in Throttling(cold) : cold[i] >= value}
ColdHeld(cold, hyst, value) ==
  {i \in Throttling(cold) : cold[i] + hyst[i] > value}

\* Mutant: a falling temperature goes down by one severity at a time.
HotStepwise(hot, hyst, prev, value) ==
  IF HighestOf(HotReached(hot, value)) < prev THEN prev - 1
  ELSE HighestOf(HotReached(hot, value))

\* getSeverityFromThresholds, hot half
HotSeverity(hot, hyst, prev, value) ==
  LET ret == HighestOf(HotReached(hot, value))
  IN  IF ret < prev THEN HighestOf(HotHeld(hot, hyst, value)) ELSE ret

\* Mutant: the cold hysteresis is subtracted, as on the hot side.
ColdHysteresisSubtracted(cold, hyst, prev, value) ==
  LET ret == HighestOf(ColdReached(cold, value))
  IN  IF ret < prev
      THEN HighestOf({i \in Throttling(cold) : cold[i] - hyst[i] > value})
      ELSE ret

\* Mutant: the hysteresis level is used for an unchanged severity as well.
ColdHeldOnEqual(cold, hyst, prev, value) ==
  LET ret == HighestOf(ColdReached(cold, value))
  IN  IF ret <= prev THEN HighestOf(ColdHeld(cold, hyst, value)) ELSE ret

\* getSeverityFromThresholds, cold half
ColdSeverity(cold, hyst, prev, value) ==
  LET ret == HighestOf(ColdReached(cold, value))
  IN  IF ret < prev THEN HighestOf(ColdHeld(cold, hyst, value)) ELSE ret

\* readTemperature: the worse of the two is reported.
ThrottlingStatus(hotSev, coldSev) == IF hotSev > coldSev THEN hotSev ELSE coldSev
-----------------------------------------------------------------------------
(* ParseSensorInfo: thresholds must not decrease with the severity, tested *)
(* against a running minimum that starts at the least positive float (1 in *)
(* integers); cold ones must not increase.                                 *)

\* Largest threshold among the severities below j, or the starting minimum.
RunningMin(hot, j) ==
  LET below == {i \in DOMAIN hot : i < j}
  IN  IF below = {} THEN 1 ELSE hot[Max(below)]

HotAccepted(hot) == \A j \in DOMAIN hot : hot[j] >= RunningMin(hot, j)

RunningMax(cold, j) ==
  LET below == {i \in DOMAIN cold : i < j}
  IN  cold[Max(below)]

ColdAccepted(cold) ==
  \A j \in DOMAIN cold :
    (\E i \in DOMAIN cold : i < j) => cold[j] <= RunningMax(cold, j)
=============================================================================
