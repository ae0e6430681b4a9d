-------------------------- MODULE MCThermalSensor ---------------------------
(* Three severities above NONE; every threshold array over a few degrees,  *)
(* NAN entries included, whether the parser would accept it or not.  The   *)
(* hot and the cold half do not influence each other: one is empty.        *)
EXTENDS ThermalSensor

Arrays(levels, degrees) == UNION {[L -> degrees] : L \in SUBSET levels}

None         == << >>
MCConfigs    == [hot : Arrays(1 .. 3, 0 .. 4), cold : {None}]
                \cup [hot : {None}, cold : Arrays(1 .. 3, 1 .. 4)]
MCReadings   == 0 .. 6
MCBand       == {1, 2}
=============================================================================
