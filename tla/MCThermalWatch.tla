--------------------------- MODULE MCThermalWatch ---------------------------
(* Sensor 1 has two hot thresholds, sensor 2 a hot and a cold one; sensor 3 *)
(* is not monitored, so its temperature does not matter.                    *)
EXTENDS ThermalWatch, TLC

MCTemps == [s \in Sensors |-> IF s = 3 THEN {0} ELSE 0 .. 3]
MCFewTemps == [s \in Sensors |-> CASE s = 1 -> 0 .. 3 [] s = 2 -> {1, 3} [] OTHER -> {0}]
MCHot   == <<(1 :> 1 @@ 2 :> 3), (1 :> 3), << >>>>
MCCold  == <<<< >>, (1 :> 0), << >>>>
MCHyst  == <<<<1, 1>>, <<1, 1>>, <<1, 1>>>>
MCWants == [c \in Clients |-> IF c = 1 THEN Sensors ELSE {2}]
=============================================================================
