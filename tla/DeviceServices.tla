--------------------------- MODULE DeviceServices ---------------------------
(***************************************************************************)
(* Four parts of the device side by side in one specification: the start   *)
(* of the sensors multi-HAL, the lights, the vibrator and a channel of     *)
(* mm-camera-interface.  They share no state, so steps of different parts  *)
(* commute, and no property speaks of two of them: it is enough to let one *)
(* part move in each behaviour.  Init chooses it.                          *)
(***************************************************************************)
EXTENDS MultiHalOpen, Light, Vibrator, MmChannel

VARIABLE part        \* the part that moves

Parts == {"sensors", "light", "vibrator", "channel"}

serviceVars == <<part, openVars, lightVars, vibratorVars, mmVars>>

\* The initial choices of a part matter only when it moves.
Init ==
  /\ part \in Parts
  /\ OpenInit /\ LightInit /\ VibratorInit /\ MmInit
  /\ part # "sensors" => \A l \in Libs : ~lib[l].loads /\ ~lib[l].opens /\ ~lib[l].injects
                                          /\ lib[l].sensors = << >>
  /\ part # "vibrator" => mVtgLevel = "closed"
  /\ part # "channel" => chType = "zsl" /\ resetAt = 0

SensorsMove ==
  /\ part = "sensors" /\ OpenNext
  /\ UNCHANGED <<part, lightVars, vibratorVars, mmVars>>

LightMoves ==
  /\ part = "light" /\ LightNext
  /\ UNCHANGED <<part, openVars, vibratorVars, mmVars>>

VibratorMoves ==
  /\ part = "vibrator" /\ VibratorNext
  /\ UNCHANGED <<part, openVars, lightVars, mmVars>>

ChannelMoves ==
  /\ part = "channel" /\ MmNext
  /\ UNCHANGED <<part, openVars, lightVars, vibratorVars>>

Next == SensorsMove \/ LightMoves \/ VibratorMoves \/ ChannelMoves

Spec == Init /\ [][Next]_serviceVars
=============================================================================
