--------------------------- MODULE CameraServices ---------------------------
(***************************************************************************)
(* Four parts of the camera software side by side in one specification:    *)
(* the calls and their answers, the callback notifier, the post-processor  *)
(* and the HAL3 adapter, each with an abstraction of its neighbours of its *)
(* own.  Their states have no variable in common, so steps of different    *)
(* parts commute, and no property speaks of two of them: it is enough to   *)
(* let one part move in each behaviour.  Init chooses it, and the others   *)
(* stay in their initial states, in which no fair action is enabled.       *)
(***************************************************************************)
EXTENDS QCameraApi, QCameraCbNotifier, QCameraPostProc, HAL3on1

VARIABLE part        \* the part that moves

Parts == {"api", "notifier", "postproc", "hal3on1"}

serviceVars == <<part, apiVars, notifierVars, postProcVars, hal3on1Vars>>

Init ==
  /\ part \in Parts
  /\ ApiInit /\ NotifierInit /\ PostProcInit /\ HAL3on1Init
  /\ part # "postproc" => ~needReprocess

ApiMoves ==
  /\ part = "api" /\ ApiNext
  /\ UNCHANGED <<part, notifierVars, postProcVars, hal3on1Vars>>

NotifierMoves ==
  /\ part = "notifier" /\ NotifierNext
  /\ UNCHANGED <<part, apiVars, postProcVars, hal3on1Vars>>

PostProcMoves ==
  /\ part = "postproc" /\ PostProcNext
  /\ UNCHANGED <<part, apiVars, notifierVars, hal3on1Vars>>

HAL3on1Moves ==
  /\ part = "hal3on1" /\ HAL3on1Next
  /\ UNCHANGED <<part, apiVars, notifierVars, postProcVars>>

Next == ApiMoves \/ NotifierMoves \/ PostProcMoves \/ HAL3on1Moves

FairSpec ==
  /\ Init /\ [][Next]_serviceVars
  /\ ApiFairness /\ NotifierFairness /\ PostProcFairness /\ HAL3on1Fairness
=============================================================================
