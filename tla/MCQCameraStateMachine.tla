----------------------- MODULE MCQCameraStateMachine -----------------------
(***************************************************************************)
(* Setups of the camera for TLC: everything at its best, a failing stack,  *)
(* rejected and failing parameter commits, and the build with longshot.    *)
(* The bounds are on what other threads may have queued at once: one event *)
(* besides the one of the current picture, and one CANCEL_PICTURE.         *)
(***************************************************************************)
EXTENDS QCameraStateMachine

StackFaults  == {"add", "start", "capture", "advanced", "thread"}
CommitFaults == {"commit", "params", "start", "capture"}

MCSetups ==
  [faults : {{}, StackFaults}, longshot : {FALSE}, restart : {FALSE},
   video : {"small", "lowpower", "uhd"}]
  \cup [faults : {CommitFaults}, longshot : {FALSE}, restart : {FALSE}, video : {"small"}]
  \cup [faults : {{}}, longshot : {TRUE}, restart : {TRUE}, video : {"small"}]

MCSmall == [faults : {{"capture"}}, longshot : {FALSE}, restart : {FALSE}, video : {"small"}]
MCPlain == [faults : {{}}, longshot : {FALSE}, restart : {FALSE}, video : {"small"}]
=============================================================================
