---------------------------- MODULE QCamera2HWI ----------------------------
(***************************************************************************)
(* The operations of the camera HAL object (QCamera2HWI.cpp,               *)
(* QCameraChannel.cpp and the parameter commits of QCameraParameters.cpp)  *)
(* that the state machine calls.  The HAL is a record h; an operation is   *)
(* the set of its outcomes [h |-> the HAL after it, ok |-> rc == NO_ERROR].*)
(* What may fail in the camera stack is part of the setup.                 *)
(*                                                                         *)
(*   m_state       state of the state machine                              *)
(*   window        mPreviewWindow != NULL                                  *)
(*   m_channels    per channel type: null, idle or running (m_bIsActive)   *)
(*   zsl, hint     m_bZslMode, m_bRecordingHint                            *)
(*   zsl_new       m_bZslMode_new, which is also the stored KEY_QC_ZSL     *)
(*   hint_new      m_bRecordingHint_new                                    *)
(*   hint_key      KEY_RECORDING_HINT in the parameter map ({} if unset)   *)
(*   hint_tmp      KEY_RECORDING_HINT waiting in m_tempMap ({} if none)    *)
(*   jpeg          picture format goes through the capture channel         *)
(*   longshot      mLongshotEnabled                                        *)
(*   setup         what a run of the camera does not change: the kinds of  *)
(*                 fault in the stack, longshot (built without VANILLA_HAL)*)
(*                 restart (persist.camera.feature.restart), and video:    *)
(*                 small (live snapshot channel), lowpower, or uhd (4k2k)  *)
(*   live          mLiveSnapshotThread: none, running, or ended unjoined   *)
(*   pproc         post-processor: stopped, started, or started and owing  *)
(*                 the SNAPSHOT_DONE of the picture                        *)
(*   evt_queue     events the state machine thread has not handled yet;    *)
(*                 SNAPSHOT_DONE and LONGSHOT_DONE are the same event, sent*)
(*                 by the callback thread and by CAMERA_CMD_LONGSHOT_OFF   *)
(*   cancels       CANCEL_PICTURE commands of failed live snapshots        *)
(***************************************************************************)
EXTENDS Integers, Sequences, FiniteSets

CONSTANTS
  MaxEvents,   \* bound on evt_queue
  MaxCancels   \* bound on cancels

Channels == {"ZSL", "CAPTURE", "PREVIEW", "VIDEO", "SNAPSHOT", "RAW"}

Ok(h) == [h |-> h, ok |-> TRUE]
Failed(h) == [h |-> h, ok |-> FALSE]

\* A failing outcome, if this kind of fault is considered.
Fault(kind, h) == IF kind \in h.setup.faults THEN {Failed(h)} ELSE {}

\* F after a success, and the clean-up G after a failure.
Then(S, F(_)) == UNION {IF o.ok THEN F(o.h) ELSE {o} : o \in S}
OnFail(S, G(_)) == {IF o.ok THEN o ELSE Failed(G(o.h)) : o \in S}
IgnoreStatus(S, F(_)) == UNION {F(o.h) : o \in S}
Outcomes(S) == {o.h : o \in S}

GoTo(h, s) == [h EXCEPT !.m_state = s]

isPreviewRunning(h) ==
  h.m_state \in {"PREVIEWING", "RECORDING", "VIDEO_PIC_TAKING", "PREVIEW_PIC_TAKING",
                 "PREPARE_SNAPSHOT", "PREVIEW_READY"}
isCaptureRunning(h) ==
  h.m_state \in {"PIC_TAKING", "VIDEO_PIC_TAKING", "PREVIEW_PIC_TAKING"}
-----------------------------------------------------------------------------
\* Channels.  Deleting an active channel stops it first.

delChannel(h, types) ==
  [h EXCEPT !.m_channels = [c \in Channels |-> IF c \in types THEN "null" ELSE @[c]]]

stopChannel(h, c) ==
  [h EXCEPT !.m_channels[c] = IF @ = "null" THEN "null" ELSE "idle"]

\* An old channel of the type goes first; ZSL also replaces PREVIEW.
addChannel(h, c) ==
  LET cleared == delChannel(h, IF c = "ZSL" THEN {"ZSL", "PREVIEW"} ELSE {c}) IN
  {Ok([cleared EXCEPT !.m_channels[c] = "idle"])} \cup Fault("add", cleared)

startChannel(h, c) ==
  IF h.m_channels[c] = "null" THEN {Failed(h)}
  ELSE {Ok([h EXCEPT !.m_channels[c] = "running"])} \cup Fault("start", h)
-----------------------------------------------------------------------------
\* Parameters.  Every batch that reaches the backend (commitSetBatch) also
\* makes all pending mode changes current (commitParamChanges).

commitSetBatch(h) ==
  {Ok([h EXCEPT !.zsl = h.zsl_new, !.hint = h.hint_new,
                !.hint_key = IF h.hint_tmp = {} THEN @ ELSE h.hint_tmp,
                !.hint_tmp = {}])} \cup Fault("commit", h)

\* A parameter string: the keys that matter here, a key that asks for a
\* restart, and a key with an unusable value.
ParamStrings(h) ==
  [zsl : BOOLEAN, hint : BOOLEAN, jpeg : BOOLEAN, size_changed : BOOLEAN,
   bad : {FALSE, "params" \in h.setup.faults}]

\* updateParameters: stores what changed and says if preview must restart.
\* A bad value fails the call but the other keys stay stored.
updateParameters(h, p) ==
  LET hinted == p.hint \notin h.hint_key IN
  [h |-> [h EXCEPT !.zsl_new = p.zsl, !.jpeg = p.jpeg,
                   !.hint_tmp = IF hinted THEN {p.hint} ELSE @,
                   !.hint_new = IF hinted THEN p.hint ELSE @],
   ok |-> ~p.bad,
   needRestart |-> p.zsl # h.zsl_new \/ (hinted /\ p.hint # h.hint) \/ p.size_changed]

updateRecordingHintValue(h, v) == commitSetBatch([h EXCEPT !.hint_new = v])

\* Also run by the thermal notification: sets the fps range or frame skip.
updateThermalLevel(h) == commitSetBatch(h)
-----------------------------------------------------------------------------
\* Picture taking.

\* The post-processor starts; once a picture is on its way the notifier will
\* count it and report the last one, except in longshot mode.
StartPostProc(h) == [h EXCEPT !.pproc = "started"]
Expecting(h) == [h EXCEPT !.pproc = IF h.longshot THEN "started" ELSE "owing"]
StopPostProc(h) == [h EXCEPT !.pproc = "stopped"]

CaptureChannel(h) == IF h.jpeg THEN "CAPTURE" ELSE "RAW"

\* Reset of a picture; which channel it ends is decided by the parameters
\* at this moment.
cancelPicture(h) ==
  IF h.zsl THEN StopPostProc(h)
  ELSE delChannel(StopPostProc(h), {CaptureChannel(h)})

\* ZSL: the frames come from the running ZSL channel.  A failing advanced
\* capture returns with the post-processor started.
takeZslPicture(h) ==
  IF h.m_channels["ZSL"] = "null" THEN {Failed(h)}
  ELSE {Ok(Expecting(h))} \cup Fault("capture", StopPostProc(h))
                          \cup Fault("advanced", StartPostProc(h))

\* Mutant: the preview channel is not given up.
takeChannelPictureOverPreview(h) ==
  Then(addChannel(h, CaptureChannel(h)),
       LAMBDA a : {Ok([Expecting(a) EXCEPT !.m_channels[CaptureChannel(a)] = "running"])})

\* A channel of its own, after the preview channel is gone.  The
\* post-processor is started by a deferred job whose failure is only
\* notified; a failing advanced capture leaves the channel running.
takeChannelPicture(h) ==
  LET c == CaptureChannel(h)
      Run(a) ==
        LET started == [Expecting(a) EXCEPT !.m_channels[c] = "running"] IN
        {Ok(started)}
        \cup (IF "capture" \in h.setup.faults
              THEN IF c = "CAPTURE"
                   THEN {Failed(a), Failed(delChannel(a, {c})),
                         Failed(delChannel(StartPostProc(a), {c})),
                         Ok([started EXCEPT !.pproc = "stopped"])}
                   ELSE {Failed(delChannel(a, {c})), Failed(delChannel(StopPostProc(a), {c}))}
              ELSE {})
        \cup (IF c = "CAPTURE" THEN Fault("advanced", started) ELSE {})
  IN Then(addChannel(delChannel(h, {"PREVIEW"}), c), Run)

takePicture(h) == IF h.zsl THEN takeZslPicture(h) ELSE takeChannelPicture(h)
-----------------------------------------------------------------------------
\* The live snapshot of a recording runs on a thread of its own.

takeLiveSnapshot(h) == {Ok([h EXCEPT !.live = "running"])} \cup Fault("thread", h)

Ended(h) == [h EXCEPT !.live = "ended"]

\* Mutant: a failed live snapshot is only logged.
takeLiveSnapshot_internalSilent(h) ==
  {Ok(Ended(IF h.m_channels["SNAPSHOT"] = "null" THEN h
            ELSE [Expecting(h) EXCEPT !.m_channels["SNAPSHOT"] = "running"]))} \cup Fault("capture", Ended(h))

\* takeLiveSnapshot_internal.  If it fails the thread queues CANCEL_PICTURE
\* and does not wait for the answer.
takeLiveSnapshot_internal(h) ==
  LET c == IF h.setup.video = "lowpower" THEN "VIDEO" ELSE "SNAPSHOT"
      on == Expecting(h)
      CancelQueued(a) == Failed(Ended([a EXCEPT !.cancels = @ + 1]))
  IN IF h.m_channels[c] = "null" THEN {CancelQueued(h)}
     ELSE {Ok(Ended(IF c = "VIDEO" THEN on ELSE [on EXCEPT !.m_channels[c] = "running"]))}
          \cup (IF "capture" \in h.setup.faults
                THEN {CancelQueued(h), CancelQueued(StartPostProc(h))} ELSE {})

\* Joins the thread, that is waits for whatever it still does.
cancelLiveSnapshot(h) ==
  {stopChannel(StopPostProc([j EXCEPT !.live = "none"]), "SNAPSHOT") :
     j \in IF h.live = "running" THEN Outcomes(takeLiveSnapshot_internal(h)) ELSE {h}}
-----------------------------------------------------------------------------
\* Commands.

\* CAMERA_CMD_LONGSHOT_OFF.  A running capture is cancelled and its end is
\* announced by an event.
LongshotOff(h) ==
  LET cancelled == [cancelPicture(h) EXCEPT !.evt_queue = Append(@, "LONGSHOT_DONE")]
      before == IF h.longshot /\ isCaptureRunning(h) THEN cancelled ELSE h
  IN commitSetBatch([before EXCEPT !.longshot = FALSE])

\* CAMERA_CMD_LONGSHOT_ON.
LongshotOn(h) ==
  IF isCaptureRunning(h) THEN {Failed(h)} ELSE commitSetBatch([h EXCEPT !.longshot = TRUE])
-----------------------------------------------------------------------------
\* Preview and recording.

PreviewChannel(h) == IF h.zsl /\ ~h.hint THEN "ZSL" ELSE "PREVIEW"

\* In recording mode longshot is switched off, and the snapshot and video
\* channels are added before the preview channel.
PrepareRecordingChannels(h) ==
  LET off == IF h.longshot THEN Outcomes(LongshotOff(h)) ELSE {h}
      Snapshot(a) == IF a.setup.video = "small" THEN addChannel(a, "SNAPSHOT") ELSE {Ok(a)}
      Video(a) == OnFail(addChannel(a, "VIDEO"), LAMBDA b : delChannel(b, {"SNAPSHOT"}))
      Preview(a) == OnFail(addChannel(a, "PREVIEW"),
                           LAMBDA b : delChannel(b, {"SNAPSHOT", "VIDEO"}))
  IN UNION {Then(Then(Snapshot(a), Video), Preview) : a \in off}

preparePreview(h) ==
  IF h.hint THEN PrepareRecordingChannels(h) ELSE addChannel(h, PreviewChannel(h))

unpreparePreview(h) == delChannel(h, {"ZSL", "PREVIEW", "VIDEO", "SNAPSHOT"})

\* Which channel is started is decided after the thermal level's commit.
startPreview(h) ==
  IgnoreStatus(updateThermalLevel(h), LAMBDA a : startChannel(a, PreviewChannel(a)))

stopPreview(h) == unpreparePreview(h)

\* preparePreview and startPreview, undone when the start fails.
PrepareAndStart(h) ==
  Then(preparePreview(h), LAMBDA a : OnFail(startPreview(a), unpreparePreview))

\* With the hint off, preview is rebuilt in recording mode.  In low power
\* mode the status of linking the metadata stream replaces the status of
\* all that came before; the video channel is used without a NULL check.
startRecording(h) ==
  LET rebuilt ==
        IgnoreStatus(updateRecordingHintValue(stopPreview(h), TRUE),
                     LAMBDA a : Then(preparePreview(a), LAMBDA b : startChannel(b, "PREVIEW")))
      Link(o) ==
        IF o.h.setup.video = "lowpower" /\ o.h.m_channels["PREVIEW"] # "null"
        THEN IF o.h.m_channels["VIDEO"] = "null" THEN {Failed(GoTo(o.h, "CRASHED"))}
             ELSE {Ok(o.h)} \cup Fault("start", o.h)
        ELSE {o}
      linked == UNION {Link(o) : o \in IF h.hint THEN {Ok(h)} ELSE rebuilt}
  IN Then(linked, LAMBDA a : startChannel(a, "VIDEO"))

stopRecording(h) == stopChannel(h, "VIDEO")

release(h) == delChannel(h, Channels)
=============================================================================
