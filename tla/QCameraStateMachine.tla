------------------------ MODULE QCameraStateMachine ------------------------
(***************************************************************************)
(* The state machine of the camera HAL (QCameraStateMachine.cpp): one      *)
(* handler per state, each with one disjunct per command or event that     *)
(* changes the HAL.  Commands that are only answered (queries, message     *)
(* types, refused calls) leave the HAL alone and are not steps here.  API  *)
(* commands are taken before events, so an event waits in evt_queue while  *)
(* commands are handled, however many there are.                           *)
(***************************************************************************)
EXTENDS QCamera2HWI

CONSTANT Setups   \* the setups considered

FaultKinds == {"add", "start", "capture", "advanced", "thread", "commit", "params"}

ASSUME CameraAssumption ==
  /\ Setups \subseteq [faults : SUBSET FaultKinds, longshot : BOOLEAN, restart : BOOLEAN,
                      video : {"small", "lowpower", "uhd"}]
  /\ {MaxEvents, MaxCancels} \subseteq Nat

VARIABLE hal

Init ==
  hal \in [m_state : {"PREVIEW_STOPPED"}, window : {FALSE},
           m_channels : {[c \in Channels |-> "null"]},
           zsl : {TRUE}, zsl_new : {TRUE}, hint : {FALSE}, hint_new : {FALSE},
           hint_key : {{}}, hint_tmp : {{}}, jpeg : {TRUE}, longshot : {FALSE},
           setup : Setups, live : {"none"}, pproc : {"stopped"},
           evt_queue : {<< >>}, cancels : {0}]

\* The step to one of the outcomes, within the bounds of the model.
Becomes(S) ==
  \E h \in S :
    /\ Len(h.evt_queue) <= MaxEvents
    /\ h.cancels <= MaxCancels
    /\ hal' = h
-----------------------------------------------------------------------------
\* SET_PARAMS where a restart is not possible or not done.
CommitIfOk(h, p) ==
  LET u == updateParameters(h, p) IN
  IF u.ok THEN Outcomes(commitSetBatch(u.h)) ELSE {u.h}

\* SET_PARAMS while recording: a change that needs a restart is refused.
RefuseRestart(h, p) ==
  LET u == updateParameters(h, p) IN
  IF u.ok /\ ~u.needRestart THEN Outcomes(commitSetBatch(u.h)) ELSE {u.h}

\* SET_PARAMS while preview runs: it is stopped, the parameters committed,
\* and it is started again; "fallback" is the state if that fails.
RestartWithParams(h, p, fallback) ==
  LET u == updateParameters(h, p)
      restarted == UNION {PrepareAndStart(c) : c \in Outcomes(commitSetBatch(stopPreview(u.h)))}
  IN IF ~u.ok THEN {u.h}
     ELSE IF ~u.needRestart THEN Outcomes(commitSetBatch(u.h))
     ELSE {IF o.ok THEN o.h ELSE GoTo(o.h, fallback) : o \in restarted}

\* A CANCEL_PICTURE: of the application, or of a failed live snapshot.
CancelRequests(h) ==
  {h} \cup (IF h.cancels > 0 THEN {[h EXCEPT !.cancels = @ - 1]} ELSE {})

\* The event at the head of the queue, and the HAL without it.
DoneEvents == {"SNAPSHOT_DONE", "LONGSHOT_DONE"}
IsNext(evts) == hal.evt_queue # << >> /\ Head(hal.evt_queue) \in evts
Taken(h) == [h EXCEPT !.evt_queue = Tail(@)]
-----------------------------------------------------------------------------
\* PREVIEW_STOPPED

Stopped_START_PREVIEW(h) ==
  IF h.window
  THEN {IF o.ok THEN GoTo(o.h, "PREVIEWING") ELSE o.h : o \in PrepareAndStart(h)}
  ELSE {IF o.ok THEN GoTo(o.h, "PREVIEW_READY") ELSE o.h : o \in preparePreview(h)}

Stopped_START_NODISPLAY_PREVIEW(h) ==
  {IF o.ok THEN GoTo(o.h, "PREVIEWING") ELSE o.h : o \in PrepareAndStart(h)}

procEvtPreviewStoppedState ==
  /\ hal.m_state = "PREVIEW_STOPPED"
  /\ \/ \E w \in BOOLEAN : Becomes({[hal EXCEPT !.window = w]})
     \/ \E p \in ParamStrings(hal) : Becomes(CommitIfOk(hal, p))
     \/ Becomes(Stopped_START_PREVIEW(hal))
     \/ Becomes(Stopped_START_NODISPLAY_PREVIEW(hal))
     \/ Becomes({release(hal)})
-----------------------------------------------------------------------------
\* PREVIEW_READY

Ready_SET_PREVIEW_WINDOW(h, w) ==
  LET set == [h EXCEPT !.window = w] IN
  IF w THEN {IF o.ok THEN GoTo(o.h, "PREVIEWING")
             ELSE GoTo(unpreparePreview(o.h), "PREVIEW_STOPPED") : o \in startPreview(set)}
  ELSE {set}

Ready_SET_PARAMS(h, p) ==
  LET u == updateParameters(h, p)
      again == UNION {preparePreview(c) : c \in Outcomes(commitSetBatch(unpreparePreview(u.h)))}
  IN IF ~u.ok THEN {u.h}
     ELSE IF ~u.needRestart THEN Outcomes(commitSetBatch(u.h))
     ELSE {IF o.ok THEN o.h ELSE GoTo(o.h, "PREVIEW_STOPPED") : o \in again}

procEvtPreviewReadyState ==
  /\ hal.m_state = "PREVIEW_READY"
  /\ \/ \E w \in BOOLEAN : Becomes(Ready_SET_PREVIEW_WINDOW(hal, w))
     \/ \E p \in ParamStrings(hal) : Becomes(Ready_SET_PARAMS(hal, p))
     \/ Becomes({GoTo(unpreparePreview(hal), "PREVIEW_STOPPED")})
-----------------------------------------------------------------------------
\* PREVIEWING

Previewing_START_RECORDING(h) ==
  {IF o.ok THEN GoTo(o.h, "RECORDING") ELSE o.h : o \in startRecording(h)}

\* Mutant: the preview is left as it was stopped.
Previewing_TAKE_PICTURE_dark(h) ==
  {IF o.ok THEN o.h ELSE GoTo(o.h, "PREVIEWING") :
     o \in UNION {takePicture(GoTo(a, "PREVIEW_PIC_TAKING")) :
       a \in IF h.hint THEN Outcomes(updateRecordingHintValue(stopPreview(h), FALSE)) ELSE {h}}}

\* In recording mode preview is first rebuilt without it; whether that
\* worked is forgotten when takePicture is called.
Previewing_TAKE_PICTURE(h) ==
  LET ready == IF h.hint
               THEN UNION {Outcomes(PrepareAndStart(a)) :
                             a \in Outcomes(updateRecordingHintValue(stopPreview(h), FALSE))}
               ELSE {h}
      Take(a) == IF a.zsl \/ a.longshot
                 THEN {IF o.ok THEN o.h ELSE GoTo(o.h, "PREVIEWING") :
                         o \in takePicture(GoTo(a, "PREVIEW_PIC_TAKING"))}
                 ELSE {IF o.ok THEN o.h ELSE GoTo(o.h, "PREVIEW_STOPPED") :
                         o \in takePicture(GoTo(a, "PIC_TAKING"))}
  IN UNION {Take(a) : a \in ready}

\* LONGSHOT_ON may need more buffers: preview is restarted, and a failure
\* is reported but does not change the state.
Previewing_LONGSHOT_ON(h) ==
  UNION {IF a.zsl /\ a.m_channels["ZSL"] # "null"
         THEN {a} \cup Outcomes(PrepareAndStart(stopPreview(a)))
         ELSE {a} : a \in Outcomes(LongshotOn(h))}

procEvtPreviewingState ==
  /\ hal.m_state = "PREVIEWING"
  /\ \/ \E p \in ParamStrings(hal) : Becomes(RestartWithParams(hal, p, "PREVIEW_STOPPED"))
     \/ Becomes({GoTo(stopPreview(hal), "PREVIEW_STOPPED")})
     \/ Becomes(Previewing_START_RECORDING(hal))
     \/ Becomes({GoTo(hal, "PREPARE_SNAPSHOT")})
     \/ Becomes(Previewing_TAKE_PICTURE(hal))
     \/ hal.setup.longshot /\ Becomes(Previewing_LONGSHOT_ON(hal))
-----------------------------------------------------------------------------
\* Mutant: the event is taken but the state is not left.
procEvtPrepareSnapshotStateStuck ==
  /\ hal.m_state = "PREPARE_SNAPSHOT"
  /\ IsNext({"PREP_SNAPSHOT_DONE"})
  /\ Becomes({Taken(hal)})

\* PREPARE_SNAPSHOT: every command is refused until the metadata of a frame
\* says that the hardware is ready.
procEvtPrepareSnapshotState ==
  /\ hal.m_state = "PREPARE_SNAPSHOT"
  /\ IsNext({"PREP_SNAPSHOT_DONE"})
  /\ Becomes({GoTo(Taken(hal), "PREVIEWING")})
-----------------------------------------------------------------------------
\* PIC_TAKING

\* After the last picture preview is taken to run again if the property
\* asks for an early restart.
PicTaking_SNAPSHOT_DONE(h) ==
  GoTo(cancelPicture(h), IF h.setup.restart THEN "PREVIEWING" ELSE "PREVIEW_STOPPED")

\* STOP_PREVIEW and CANCEL_PICTURE.
PicTaking_Cancel(h) == GoTo(cancelPicture(h), "PREVIEW_STOPPED")

procEvtPicTakingState ==
  /\ hal.m_state = "PIC_TAKING"
  /\ \/ \E p \in ParamStrings(hal) : Becomes(CommitIfOk(hal, p))
     \/ Becomes({PicTaking_Cancel(c) : c \in CancelRequests(hal)})
     \/ hal.setup.longshot /\ Becomes({GoTo(h, "PREVIEWING") : h \in Outcomes(LongshotOff(hal))})
     \/ IsNext(DoneEvents) /\ Becomes({PicTaking_SNAPSHOT_DONE(Taken(hal))})
-----------------------------------------------------------------------------
\* RECORDING

Recording_STOP_PREVIEW(h) == GoTo(stopPreview(stopRecording(h)), "PREVIEW_STOPPED")

Recording_TAKE_PICTURE(h) ==
  {IF o.ok THEN o.h ELSE GoTo(o.h, "RECORDING") :
     o \in takeLiveSnapshot(GoTo(h, "VIDEO_PIC_TAKING"))}

procEvtRecordingState ==
  /\ hal.m_state = "RECORDING"
  /\ \/ \E p \in ParamStrings(hal) : Becomes(RefuseRestart(hal, p))
     \/ Becomes(Recording_TAKE_PICTURE(hal))
     \/ Becomes({GoTo(stopRecording(hal), "PREVIEWING")})
     \/ Becomes({Recording_STOP_PREVIEW(hal)})
-----------------------------------------------------------------------------
\* VIDEO_PIC_TAKING

\* Mutants: the join, or the stop, is forgotten.
VideoPicTaking_STOP_RECORDING_unjoined(h) == {GoTo(stopRecording(h), "PREVIEWING")}
VideoPicTaking_STOP_RECORDING_running(h) == {GoTo(a, "PREVIEWING") : a \in cancelLiveSnapshot(h)}

VideoPicTaking_STOP_RECORDING(h) ==
  {GoTo(stopRecording(a), "PREVIEWING") : a \in cancelLiveSnapshot(h)}

VideoPicTaking_STOP_PREVIEW(h) == {Recording_STOP_PREVIEW(a) : a \in cancelLiveSnapshot(h)}

\* CANCEL_PICTURE and SNAPSHOT_DONE.
VideoPicTaking_EndPicture(h) == {GoTo(a, "RECORDING") : a \in cancelLiveSnapshot(h)}

procEvtVideoPicTakingState ==
  /\ hal.m_state = "VIDEO_PIC_TAKING"
  /\ \/ \E p \in ParamStrings(hal) : Becomes(RefuseRestart(hal, p))
     \/ Becomes(VideoPicTaking_STOP_RECORDING(hal))
     \/ Becomes(VideoPicTaking_STOP_PREVIEW(hal))
     \/ \E c \in CancelRequests(hal) : Becomes(VideoPicTaking_EndPicture(c))
     \/ IsNext(DoneEvents) /\ Becomes(VideoPicTaking_EndPicture(Taken(hal)))
-----------------------------------------------------------------------------
\* PREVIEW_PIC_TAKING

\* Mutant: a picture that is taken from the preview needs no clean-up.
PreviewPicTaking_CancelNothing(h) == {h}

PreviewPicTaking_Cancel(h) ==
  IF h.zsl \/ h.longshot THEN {cancelPicture(h)} ELSE cancelLiveSnapshot(h)

\* CANCEL_PICTURE and SNAPSHOT_DONE.
PreviewPicTaking_EndPicture(h) ==
  {GoTo(a, "PREVIEWING") : a \in PreviewPicTaking_Cancel(h)}

PreviewPicTaking_STOP_PREVIEW(h) ==
  {GoTo(unpreparePreview(a), "PREVIEW_STOPPED") : a \in PreviewPicTaking_Cancel(h)}

PreviewPicTaking_START_RECORDING(h) ==
  {IF o.ok THEN GoTo(o.h, "VIDEO_PIC_TAKING") ELSE o.h : o \in startRecording(h)}

procEvtPreviewPicTakingState ==
  /\ hal.m_state = "PREVIEW_PIC_TAKING"
  /\ \/ \E p \in ParamStrings(hal) : Becomes(RestartWithParams(hal, p, "PIC_TAKING"))
     \/ \E c \in CancelRequests(hal) : Becomes(PreviewPicTaking_EndPicture(c))
     \/ Becomes(PreviewPicTaking_STOP_PREVIEW(hal))
     \/ ~hal.zsl /\ ~hal.longshot /\ Becomes(PreviewPicTaking_START_RECORDING(hal))
     \/ hal.setup.longshot /\ Becomes({GoTo(h, "PREVIEWING") : h \in Outcomes(LongshotOff(hal))})
     \/ IsNext(DoneEvents) /\ Becomes(PreviewPicTaking_EndPicture(Taken(hal)))
-----------------------------------------------------------------------------
\* Handled alike in several states.

\* SEND_COMMAND outside PREVIEWING and the capture states.
sendCommand ==
  /\ hal.setup.longshot
  /\ \/ /\ hal.m_state \in {"PREVIEW_STOPPED", "PREVIEW_READY", "RECORDING"}
        /\ Becomes(Outcomes(LongshotOn(hal)))
     \/ /\ hal.m_state \in {"PREVIEW_STOPPED", "PREVIEW_READY", "PREVIEWING", "RECORDING",
                            "VIDEO_PIC_TAKING"}
        /\ Becomes(Outcomes(LongshotOff(hal)))

\* THERMAL_NOTIFY, and the face detection commands: one more commit.
thermalEvtHandle ==
  /\ hal.m_state # "CRASHED"
  /\ Becomes(Outcomes(updateThermalLevel(hal)))

\* An event that the state ignores.
IgnoreEvent ==
  /\ \/ ~isCaptureRunning(hal) /\ IsNext(DoneEvents)
     \/ hal.m_state # "PREPARE_SNAPSHOT" /\ IsNext({"PREP_SNAPSHOT_DONE"})
  /\ hal.m_state # "CRASHED"
  /\ Becomes({Taken(hal)})

\* A CANCEL_PICTURE of a live snapshot that finds no picture.
IgnoreCancel ==
  /\ hal.cancels > 0 /\ ~isCaptureRunning(hal) /\ hal.m_state # "CRASHED"
  /\ Becomes({[hal EXCEPT !.cancels = @ - 1]})
-----------------------------------------------------------------------------
\* Other threads.

\* The callback thread has delivered the last picture (cbNotifyRoutine).
\* It waits for the event to be handled, so it never queues two.
SnapshotDone ==
  /\ hal.pproc = "owing"
  /\ \A i \in DOMAIN hal.evt_queue : hal.evt_queue[i] # "SNAPSHOT_DONE"
  /\ Becomes({[hal EXCEPT !.pproc = "started", !.evt_queue = Append(@, "SNAPSHOT_DONE")]})

\* The metadata of a preview frame reports that the hardware is prepared.
PreviewUp == \E c \in {"ZSL", "PREVIEW"} : hal.m_channels[c] = "running"

PrepSnapshotDone ==
  /\ hal.m_state = "PREPARE_SNAPSHOT"
  /\ PreviewUp
  /\ \A i \in DOMAIN hal.evt_queue : hal.evt_queue[i] # "PREP_SNAPSHOT_DONE"
  /\ Becomes({[hal EXCEPT !.evt_queue = Append(@, "PREP_SNAPSHOT_DONE")]})

\* Live_Snapshot_thread.
LiveSnapshotThread ==
  /\ hal.live = "running"
  /\ Becomes(Outcomes(takeLiveSnapshot_internal(hal)))

Next ==
  \/ procEvtPreviewStoppedState
  \/ procEvtPreviewReadyState
  \/ procEvtPreviewingState
  \/ procEvtPrepareSnapshotState
  \/ procEvtPicTakingState
  \/ procEvtRecordingState
  \/ procEvtVideoPicTakingState
  \/ procEvtPreviewPicTakingState
  \/ sendCommand
  \/ thermalEvtHandle
  \/ IgnoreEvent
  \/ IgnoreCancel
  \/ SnapshotDone
  \/ PrepSnapshotDone
  \/ LiveSnapshotThread

Spec == Init /\ [][Next]_hal

\* The threads of the HAL run, and the state machine gets to its queues: the
\* application does not send commands without a pause.  No command of the
\* application is taken to happen.  Frames of a live snapshot arrive because
\* its channel runs as long as the recording does.
LivePictureArrives == hal.live = "ended" /\ SnapshotDone
HandleDone == hal.m_state = "VIDEO_PIC_TAKING" /\ IsNext(DoneEvents)
              /\ Becomes(VideoPicTaking_EndPicture(Taken(hal)))
HandleCancel == hal.m_state = "VIDEO_PIC_TAKING" /\ hal.cancels > 0
                /\ \E c \in CancelRequests(hal) \ {hal} : Becomes(VideoPicTaking_EndPicture(c))

LiveSpec ==
  /\ Spec
  /\ WF_hal(LiveSnapshotThread) /\ WF_hal(LivePictureArrives) /\ WF_hal(PrepSnapshotDone)
  /\ WF_hal(HandleDone) /\ WF_hal(HandleCancel) /\ WF_hal(procEvtPrepareSnapshotState)
  /\ WF_hal(IgnoreEvent) /\ WF_hal(IgnoreCancel)
-----------------------------------------------------------------------------
\* The video channel streams exactly while the state machine says that it
\* records, whatever failed on the way and in whatever order a live snapshot,
\* a preview restart and the commands that end a recording came: no recording
\* goes on unseen and none is reported that does not run.
RecordingMatchesState ==
  hal.m_state # "CRASHED" =>
    (hal.m_channels["VIDEO"] = "running" <=> hal.m_state \in {"RECORDING", "VIDEO_PIC_TAKING"})

\* Where preview is stopped, prepared, or given up for a picture with a
\* channel of its own, no preview or ZSL channel streams, also after a failed
\* restart: the sensor is not left on by a state that refuses STOP_PREVIEW.
\* (A parameter string that is rejected half way may leave ZSL mode under a
\* running ZSL preview, which a picture then does not stop.)
PreviewStopsWithState ==
  {"commit", "params"} \cap hal.setup.faults = {}
  /\ hal.m_state \in {"PREVIEW_STOPPED", "PREVIEW_READY", "PIC_TAKING"}
    => ~PreviewUp

\* Nothing fails, and neither longshot nor the early restart is built in.
Plain == hal.setup.faults = {} /\ ~hal.setup.longshot /\ ~hal.setup.restart

\* The states that stand for a running preview have one (the comments of
\* qcamera_state_enum_t): what rebuilds the preview for another mode, a
\* picture or a recording leaves it running.  (Not so when a channel fails to
\* start in startRecording, nor after LONGSHOT_OFF in PIC_TAKING.)
PreviewRunsInState ==
  Plain /\ hal.m_state \in {"PREVIEWING", "PREPARE_SNAPSHOT", "RECORDING", "VIDEO_PIC_TAKING"}
    => PreviewUp

\* The thread of a live snapshot is joined before the recording state that
\* started it is left, so that a second picture cannot overwrite its handle
\* and it never works on a channel that is gone.
LiveThreadIsJoined == hal.live # "none" => hal.m_state = "VIDEO_PIC_TAKING"

\* When no picture is being taken the post-processor is stopped, so that it
\* neither holds stream buffers nor reports pictures of the past.  (A failing
\* advanced capture leaves it running.)
PostProcEnds == Plain /\ ~isCaptureRunning(hal) => hal.pproc = "stopped"

\* A live snapshot comes to its end by itself: its thread either starts the
\* picture, whose last frame is reported, or queues CANCEL_PICTURE without
\* waiting for it, since the handler of the command joins the thread.
LiveSnapshotEnds == hal.live # "none" ~> hal.live = "none"

\* PREPARE_SNAPSHOT, in which every command is refused, is left.
PrepareEnds == hal.m_state = "PREPARE_SNAPSHOT" ~> hal.m_state # "PREPARE_SNAPSHOT"

\* While a recording runs the HAL stays in recording mode.  SET_PARAMS
\* refuses a change that needs a restart during recording.
RecordingKeepsHint == hal.m_state \in {"RECORDING", "VIDEO_PIC_TAKING"} => hal.hint
=============================================================================
