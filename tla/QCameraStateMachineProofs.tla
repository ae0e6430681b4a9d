--------------------- MODULE QCameraStateMachineProofs ----------------------
(***************************************************************************)
(* Theorems about the camera state machine.  Every operation of the HAL is *)
(* a set of outcomes; a lemma for each says what its outcomes keep and     *)
(* change, and the handlers are then followed state by state.              *)
(***************************************************************************)
EXTENDS QCameraStateMachine, SequenceTheorems, TLAPS

States == {"PREVIEW_STOPPED", "PREVIEW_READY", "PREVIEWING", "PREPARE_SNAPSHOT",
           "PIC_TAKING", "RECORDING", "VIDEO_PIC_TAKING", "PREVIEW_PIC_TAKING", "CRASHED"}

Events == {"SNAPSHOT_DONE", "LONGSHOT_DONE", "PREP_SNAPSHOT_DONE"}

Hal ==
  [m_state : States, window : BOOLEAN,
   m_channels : [Channels -> {"null", "idle", "running"}],
   zsl : BOOLEAN, zsl_new : BOOLEAN, hint : BOOLEAN, hint_new : BOOLEAN,
   hint_key : SUBSET BOOLEAN, hint_tmp : SUBSET BOOLEAN, jpeg : BOOLEAN,
   longshot : BOOLEAN, setup : Setups, live : {"none", "running", "ended"},
   pproc : {"stopped", "started", "owing"}, evt_queue : Seq(Events), cancels : Int]

Result == [h : Hal, ok : BOOLEAN]

(***************************************************************************)
(* What an operation may leave alone.                                      *)
(***************************************************************************)

\* The state, the setup and the thread of the live snapshot.
Base(h, a) == /\ a \in Hal /\ a.m_state = h.m_state
              /\ a.setup = h.setup /\ a.live = h.live

\* The modes in force and the pending ones.
Modes(h, a)   == a.zsl = h.zsl /\ a.hint = h.hint
Pending(h, a) == a.zsl_new = h.zsl_new /\ a.hint_new = h.hint_new

\* The post-processor and longshot.
Picture(h, a) == a.pproc = h.pproc /\ a.longshot = h.longshot

\* The channels of preview and video.
Streams(h, a) == \A c \in {"ZSL", "PREVIEW", "VIDEO"} : a.m_channels[c] = h.m_channels[c]

Kept(h, a) == Base(h, a) /\ Modes(h, a) /\ Pending(h, a) /\ Picture(h, a)
-----------------------------------------------------------------------------
\* Channels that are deleted are gone, and nothing else changes.
LEMMA Deleted ==
  ASSUME NEW h \in Hal, NEW types, NEW a, a = delChannel(h, types)
  PROVE  /\ Kept(h, a) /\ a.jpeg = h.jpeg /\ a.hint_key = h.hint_key
         /\ a.hint_tmp = h.hint_tmp
         /\ \A c \in Channels :
              a.m_channels[c] = IF c \in types THEN "null" ELSE h.m_channels[c]
<1>1. [c \in Channels |-> IF c \in types THEN "null" ELSE h.m_channels[c]]
        \in [Channels -> {"null", "idle", "running"}]
  BY DEF Hal
<1>2. a = [h EXCEPT !.m_channels = [c \in Channels |-> IF c \in types THEN "null" ELSE h.m_channels[c]]]
  BY DEF delChannel, Hal
<1> QED
  BY <1>1, <1>2 DEF Hal, Kept, Base, Modes, Pending, Picture

\* A new channel is idle; it takes the place of one of its type, and a ZSL
\* channel that of the preview channel too.
LEMMA Added ==
  ASSUME NEW h \in Hal, NEW c \in Channels, NEW o \in addChannel(h, c)
  PROVE  /\ o \in Result /\ Kept(h, o.h)
         /\ o.h.m_channels[c] = IF o.ok THEN "idle" ELSE "null"
         /\ \A d \in Channels : d # c =>
              o.h.m_channels[d] =
                IF c = "ZSL" /\ d = "PREVIEW" THEN "null" ELSE h.m_channels[d]
         /\ "add" \notin h.setup.faults => o.ok
<1>1. PICK a : a = delChannel(h, IF c = "ZSL" THEN {"ZSL", "PREVIEW"} ELSE {c})
  OBVIOUS
<1>2. /\ Kept(h, a)
      /\ \A d \in Channels : a.m_channels[d] =
           IF d \in (IF c = "ZSL" THEN {"ZSL", "PREVIEW"} ELSE {c}) THEN "null"
           ELSE h.m_channels[d]
  BY <1>1, Deleted
<1>3. PICK b : b = [a EXCEPT !.m_channels[c] = "idle"]
  OBVIOUS
<1>4. /\ Kept(a, b) /\ b.m_channels[c] = "idle"
      /\ \A d \in Channels : d # c => b.m_channels[d] = a.m_channels[d]
  BY <1>2, <1>3 DEF Hal, Kept, Base, Modes, Pending, Picture
<1>5. \/ o = Ok(b)
      \/ o = Failed(a) /\ "add" \in a.setup.faults
  BY <1>1, <1>3 DEF addChannel, Fault
<1>6. Kept(h, b)
  BY <1>2, <1>4 DEF Kept, Base, Modes, Pending, Picture
<1>7. CASE o = Ok(b)
  BY <1>2, <1>4, <1>6, <1>7 DEF Ok, Result, Kept, Base
<1>8. CASE o = Failed(a) /\ "add" \in a.setup.faults
  BY <1>2, <1>8 DEF Failed, Result, Kept, Base
<1> QED
  BY <1>5, <1>7, <1>8

\* Starting a channel changes that channel, or nothing if it fails.
LEMMA Started ==
  ASSUME NEW h \in Hal, NEW c \in Channels, NEW o \in startChannel(h, c)
  PROVE  /\ o \in Result /\ Kept(h, o.h)
         /\ o.ok => h.m_channels[c] # "null" /\ o.h.m_channels[c] = "running"
         /\ \A d \in Channels : d # c => o.h.m_channels[d] = h.m_channels[d]
         /\ ~o.ok => o.h = h
         /\ "start" \notin h.setup.faults /\ h.m_channels[c] # "null" => o.ok
<1>1. PICK b : b = [h EXCEPT !.m_channels[c] = "running"]
  OBVIOUS
<1>2. /\ Kept(h, b) /\ b.m_channels[c] = "running"
      /\ \A d \in Channels : d # c => b.m_channels[d] = h.m_channels[d]
  BY <1>1 DEF Hal, Kept, Base, Modes, Pending, Picture
<1>3. Kept(h, h)
  BY DEF Kept, Base, Modes, Pending, Picture
<1>4. \/ o = Ok(b) /\ h.m_channels[c] # "null"
      \/ o = Failed(h) /\ (h.m_channels[c] = "null" \/ "start" \in h.setup.faults)
  BY <1>1 DEF startChannel, Fault
<1>5. CASE o = Ok(b) /\ h.m_channels[c] # "null"
  BY <1>2, <1>5 DEF Ok, Result, Kept, Base
<1>6. CASE o = Failed(h) /\ (h.m_channels[c] = "null" \/ "start" \in h.setup.faults)
  BY <1>3, <1>6 DEF Failed, Result
<1> QED
  BY <1>4, <1>5, <1>6

\* A channel that is stopped does not run.
LEMMA Halted ==
  ASSUME NEW h \in Hal, NEW c \in Channels, NEW a, a = stopChannel(h, c)
  PROVE  /\ Kept(h, a) /\ a.m_channels[c] # "running"
         /\ \A d \in Channels : d # c => a.m_channels[d] = h.m_channels[d]
BY DEF stopChannel, Hal, Kept, Base, Modes, Pending, Picture

\* A commit puts the pending modes in force; one that fails changes nothing.
LEMMA Committed ==
  ASSUME NEW h \in Hal, NEW o \in commitSetBatch(h)
  PROVE  /\ o \in Result /\ Base(h, o.h) /\ Pending(h, o.h) /\ Picture(h, o.h)
         /\ o.h.m_channels = h.m_channels
         /\ o.ok => o.h.zsl = h.zsl_new /\ o.h.hint = h.hint_new
         /\ ~o.ok => o.h = h
         /\ "commit" \notin h.setup.faults => o.ok
<1>1. PICK b : b = [h EXCEPT !.zsl = h.zsl_new, !.hint = h.hint_new,
                       !.hint_key = IF h.hint_tmp = {} THEN @ ELSE h.hint_tmp,
                       !.hint_tmp = {}]
  OBVIOUS
<1>2. /\ Base(h, b) /\ Pending(h, b) /\ Picture(h, b) /\ b.m_channels = h.m_channels
      /\ b.zsl = h.zsl_new /\ b.hint = h.hint_new
  BY <1>1 DEF Hal, Base, Pending, Picture
<1>3. o = Ok(b) \/ (o = Failed(h) /\ "commit" \in h.setup.faults)
  BY <1>1 DEF commitSetBatch, Fault
<1>4. CASE o = Ok(b)
  BY <1>2, <1>4 DEF Ok, Result, Base
<1>5. CASE o = Failed(h) /\ "commit" \in h.setup.faults
  BY <1>5 DEF Failed, Result, Base, Pending, Picture
<1> QED
  BY <1>3, <1>4, <1>5

\* The queue of events is not looked at by any of this.
LEMMA Requeued ==
  ASSUME NEW h \in Hal, NEW q \in Seq(Events), NEW a, a = [h EXCEPT !.evt_queue = q]
  PROVE  Kept(h, a) /\ a.m_channels = h.m_channels
BY DEF Hal, Kept, Base, Modes, Pending, Picture

\* An event that is queued changes nothing else.
LEMMA EventQueued ==
  ASSUME NEW h \in Hal, NEW e \in Events, NEW a,
         a = [h EXCEPT !.evt_queue = Append(@, e)]
  PROVE  Kept(h, a) /\ a.m_channels = h.m_channels
<1>1. h.evt_queue \in Seq(Events)
  BY DEF Hal
<1>2. PICK q \in Seq(Events) : q = Append(h.evt_queue, e)
  BY <1>1, AppendProperties, Zenon
<1>3. a = [h EXCEPT !.evt_queue = q]
  BY <1>2
<1> QED
  BY <1>3, Requeued

\* Nor does one that is taken.
LEMMA EventTaken ==
  ASSUME NEW h \in Hal, h.evt_queue # << >>, NEW a, a = Taken(h)
  PROVE  Kept(h, a) /\ a.m_channels = h.m_channels
<1>1. h.evt_queue \in Seq(Events)
  BY DEF Hal
<1>2. PICK q \in Seq(Events) : q = Tail(h.evt_queue)
  BY <1>1, HeadTailProperties, Zenon
<1>3. a = [h EXCEPT !.evt_queue = q]
  BY <1>2 DEF Taken
<1> QED
  BY <1>3, Requeued
-----------------------------------------------------------------------------
\* Cancelling a picture stops the post-processor and touches no stream.
LEMMA PictureCancelled ==
  ASSUME NEW h \in Hal, NEW a, a = cancelPicture(h)
  PROVE  /\ Base(h, a) /\ Modes(h, a) /\ Pending(h, a) /\ Streams(h, a)
         /\ a.pproc = "stopped" /\ a.longshot = h.longshot
<1>1. PICK b : b = StopPostProc(h)
  OBVIOUS
<1>2. /\ Base(h, b) /\ Modes(h, b) /\ Pending(h, b) /\ b.m_channels = h.m_channels
      /\ b.pproc = "stopped" /\ b.longshot = h.longshot
  BY <1>1 DEF StopPostProc, Hal, Base, Modes, Pending
<1>3. CASE h.zsl
  BY <1>1, <1>2, <1>3 DEF cancelPicture, Streams
<1>4. CASE ~h.zsl
  <2>1. a = delChannel(b, {CaptureChannel(h)})
    BY <1>1, <1>4 DEF cancelPicture
  <2>2. /\ Kept(b, a)
        /\ \A c \in Channels :
             a.m_channels[c] = IF c \in {CaptureChannel(h)} THEN "null" ELSE b.m_channels[c]
    BY <1>2, <2>1, Deleted DEF Base
  <2>3. Streams(h, a)
    BY <1>2, <2>2 DEF Streams, CaptureChannel, Channels
  <2> QED
    BY <1>2, <2>2, <2>3 DEF Kept, Base, Modes, Pending, Picture
<1> QED
  BY <1>3, <1>4

\* LONGSHOT_OFF commits, and may cancel a picture.
LEMMA LongshotLeft ==
  ASSUME NEW h \in Hal, NEW o \in LongshotOff(h)
  PROVE  /\ o \in Result /\ Base(h, o.h) /\ Pending(h, o.h) /\ Streams(h, o.h)
         /\ o.h.pproc \in {h.pproc, "stopped"} /\ ~o.h.longshot
         /\ Modes(h, o.h) \/ (o.h.zsl = h.zsl_new /\ o.h.hint = h.hint_new)
<1>1. PICK a : a = IF h.longshot /\ isCaptureRunning(h)
                   THEN [cancelPicture(h) EXCEPT !.evt_queue = Append(@, "LONGSHOT_DONE")]
                   ELSE h
  OBVIOUS
<1>2. /\ Base(h, a) /\ Modes(h, a) /\ Pending(h, a) /\ Streams(h, a)
      /\ a.pproc \in {h.pproc, "stopped"}
  <2>1. CASE ~(h.longshot /\ isCaptureRunning(h))
    BY <1>1, <2>1 DEF Base, Modes, Pending, Streams
  <2>2. CASE h.longshot /\ isCaptureRunning(h)
    <3>1. PICK b : b = cancelPicture(h)
      OBVIOUS
    <3>2. /\ Base(h, b) /\ Modes(h, b) /\ Pending(h, b) /\ Streams(h, b)
          /\ b.pproc = "stopped"
      BY <3>1, PictureCancelled
    <3>3. a = [b EXCEPT !.evt_queue = Append(@, "LONGSHOT_DONE")]
      BY <1>1, <2>2, <3>1
    <3>4. /\ Base(b, a) /\ Modes(b, a) /\ Pending(b, a) /\ a.m_channels = b.m_channels
          /\ a.pproc = b.pproc
      <4>1. b \in Hal /\ "LONGSHOT_DONE" \in Events
        BY <3>2 DEF Base, Events
      <4>2. Kept(b, a) /\ a.m_channels = b.m_channels
        BY <3>3, <4>1, EventQueued, Zenon
      <4> QED
        BY <4>2 DEF Kept, Picture
    <3> QED
      BY <3>2, <3>4 DEF Base, Modes, Pending, Streams
  <2> QED
    BY <2>1, <2>2
<1>3. PICK b : b = [a EXCEPT !.longshot = FALSE]
  OBVIOUS
<1>4. /\ Base(a, b) /\ Modes(a, b) /\ Pending(a, b) /\ b.m_channels = a.m_channels
      /\ b.pproc = a.pproc /\ ~b.longshot
  BY <1>2, <1>3 DEF Base, Hal, Modes, Pending
<1>5. o \in commitSetBatch(b)
  BY <1>1, <1>3 DEF LongshotOff
<1>6. /\ o \in Result /\ Base(b, o.h) /\ Pending(b, o.h) /\ Picture(b, o.h)
      /\ o.h.m_channels = b.m_channels
      /\ o.ok => o.h.zsl = b.zsl_new /\ o.h.hint = b.hint_new
      /\ ~o.ok => o.h = b
  BY <1>4, <1>5, Committed DEF Base
<1>7. Base(h, o.h) /\ Pending(h, o.h) /\ Streams(h, o.h)
  BY <1>2, <1>4, <1>6 DEF Base, Pending, Streams
<1>8. o.h.pproc \in {h.pproc, "stopped"} /\ ~o.h.longshot
  BY <1>2, <1>4, <1>6 DEF Picture
<1>9. Modes(h, o.h) \/ (o.h.zsl = h.zsl_new /\ o.h.hint = h.hint_new)
  BY <1>2, <1>4, <1>6 DEF Modes, Pending, Result
<1> QED
  BY <1>6, <1>7, <1>8, <1>9

\* LONGSHOT_ON commits.
LEMMA LongshotEntered ==
  ASSUME NEW h \in Hal, NEW o \in LongshotOn(h)
  PROVE  /\ o \in Result /\ Base(h, o.h) /\ Pending(h, o.h) /\ Streams(h, o.h)
         /\ o.h.pproc = h.pproc
         /\ Modes(h, o.h) \/ (o.h.zsl = h.zsl_new /\ o.h.hint = h.hint_new)
<1>1. CASE isCaptureRunning(h)
  <2>1. o = Failed(h)
    BY <1>1 DEF LongshotOn
  <2> QED
    BY <2>1 DEF Failed, Result, Base, Modes, Pending, Streams
<1>2. CASE ~isCaptureRunning(h)
  <2>1. PICK b : b = [h EXCEPT !.longshot = TRUE]
    OBVIOUS
  <2>2. /\ Base(h, b) /\ Modes(h, b) /\ Pending(h, b) /\ b.m_channels = h.m_channels
        /\ b.pproc = h.pproc
    BY <2>1 DEF Base, Hal, Modes, Pending
  <2>3. o \in commitSetBatch(b)
    BY <1>2, <2>1 DEF LongshotOn
  <2>4. /\ o \in Result /\ Base(b, o.h) /\ Pending(b, o.h) /\ Picture(b, o.h)
        /\ o.h.m_channels = b.m_channels
        /\ o.ok => o.h.zsl = b.zsl_new /\ o.h.hint = b.hint_new
        /\ ~o.ok => o.h = b
    BY <2>2, <2>3, Committed DEF Base
  <2>5. Modes(h, o.h) \/ (o.h.zsl = h.zsl_new /\ o.h.hint = h.hint_new)
    BY <2>2, <2>4 DEF Modes, Pending, Result
  <2> QED
    BY <2>2, <2>4, <2>5 DEF Base, Pending, Picture, Streams
<1> QED
  BY <1>1, <1>2
-----------------------------------------------------------------------------
\* What taking a picture leaves alone: all but the post-processor and the
\* channels of pictures.
Shot(h, a) == /\ Base(h, a) /\ Modes(h, a) /\ Pending(h, a) /\ Streams(h, a)
              /\ a.longshot = h.longshot /\ a.jpeg = h.jpeg

\* Two such operations are one.
LEMMA ShotOfShot ==
  ASSUME NEW h, NEW a, NEW b, Shot(h, a), Shot(a, b)
  PROVE  Shot(h, b)
BY DEF Shot, Base, Modes, Pending, Streams

\* Doing nothing is one.
LEMMA NoShot == ASSUME NEW h \in Hal PROVE Shot(h, h)
BY DEF Shot, Base, Modes, Pending, Streams

\* Setting the post-processor is one.
LEMMA PostProcSet ==
  ASSUME NEW h \in Hal, NEW x \in {"stopped", "started", "owing"},
         NEW a, a = [h EXCEPT !.pproc = x]
  PROVE  Shot(h, a) /\ a.pproc = x
BY DEF Hal, Shot, Base, Modes, Pending, Streams

\* The post-processor as takePicture uses it.
LEMMA PostProcUsed ==
  ASSUME NEW h \in Hal
  PROVE  /\ Shot(h, StartPostProc(h)) /\ Shot(h, StopPostProc(h)) /\ Shot(h, Expecting(h))
         /\ StopPostProc(h).pproc = "stopped"
BY PostProcSet DEF StartPostProc, StopPostProc, Expecting

\* Setting a channel of pictures is one.
LEMMA PictureChannelSet ==
  ASSUME NEW h \in Hal, NEW c \in {"CAPTURE", "RAW", "SNAPSHOT"},
         NEW x \in {"null", "idle", "running"},
         NEW a, a = [h EXCEPT !.m_channels[c] = x]
  PROVE  Shot(h, a) /\ a.pproc = h.pproc
BY DEF Hal, Shot, Base, Modes, Pending, Streams, Channels

\* Deleting it is one.
LEMMA PictureChannelGone ==
  ASSUME NEW h \in Hal, NEW c \in {"CAPTURE", "RAW", "SNAPSHOT"}
  PROVE  Shot(h, delChannel(h, {c}))
<1>1. PICK a : a = delChannel(h, {c})
  OBVIOUS
<1>2. /\ Kept(h, a) /\ a.jpeg = h.jpeg
      /\ \A d \in Channels : a.m_channels[d] = IF d \in {c} THEN "null" ELSE h.m_channels[d]
  BY <1>1, Deleted
<1>3. Streams(h, a)
  BY <1>2 DEF Streams, Channels
<1> QED
  BY <1>1, <1>2, <1>3 DEF Shot, Kept, Picture

\* takePicture in ZSL mode changes no channel, and needs the ZSL channel.
LEMMA ZslPictureTaken ==
  ASSUME NEW h \in Hal, NEW o \in takeZslPicture(h)
  PROVE  /\ o \in Result /\ Shot(h, o.h)
         /\ o.ok => h.m_channels["ZSL"] # "null"
         /\ h.setup.faults = {} /\ ~o.ok => o.h = h
<1>1. CASE h.m_channels["ZSL"] = "null"
  <2>1. o = Failed(h)
    BY <1>1 DEF takeZslPicture
  <2>2. o.h = h /\ ~o.ok /\ o \in Result
    BY <2>1 DEF Failed, Result
  <2> QED
    BY <2>2, NoShot
<1>2. CASE h.m_channels["ZSL"] # "null"
  <2>1. \/ o = Ok(Expecting(h))
        \/ o = Failed(StopPostProc(h)) /\ "capture" \in StopPostProc(h).setup.faults
        \/ o = Failed(StartPostProc(h)) /\ "advanced" \in StartPostProc(h).setup.faults
    BY <1>2 DEF takeZslPicture, Fault
  <2>2. CASE o = Ok(Expecting(h))
    BY <1>2, <2>2, PostProcUsed DEF Ok, Result, Shot, Base
  <2>3. CASE o = Failed(StopPostProc(h)) /\ "capture" \in StopPostProc(h).setup.faults
    BY <1>2, <2>3, PostProcUsed DEF Failed, Result, Shot, Base
  <2>4. CASE o = Failed(StartPostProc(h)) /\ "advanced" \in StartPostProc(h).setup.faults
    BY <1>2, <2>4, PostProcUsed DEF Failed, Result, Shot, Base
  <2> QED
    BY <2>1, <2>2, <2>3, <2>4
<1> QED
  BY <1>1, <1>2

\* takePicture without it gives up the preview channel.
LEMMA ChannelPictureTaken ==
  ASSUME NEW h \in Hal, NEW o \in takeChannelPicture(h)
  PROVE  /\ o \in Result /\ Base(h, o.h) /\ Modes(h, o.h) /\ Pending(h, o.h)
         /\ o.h.longshot = h.longshot
         /\ o.h.m_channels["PREVIEW"] = "null"
         /\ o.h.m_channels["ZSL"] = h.m_channels["ZSL"]
         /\ o.h.m_channels["VIDEO"] = h.m_channels["VIDEO"]
         /\ h.setup.faults = {} => o.ok
<1>1. PICK c \in {"CAPTURE", "RAW"} : c = CaptureChannel(h)
  BY DEF CaptureChannel
<1>2. PICK d : d = delChannel(h, {"PREVIEW"})
  OBVIOUS
<1>3. /\ Kept(h, d) /\ d \in Hal
      /\ \A x \in Channels : d.m_channels[x] = IF x \in {"PREVIEW"} THEN "null" ELSE h.m_channels[x]
  <2>1. /\ Kept(h, d)
        /\ \A x \in Channels : d.m_channels[x] = IF x \in {"PREVIEW"} THEN "null" ELSE h.m_channels[x]
    BY <1>2, Deleted
  <2> QED
    BY <2>1 DEF Kept, Base
<1> DEFINE On(a) == [Expecting(a) EXCEPT !.m_channels[c] = "running"]
           Run(a) ==
             {Ok(On(a))}
             \cup (IF "capture" \in h.setup.faults
                   THEN IF c = "CAPTURE"
                        THEN {Failed(a), Failed(delChannel(a, {c})),
                              Failed(delChannel(StartPostProc(a), {c})),
                              Ok([On(a) EXCEPT !.pproc = "stopped"])}
                        ELSE {Failed(delChannel(a, {c})), Failed(delChannel(StopPostProc(a), {c}))}
                   ELSE {})
             \cup (IF c = "CAPTURE" THEN Fault("advanced", On(a)) ELSE {})
<1>4. PICK x \in addChannel(d, c) : IF x.ok THEN o \in Run(x.h) ELSE o = x
  BY <1>1, <1>2 DEF takeChannelPicture, Then
<1>5. /\ x \in Result /\ Kept(d, x.h) /\ x.h \in Hal
      /\ \A y \in Channels : y # c => x.h.m_channels[y] = d.m_channels[y]
      /\ "add" \notin d.setup.faults => x.ok
  <2>1. c \in Channels /\ c # "ZSL"
    BY <1>1 DEF Channels
  <2>2. /\ x \in Result /\ Kept(d, x.h)
        /\ \A y \in Channels : y # c =>
             x.h.m_channels[y] = IF c = "ZSL" /\ y = "PREVIEW" THEN "null" ELSE d.m_channels[y]
        /\ "add" \notin d.setup.faults => x.ok
    BY <1>3, <1>4, <2>1, Added
  <2> QED
    BY <2>1, <2>2 DEF Kept, Base
<1>6. /\ Base(h, x.h) /\ Modes(h, x.h) /\ Pending(h, x.h)
      /\ x.h.longshot = h.longshot
      /\ x.h.m_channels["PREVIEW"] = "null"
      /\ x.h.m_channels["ZSL"] = h.m_channels["ZSL"]
      /\ x.h.m_channels["VIDEO"] = h.m_channels["VIDEO"]
      /\ h.setup.faults = {} => x.ok
  <2>1. {"ZSL", "PREVIEW", "VIDEO"} \subseteq Channels /\ c \notin {"ZSL", "PREVIEW", "VIDEO"}
    BY <1>1 DEF Channels
  <2> QED
    BY <1>3, <1>5, <2>1 DEF Kept, Base, Modes, Pending, Picture
<1>7. ASSUME x.ok
      PROVE  o \in Result /\ Shot(x.h, o.h) /\ (h.setup.faults = {} => o.ok)
  <2>1. PICK e : e = Expecting(x.h)
    OBVIOUS
  <2>2. PICK on : on = On(x.h)
    OBVIOUS
  <2>3. Shot(x.h, e) /\ e \in Hal
    BY <1>5, <2>1, PostProcUsed DEF Shot, Base
  <2>4. Shot(e, on)
    BY <1>1, <2>1, <2>2, <2>3, PictureChannelSet
  <2>5. Shot(x.h, on) /\ on \in Hal
    BY <2>3, <2>4, ShotOfShot DEF Shot, Base
  <2>6. Shot(x.h, [on EXCEPT !.pproc = "stopped"])
    BY <2>5, PostProcSet, ShotOfShot
  <2>7. Shot(x.h, delChannel(x.h, {c}))
    BY <1>1, <1>5, PictureChannelGone
  <2>8. ASSUME NEW b, Shot(x.h, b)
        PROVE  Shot(x.h, delChannel(b, {c}))
    <3>1. b \in Hal
      BY <2>8 DEF Shot, Base
    <3> QED
      BY <1>1, <2>8, <3>1, PictureChannelGone, ShotOfShot
  <2>9. /\ Shot(x.h, delChannel(StartPostProc(x.h), {c}))
        /\ Shot(x.h, delChannel(StopPostProc(x.h), {c}))
    BY <1>5, <2>8, PostProcUsed
  <2>10. \/ o = Ok(on)
         \/ o = Failed(x.h) /\ "capture" \in h.setup.faults
         \/ o = Failed(delChannel(x.h, {c})) /\ "capture" \in h.setup.faults
         \/ o = Failed(delChannel(StartPostProc(x.h), {c})) /\ "capture" \in h.setup.faults
         \/ o = Ok([on EXCEPT !.pproc = "stopped"])
         \/ o = Failed(delChannel(StopPostProc(x.h), {c})) /\ "capture" \in h.setup.faults
         \/ o = Failed(on) /\ "advanced" \in on.setup.faults
    BY <1>4, <1>7, <2>2 DEF Fault
  <2>11. on.setup = h.setup
    BY <1>6, <2>5 DEF Shot, Base
  <2> HIDE DEF On, Run
  <2>12. ASSUME NEW b, Shot(x.h, b)
         PROVE  /\ Ok(b) \in Result /\ Ok(b).h = b /\ Ok(b).ok
                /\ Failed(b) \in Result /\ Failed(b).h = b
    BY <2>12 DEF Ok, Failed, Result, Shot, Base
  <2>13. o \in Result /\ Shot(x.h, o.h)
    BY <1>5, <2>5, <2>6, <2>7, <2>9, <2>10, <2>12, NoShot
  <2>14. h.setup.faults = {} => o.ok
    BY <2>5, <2>6, <2>10, <2>11, <2>12
  <2> QED
    BY <2>13, <2>14
<1>8. CASE x.ok
  BY <1>6, <1>7, <1>8 DEF Shot, Base, Modes, Pending, Streams
<1>9. CASE ~x.ok
  BY <1>4, <1>5, <1>6, <1>9
<1> QED
  BY <1>8, <1>9

\* takePicture in both modes.
LEMMA PictureTaken ==
  ASSUME NEW h \in Hal, NEW o \in takePicture(h)
  PROVE  /\ o \in Result /\ Base(h, o.h) /\ Modes(h, o.h) /\ Pending(h, o.h)
         /\ o.h.longshot = h.longshot
         /\ o.h.m_channels["ZSL"] = h.m_channels["ZSL"]
         /\ o.h.m_channels["VIDEO"] = h.m_channels["VIDEO"]
         /\ o.h.m_channels["PREVIEW"] = IF h.zsl THEN h.m_channels["PREVIEW"] ELSE "null"
         /\ h.zsl /\ o.ok => h.m_channels["ZSL"] # "null"
         /\ h.setup.faults = {} /\ ~o.ok => h.zsl /\ o.h = h
<1>1. CASE h.zsl
  <2>1. o \in takeZslPicture(h)
    BY <1>1 DEF takePicture
  <2>2. /\ o \in Result /\ Shot(h, o.h)
        /\ o.ok => h.m_channels["ZSL"] # "null"
        /\ h.setup.faults = {} /\ ~o.ok => o.h = h
    BY <2>1, ZslPictureTaken
  <2> QED
    BY <1>1, <2>2 DEF Shot, Streams
<1>2. CASE ~h.zsl
  <2>1. o \in takeChannelPicture(h)
    BY <1>2 DEF takePicture
  <2> QED
    BY <1>2, <2>1, ChannelPictureTaken
<1> QED
  BY <1>1, <1>2

\* What the thread of a live snapshot and its end leave alone.
LiveShot(h, a) ==
  /\ a \in Hal /\ a.m_state = h.m_state /\ a.setup = h.setup
  /\ Modes(h, a) /\ Pending(h, a) /\ Streams(h, a) /\ a.longshot = h.longshot

\* The thread is created, or not.
LEMMA LiveSnapshotTaken ==
  ASSUME NEW h \in Hal, NEW o \in takeLiveSnapshot(h)
  PROVE  /\ o \in Result /\ LiveShot(h, o.h) /\ o.h.pproc = h.pproc
         /\ ~o.ok => o.h = h
<1>1. PICK a : a = [h EXCEPT !.live = "running"]
  OBVIOUS
<1>2. LiveShot(h, a) /\ a.pproc = h.pproc
  BY <1>1 DEF Hal, LiveShot, Modes, Pending, Streams
<1>3. LiveShot(h, h)
  BY DEF LiveShot, Modes, Pending, Streams
<1>4. o = Ok(a) \/ o = Failed(h)
  BY <1>1 DEF takeLiveSnapshot, Fault
<1>5. CASE o = Ok(a)
  BY <1>2, <1>5 DEF Ok, Result, LiveShot
<1>6. CASE o = Failed(h)
  BY <1>3, <1>6 DEF Failed, Result
<1> QED
  BY <1>4, <1>5, <1>6

\* The work of the thread.
LEMMA LiveThreadWorks ==
  ASSUME NEW h \in Hal, NEW o \in takeLiveSnapshot_internal(h)
  PROVE  LiveShot(h, o.h) /\ o.h.live = "ended"
<1>1. ASSUME NEW a, Shot(h, a), NEW n \in Int,
             NEW b, b = [a EXCEPT !.cancels = n, !.live = "ended"]
      PROVE  LiveShot(h, b) /\ b.live = "ended"
  <2>1. a \in Hal
    BY <1>1 DEF Shot, Base
  <2>2. /\ LiveShot(a, b) /\ b.live = "ended"
    BY <1>1, <2>1 DEF Hal, LiveShot, Modes, Pending, Streams
  <2> QED
    BY <1>1, <2>2 DEF LiveShot, Shot, Base, Modes, Pending, Streams
<1>2. ASSUME NEW a, Shot(h, a)
      PROVE  /\ LiveShot(h, Ended(a)) /\ Ended(a).live = "ended"
             /\ LiveShot(h, Ended([a EXCEPT !.cancels = @ + 1]))
             /\ Ended([a EXCEPT !.cancels = @ + 1]).live = "ended"
  <2>1. a \in Hal /\ a.cancels \in Int /\ a.cancels + 1 \in Int
    BY <1>2 DEF Shot, Base, Hal
  <2>2. PICK b : b = [a EXCEPT !.cancels = a.cancels, !.live = "ended"]
    OBVIOUS
  <2>3. PICK k : k = [a EXCEPT !.cancels = a.cancels + 1, !.live = "ended"]
    OBVIOUS
  <2>4. b = Ended(a)
    BY <2>1, <2>2 DEF Ended, Hal
  <2>5. k = Ended([a EXCEPT !.cancels = @ + 1])
    BY <2>1, <2>3 DEF Ended, Hal
  <2>6. LiveShot(h, b) /\ b.live = "ended" /\ LiveShot(h, k) /\ k.live = "ended"
    BY <1>1, <1>2, <2>1, <2>2, <2>3
  <2> QED
    BY <2>4, <2>5, <2>6
<1>3. /\ Shot(h, h) /\ Shot(h, StartPostProc(h)) /\ Shot(h, Expecting(h))
  BY NoShot, PostProcUsed
<1>4. Shot(h, [Expecting(h) EXCEPT !.m_channels["SNAPSHOT"] = "running"])
  <2>1. Expecting(h) \in Hal
    BY <1>3 DEF Shot, Base
  <2> QED
    BY <1>3, <2>1, PictureChannelSet, ShotOfShot
<1>5. \/ o.h = Ended([h EXCEPT !.cancels = @ + 1])
      \/ o.h = Ended([StartPostProc(h) EXCEPT !.cancels = @ + 1])
      \/ o.h = Ended(Expecting(h))
      \/ o.h = Ended([Expecting(h) EXCEPT !.m_channels["SNAPSHOT"] = "running"])
  BY DEF takeLiveSnapshot_internal, Ok, Failed
<1> QED
  BY <1>2, <1>3, <1>4, <1>5

\* cancelLiveSnapshot joins the thread and stops the post-processor.
LEMMA LiveSnapshotCancelled ==
  ASSUME NEW h \in Hal, NEW a \in cancelLiveSnapshot(h)
  PROVE  LiveShot(h, a) /\ a.live = "none" /\ a.pproc = "stopped"
<1>1. PICK j \in IF h.live = "running" THEN Outcomes(takeLiveSnapshot_internal(h)) ELSE {h} :
        a = stopChannel(StopPostProc([j EXCEPT !.live = "none"]), "SNAPSHOT")
  BY DEF cancelLiveSnapshot
<1>2. LiveShot(h, j) /\ j \in Hal
  <2>1. CASE j = h
    BY <2>1 DEF LiveShot, Modes, Pending, Streams
  <2>2. CASE j \in Outcomes(takeLiveSnapshot_internal(h))
    BY <2>2, LiveThreadWorks DEF Outcomes, LiveShot
  <2> QED
    BY <1>1, <2>1, <2>2
<1>3. PICK k : k = StopPostProc([j EXCEPT !.live = "none"])
  OBVIOUS
<1>4. LiveShot(j, k) /\ k \in Hal /\ k.live = "none" /\ k.pproc = "stopped"
  BY <1>2, <1>3 DEF StopPostProc, Hal, LiveShot, Modes, Pending, Streams
<1>5. a = stopChannel(k, "SNAPSHOT") /\ "SNAPSHOT" \in Channels
  BY <1>1, <1>3 DEF Channels
<1>6. Kept(k, a) /\ \A d \in Channels : d # "SNAPSHOT" => a.m_channels[d] = k.m_channels[d]
  BY <1>4, <1>5, Halted
<1>7. Streams(k, a)
  BY <1>6 DEF Streams, Channels
<1> QED
  BY <1>2, <1>4, <1>6, <1>7 DEF LiveShot, Kept, Base, Modes, Pending, Streams, Picture
-----------------------------------------------------------------------------
(***************************************************************************)
(* Preview and recording.                                                  *)
(***************************************************************************)

\* One more channel c, with which those of some types go if it fails.
AddOutcome(h, c, types, o) ==
  /\ o \in Result /\ Kept(h, o.h)
  /\ o.h.m_channels[c] = IF o.ok THEN "idle" ELSE "null"
  /\ \A d \in Channels : d # c =>
       o.h.m_channels[d] = IF ~o.ok /\ d \in types THEN "null" ELSE h.m_channels[d]
  /\ "add" \notin h.setup.faults => o.ok

\* addChannel for all but ZSL, with nothing to undo.
LEMMA AddedOnly ==
  ASSUME NEW h \in Hal, NEW c \in Channels, c # "ZSL", NEW o \in addChannel(h, c)
  PROVE  AddOutcome(h, c, {}, o)
BY Added DEF AddOutcome

\* addChannel with its clean-up after a failure.
LEMMA AddedOrUndone ==
  ASSUME NEW h \in Hal, NEW c \in Channels, c # "ZSL", NEW types \in SUBSET Channels,
         NEW x \in addChannel(h, c),
         NEW o, o = IF x.ok THEN x ELSE Failed(delChannel(x.h, types))
  PROVE  AddOutcome(h, c, types, o)
<1> USE DEF AddOutcome
<1>1. /\ x \in Result /\ Kept(h, x.h) /\ x.h \in Hal
      /\ x.h.m_channels[c] = IF x.ok THEN "idle" ELSE "null"
      /\ \A d \in Channels : d # c => x.h.m_channels[d] = h.m_channels[d]
      /\ "add" \notin h.setup.faults => x.ok
  BY AddedOnly DEF Result
<1>2. CASE x.ok
  BY <1>1, <1>2
<1>3. CASE ~x.ok
  <2>1. PICK a : a = delChannel(x.h, types)
    OBVIOUS
  <2>2. /\ Kept(x.h, a)
        /\ \A d \in Channels : a.m_channels[d] = IF d \in types THEN "null" ELSE x.h.m_channels[d]
    BY <1>1, <2>1, Deleted
  <2>3. Kept(h, a)
    BY <1>1, <2>2 DEF Kept, Base, Modes, Pending, Picture
  <2>4. o \in Result /\ o.h = a /\ ~o.ok
    BY <1>3, <2>1, <2>3 DEF Failed, Result, Kept, Base
  <2> QED
    BY <1>1, <1>3, <2>2, <2>3, <2>4
<1> QED
  BY <1>2, <1>3

\* The channels of recording mode.
LEMMA RecordingChannelsPrepared ==
  ASSUME NEW h \in Hal, NEW o \in PrepareRecordingChannels(h)
  PROVE  /\ o \in Result /\ Base(h, o.h) /\ Pending(h, o.h)
         /\ o.h.pproc \in {h.pproc, "stopped"} /\ ~o.h.longshot
         /\ Modes(h, o.h) \/ (o.h.zsl = h.zsl_new /\ o.h.hint = h.hint_new)
         /\ ~h.longshot => Modes(h, o.h)
         /\ o.h.m_channels["ZSL"] = h.m_channels["ZSL"]
         /\ o.h.m_channels["PREVIEW"] \in {h.m_channels["PREVIEW"], "idle", "null"}
         /\ o.h.m_channels["VIDEO"] \in {h.m_channels["VIDEO"], "idle", "null"}
         /\ o.ok => o.h.m_channels["PREVIEW"] = "idle" /\ o.h.m_channels["VIDEO"] = "idle"
         /\ "add" \notin h.setup.faults => o.ok
<1> DEFINE off == IF h.longshot THEN Outcomes(LongshotOff(h)) ELSE {h}
           Snapshot(a) == IF a.setup.video = "small" THEN addChannel(a, "SNAPSHOT") ELSE {Ok(a)}
           Video(a) == OnFail(addChannel(a, "VIDEO"), LAMBDA b : delChannel(b, {"SNAPSHOT"}))
           Preview(a) == OnFail(addChannel(a, "PREVIEW"),
                                LAMBDA b : delChannel(b, {"SNAPSHOT", "VIDEO"}))
<1>1. PICK a \in off : o \in Then(Then(Snapshot(a), Video), Preview)
  BY DEF PrepareRecordingChannels
<1>2. /\ a \in Hal /\ Base(h, a) /\ Pending(h, a) /\ Streams(h, a)
      /\ a.pproc \in {h.pproc, "stopped"} /\ ~a.longshot
      /\ Modes(h, a) \/ (a.zsl = h.zsl_new /\ a.hint = h.hint_new)
      /\ ~h.longshot => Modes(h, a)
  <2>1. CASE h.longshot
    <3>1. PICK x \in LongshotOff(h) : a = x.h
      BY <1>1, <2>1 DEF Outcomes
    <3> QED
      BY <2>1, <3>1, LongshotLeft DEF Base
  <2>2. CASE ~h.longshot
    BY <1>1, <2>2 DEF Base, Pending, Streams, Modes
  <2> QED
    BY <2>1, <2>2
<1>3. PICK y \in Then(Snapshot(a), Video) : IF y.ok THEN o \in Preview(y.h) ELSE o = y
  BY <1>1 DEF Then
<1>4. PICK x \in Snapshot(a) : IF x.ok THEN y \in Video(x.h) ELSE y = x
  BY <1>3 DEF Then
<1>5. /\ x \in Result /\ x.h \in Hal /\ Kept(a, x.h) /\ Streams(a, x.h)
      /\ "add" \notin a.setup.faults => x.ok
  <2>1. CASE a.setup.video = "small"
    <3>1. x \in addChannel(a, "SNAPSHOT") /\ "SNAPSHOT" \in Channels
      BY <1>4, <2>1 DEF Channels
    <3>2. AddOutcome(a, "SNAPSHOT", {}, x)
      BY <1>2, <3>1, AddedOnly
    <3>3. Streams(a, x.h)
      BY <3>2 DEF Streams, Channels, AddOutcome
    <3> QED
      BY <3>2, <3>3 DEF Result, AddOutcome
  <2>2. CASE a.setup.video # "small"
    <3>1. x = Ok(a)
      BY <1>4, <2>2
    <3> QED
      BY <1>2, <3>1 DEF Ok, Result, Kept, Base, Modes, Pending, Picture, Streams
  <2> QED
    BY <2>1, <2>2
<1>6. /\ y \in Result /\ y.h \in Hal /\ Kept(x.h, y.h)
      /\ y.h.m_channels["ZSL"] = x.h.m_channels["ZSL"]
      /\ y.h.m_channels["PREVIEW"] = x.h.m_channels["PREVIEW"]
      /\ y.h.m_channels["VIDEO"] \in {x.h.m_channels["VIDEO"], "idle", "null"}
      /\ y.ok => y.h.m_channels["VIDEO"] = "idle"
      /\ x.ok /\ "add" \notin x.h.setup.faults => y.ok
  <2>1. CASE x.ok
    <3>1. y \in Video(x.h) /\ "VIDEO" \in Channels /\ {"SNAPSHOT"} \in SUBSET Channels
      BY <1>4, <2>1 DEF Channels
    <3>2. PICK z \in addChannel(x.h, "VIDEO") :
            y = IF z.ok THEN z ELSE Failed(delChannel(z.h, {"SNAPSHOT"}))
      BY <3>1 DEF OnFail
    <3>3. AddOutcome(x.h, "VIDEO", {"SNAPSHOT"}, y)
      BY <1>5, <3>1, <3>2, AddedOrUndone
    <3> QED
      BY <3>3 DEF Channels, Result, AddOutcome
  <2>2. CASE ~x.ok
    BY <1>4, <1>5, <2>2 DEF Kept, Base, Modes, Pending, Picture
  <2> QED
    BY <2>1, <2>2
<1>7. /\ o \in Result /\ Kept(y.h, o.h)
      /\ o.h.m_channels["ZSL"] = y.h.m_channels["ZSL"]
      /\ o.h.m_channels["PREVIEW"] \in {y.h.m_channels["PREVIEW"], "idle", "null"}
      /\ o.h.m_channels["VIDEO"] \in {y.h.m_channels["VIDEO"], "null"}
      /\ o.ok => y.ok /\ o.h.m_channels["PREVIEW"] = "idle"
                      /\ o.h.m_channels["VIDEO"] = y.h.m_channels["VIDEO"]
      /\ y.ok /\ "add" \notin y.h.setup.faults => o.ok
  <2>1. CASE y.ok
    <3>1. o \in Preview(y.h) /\ "PREVIEW" \in Channels /\ {"SNAPSHOT", "VIDEO"} \in SUBSET Channels
      BY <1>3, <2>1 DEF Channels
    <3>2. PICK z \in addChannel(y.h, "PREVIEW") :
            o = IF z.ok THEN z ELSE Failed(delChannel(z.h, {"SNAPSHOT", "VIDEO"}))
      BY <3>1 DEF OnFail
    <3>3. AddOutcome(y.h, "PREVIEW", {"SNAPSHOT", "VIDEO"}, o)
      BY <1>6, <3>1, <3>2, AddedOrUndone
    <3> QED
      BY <2>1, <3>3 DEF Channels, AddOutcome
  <2>2. CASE ~y.ok
    BY <1>3, <1>6, <2>2 DEF Kept, Base, Modes, Pending, Picture
  <2> QED
    BY <2>1, <2>2
<1> HIDE DEF off, Snapshot, Video, Preview
<1>8. /\ Base(h, o.h) /\ Pending(h, o.h)
      /\ o.h.pproc \in {h.pproc, "stopped"} /\ ~o.h.longshot
  BY <1>2, <1>5, <1>6, <1>7 DEF Kept, Base, Pending, Picture
<1>9. /\ Modes(h, o.h) \/ (o.h.zsl = h.zsl_new /\ o.h.hint = h.hint_new)
      /\ ~h.longshot => Modes(h, o.h)
  BY <1>2, <1>5, <1>6, <1>7 DEF Kept, Modes
<1>10. /\ o.h.m_channels["ZSL"] = h.m_channels["ZSL"]
       /\ o.h.m_channels["PREVIEW"] \in {h.m_channels["PREVIEW"], "idle", "null"}
       /\ o.h.m_channels["VIDEO"] \in {h.m_channels["VIDEO"], "idle", "null"}
       /\ o.ok => o.h.m_channels["PREVIEW"] = "idle" /\ o.h.m_channels["VIDEO"] = "idle"
  BY <1>2, <1>5, <1>6, <1>7 DEF Streams
<1>11. "add" \notin h.setup.faults => o.ok
  BY <1>2, <1>5, <1>6, <1>7 DEF Kept, Base
<1> QED
  BY <1>7, <1>8, <1>9, <1>10, <1>11

\* A preview streams.
Up(h) == \E c \in {"ZSL", "PREVIEW"} : h.m_channels[c] = "running"

\* No preview channel of either kind exists.
Down(h) == \A c \in {"ZSL", "PREVIEW"} : h.m_channels[c] = "null"

\* What preparePreview does to a HAL h; without faults and longshot it
\* succeeds with one idle preview channel, and with the video channel in
\* recording mode.
PrepareOutcome(h, o) ==
  /\ o \in Result /\ Base(h, o.h) /\ Pending(h, o.h)
  /\ o.h.pproc \in {h.pproc, "stopped"} /\ (o.h.longshot => h.longshot)
  /\ Modes(h, o.h) \/ (o.h.zsl = h.zsl_new /\ o.h.hint = h.hint_new)
  /\ \A c \in {"ZSL", "PREVIEW", "VIDEO"} :
       o.h.m_channels[c] \in {h.m_channels[c], "idle", "null"}
  /\ h.setup.faults = {} /\ ~h.longshot =>
       /\ o.ok /\ Modes(h, o.h)
       /\ h.hint => o.h.m_channels["VIDEO"] = "idle"
       /\ Down(h) => IF h.zsl /\ ~h.hint
                     THEN o.h.m_channels["ZSL"] = "idle" /\ o.h.m_channels["PREVIEW"] = "null"
                     ELSE o.h.m_channels["ZSL"] = "null" /\ o.h.m_channels["PREVIEW"] = "idle"

\* preparePreview does no more than that.
LEMMA PreviewPrepared ==
  ASSUME NEW h \in Hal, NEW o \in preparePreview(h)
  PROVE  PrepareOutcome(h, o)
<1>1. CASE h.hint
  <2>1. o \in PrepareRecordingChannels(h)
    BY <1>1 DEF preparePreview
  <2>2. /\ o \in Result /\ Base(h, o.h) /\ Pending(h, o.h)
        /\ o.h.pproc \in {h.pproc, "stopped"} /\ ~o.h.longshot
        /\ Modes(h, o.h) \/ (o.h.zsl = h.zsl_new /\ o.h.hint = h.hint_new)
        /\ ~h.longshot => Modes(h, o.h)
        /\ o.h.m_channels["ZSL"] = h.m_channels["ZSL"]
        /\ o.h.m_channels["PREVIEW"] \in {h.m_channels["PREVIEW"], "idle", "null"}
        /\ o.h.m_channels["VIDEO"] \in {h.m_channels["VIDEO"], "idle", "null"}
        /\ o.ok => o.h.m_channels["PREVIEW"] = "idle" /\ o.h.m_channels["VIDEO"] = "idle"
        /\ "add" \notin h.setup.faults => o.ok
    BY <2>1, RecordingChannelsPrepared
  <2> QED
    BY <1>1, <2>2 DEF PrepareOutcome, Down
<1>2. CASE ~h.hint /\ h.zsl
  <2>1. o \in addChannel(h, "ZSL") /\ "ZSL" \in Channels
    BY <1>2 DEF preparePreview, PreviewChannel, Channels
  <2>2. /\ o \in Result /\ Kept(h, o.h)
        /\ o.h.m_channels["ZSL"] = IF o.ok THEN "idle" ELSE "null"
        /\ \A d \in Channels : d # "ZSL" =>
             o.h.m_channels[d] = IF d = "PREVIEW" THEN "null" ELSE h.m_channels[d]
        /\ "add" \notin h.setup.faults => o.ok
    BY <2>1, Added
  <2>3. o.h.m_channels["PREVIEW"] = "null" /\ o.h.m_channels["VIDEO"] = h.m_channels["VIDEO"]
    BY <2>2 DEF Channels
  <2> QED
    BY <1>2, <2>2, <2>3 DEF PrepareOutcome, Down, Kept, Picture
<1>3. CASE ~h.hint /\ ~h.zsl
  <2>1. o \in addChannel(h, "PREVIEW") /\ "PREVIEW" \in Channels
    BY <1>3 DEF preparePreview, PreviewChannel, Channels
  <2>2. AddOutcome(h, "PREVIEW", {}, o)
    BY <2>1, AddedOnly
  <2>3. /\ o.h.m_channels["ZSL"] = h.m_channels["ZSL"]
        /\ o.h.m_channels["VIDEO"] = h.m_channels["VIDEO"]
    BY <2>2 DEF Channels, AddOutcome
  <2> QED
    BY <1>3, <2>2, <2>3 DEF PrepareOutcome, Down, Kept, Picture, AddOutcome
<1> QED
  BY <1>1, <1>2, <1>3

\* What startPreview does: a commit, then the channel of the modes in force.
StartOutcome(h, o) ==
  /\ o \in Result /\ Base(h, o.h) /\ Pending(h, o.h) /\ Picture(h, o.h)
  /\ Modes(h, o.h) \/ (o.h.zsl = h.zsl_new /\ o.h.hint = h.hint_new)
  /\ "commit" \notin h.setup.faults => o.h.zsl = h.zsl_new /\ o.h.hint = h.hint_new
  /\ \A c \in Channels :
       o.h.m_channels[c] = IF o.ok /\ c = PreviewChannel(o.h) THEN "running" ELSE h.m_channels[c]
  /\ o.ok => h.m_channels[PreviewChannel(o.h)] # "null"
  /\ "start" \notin h.setup.faults /\ h.m_channels[PreviewChannel(o.h)] # "null" => o.ok

\* startPreview does no more than that.
LEMMA PreviewStarted ==
  ASSUME NEW h \in Hal, NEW o \in startPreview(h)
  PROVE  StartOutcome(h, o)
<1>1. PICK x \in commitSetBatch(h) : o \in startChannel(x.h, PreviewChannel(x.h))
  BY DEF startPreview, IgnoreStatus, updateThermalLevel
<1>2. /\ x \in Result /\ Base(h, x.h) /\ Pending(h, x.h) /\ Picture(h, x.h)
      /\ x.h.m_channels = h.m_channels
      /\ x.ok => x.h.zsl = h.zsl_new /\ x.h.hint = h.hint_new
      /\ ~x.ok => x.h = h
      /\ "commit" \notin h.setup.faults => x.ok
  BY Committed
<1>3. PICK c \in Channels : c = PreviewChannel(x.h)
  BY DEF PreviewChannel, Channels
<1>4. x.h \in Hal
  BY <1>2 DEF Base
<1>5. /\ o \in Result /\ Kept(x.h, o.h)
      /\ o.ok => x.h.m_channels[c] # "null" /\ o.h.m_channels[c] = "running"
      /\ \A d \in Channels : d # c => o.h.m_channels[d] = x.h.m_channels[d]
      /\ ~o.ok => o.h = x.h
      /\ "start" \notin x.h.setup.faults /\ x.h.m_channels[c] # "null" => o.ok
  BY <1>1, <1>3, <1>4, Started
<1>6. PreviewChannel(o.h) = c
  BY <1>3, <1>5 DEF PreviewChannel, Kept, Modes
<1>7. Modes(h, o.h) \/ (o.h.zsl = h.zsl_new /\ o.h.hint = h.hint_new)
  BY <1>2, <1>5 DEF Kept, Modes
<1>8. "commit" \notin h.setup.faults => o.h.zsl = h.zsl_new /\ o.h.hint = h.hint_new
  BY <1>2, <1>5 DEF Kept, Modes
<1>9. Base(h, o.h) /\ Pending(h, o.h) /\ Picture(h, o.h)
  BY <1>2, <1>5 DEF Kept, Base, Pending, Picture
<1>10. /\ \A d \in Channels :
            o.h.m_channels[d] = IF o.ok /\ d = c THEN "running" ELSE h.m_channels[d]
       /\ o.ok => h.m_channels[c] # "null"
  BY <1>2, <1>5
<1>11. "start" \notin h.setup.faults /\ h.m_channels[c] # "null" => o.ok
  BY <1>2, <1>5 DEF Base
<1> QED
  BY <1>5, <1>6, <1>7, <1>8, <1>9, <1>10, <1>11 DEF StartOutcome

\* Preview is gone, and with it the channels that go with a recording.
LEMMA PreviewStopped ==
  ASSUME NEW h \in Hal, NEW a, a = stopPreview(h) \/ a = unpreparePreview(h)
  PROVE  /\ Kept(h, a) /\ Down(a) /\ a.m_channels["VIDEO"] = "null"
         /\ a.jpeg = h.jpeg
<1>1. a = delChannel(h, {"ZSL", "PREVIEW", "VIDEO", "SNAPSHOT"})
  BY DEF stopPreview, unpreparePreview
<1>2. /\ Kept(h, a) /\ a.jpeg = h.jpeg
      /\ \A c \in Channels :
           a.m_channels[c] = IF c \in {"ZSL", "PREVIEW", "VIDEO", "SNAPSHOT"} THEN "null"
                             ELSE h.m_channels[c]
  BY <1>1, Deleted
<1> QED
  BY <1>2 DEF Down, Channels

\* What preparing and starting preview does.  A ZSL channel that comes to run
\* does so in the modes that are pending, if no commit fails; a failure
\* leaves no preview that did not run before.
RunOutcome(h, o) ==
  /\ o \in Result /\ Base(h, o.h) /\ Pending(h, o.h)
  /\ o.h.pproc \in {h.pproc, "stopped"} /\ (o.h.longshot => h.longshot)
  /\ h.m_channels["VIDEO"] # "running" => o.h.m_channels["VIDEO"] # "running"
  /\ ~o.ok /\ ~Up(h) => ~Up(o.h)
  /\ "commit" \notin h.setup.faults /\ o.h.m_channels["ZSL"] = "running"
       => h.m_channels["ZSL"] = "running"
          \/ (h.zsl_new /\ ~h.hint_new /\ o.h.zsl /\ ~o.h.hint)
  /\ h.setup.faults = {} /\ ~h.longshot /\ Down(h) =>
       /\ o.ok => Up(o.h) /\ o.h.m_channels["ZSL"] # "idle"
       /\ ~o.ok => Down(o.h)
       /\ h.zsl = h.zsl_new /\ h.hint = h.hint_new =>
            /\ o.ok /\ Modes(h, o.h)
            /\ h.hint => o.h.m_channels["VIDEO"] # "null"

\* PrepareAndStart does no more than that.
LEMMA PreviewPreparedAndStarted ==
  ASSUME NEW h \in Hal, NEW o \in PrepareAndStart(h)
  PROVE  RunOutcome(h, o)
<1>1. PICK x \in preparePreview(h) :
        IF x.ok THEN o \in OnFail(startPreview(x.h), unpreparePreview) ELSE o = x
  BY DEF PrepareAndStart, Then
<1>2. PrepareOutcome(h, x)
  BY PreviewPrepared
<1>3. x \in Result /\ x.h \in Hal
  BY <1>2 DEF PrepareOutcome, Base
<1>4. CASE ~x.ok
  <2>1. o = x
    BY <1>1, <1>4
  <2>2. h.setup.faults = {} => h.longshot
    BY <1>2, <1>4 DEF PrepareOutcome
  <2> QED
    BY <1>2, <1>4, <2>1, <2>2 DEF PrepareOutcome, RunOutcome, Up
<1>5. CASE x.ok
  <2>1. PICK y \in startPreview(x.h) : o = IF y.ok THEN y ELSE Failed(unpreparePreview(y.h))
    BY <1>1, <1>5 DEF OnFail
  <2>2. StartOutcome(x.h, y)
    BY <1>3, <2>1, PreviewStarted
  <2>3. CASE y.ok
    <3>1. o = y /\ PreviewChannel(y.h) \in {"ZSL", "PREVIEW"}
      BY <2>1, <2>3 DEF PreviewChannel
    <3>2. /\ o \in Result /\ Base(h, o.h) /\ Pending(h, o.h)
          /\ o.h.pproc \in {h.pproc, "stopped"} /\ (o.h.longshot => h.longshot)
      BY <1>2, <2>2, <3>1 DEF PrepareOutcome, StartOutcome, Base, Pending, Picture
    <3>3. /\ o.h.m_channels["VIDEO"] = x.h.m_channels["VIDEO"]
          /\ o.h.m_channels["ZSL"] =
               IF PreviewChannel(o.h) = "ZSL" THEN "running" ELSE x.h.m_channels["ZSL"]
          /\ o.h.m_channels["PREVIEW"] =
               IF PreviewChannel(o.h) = "PREVIEW" THEN "running" ELSE x.h.m_channels["PREVIEW"]
          /\ o.ok
          /\ x.h.m_channels[PreviewChannel(o.h)] # "null"
      BY <2>2, <2>3, <3>1 DEF StartOutcome, Channels
    <3>4. "commit" \notin h.setup.faults => o.h.zsl = h.zsl_new /\ o.h.hint = h.hint_new
      BY <1>2, <2>2, <3>1 DEF PrepareOutcome, StartOutcome, Base, Pending
    <3>5. PreviewChannel(o.h) = "ZSL" => o.h.zsl /\ ~o.h.hint
      BY DEF PreviewChannel
    <3>6. /\ h.m_channels["VIDEO"] # "running" => o.h.m_channels["VIDEO"] # "running"
          /\ "commit" \notin h.setup.faults /\ o.h.m_channels["ZSL"] = "running"
               => h.m_channels["ZSL"] = "running"
                  \/ (h.zsl_new /\ ~h.hint_new /\ o.h.zsl /\ ~o.h.hint)
      BY <1>2, <3>3, <3>4, <3>5 DEF PrepareOutcome
    <3>7. ASSUME h.setup.faults = {}, ~h.longshot, Down(h)
          PROVE  Up(o.h) /\ o.h.m_channels["ZSL"] # "idle"
      BY <1>2, <3>1, <3>3, <3>7 DEF PrepareOutcome, Up
    <3>8. ASSUME h.setup.faults = {}, ~h.longshot, h.zsl = h.zsl_new, h.hint = h.hint_new
          PROVE  Modes(h, o.h) /\ (h.hint => o.h.m_channels["VIDEO"] # "null")
      BY <1>2, <3>3, <3>4, <3>8 DEF PrepareOutcome, Modes
    <3> QED
      BY <3>2, <3>3, <3>6, <3>7, <3>8 DEF RunOutcome
  <2>4. CASE ~y.ok
    <3>1. PICK a : a = unpreparePreview(y.h)
      OBVIOUS
    <3>2. y.h \in Hal
      BY <2>2 DEF StartOutcome, Base
    <3>3. Kept(y.h, a) /\ Down(a) /\ a.m_channels["VIDEO"] = "null"
      BY <3>1, <3>2, PreviewStopped
    <3>4. o \in Result /\ o.h = a /\ ~o.ok
      BY <2>1, <2>4, <3>1, <3>3 DEF Failed, Result, Kept, Base
    <3>5. /\ Base(h, o.h) /\ Pending(h, o.h)
          /\ o.h.pproc \in {h.pproc, "stopped"} /\ (o.h.longshot => h.longshot)
      BY <1>2, <2>2, <3>3, <3>4 DEF PrepareOutcome, StartOutcome, Kept, Base, Pending, Picture
    <3>6. ~Up(o.h) /\ o.h.m_channels["VIDEO"] # "running" /\ o.h.m_channels["ZSL"] # "running"
      BY <3>3, <3>4 DEF Down, Up
    <3>7. ~(/\ h.setup.faults = {} /\ ~h.longshot /\ Down(h)
            /\ h.zsl = h.zsl_new /\ h.hint = h.hint_new)
      <4> SUFFICES ASSUME h.setup.faults = {}, ~h.longshot, Down(h),
                          h.zsl = h.zsl_new, h.hint = h.hint_new
                   PROVE  FALSE
        OBVIOUS
      <4>1. x.h.setup = h.setup /\ Modes(h, x.h) /\ Pending(h, x.h)
        BY <1>2 DEF PrepareOutcome, Base
      <4>2. y.h.zsl = h.zsl /\ y.h.hint = h.hint
        BY <2>2, <4>1 DEF StartOutcome, Modes, Pending
      <4>3. PreviewChannel(y.h) = IF h.zsl /\ ~h.hint THEN "ZSL" ELSE "PREVIEW"
        BY <4>2 DEF PreviewChannel
      <4>4. x.h.m_channels[PreviewChannel(y.h)] = "idle"
        BY <1>2, <4>3 DEF PrepareOutcome
      <4> QED
        BY <2>2, <2>4, <4>1, <4>4 DEF StartOutcome
    <3> QED
      BY <3>3, <3>4, <3>5, <3>6, <3>7 DEF RunOutcome
  <2> QED
    BY <2>3, <2>4
<1> QED
  BY <1>4, <1>5

\* Changing the recording hint: a commit with another pending hint.
LEMMA HintUpdated ==
  ASSUME NEW h \in Hal, NEW v \in BOOLEAN, NEW o \in updateRecordingHintValue(h, v)
  PROVE  /\ o \in Result /\ Base(h, o.h) /\ Picture(h, o.h)
         /\ o.h.m_channels = h.m_channels
         /\ o.h.zsl_new = h.zsl_new /\ o.h.hint_new = v
         /\ "commit" \notin h.setup.faults => o.ok /\ o.h.zsl = h.zsl_new /\ o.h.hint = v
<1>1. PICK a : a = [h EXCEPT !.hint_new = v]
  OBVIOUS
<1>2. /\ Base(h, a) /\ Picture(h, a) /\ a.m_channels = h.m_channels
      /\ a.zsl_new = h.zsl_new /\ a.hint_new = v
  BY <1>1 DEF Hal, Base, Picture
<1>3. o \in commitSetBatch(a)
  BY <1>1 DEF updateRecordingHintValue
<1>4. /\ o \in Result /\ Base(a, o.h) /\ Pending(a, o.h) /\ Picture(a, o.h)
      /\ o.h.m_channels = a.m_channels
      /\ o.ok => o.h.zsl = a.zsl_new /\ o.h.hint = a.hint_new
      /\ "commit" \notin a.setup.faults => o.ok
  BY <1>2, <1>3, Committed DEF Base
<1> QED
  BY <1>2, <1>4 DEF Base, Pending, Picture

\* Preview rebuilt in recording mode: the ZSL channel is gone, and without
\* faults and longshot the preview runs beside an idle video channel.
RebuildOutcome(h, r) ==
  /\ r \in Result /\ Base(h, r.h)
  /\ r.h.pproc \in {h.pproc, "stopped"} /\ (r.h.longshot => h.longshot)
  /\ r.h.m_channels["VIDEO"] # "running" /\ r.h.m_channels["ZSL"] # "running"
  /\ h.setup.faults = {} /\ ~h.longshot =>
       /\ r.ok /\ r.h.m_channels["PREVIEW"] = "running"
       /\ r.h.m_channels["VIDEO"] = "idle" /\ r.h.m_channels["ZSL"] = "null"

\* The rebuild of startRecording does no more than that.
LEMMA PreviewRebuilt ==
  ASSUME NEW h \in Hal, NEW u \in updateRecordingHintValue(stopPreview(h), TRUE),
         NEW x \in preparePreview(u.h),
         NEW r, IF x.ok THEN r \in startChannel(x.h, "PREVIEW") ELSE r = x
  PROVE  RebuildOutcome(h, r)
<1>1. PICK s : s = stopPreview(h)
  OBVIOUS
<1>2. Kept(h, s) /\ Down(s) /\ s.m_channels["VIDEO"] = "null" /\ s \in Hal
  BY <1>1, PreviewStopped DEF Kept, Base
<1>3. /\ u \in Result /\ Base(s, u.h) /\ Picture(s, u.h)
      /\ u.h.m_channels = s.m_channels
      /\ "commit" \notin s.setup.faults => u.h.hint = TRUE
  BY <1>1, <1>2, HintUpdated
<1>4. u.h \in Hal /\ Down(u.h) /\ u.h.m_channels["VIDEO"] = "null"
  BY <1>2, <1>3 DEF Base, Down
<1>5. PrepareOutcome(u.h, x)
  BY <1>4, PreviewPrepared
<1>6. /\ x \in Result /\ x.h \in Hal /\ Base(h, x.h)
      /\ x.h.pproc \in {h.pproc, "stopped"} /\ (x.h.longshot => h.longshot)
      /\ x.h.m_channels["VIDEO"] # "running" /\ x.h.m_channels["ZSL"] # "running"
  BY <1>2, <1>3, <1>4, <1>5 DEF PrepareOutcome, Kept, Base, Picture, Down
<1>7. ASSUME h.setup.faults = {}, ~h.longshot
      PROVE  /\ x.ok /\ x.h.m_channels["PREVIEW"] = "idle"
             /\ x.h.m_channels["VIDEO"] = "idle" /\ x.h.m_channels["ZSL"] = "null"
             /\ x.h.setup.faults = {}
  <2>1. u.h.setup.faults = {} /\ ~u.h.longshot /\ u.h.hint
    BY <1>2, <1>3, <1>7 DEF Kept, Base, Picture
  <2> QED
    BY <1>4, <1>5, <2>1 DEF PrepareOutcome, Base
<1>8. CASE ~x.ok
  BY <1>6, <1>7, <1>8 DEF RebuildOutcome
<1>9. CASE x.ok
  <2>1. r \in startChannel(x.h, "PREVIEW") /\ "PREVIEW" \in Channels
    BY <1>9 DEF Channels
  <2>2. /\ r \in Result /\ Kept(x.h, r.h)
        /\ r.ok => x.h.m_channels["PREVIEW"] # "null" /\ r.h.m_channels["PREVIEW"] = "running"
        /\ \A d \in Channels : d # "PREVIEW" => r.h.m_channels[d] = x.h.m_channels[d]
        /\ "start" \notin x.h.setup.faults /\ x.h.m_channels["PREVIEW"] # "null" => r.ok
    BY <1>6, <2>1, Started
  <2>3. /\ r.h.m_channels["VIDEO"] = x.h.m_channels["VIDEO"]
        /\ r.h.m_channels["ZSL"] = x.h.m_channels["ZSL"]
    BY <2>2 DEF Channels
  <2>4. Base(h, r.h) /\ r.h.pproc \in {h.pproc, "stopped"} /\ (r.h.longshot => h.longshot)
    BY <1>6, <2>2 DEF Kept, Base, Picture
  <2> QED
    BY <1>6, <1>7, <2>2, <2>3, <2>4 DEF RebuildOutcome
<1> QED
  BY <1>8, <1>9

\* What startRecording does to a HAL whose video channel does not run: it
\* runs exactly if that succeeded.  A crash is a failure.
RecordOutcome(h, o) ==
  /\ o \in Result /\ o.h.setup = h.setup /\ o.h.live = h.live
  /\ o.h.pproc \in {h.pproc, "stopped"} /\ (o.h.longshot => h.longshot)
  /\ o.h.m_state = h.m_state \/ (o.h.m_state = "CRASHED" /\ ~o.ok)
  /\ o.ok <=> o.h.m_channels["VIDEO"] = "running"
  /\ o.h.m_channels["ZSL"] = "running" => h.hint /\ h.m_channels["ZSL"] = "running"
  /\ h.setup.faults = {} /\ ~h.longshot /\ Up(h) /\ h.m_channels["ZSL"] # "idle" =>
       /\ Up(o.h) /\ o.h.m_channels["ZSL"] # "idle"
       /\ (h.hint => h.m_channels["VIDEO"] # "null") => o.ok

\* startRecording does no more than that.
LEMMA RecordingStarted ==
  ASSUME NEW h \in Hal, h.m_channels["VIDEO"] # "running", NEW o \in startRecording(h)
  PROVE  RecordOutcome(h, o)
<1> DEFINE rebuilt ==
             IgnoreStatus(updateRecordingHintValue(stopPreview(h), TRUE),
                          LAMBDA a : Then(preparePreview(a), LAMBDA b : startChannel(b, "PREVIEW")))
           Link(x) ==
             IF x.h.setup.video = "lowpower" /\ x.h.m_channels["PREVIEW"] # "null"
             THEN IF x.h.m_channels["VIDEO"] = "null" THEN {Failed(GoTo(x.h, "CRASHED"))}
                  ELSE {Ok(x.h)} \cup Fault("start", x.h)
             ELSE {x}
           linked == UNION {Link(x) : x \in IF h.hint THEN {Ok(h)} ELSE rebuilt}
<1>1. PICK l \in linked : IF l.ok THEN o \in startChannel(l.h, "VIDEO") ELSE o = l
  BY DEF startRecording, Then
<1>2. PICK r \in IF h.hint THEN {Ok(h)} ELSE rebuilt : l \in Link(r)
  BY <1>1
\* Before the link.
<1>3. /\ r \in Result /\ Base(h, r.h)
      /\ r.h.pproc \in {h.pproc, "stopped"} /\ (r.h.longshot => h.longshot)
      /\ r.h.m_channels["VIDEO"] # "running"
      /\ r.h.m_channels["ZSL"] = "running" => h.hint /\ h.m_channels["ZSL"] = "running"
      /\ h.setup.faults = {} /\ ~h.longshot /\ Up(h) /\ h.m_channels["ZSL"] # "idle" =>
           /\ r.ok /\ Up(r.h) /\ r.h.m_channels["ZSL"] # "idle"
           /\ (h.hint => h.m_channels["VIDEO"] # "null") => r.h.m_channels["VIDEO"] # "null"
  <2>1. CASE h.hint
    <3>1. r = Ok(h)
      BY <1>2, <2>1, Zenon
    <3>2. r.h = h /\ r.ok /\ r \in Result
      BY <3>1 DEF Ok, Result
    <3> QED
      BY <2>1, <3>2 DEF Base
  <2>2. CASE ~h.hint
    <3>1. PICK u \in updateRecordingHintValue(stopPreview(h), TRUE) :
            r \in Then(preparePreview(u.h), LAMBDA b : startChannel(b, "PREVIEW"))
      BY <1>2, <2>2 DEF IgnoreStatus
    <3>2. PICK x \in preparePreview(u.h) :
            IF x.ok THEN r \in startChannel(x.h, "PREVIEW") ELSE r = x
      BY <3>1 DEF Then
    <3>3. RebuildOutcome(h, r)
      BY <3>1, <3>2, PreviewRebuilt
    <3> QED
      BY <2>2, <3>3 DEF RebuildOutcome, Up
  <2> QED
    BY <2>1, <2>2
\* After it.
<1>4. \/ l = r
      \/ l = Ok(r.h)
      \/ l = Failed(r.h) /\ "start" \in r.h.setup.faults
      \/ l = Failed(GoTo(r.h, "CRASHED")) /\ r.h.m_channels["VIDEO"] = "null"
  BY <1>2 DEF Fault
<1> HIDE DEF rebuilt, Link, linked
<1>5. r.h \in Hal
  BY <1>3 DEF Base
<1>6. PICK g : g = GoTo(r.h, "CRASHED")
  OBVIOUS
<1>7. /\ g \in Hal /\ g.m_channels = r.h.m_channels /\ g.setup = r.h.setup /\ g.live = r.h.live
      /\ g.pproc = r.h.pproc /\ g.longshot = r.h.longshot /\ g.m_state = "CRASHED"
  BY <1>5, <1>6 DEF GoTo, Hal, States
<1>8. /\ l \in Result /\ l.h \in Hal
      /\ l.h.m_channels = r.h.m_channels /\ l.h.setup = h.setup /\ l.h.live = h.live
      /\ l.h.pproc = r.h.pproc /\ l.h.longshot = r.h.longshot
      /\ l.h.m_state = h.m_state \/ (l.h.m_state = "CRASHED" /\ ~l.ok)
      /\ r.ok /\ h.setup.faults = {} /\ r.h.m_channels["VIDEO"] # "null" => l.ok
  <2>1. CASE l = r
    BY <1>3, <1>5, <2>1 DEF Base
  <2>2. CASE l = Ok(r.h)
    BY <1>3, <1>5, <2>2 DEF Base, Ok, Result
  <2>3. CASE l = Failed(r.h) /\ "start" \in r.h.setup.faults
    BY <1>3, <1>5, <2>3 DEF Base, Failed, Result
  <2>4. CASE l = Failed(GoTo(r.h, "CRASHED")) /\ r.h.m_channels["VIDEO"] = "null"
    <3>1. l \in Result /\ l.h = g /\ ~l.ok
      BY <1>6, <1>7, <2>4 DEF Failed, Result
    <3> QED
      BY <1>3, <1>7, <2>4, <3>1 DEF Base
  <2> QED
    BY <1>4, <2>1, <2>2, <2>3, <2>4
<1>9. CASE ~l.ok
  BY <1>1, <1>3, <1>8, <1>9 DEF RecordOutcome, Up
<1>10. CASE l.ok
  <2>1. o \in startChannel(l.h, "VIDEO") /\ "VIDEO" \in Channels
    BY <1>1, <1>10 DEF Channels
  <2>2. /\ o \in Result /\ Kept(l.h, o.h)
        /\ o.ok => l.h.m_channels["VIDEO"] # "null" /\ o.h.m_channels["VIDEO"] = "running"
        /\ \A d \in Channels : d # "VIDEO" => o.h.m_channels[d] = l.h.m_channels[d]
        /\ ~o.ok => o.h = l.h
        /\ "start" \notin l.h.setup.faults /\ l.h.m_channels["VIDEO"] # "null" => o.ok
    BY <1>8, <2>1, Started
  <2>3. /\ o.h.m_channels["PREVIEW"] = l.h.m_channels["PREVIEW"]
        /\ o.h.m_channels["ZSL"] = l.h.m_channels["ZSL"]
    BY <2>2 DEF Channels
  <2>4. /\ o \in Result /\ o.h.setup = h.setup /\ o.h.live = h.live
        /\ o.h.pproc \in {h.pproc, "stopped"} /\ (o.h.longshot => h.longshot)
        /\ o.h.m_state = h.m_state
    BY <1>3, <1>8, <1>10, <2>2 DEF Kept, Base, Picture
  <2>5. o.ok <=> o.h.m_channels["VIDEO"] = "running"
    BY <1>3, <1>8, <2>2
  <2>6. Up(r.h) => Up(o.h)
    BY <1>8, <2>3 DEF Up
  <2> QED
    BY <1>3, <1>8, <2>2, <2>3, <2>4, <2>5, <2>6 DEF RecordOutcome
<1> QED
  BY <1>9, <1>10

\* A parameter string is stored, and fails only where that is considered.
\* One that asks for no restart leaves pending modes that fit the preview.
LEMMA ParametersStored ==
  ASSUME NEW h \in Hal, NEW p \in ParamStrings(h), NEW u, u = updateParameters(h, p)
  PROVE  /\ Base(h, u.h) /\ Modes(h, u.h) /\ Picture(h, u.h)
         /\ u.h.m_channels = h.m_channels /\ u.h.evt_queue = h.evt_queue
         /\ u.ok \in BOOLEAN /\ (~u.ok => "params" \in h.setup.faults)
         /\ ~u.needRestart => u.h.zsl_new = h.zsl_new /\ u.h.hint_new \in {h.hint, h.hint_new}
<1>1. /\ p.zsl \in BOOLEAN /\ p.hint \in BOOLEAN /\ p.jpeg \in BOOLEAN
      /\ p.bad = FALSE \/ p.bad = ("params" \in h.setup.faults)
  BY DEF ParamStrings
<1>2. PICK hinted \in BOOLEAN : hinted = (p.hint \notin h.hint_key)
  OBVIOUS
<1>3. PICK tmp : tmp = IF hinted THEN {p.hint} ELSE h.hint_tmp
  OBVIOUS
<1>4. PICK new : new = IF hinted THEN p.hint ELSE h.hint_new
  OBVIOUS
<1>5. PICK a : a = [h EXCEPT !.zsl_new = p.zsl, !.jpeg = p.jpeg, !.hint_tmp = tmp,
                             !.hint_new = new]
  OBVIOUS
<1>6. /\ u.h = a /\ u.ok = ~p.bad
      /\ u.needRestart <=> p.zsl # h.zsl_new \/ (hinted /\ p.hint # h.hint) \/ p.size_changed
  BY <1>2, <1>3, <1>4, <1>5 DEF updateParameters
<1>7. tmp \in SUBSET BOOLEAN /\ new \in BOOLEAN
  BY <1>1, <1>3, <1>4 DEF Hal
<1>8. /\ Base(h, a) /\ Modes(h, a) /\ Picture(h, a) /\ a.m_channels = h.m_channels
      /\ a.evt_queue = h.evt_queue /\ a.zsl_new = p.zsl /\ a.hint_new = new
  BY <1>1, <1>5, <1>7 DEF Hal, Base, Modes, Picture
<1>9. u.ok \in BOOLEAN /\ (~u.ok => "params" \in h.setup.faults)
  BY <1>1, <1>6
<1>10. ~u.needRestart => u.h.zsl_new = h.zsl_new /\ u.h.hint_new \in {h.hint, h.hint_new}
  BY <1>4, <1>6, <1>8
<1> QED
  BY <1>6, <1>8, <1>9, <1>10

\* The state machine goes to another state.
Moved(h, s, a) ==
  /\ a \in Hal /\ a.m_state = s /\ a.setup = h.setup /\ a.live = h.live
  /\ Modes(h, a) /\ Pending(h, a) /\ Picture(h, a) /\ a.m_channels = h.m_channels

\* GoTo does no more than that.
LEMMA StateEntered ==
  ASSUME NEW h \in Hal, NEW s \in States, NEW a, a = GoTo(h, s)
  PROVE  Moved(h, s, a)
BY DEF GoTo, Hal, Moved, Modes, Pending, Picture
-----------------------------------------------------------------------------
(***************************************************************************)
(* The inductive invariant, of a HAL h.  That the video channel runs in    *)
(* the recording states and that a live snapshot has one needs no more     *)
(* than itself.  That preview has stopped where the state says so needs    *)
(* the modes under which a ZSL channel runs, since a picture decides by    *)
(* them what it gives up.  That preview runs where the state says so, and  *)
(* that the post-processor has stopped, needs which preview channels can   *)
(* exist at all, and that a recording started from PREVIEW_PIC_TAKING      *)
(* finds its video channel.                                                *)
(***************************************************************************)
Recorded(h) ==
  h.m_state # "CRASHED" =>
    (h.m_channels["VIDEO"] = "running" <=> h.m_state \in {"RECORDING", "VIDEO_PIC_TAKING"})

Joined(h) == h.live # "none" => h.m_state = "VIDEO_PIC_TAKING"

Committing(h) == {"commit", "params"} \cap h.setup.faults = {}

StopsWithState(h) ==
  h.m_state \in {"PREVIEW_STOPPED", "PREVIEW_READY", "PIC_TAKING"} => ~Up(h)

ZslInMode(h) ==
  h.m_channels["ZSL"] = "running" =>
    /\ h.m_state \in {"PREVIEWING", "PREPARE_SNAPSHOT", "PREVIEW_PIC_TAKING"}
    /\ h.zsl /\ h.zsl_new /\ ~h.hint /\ ~h.hint_new

IsPlain(h) == h.setup.faults = {} /\ ~h.setup.longshot /\ ~h.setup.restart

PlainInv(h) ==
  /\ ~h.longshot
  /\ h.m_state \in {"PREVIEW_STOPPED", "PIC_TAKING"} => Down(h)
  /\ h.m_state = "PREVIEW_READY" => \E c \in {"ZSL", "PREVIEW"} : h.m_channels[c] = "null"
  /\ h.m_state # "PREVIEW_READY" => h.m_channels["ZSL"] # "idle"
  /\ h.m_state \in {"PREVIEWING", "PREPARE_SNAPSHOT", "RECORDING", "VIDEO_PIC_TAKING",
                    "PREVIEW_PIC_TAKING"} => Up(h)
  /\ h.m_state = "PREVIEW_PIC_TAKING" =>
       h.hint = h.hint_new /\ (h.hint => h.m_channels["VIDEO"] # "null")
  /\ ~isCaptureRunning(h) => h.pproc = "stopped"

Safe(h) ==
  /\ h \in Hal /\ Recorded(h) /\ Joined(h)
  /\ Committing(h) => StopsWithState(h) /\ ZslInMode(h)
  /\ IsPlain(h) => PlainInv(h)

\* What a commit, a query or an event that is only taken may do.
Carried(h, a) ==
  /\ Base(h, a) /\ Pending(h, a) /\ Streams(h, a)
  /\ Modes(h, a) \/ (a.zsl = h.zsl_new /\ a.hint = h.hint_new)
  /\ a.pproc \in {h.pproc, "stopped"}
  /\ a.longshot => h.longshot \/ h.setup.longshot

\* Such an operation keeps the invariant.
LEMMA SafeCarried ==
  ASSUME NEW h, NEW a, Safe(h), Carried(h, a)
  PROVE  Safe(a)
<1>1. /\ a \in Hal /\ a.m_state = h.m_state /\ a.setup = h.setup /\ a.live = h.live
      /\ a.m_channels["ZSL"] = h.m_channels["ZSL"]
      /\ a.m_channels["PREVIEW"] = h.m_channels["PREVIEW"]
      /\ a.m_channels["VIDEO"] = h.m_channels["VIDEO"]
  BY DEF Carried, Base, Streams
<1>2. Recorded(a) /\ Joined(a)
  BY <1>1 DEF Safe, Recorded, Joined
<1>3. (Up(a) <=> Up(h)) /\ (Down(a) <=> Down(h))
  BY <1>1 DEF Up, Down
<1>4. Committing(a) => StopsWithState(a) /\ ZslInMode(a)
  BY <1>1, <1>3 DEF Safe, Carried, Committing, StopsWithState, ZslInMode, Modes, Pending
<1>5. ASSUME IsPlain(a)
      PROVE  PlainInv(a)
  <2>1. PlainInv(h)
    BY <1>1, <1>5 DEF Safe, IsPlain
  <2>2. /\ ~a.longshot
        /\ ~isCaptureRunning(a) => a.pproc = "stopped"
    BY <1>1, <1>5, <2>1 DEF Carried, IsPlain, PlainInv, isCaptureRunning
  <2>3. /\ a.m_state \in {"PREVIEW_STOPPED", "PIC_TAKING"} => Down(a)
        /\ a.m_state = "PREVIEW_READY" => \E c \in {"ZSL", "PREVIEW"} : a.m_channels[c] = "null"
        /\ a.m_state # "PREVIEW_READY" => a.m_channels["ZSL"] # "idle"
        /\ a.m_state \in {"PREVIEWING", "PREPARE_SNAPSHOT", "RECORDING", "VIDEO_PIC_TAKING",
                          "PREVIEW_PIC_TAKING"} => Up(a)
    BY <1>1, <1>3, <2>1 DEF PlainInv
  <2>4. a.m_state = "PREVIEW_PIC_TAKING" =>
          a.hint = a.hint_new /\ (a.hint => a.m_channels["VIDEO"] # "null")
    BY <1>1, <2>1 DEF Carried, PlainInv, Modes, Pending
  <2> QED
    BY <2>2, <2>3, <2>4 DEF PlainInv
<1> QED
  BY <1>1, <1>2, <1>4, <1>5 DEF Safe

\* A commit is such an operation.
LEMMA CommitCarries ==
  ASSUME NEW h \in Hal, NEW o \in commitSetBatch(h)
  PROVE  Carried(h, o.h)
<1>1. /\ o \in Result /\ Base(h, o.h) /\ Pending(h, o.h) /\ Picture(h, o.h)
      /\ o.h.m_channels = h.m_channels
      /\ o.ok => o.h.zsl = h.zsl_new /\ o.h.hint = h.hint_new
      /\ ~o.ok => o.h = h
  BY Committed
<1> QED
  BY <1>1 DEF Carried, Streams, Modes, Picture, Result

\* So is anything that touches neither streams nor modes.
LEMMA KeptCarries ==
  ASSUME NEW h, NEW a, Kept(h, a), Streams(h, a)
  PROVE  Carried(h, a)
BY DEF Kept, Carried, Picture

\* A commit keeps the invariant, whether it succeeds or not.
LEMMA SafeCommitted ==
  ASSUME NEW h, Safe(h), NEW a \in Outcomes(commitSetBatch(h))
  PROVE  Safe(a)
<1>1. PICK o \in commitSetBatch(h) : a = o.h
  BY DEF Outcomes
<1>2. h \in Hal
  BY DEF Safe
<1> QED
  BY <1>1, <1>2, CommitCarries, SafeCarried

\* Storing parameters does too, where no preview runs in ZSL mode or where no
\* restart is asked for; a string that fails is one of those considered.
LEMMA SafeStored ==
  ASSUME NEW h, Safe(h), NEW p \in ParamStrings(h), NEW u, u = updateParameters(h, p),
         \/ h.m_state \in {"PREVIEW_STOPPED", "PREVIEW_READY", "PIC_TAKING", "RECORDING",
                           "VIDEO_PIC_TAKING"}
         \/ ~u.needRestart
         \/ ~u.ok
  PROVE  Safe(u.h)
<1>1. h \in Hal
  BY DEF Safe
<1>2. /\ Base(h, u.h) /\ Modes(h, u.h) /\ Picture(h, u.h)
      /\ u.h.m_channels = h.m_channels
      /\ ~u.ok => "params" \in h.setup.faults
      /\ ~u.needRestart => u.h.zsl_new = h.zsl_new /\ u.h.hint_new \in {h.hint, h.hint_new}
  BY <1>1, ParametersStored
<1>3. PICK a : a = u.h
  OBVIOUS
<1>4. /\ a \in Hal /\ a.m_state = h.m_state /\ a.setup = h.setup /\ a.live = h.live
      /\ a.m_channels = h.m_channels
      /\ (Up(a) <=> Up(h)) /\ (Down(a) <=> Down(h))
      /\ a.zsl = h.zsl /\ a.hint = h.hint /\ a.pproc = h.pproc /\ a.longshot = h.longshot
  BY <1>2, <1>3 DEF Base, Up, Down, Modes, Picture
<1>5. Recorded(a) /\ Joined(a)
  BY <1>4 DEF Safe, Recorded, Joined
<1>6. Committing(h) => \/ h.m_state \in {"PREVIEW_STOPPED", "PREVIEW_READY", "PIC_TAKING",
                                          "RECORDING", "VIDEO_PIC_TAKING"}
                       \/ a.zsl_new = h.zsl_new /\ a.hint_new \in {h.hint, h.hint_new}
  BY <1>2, <1>3 DEF Committing
<1>7. Committing(a) => StopsWithState(a) /\ ZslInMode(a)
  <2> SUFFICES ASSUME Committing(a)
               PROVE  StopsWithState(a) /\ ZslInMode(a)
    OBVIOUS
  <2>1. Committing(h) /\ StopsWithState(h) /\ ZslInMode(h)
    BY <1>4 DEF Committing, Safe
  <2>2. StopsWithState(a)
    BY <1>4, <2>1 DEF StopsWithState
  <2>3. ZslInMode(a)
    BY <1>4, <1>6, <2>1 DEF StopsWithState, ZslInMode, Up
  <2> QED
    BY <2>2, <2>3
<1>8. IsPlain(a) => PlainInv(a)
  <2> SUFFICES ASSUME IsPlain(a)
               PROVE  PlainInv(a)
    OBVIOUS
  <2>1. Committing(h) /\ PlainInv(h)
    BY <1>4 DEF Safe, IsPlain, Committing
  <2> QED
    BY <1>4, <1>6, <2>1 DEF PlainInv, isCaptureRunning
<1> QED
  BY <1>3, <1>4, <1>5, <1>7, <1>8 DEF Safe

\* SET_PARAMS in the states that do not restart preview.
LEMMA SafeSetParams ==
  ASSUME NEW h, Safe(h), NEW p \in ParamStrings(h),
         h.m_state \in {"PREVIEW_STOPPED", "PREVIEW_READY", "PIC_TAKING", "RECORDING",
                        "VIDEO_PIC_TAKING"},
         NEW a \in CommitIfOk(h, p) \cup RefuseRestart(h, p)
  PROVE  Safe(a)
<1>1. PICK u : u = updateParameters(h, p)
  OBVIOUS
<1>2. Safe(u.h)
  BY <1>1, SafeStored
<1>3. a = u.h \/ a \in Outcomes(commitSetBatch(u.h))
  BY <1>1 DEF CommitIfOk, RefuseRestart
<1> QED
  BY <1>2, <1>3, SafeCommitted

(***************************************************************************)
(* PREVIEW_STOPPED.                                                        *)
(***************************************************************************)

\* A HAL without preview is safe in PREVIEW_STOPPED.
LEMMA SafeStopped ==
  ASSUME NEW a \in Hal, a.m_state = "PREVIEW_STOPPED", a.live = "none",
         a.m_channels["VIDEO"] # "running",
         Committing(a) => ~Up(a),
         IsPlain(a) => Down(a) /\ ~a.longshot /\ a.pproc = "stopped"
  PROVE  Safe(a)
<1>1. Recorded(a) /\ Joined(a)
  BY DEF Recorded, Joined
<1>2. Committing(a) => StopsWithState(a) /\ ZslInMode(a)
  BY DEF StopsWithState, ZslInMode, Up
<1>3. IsPlain(a) => PlainInv(a)
  BY DEF PlainInv, Down
<1> QED
  BY <1>1, <1>2, <1>3 DEF Safe

\* A preview that is prepared and started is safe in PREVIEWING.
LEMMA SafeRun ==
  ASSUME NEW h \in Hal, NEW o, RunOutcome(h, o), o.ok,
         h.live = "none", h.m_channels["VIDEO"] # "running",
         Committing(h) => h.m_channels["ZSL"] # "running",
         IsPlain(h) => Down(h) /\ ~h.longshot,
         NEW s \in {"PREVIEWING", "PREVIEW_PIC_TAKING"},
         s = "PREVIEWING" => (IsPlain(h) => h.pproc = "stopped"),
         s = "PREVIEW_PIC_TAKING" =>
           (IsPlain(h) => h.zsl = h.zsl_new /\ h.hint = h.hint_new),
         NEW a, Moved(o.h, s, a)
  PROVE  Safe(a)
<1>1. /\ a \in Hal /\ a.m_state = s /\ a.setup = h.setup /\ a.live = h.live
      /\ a.m_channels = o.h.m_channels
      /\ Up(a) <=> Up(o.h)
      /\ a.zsl = o.h.zsl /\ a.hint = o.h.hint
      /\ a.zsl_new = h.zsl_new /\ a.hint_new = h.hint_new
      /\ a.pproc \in {h.pproc, "stopped"} /\ (a.longshot => h.longshot)
  BY DEF Moved, Modes, Pending, Picture, RunOutcome, Base, Up
<1>2. Recorded(a) /\ Joined(a)
  BY <1>1 DEF Recorded, Joined, RunOutcome
<1>3. ASSUME Committing(a)
      PROVE  StopsWithState(a) /\ ZslInMode(a)
  <2>1. Committing(h) /\ "commit" \notin h.setup.faults
    BY <1>1, <1>3 DEF Committing
  <2> QED
    BY <1>1, <2>1 DEF StopsWithState, ZslInMode, RunOutcome
<1>4. ASSUME IsPlain(a)
      PROVE  PlainInv(a)
  <2>1. IsPlain(h) /\ h.setup.faults = {}
    BY <1>1, <1>4 DEF IsPlain
  <2>2. Up(a) /\ a.m_channels["ZSL"] # "idle" /\ ~a.longshot
    BY <1>1, <2>1 DEF RunOutcome
  <2>3. s = "PREVIEWING" => a.pproc = "stopped"
    BY <1>1, <2>1
  <2>4. s = "PREVIEW_PIC_TAKING" =>
          a.hint = a.hint_new /\ (a.hint => a.m_channels["VIDEO"] # "null")
    BY <1>1, <2>1 DEF RunOutcome, Modes
  <2> QED
    BY <1>1, <2>2, <2>3, <2>4 DEF PlainInv, isCaptureRunning
<1> QED
  BY <1>1, <1>2, <1>3, <1>4 DEF Safe

\* What the invariant says of a HAL in PREVIEW_STOPPED.
LEMMA InStopped ==
  ASSUME NEW h, Safe(h), h.m_state = "PREVIEW_STOPPED"
  PROVE  /\ h \in Hal /\ h.live = "none" /\ h.m_channels["VIDEO"] # "running"
         /\ Committing(h) => ~Up(h) /\ h.m_channels["ZSL"] # "running"
         /\ IsPlain(h) => Down(h) /\ ~h.longshot /\ h.pproc = "stopped"
BY DEF Safe, Recorded, Joined, StopsWithState, PlainInv, isCaptureRunning, Up

\* START_PREVIEW and START_NODISPLAY_PREVIEW that start at once.
LEMMA SafeStartAtOnce ==
  ASSUME NEW h, Safe(h), h.m_state = "PREVIEW_STOPPED",
         NEW o \in PrepareAndStart(h),
         NEW a, a = IF o.ok THEN GoTo(o.h, "PREVIEWING") ELSE o.h
  PROVE  Safe(a)
<1>1. /\ h \in Hal /\ h.live = "none" /\ h.m_channels["VIDEO"] # "running"
      /\ Committing(h) => ~Up(h) /\ h.m_channels["ZSL"] # "running"
      /\ IsPlain(h) => Down(h) /\ ~h.longshot /\ h.pproc = "stopped"
  BY InStopped
<1>2. RunOutcome(h, o) /\ o.h \in Hal
  <2>1. RunOutcome(h, o)
    BY <1>1, PreviewPreparedAndStarted
  <2> QED
    BY <2>1 DEF RunOutcome, Base
<1>3. CASE o.ok
  <2>1. Moved(o.h, "PREVIEWING", a)
    BY <1>2, <1>3, StateEntered DEF States
  <2> QED
    BY <1>1, <1>2, <1>3, <2>1, SafeRun
<1>4. CASE ~o.ok
  <2>1. /\ a = o.h /\ a.m_state = "PREVIEW_STOPPED" /\ a.live = "none" /\ a.setup = h.setup
        /\ a.m_channels["VIDEO"] # "running" /\ (~Up(h) => ~Up(a))
        /\ h.setup.faults = {} /\ ~h.longshot /\ Down(h) => Down(a)
        /\ a.pproc \in {h.pproc, "stopped"} /\ (a.longshot => h.longshot)
    BY <1>1, <1>2, <1>4 DEF RunOutcome, Base
  <2>2. /\ Committing(a) => ~Up(a)
        /\ IsPlain(a) => Down(a) /\ ~a.longshot /\ a.pproc = "stopped"
    BY <1>1, <2>1 DEF Committing, IsPlain
  <2> QED
    BY <1>2, <2>1, <2>2, SafeStopped
<1> QED
  BY <1>3, <1>4

\* A HAL whose preview is prepared is safe in PREVIEW_READY.
LEMMA SafeReady ==
  ASSUME NEW a \in Hal, a.m_state = "PREVIEW_READY", a.live = "none",
         a.m_channels["VIDEO"] # "running",
         Committing(a) => ~Up(a),
         IsPlain(a) => /\ ~a.longshot /\ a.pproc = "stopped"
                       /\ a.m_channels["ZSL"] = "null" \/ a.m_channels["PREVIEW"] = "null"
  PROVE  Safe(a)
<1>1. Recorded(a) /\ Joined(a)
  BY DEF Recorded, Joined
<1>2. Committing(a) => StopsWithState(a) /\ ZslInMode(a)
  BY DEF StopsWithState, ZslInMode, Up
<1>3. IsPlain(a) => PlainInv(a)
  BY DEF PlainInv
<1> QED
  BY <1>1, <1>2, <1>3 DEF Safe

\* Preparing preview leads to PREVIEW_READY, and to PREVIEW_STOPPED if it
\* fails.
LEMMA SafePrepared ==
  ASSUME NEW h \in Hal, h.live = "none", h.m_channels["VIDEO"] # "running",
         Committing(h) => ~Up(h),
         IsPlain(h) => Down(h) /\ ~h.longshot /\ h.pproc = "stopped",
         NEW o, PrepareOutcome(h, o),
         NEW a, IF o.ok THEN Moved(o.h, "PREVIEW_READY", a) ELSE Moved(o.h, "PREVIEW_STOPPED", a)
  PROVE  Safe(a)
<1>1. /\ a \in Hal /\ a.m_state = IF o.ok THEN "PREVIEW_READY" ELSE "PREVIEW_STOPPED"
      /\ a.setup = h.setup /\ a.live = "none"
      /\ a.m_channels = o.h.m_channels
      /\ a.pproc \in {h.pproc, "stopped"} /\ (a.longshot => h.longshot)
  BY DEF Moved, Picture, PrepareOutcome, Base
<1>2. a.m_channels["VIDEO"] # "running" /\ (Committing(a) => ~Up(a))
  BY <1>1 DEF PrepareOutcome, Up, Committing
<1>3. ASSUME IsPlain(a)
      PROVE  /\ ~a.longshot /\ a.pproc = "stopped" /\ o.ok
             /\ a.m_channels["ZSL"] = "null" \/ a.m_channels["PREVIEW"] = "null"
  <2>1. IsPlain(h) /\ h.setup.faults = {}
    BY <1>1, <1>3 DEF IsPlain
  <2> QED
    BY <1>1, <2>1 DEF PrepareOutcome
<1>4. CASE o.ok
  BY <1>1, <1>2, <1>3, <1>4, SafeReady
<1>5. CASE ~o.ok
  BY <1>1, <1>2, <1>3, <1>5, SafeStopped
<1> QED
  BY <1>4, <1>5

\* The handler of PREVIEW_STOPPED keeps the invariant.
LEMMA SafeInStopped ==
  ASSUME Safe(hal), procEvtPreviewStoppedState
  PROVE  Safe(hal')
<1>1. hal.m_state = "PREVIEW_STOPPED"
  BY DEF procEvtPreviewStoppedState
<1>2. /\ hal \in Hal /\ hal.live = "none" /\ hal.m_channels["VIDEO"] # "running"
      /\ Committing(hal) => ~Up(hal) /\ hal.m_channels["ZSL"] # "running"
      /\ IsPlain(hal) => Down(hal) /\ ~hal.longshot /\ hal.pproc = "stopped"
  BY <1>1, InStopped
<1>3. ASSUME NEW w \in BOOLEAN, hal' = [hal EXCEPT !.window = w]
      PROVE  Safe(hal')
  <2>1. PICK a : a = [hal EXCEPT !.window = w]
    OBVIOUS
  <2>2. Kept(hal, a) /\ Streams(hal, a)
    BY <1>2, <2>1 DEF Hal, Kept, Base, Modes, Pending, Picture, Streams
  <2>3. Safe(a)
    BY <2>2, KeptCarries, SafeCarried
  <2> QED
    BY <1>3, <2>1, <2>3
<1>4. ASSUME NEW p \in ParamStrings(hal), hal' \in CommitIfOk(hal, p)
      PROVE  Safe(hal')
  BY <1>1, <1>4, SafeSetParams
<1>5. ASSUME NEW o \in PrepareAndStart(hal),
             hal' = IF o.ok THEN GoTo(o.h, "PREVIEWING") ELSE o.h
      PROVE  Safe(hal')
  BY <1>1, <1>5, SafeStartAtOnce
<1>6. ASSUME NEW o \in preparePreview(hal),
             hal' = IF o.ok THEN GoTo(o.h, "PREVIEW_READY") ELSE o.h
      PROVE  Safe(hal')
  <2>1. PICK a : a = IF o.ok THEN GoTo(o.h, "PREVIEW_READY") ELSE o.h
    OBVIOUS
  <2>2. PrepareOutcome(hal, o) /\ o.h \in Hal /\ o.h.m_state = "PREVIEW_STOPPED"
    <3>1. PrepareOutcome(hal, o)
      BY <1>2, PreviewPrepared
    <3> QED
      BY <1>1, <3>1 DEF PrepareOutcome, Base
  <2>3. IF o.ok THEN Moved(o.h, "PREVIEW_READY", a) ELSE Moved(o.h, "PREVIEW_STOPPED", a)
    <3>1. CASE o.ok
      BY <2>1, <2>2, <3>1, StateEntered DEF States
    <3>2. CASE ~o.ok
      BY <2>1, <2>2, <3>2 DEF Moved, Modes, Pending, Picture
    <3> QED
      BY <3>1, <3>2
  <2>4. Safe(a)
    BY <1>2, <2>2, <2>3, SafePrepared, Zenon
  <2> QED
    BY <1>6, <2>1, <2>4
<1>7. ASSUME hal' = release(hal)
      PROVE  Safe(hal')
  <2>1. PICK a : a = delChannel(hal, Channels)
    OBVIOUS
  <2>2. Kept(hal, a) /\ \A c \in Channels : a.m_channels[c] = "null"
    BY <1>2, <2>1, Deleted
  <2>3. Down(a) /\ ~Up(a) /\ a.m_channels["VIDEO"] # "running"
    BY <2>2 DEF Down, Up, Channels
  <2>4. Safe(a)
    BY <1>1, <1>2, <2>2, <2>3, SafeStopped DEF Kept, Base, Picture, Committing, IsPlain
  <2> QED
    BY <1>7, <2>1, <2>4 DEF release
<1> QED
  BY <1>3, <1>4, <1>5, <1>6, <1>7
  DEF procEvtPreviewStoppedState, Becomes, Stopped_START_PREVIEW, Stopped_START_NODISPLAY_PREVIEW

(***************************************************************************)
(* PREVIEW_READY.                                                          *)
(***************************************************************************)

\* What the invariant says of a HAL in PREVIEW_READY.
LEMMA InReady ==
  ASSUME NEW h, Safe(h), h.m_state = "PREVIEW_READY"
  PROVE  /\ h \in Hal /\ h.live = "none" /\ h.m_channels["VIDEO"] # "running"
         /\ Committing(h) => ~Up(h) /\ h.m_channels["ZSL"] # "running"
         /\ IsPlain(h) => /\ ~h.longshot /\ h.pproc = "stopped"
                          /\ h.m_channels["ZSL"] = "null" \/ h.m_channels["PREVIEW"] = "null"
BY DEF Safe, Recorded, Joined, StopsWithState, PlainInv, isCaptureRunning, Up

\* SET_PREVIEW_WINDOW starts the preview that was prepared.
LEMMA SafeWindowSet ==
  ASSUME NEW h, Safe(h), h.m_state = "PREVIEW_READY", NEW w \in BOOLEAN,
         NEW a \in Ready_SET_PREVIEW_WINDOW(h, w)
  PROVE  Safe(a)
<1>1. PICK set : set = [h EXCEPT !.window = w]
  OBVIOUS
<1>2. Safe(set) /\ set.m_state = "PREVIEW_READY"
  <2>1. h \in Hal
    BY InReady
  <2>2. Kept(h, set) /\ Streams(h, set)
    BY <1>1, <2>1 DEF Hal, Kept, Base, Modes, Pending, Picture, Streams
  <2> QED
    BY <2>2, KeptCarries, SafeCarried DEF Kept, Base
<1>3. /\ set \in Hal /\ set.live = "none" /\ set.m_channels["VIDEO"] # "running"
      /\ Committing(set) => ~Up(set) /\ set.m_channels["ZSL"] # "running"
      /\ IsPlain(set) => /\ ~set.longshot /\ set.pproc = "stopped"
                         /\ set.m_channels["ZSL"] = "null" \/ set.m_channels["PREVIEW"] = "null"
  BY <1>2, InReady
<1>4. CASE ~w
  BY <1>1, <1>2, <1>4 DEF Ready_SET_PREVIEW_WINDOW
<1>5. CASE w
  <2>1. PICK o \in startPreview(set) :
          a = IF o.ok THEN GoTo(o.h, "PREVIEWING")
              ELSE GoTo(unpreparePreview(o.h), "PREVIEW_STOPPED")
    BY <1>1, <1>5 DEF Ready_SET_PREVIEW_WINDOW
  <2>2. StartOutcome(set, o)
    BY <1>3, <2>1, PreviewStarted
  <2>3. /\ o.h \in Hal /\ o.h.setup = set.setup /\ o.h.live = "none"
        /\ Picture(set, o.h) /\ Pending(set, o.h)
    BY <1>3, <2>2 DEF StartOutcome, Base
  <2>4. CASE o.ok
    <3>1. Moved(o.h, "PREVIEWING", a)
      BY <2>1, <2>3, <2>4, StateEntered DEF States
    <3>2. PreviewChannel(o.h) = IF o.h.zsl /\ ~o.h.hint THEN "ZSL" ELSE "PREVIEW"
      BY DEF PreviewChannel
    <3>3. /\ a.m_channels["VIDEO"] = set.m_channels["VIDEO"]
          /\ a.m_channels["ZSL"] =
               IF PreviewChannel(o.h) = "ZSL" THEN "running" ELSE set.m_channels["ZSL"]
          /\ a.m_channels["PREVIEW"] =
               IF PreviewChannel(o.h) = "PREVIEW" THEN "running" ELSE set.m_channels["PREVIEW"]
          /\ set.m_channels[PreviewChannel(o.h)] # "null"
      BY <2>2, <2>4, <3>1, <3>2 DEF StartOutcome, Channels, Moved
    <3>4. /\ a \in Hal /\ a.m_state = "PREVIEWING" /\ a.setup = set.setup /\ a.live = "none"
          /\ a.zsl = o.h.zsl /\ a.hint = o.h.hint
          /\ a.zsl_new = set.zsl_new /\ a.hint_new = set.hint_new
          /\ a.pproc = set.pproc /\ a.longshot = set.longshot
      BY <2>3, <3>1 DEF Moved, Modes, Pending, Picture
    <3>5. Recorded(a) /\ Joined(a)
      BY <1>3, <3>3, <3>4 DEF Recorded, Joined
    <3>6. ASSUME Committing(a)
          PROVE  StopsWithState(a) /\ ZslInMode(a)
      <4>1. "commit" \notin set.setup.faults /\ Committing(set)
        BY <3>4, <3>6 DEF Committing
      <4>2. o.h.zsl = set.zsl_new /\ o.h.hint = set.hint_new
        BY <2>2, <4>1 DEF StartOutcome
      <4> QED
        BY <1>3, <3>2, <3>3, <3>4, <4>1, <4>2 DEF StopsWithState, ZslInMode
    <3>7. ASSUME IsPlain(a)
          PROVE  PlainInv(a)
      <4>1. IsPlain(set)
        BY <3>4, <3>7 DEF IsPlain
      <4>2. Up(a) /\ a.m_channels["ZSL"] # "idle"
        BY <1>3, <3>2, <3>3, <4>1 DEF Up
      <4> QED
        BY <1>3, <3>4, <4>1, <4>2 DEF PlainInv
    <3> QED
      BY <3>4, <3>5, <3>6, <3>7 DEF Safe
  <2>5. CASE ~o.ok
    <3>1. PICK b : b = unpreparePreview(o.h)
      OBVIOUS
    <3>2. Kept(o.h, b) /\ Down(b) /\ b.m_channels["VIDEO"] = "null" /\ b \in Hal
      BY <2>3, <3>1, PreviewStopped DEF Kept, Base
    <3>3. Moved(b, "PREVIEW_STOPPED", a)
      BY <2>1, <2>5, <3>1, <3>2, StateEntered DEF States
    <3>4. /\ a \in Hal /\ a.m_state = "PREVIEW_STOPPED" /\ a.live = "none"
          /\ a.m_channels["VIDEO"] # "running" /\ Down(a) /\ ~Up(a)
          /\ a.pproc = set.pproc /\ a.longshot = set.longshot /\ a.setup = set.setup
      BY <2>3, <3>2, <3>3 DEF Moved, Kept, Base, Picture, Down, Up
    <3> QED
      BY <1>3, <3>4, SafeStopped DEF IsPlain
  <2> QED
    BY <2>4, <2>5
<1> QED
  BY <1>4, <1>5

\* A stopped preview and a commit: what a restart begins with.
LEMMA RestartBegun ==
  ASSUME NEW h \in Hal, NEW s, s = stopPreview(h) \/ s = unpreparePreview(h),
         NEW c \in Outcomes(commitSetBatch(s))
  PROVE  /\ Base(h, c) /\ Pending(h, c) /\ Picture(h, c)
         /\ Down(c) /\ ~Up(c) /\ c.m_channels["VIDEO"] = "null"
         /\ "commit" \notin h.setup.faults => c.zsl = h.zsl_new /\ c.hint = h.hint_new
<1>1. Kept(h, s) /\ Down(s) /\ s.m_channels["VIDEO"] = "null" /\ s \in Hal
  BY PreviewStopped DEF Kept, Base
<1>2. PICK o \in commitSetBatch(s) : c = o.h
  BY DEF Outcomes
<1>3. /\ Base(s, c) /\ Pending(s, c) /\ Picture(s, c) /\ c.m_channels = s.m_channels
      /\ "commit" \notin s.setup.faults => c.zsl = s.zsl_new /\ c.hint = s.hint_new
  BY <1>1, <1>2, Committed
<1> QED
  BY <1>1, <1>3 DEF Kept, Base, Pending, Picture, Down, Up

\* SET_PARAMS prepares preview again if it has to.
LEMMA SafeReadyParams ==
  ASSUME NEW h, Safe(h), h.m_state = "PREVIEW_READY", NEW p \in ParamStrings(h),
         NEW a \in Ready_SET_PARAMS(h, p)
  PROVE  Safe(a)
<1>1. PICK u : u = updateParameters(h, p)
  OBVIOUS
<1>2. Safe(u.h)
  BY <1>1, SafeStored
<1>3. u.h.m_state = "PREVIEW_READY"
  BY <1>1, InReady, ParametersStored DEF Base
<1>4. /\ u.h \in Hal /\ u.h.live = "none"
      /\ IsPlain(u.h) => ~u.h.longshot /\ u.h.pproc = "stopped"
  BY <1>2, <1>3, InReady
<1>5. CASE a = u.h \/ a \in Outcomes(commitSetBatch(u.h))
  BY <1>2, <1>5, SafeCommitted
<1>6. CASE ~(a = u.h \/ a \in Outcomes(commitSetBatch(u.h)))
  <2>1. PICK c \in Outcomes(commitSetBatch(unpreparePreview(u.h))) :
          \E o \in preparePreview(c) :
            a = IF o.ok THEN o.h ELSE GoTo(o.h, "PREVIEW_STOPPED")
    BY <1>1, <1>6 DEF Ready_SET_PARAMS
  <2>2. PICK o \in preparePreview(c) :
          a = IF o.ok THEN o.h ELSE GoTo(o.h, "PREVIEW_STOPPED")
    BY <2>1
  <2>3. /\ Base(u.h, c) /\ Picture(u.h, c)
        /\ Down(c) /\ ~Up(c) /\ c.m_channels["VIDEO"] = "null"
    BY <1>4, RestartBegun
  <2>4. /\ c \in Hal /\ c.live = "none" /\ c.m_channels["VIDEO"] # "running"
        /\ IsPlain(c) => Down(c) /\ ~c.longshot /\ c.pproc = "stopped"
        /\ c.m_state = "PREVIEW_READY"
    BY <1>3, <1>4, <2>3 DEF Base, Picture, IsPlain
  <2>5. PrepareOutcome(c, o) /\ o.h \in Hal /\ o.h.m_state = "PREVIEW_READY"
    <3>1. PrepareOutcome(c, o)
      BY <2>4, PreviewPrepared
    <3> QED
      BY <2>4, <3>1 DEF PrepareOutcome, Base
  <2>6. IF o.ok THEN Moved(o.h, "PREVIEW_READY", a) ELSE Moved(o.h, "PREVIEW_STOPPED", a)
    <3>1. CASE ~o.ok
      BY <2>2, <2>5, <3>1, StateEntered DEF States
    <3>2. CASE o.ok
      BY <2>2, <2>5, <3>2 DEF Moved, Modes, Pending, Picture
    <3> QED
      BY <3>1, <3>2
  <2> QED
    BY <2>3, <2>4, <2>5, <2>6, SafePrepared, Zenon
<1> QED
  BY <1>5, <1>6

\* A preview that is given up leads safely to PREVIEW_STOPPED.
LEMMA SafeGivenUp ==
  ASSUME NEW h \in Hal, h.live = "none", NEW b, b = stopPreview(h) \/ b = unpreparePreview(h),
         IsPlain(h) => ~h.longshot /\ h.pproc = "stopped",
         NEW a, a = GoTo(b, "PREVIEW_STOPPED")
  PROVE  Safe(a)
<1>1. Kept(h, b) /\ Down(b) /\ b.m_channels["VIDEO"] = "null" /\ b \in Hal
  BY PreviewStopped DEF Kept, Base
<1>2. Moved(b, "PREVIEW_STOPPED", a)
  BY <1>1, StateEntered DEF States
<1>3. /\ a \in Hal /\ a.m_state = "PREVIEW_STOPPED" /\ a.live = "none"
      /\ a.m_channels["VIDEO"] # "running" /\ Down(a) /\ ~Up(a)
      /\ a.pproc = h.pproc /\ a.longshot = h.longshot /\ a.setup = h.setup
  BY <1>1, <1>2 DEF Moved, Kept, Base, Picture, Down, Up
<1> QED
  BY <1>3, SafeStopped DEF IsPlain

\* The handler of PREVIEW_READY keeps the invariant.
LEMMA SafeInReady ==
  ASSUME Safe(hal), procEvtPreviewReadyState
  PROVE  Safe(hal')
<1>1. hal.m_state = "PREVIEW_READY"
  BY DEF procEvtPreviewReadyState
<1>2. ASSUME NEW w \in BOOLEAN, hal' \in Ready_SET_PREVIEW_WINDOW(hal, w)
      PROVE  Safe(hal')
  BY <1>1, <1>2, SafeWindowSet
<1>3. ASSUME NEW p \in ParamStrings(hal), hal' \in Ready_SET_PARAMS(hal, p)
      PROVE  Safe(hal')
  BY <1>1, <1>3, SafeReadyParams
<1>4. ASSUME hal' = GoTo(unpreparePreview(hal), "PREVIEW_STOPPED")
      PROVE  Safe(hal')
  BY <1>1, <1>4, InReady, SafeGivenUp
<1> QED
  BY <1>2, <1>3, <1>4 DEF procEvtPreviewReadyState, Becomes

(***************************************************************************)
(* PREVIEWING.                                                             *)
(***************************************************************************)

\* The modes in which a ZSL channel runs.
ZslModes(h) ==
  h.m_channels["ZSL"] = "running" => h.zsl /\ h.zsl_new /\ ~h.hint /\ ~h.hint_new

\* What the invariant says of a HAL with a preview and no recording.
Previews(h) ==
  /\ h \in Hal /\ h.live = "none" /\ h.m_channels["VIDEO"] # "running"
  /\ Committing(h) => ZslModes(h)
  /\ IsPlain(h) => ~h.longshot /\ Up(h) /\ h.m_channels["ZSL"] # "idle"

\* The invariant says so in PREVIEWING and PREPARE_SNAPSHOT.
LEMMA InPreviewing ==
  ASSUME NEW h, Safe(h), h.m_state \in {"PREVIEWING", "PREPARE_SNAPSHOT"}
  PROVE  Previews(h) /\ (IsPlain(h) => h.pproc = "stopped")
BY DEF Safe, Recorded, Joined, ZslInMode, ZslModes, PlainInv, isCaptureRunning, Previews

\* And in PREVIEW_PIC_TAKING, where a recording finds its video channel.
LEMMA InPreviewPicture ==
  ASSUME NEW h, Safe(h), h.m_state = "PREVIEW_PIC_TAKING"
  PROVE  /\ Previews(h)
         /\ IsPlain(h) => h.hint = h.hint_new /\ (h.hint => h.m_channels["VIDEO"] # "null")
BY DEF Safe, Recorded, Joined, ZslInMode, ZslModes, PlainInv, isCaptureRunning, Previews

\* And it is enough for the invariant.
LEMMA SafePreviewing ==
  ASSUME NEW a, Previews(a), a.m_state \in {"PREVIEWING", "PREPARE_SNAPSHOT"},
         IsPlain(a) => a.pproc = "stopped"
  PROVE  Safe(a)
<1>1. a \in Hal /\ Recorded(a) /\ Joined(a)
  BY DEF Previews, Recorded, Joined
<1>2. Committing(a) => StopsWithState(a) /\ ZslInMode(a)
  BY DEF Previews, StopsWithState, ZslInMode, ZslModes
<1>3. IsPlain(a) => PlainInv(a)
  BY DEF Previews, PlainInv
<1> QED
  BY <1>1, <1>2, <1>3 DEF Safe

\* The same for PREVIEW_PIC_TAKING.
LEMMA SafePreviewPicture ==
  ASSUME NEW a, Previews(a), a.m_state = "PREVIEW_PIC_TAKING",
         IsPlain(a) => a.hint = a.hint_new /\ (a.hint => a.m_channels["VIDEO"] # "null")
  PROVE  Safe(a)
<1>1. a \in Hal /\ Recorded(a) /\ Joined(a)
  BY DEF Previews, Recorded, Joined
<1>2. Committing(a) => StopsWithState(a) /\ ZslInMode(a)
  BY DEF Previews, StopsWithState, ZslInMode, ZslModes
<1>3. IsPlain(a) => PlainInv(a)
  BY DEF Previews, PlainInv, isCaptureRunning
<1> QED
  BY <1>1, <1>2, <1>3 DEF Safe

\* A HAL without preview is safe in PIC_TAKING.
LEMMA SafePicture ==
  ASSUME NEW a \in Hal, a.m_state = "PIC_TAKING", a.live = "none",
         a.m_channels["VIDEO"] # "running",
         Committing(a) => ~Up(a),
         IsPlain(a) => Down(a) /\ ~a.longshot
  PROVE  Safe(a)
<1>1. Recorded(a) /\ Joined(a)
  BY DEF Recorded, Joined
<1>2. Committing(a) => StopsWithState(a) /\ ZslInMode(a)
  BY DEF StopsWithState, ZslInMode, Up
<1>3. IsPlain(a) => PlainInv(a)
  BY DEF PlainInv, Down, isCaptureRunning
<1> QED
  BY <1>1, <1>2, <1>3 DEF Safe

\* SET_PARAMS, with or without a restart of preview.
LEMMA SafeRestarted ==
  ASSUME NEW h, Safe(h), NEW p \in ParamStrings(h), NEW fallback,
         \/ h.m_state = "PREVIEWING" /\ fallback = "PREVIEW_STOPPED"
         \/ h.m_state = "PREVIEW_PIC_TAKING" /\ fallback = "PIC_TAKING",
         NEW a \in RestartWithParams(h, p, fallback)
  PROVE  Safe(a)
<1>1. PICK u : u = updateParameters(h, p)
  OBVIOUS
<1>2. Previews(h) /\ (h.m_state = "PREVIEWING" => (IsPlain(h) => h.pproc = "stopped"))
  BY InPreviewing, InPreviewPicture
<1>3. /\ Base(h, u.h) /\ Modes(h, u.h) /\ Picture(h, u.h)
      /\ u.ok \in BOOLEAN
  BY <1>1, <1>2, ParametersStored DEF Previews
<1>4. CASE ~u.ok \/ ~u.needRestart
  <2>1. Safe(u.h)
    BY <1>1, <1>4, SafeStored
  <2>2. a = u.h \/ a \in Outcomes(commitSetBatch(u.h))
    BY <1>1, <1>4 DEF RestartWithParams
  <2> QED
    BY <2>1, <2>2, SafeCommitted
<1>5. CASE u.ok /\ u.needRestart
  <2>1. PICK c \in Outcomes(commitSetBatch(stopPreview(u.h))) :
          \E o \in PrepareAndStart(c) : a = IF o.ok THEN o.h ELSE GoTo(o.h, fallback)
    BY <1>1, <1>5 DEF RestartWithParams
  <2>2. PICK o \in PrepareAndStart(c) : a = IF o.ok THEN o.h ELSE GoTo(o.h, fallback)
    BY <2>1
  <2>3. /\ Base(u.h, c) /\ Pending(u.h, c) /\ Picture(u.h, c)
        /\ Down(c) /\ ~Up(c) /\ c.m_channels["VIDEO"] = "null"
        /\ "commit" \notin u.h.setup.faults => c.zsl = u.h.zsl_new /\ c.hint = u.h.hint_new
    BY <1>3, RestartBegun DEF Base
  <2>4. /\ c \in Hal /\ c.live = "none" /\ c.m_channels["VIDEO"] # "running"
        /\ c.m_channels["ZSL"] # "running" /\ c.m_state = h.m_state /\ c.setup = h.setup
        /\ IsPlain(c) => Down(c) /\ ~c.longshot
        /\ h.m_state = "PREVIEWING" => (IsPlain(c) => c.pproc = "stopped")
        /\ IsPlain(c) => c.zsl = c.zsl_new /\ c.hint = c.hint_new
    BY <1>2, <1>3, <2>3 DEF Previews, Base, Picture, Pending, Down, IsPlain
  <2>5. RunOutcome(c, o)
    BY <2>4, PreviewPreparedAndStarted
  <2>6. o.h \in Hal /\ o.h.m_state = h.m_state
    BY <2>4, <2>5 DEF RunOutcome, Base
  <2>7. CASE o.ok
    <3>1. Moved(o.h, h.m_state, a)
      BY <2>2, <2>6, <2>7 DEF Moved, Modes, Pending, Picture
    <3>2. CASE h.m_state = "PREVIEWING"
      BY <2>4, <2>5, <2>7, <3>1, <3>2, SafeRun
    <3>3. CASE h.m_state = "PREVIEW_PIC_TAKING"
      BY <2>4, <2>5, <2>7, <3>1, <3>3, SafeRun
    <3> QED
      BY <3>2, <3>3
  <2>8. CASE ~o.ok
    <3>1. Moved(o.h, fallback, a)
      BY <2>2, <2>6, <2>8, StateEntered DEF States
    <3>2. /\ a \in Hal /\ a.m_state = fallback /\ a.live = "none" /\ a.setup = c.setup
          /\ a.m_channels = o.h.m_channels /\ (Up(a) <=> Up(o.h)) /\ (Down(a) <=> Down(o.h))
          /\ a.pproc \in {c.pproc, "stopped"} /\ (a.longshot => c.longshot)
      BY <2>4, <2>5, <3>1 DEF Moved, RunOutcome, Base, Picture, Up, Down
    <3>3. a.m_channels["VIDEO"] # "running" /\ ~Up(a)
      BY <2>3, <2>4, <2>5, <2>8, <3>2 DEF RunOutcome
    <3>4. IsPlain(a) => /\ Down(a) /\ ~a.longshot
                        /\ h.m_state = "PREVIEWING" => a.pproc = "stopped"
      BY <2>4, <2>5, <2>8, <3>2 DEF RunOutcome, IsPlain
    <3>5. CASE h.m_state = "PREVIEWING"
      BY <3>2, <3>3, <3>4, <3>5, SafeStopped
    <3>6. CASE h.m_state = "PREVIEW_PIC_TAKING"
      BY <3>2, <3>3, <3>4, <3>6, SafePicture
    <3> QED
      BY <3>5, <3>6
  <2> QED
    BY <2>7, <2>8
<1> QED
  BY <1>3, <1>4, <1>5

\* A HAL that records is safe in the recording states.
LEMMA SafeRecording ==
  ASSUME NEW a \in Hal, a.m_state \in {"RECORDING", "VIDEO_PIC_TAKING"},
         a.live # "none" => a.m_state = "VIDEO_PIC_TAKING",
         a.m_channels["VIDEO"] = "running",
         Committing(a) => a.m_channels["ZSL"] # "running",
         IsPlain(a) => /\ ~a.longshot /\ Up(a) /\ a.m_channels["ZSL"] # "idle"
                       /\ a.m_state = "RECORDING" => a.pproc = "stopped"
  PROVE  Safe(a)
<1>1. Recorded(a) /\ Joined(a)
  BY DEF Recorded, Joined
<1>2. Committing(a) => StopsWithState(a) /\ ZslInMode(a)
  BY DEF StopsWithState, ZslInMode
<1>3. IsPlain(a) => PlainInv(a)
  BY DEF PlainInv, isCaptureRunning
<1> QED
  BY <1>1, <1>2, <1>3 DEF Safe

\* START_RECORDING, in PREVIEWING and in PREVIEW_PIC_TAKING.
LEMMA SafeRecordingStarted ==
  ASSUME NEW h, Safe(h), NEW s,
         \/ h.m_state = "PREVIEWING" /\ s = "RECORDING"
         \/ h.m_state = "PREVIEW_PIC_TAKING" /\ s = "VIDEO_PIC_TAKING",
         NEW o \in startRecording(h),
         NEW a, a = IF o.ok THEN GoTo(o.h, s) ELSE o.h
  PROVE  Safe(a)
<1>1. /\ Previews(h)
      /\ h.m_state = "PREVIEWING" => (IsPlain(h) => h.pproc = "stopped")
      /\ h.m_state = "PREVIEW_PIC_TAKING" =>
           (IsPlain(h) => (h.hint => h.m_channels["VIDEO"] # "null"))
  BY InPreviewing, InPreviewPicture
<1>2. RecordOutcome(h, o) /\ o.h \in Hal
  <2>1. RecordOutcome(h, o)
    BY <1>1, RecordingStarted DEF Previews
  <2> QED
    BY <2>1 DEF RecordOutcome, Result
<1>3. /\ o.h.setup = h.setup /\ o.h.live = "none"
      /\ Committing(h) => o.h.m_channels["ZSL"] # "running"
      /\ IsPlain(h) => /\ ~o.h.longshot /\ Up(o.h) /\ o.h.m_channels["ZSL"] # "idle"
                       /\ h.m_state = "PREVIEWING" => o.h.pproc = "stopped"
                       /\ h.m_state = "PREVIEW_PIC_TAKING" => o.ok
  BY <1>1, <1>2 DEF RecordOutcome, Previews, ZslModes, IsPlain
<1>4. CASE o.ok
  <2>1. Moved(o.h, s, a)
    BY <1>2, <1>4, StateEntered DEF States
  <2>2. /\ a \in Hal /\ a.m_state = s /\ a.live = "none" /\ a.setup = h.setup
        /\ a.m_channels = o.h.m_channels /\ (Up(a) <=> Up(o.h))
        /\ a.pproc = o.h.pproc /\ a.longshot = o.h.longshot
    BY <1>3, <2>1 DEF Moved, Picture, Up
  <2>3. a.m_channels["VIDEO"] = "running"
    BY <1>2, <1>4, <2>2 DEF RecordOutcome
  <2>4. /\ Committing(a) => a.m_channels["ZSL"] # "running"
        /\ IsPlain(a) => /\ ~a.longshot /\ Up(a) /\ a.m_channels["ZSL"] # "idle"
                         /\ a.m_state = "RECORDING" => a.pproc = "stopped"
    BY <1>3, <2>2 DEF Committing, IsPlain
  <2> QED
    BY <2>2, <2>3, <2>4, SafeRecording
<1>5. CASE ~o.ok /\ o.h.m_state = "CRASHED"
  <2>1. a = o.h
    BY <1>5
  <2>2. Recorded(a) /\ Joined(a)
    BY <1>3, <1>5, <2>1 DEF Recorded, Joined
  <2>3. Committing(a) => StopsWithState(a) /\ ZslInMode(a)
    BY <1>3, <1>5, <2>1 DEF Committing, StopsWithState, ZslInMode
  <2>4. IsPlain(a) => PlainInv(a)
    BY <1>3, <1>5, <2>1 DEF IsPlain, PlainInv
  <2> QED
    BY <1>2, <2>1, <2>2, <2>3, <2>4 DEF Safe
<1>6. CASE ~o.ok /\ o.h.m_state # "CRASHED"
  <2>1. a = o.h /\ a.m_state = h.m_state /\ a.m_channels["VIDEO"] # "running"
    BY <1>2, <1>6 DEF RecordOutcome
  <2>2. Previews(a)
    BY <1>2, <1>3, <2>1 DEF Previews, Committing, IsPlain, ZslModes
  <2>3. CASE h.m_state = "PREVIEWING"
    BY <1>3, <2>1, <2>2, <2>3, SafePreviewing DEF IsPlain
  <2>4. CASE h.m_state = "PREVIEW_PIC_TAKING"
    BY <1>3, <1>6, <2>1, <2>2, <2>4, SafePreviewPicture DEF IsPlain
  <2> QED
    BY <2>3, <2>4
<1> QED
  BY <1>4, <1>5, <1>6

\* takePicture in the state that the modes ask for, from a HAL whose preview
\* is as PREVIEWING has it.
LEMMA SafePictureTaken ==
  ASSUME NEW h, Previews(h), IsPlain(h) => h.pproc = "stopped",
         NEW s, s = IF h.zsl \/ h.longshot THEN "PREVIEW_PIC_TAKING" ELSE "PIC_TAKING",
         NEW back, back = IF h.zsl \/ h.longshot THEN "PREVIEWING" ELSE "PREVIEW_STOPPED",
         NEW o \in takePicture(GoTo(h, s)),
         NEW a, a = IF o.ok THEN o.h ELSE GoTo(o.h, back)
  PROVE  Safe(a)
<1>1. PICK g : g = GoTo(h, s)
  OBVIOUS
<1>2. Moved(h, s, g) /\ g \in Hal
  <2>1. Moved(h, s, g)
    BY <1>1, StateEntered DEF States, Previews
  <2> QED
    BY <2>1 DEF Moved
<1>3. /\ o \in Result /\ Base(g, o.h) /\ Modes(g, o.h) /\ Pending(g, o.h)
      /\ o.h.longshot = g.longshot
      /\ o.h.m_channels["ZSL"] = g.m_channels["ZSL"]
      /\ o.h.m_channels["VIDEO"] = g.m_channels["VIDEO"]
      /\ o.h.m_channels["PREVIEW"] = IF g.zsl THEN g.m_channels["PREVIEW"] ELSE "null"
      /\ g.zsl /\ o.ok => g.m_channels["ZSL"] # "null"
      /\ g.setup.faults = {} /\ ~o.ok => g.zsl /\ o.h = g
  BY <1>1, <1>2, PictureTaken
<1>4. PICK b : b = o.h
  OBVIOUS
<1>5. /\ b \in Hal /\ b.m_state = s /\ b.setup = h.setup /\ b.live = "none"
      /\ b.m_channels["VIDEO"] # "running"
      /\ b.zsl = h.zsl /\ b.hint = h.hint /\ b.zsl_new = h.zsl_new /\ b.hint_new = h.hint_new
      /\ b.longshot = h.longshot
      /\ b.m_channels["ZSL"] = h.m_channels["ZSL"]
      /\ b.m_channels["PREVIEW"] = IF h.zsl THEN h.m_channels["PREVIEW"] ELSE "null"
      /\ h.zsl /\ o.ok => h.m_channels["ZSL"] # "null"
      /\ h.setup.faults = {} /\ ~o.ok => h.zsl /\ b.pproc = h.pproc
  BY <1>2, <1>3, <1>4 DEF Moved, Base, Modes, Pending, Picture, Previews
<1>6. /\ Committing(b) => Committing(h)
      /\ IsPlain(b) => IsPlain(h) /\ Committing(h) /\ ~h.longshot /\ h.setup.faults = {}
  BY <1>5 DEF Committing, IsPlain, Previews
<1>7. PICK t : a.m_state = t /\ Moved(b, t, a) /\ t = IF o.ok THEN s ELSE back
  <2>1. CASE o.ok
    BY <1>4, <1>5, <2>1 DEF Moved, Modes, Pending, Picture
  <2>2. CASE ~o.ok
    <3>1. Moved(b, back, a)
      BY <1>4, <1>5, <2>2, StateEntered DEF States
    <3> QED
      BY <2>2, <3>1 DEF Moved
  <2> QED
    BY <2>1, <2>2
<1>8. /\ a \in Hal /\ a.m_state = t /\ a.setup = b.setup /\ a.live = "none"
      /\ a.m_channels = b.m_channels /\ (Up(a) <=> Up(b)) /\ (Down(a) <=> Down(b))
      /\ a.zsl = b.zsl /\ a.hint = b.hint /\ a.zsl_new = b.zsl_new /\ a.hint_new = b.hint_new
      /\ a.pproc = b.pproc /\ a.longshot = b.longshot
      /\ (Committing(a) <=> Committing(b)) /\ (IsPlain(a) <=> IsPlain(b))
  BY <1>5, <1>7 DEF Moved, Modes, Pending, Picture, Up, Down, Committing, IsPlain
<1>9. CASE h.zsl \/ h.longshot
  <2>1. IsPlain(b) => /\ h.zsl /\ Up(b) /\ b.m_channels["ZSL"] # "idle"
                      /\ ~o.ok => b.pproc = "stopped"
    BY <1>5, <1>6, <1>9 DEF Previews, Up
  <2>2. Previews(a)
    BY <1>5, <1>6, <1>8, <2>1 DEF Previews, ZslModes
  <2>3. CASE o.ok
    <3>1. IsPlain(a) => ~a.hint /\ ~a.hint_new
      BY <1>5, <1>6, <1>8, <2>1, <2>3 DEF Previews, ZslModes, Hal, Channels
    <3>2. a.hint \in BOOLEAN /\ a.hint_new \in BOOLEAN
      BY <1>8 DEF Hal
    <3> QED
      BY <1>7, <1>8, <1>9, <2>2, <2>3, <3>1, <3>2, SafePreviewPicture
  <2>4. CASE ~o.ok
    BY <1>7, <1>8, <1>9, <2>1, <2>2, <2>4, SafePreviewing
  <2> QED
    BY <2>3, <2>4
<1>10. CASE ~(h.zsl \/ h.longshot)
  <2>1. b.m_channels["PREVIEW"] = "null"
    BY <1>5, <1>10
  <2>2. Committing(b) => b.m_channels["ZSL"] # "running"
    BY <1>5, <1>6, <1>10 DEF Previews, ZslModes
  <2>3. b.m_channels["ZSL"] \in {"null", "idle", "running"}
    BY <1>5 DEF Hal, Channels
  <2>4. (Committing(a) => ~Up(a)) /\ (IsPlain(a) => Down(a) /\ ~a.longshot /\ o.ok)
    BY <1>5, <1>6, <1>8, <1>10, <2>1, <2>2, <2>3 DEF Previews, Up, Down, Committing, IsPlain
  <2>5. a.m_channels["VIDEO"] # "running"
    BY <1>5, <1>8
  <2>6. CASE o.ok
    BY <1>7, <1>8, <1>10, <2>4, <2>5, <2>6, SafePicture
  <2>7. CASE ~o.ok
    BY <1>7, <1>8, <1>10, <2>4, <2>5, <2>7, SafeStopped
  <2> QED
    BY <2>6, <2>7
<1> QED
  BY <1>9, <1>10

\* A preview that was stopped, and prepared and started again, whatever came
\* of it.
LEMMA PreviewAgain ==
  ASSUME NEW c \in Hal, c.live = "none", c.m_channels["VIDEO"] # "running",
         c.m_channels["ZSL"] # "running",
         IsPlain(c) => /\ Down(c) /\ ~c.longshot /\ c.pproc = "stopped"
                       /\ c.zsl = c.zsl_new /\ c.hint = c.hint_new,
         NEW o \in PrepareAndStart(c)
  PROVE  /\ Previews(o.h) /\ o.h.m_state = c.m_state
         /\ IsPlain(o.h) => o.h.pproc = "stopped"
<1>1. RunOutcome(c, o)
  BY PreviewPreparedAndStarted
<1>2. /\ o.h \in Hal /\ o.h.m_state = c.m_state /\ o.h.setup = c.setup /\ o.h.live = "none"
      /\ o.h.m_channels["VIDEO"] # "running"
      /\ o.h.zsl_new = c.zsl_new /\ o.h.hint_new = c.hint_new
  BY <1>1 DEF RunOutcome, Base, Pending
<1>3. Committing(o.h) => ZslModes(o.h)
  BY <1>1, <1>2 DEF RunOutcome, Committing, ZslModes
<1>4. IsPlain(o.h) => /\ ~o.h.longshot /\ Up(o.h) /\ o.h.m_channels["ZSL"] # "idle"
                      /\ o.h.pproc = "stopped"
  BY <1>1, <1>2 DEF RunOutcome, IsPlain
<1> QED
  BY <1>2, <1>3, <1>4 DEF Previews

\* TAKE_PICTURE: in recording mode preview is rebuilt without it first.
LEMMA SafeTakePicture ==
  ASSUME NEW h, Safe(h), h.m_state = "PREVIEWING", NEW a \in Previewing_TAKE_PICTURE(h)
  PROVE  Safe(a)
<1> DEFINE ready == IF h.hint
                    THEN UNION {Outcomes(PrepareAndStart(c)) :
                                  c \in Outcomes(updateRecordingHintValue(stopPreview(h), FALSE))}
                    ELSE {h}
           Take(b) == IF b.zsl \/ b.longshot
                      THEN {IF o.ok THEN o.h ELSE GoTo(o.h, "PREVIEWING") :
                              o \in takePicture(GoTo(b, "PREVIEW_PIC_TAKING"))}
                      ELSE {IF o.ok THEN o.h ELSE GoTo(o.h, "PREVIEW_STOPPED") :
                              o \in takePicture(GoTo(b, "PIC_TAKING"))}
<1>1. PICK b \in ready : a \in Take(b)
  BY DEF Previewing_TAKE_PICTURE
<1>2. Previews(h) /\ (IsPlain(h) => h.pproc = "stopped")
  BY InPreviewing
<1>3. Previews(b) /\ (IsPlain(b) => b.pproc = "stopped")
  <2>1. CASE ~h.hint
    <3>1. b = h
      BY <1>1, <2>1, Zenon
    <3> QED
      BY <1>2, <3>1
  <2>2. CASE h.hint
    <3>1. PICK c \in Outcomes(updateRecordingHintValue(stopPreview(h), FALSE)) :
            b \in Outcomes(PrepareAndStart(c))
      BY <1>1, <2>2, Zenon
    <3>2. PICK u \in updateRecordingHintValue(stopPreview(h), FALSE) : c = u.h
      BY <3>1 DEF Outcomes
    <3>3. PICK o \in PrepareAndStart(c) : b = o.h
      BY <3>1 DEF Outcomes
    <3>4. PICK s : s = stopPreview(h)
      OBVIOUS
    <3>5. h \in Hal
      BY <1>2 DEF Previews
    <3>6. Kept(h, s) /\ Down(s) /\ s.m_channels["VIDEO"] = "null" /\ s \in Hal
      BY <3>4, <3>5, PreviewStopped DEF Kept, Base
    <3>7. /\ Base(s, c) /\ Picture(s, c) /\ c.m_channels = s.m_channels
          /\ c.zsl_new = s.zsl_new /\ c.hint_new = FALSE
          /\ "commit" \notin s.setup.faults => c.zsl = s.zsl_new /\ c.hint = FALSE
      BY <3>2, <3>4, <3>6, HintUpdated
    <3>8. /\ c \in Hal /\ c.live = "none" /\ c.setup = h.setup
          /\ c.m_channels["VIDEO"] # "running" /\ c.m_channels["ZSL"] # "running"
          /\ Down(c) /\ c.longshot = h.longshot /\ c.pproc = h.pproc
      BY <1>2, <3>6, <3>7 DEF Previews, Kept, Base, Picture, Down
    <3>9. IsPlain(c) => /\ Down(c) /\ ~c.longshot /\ c.pproc = "stopped"
                        /\ c.zsl = c.zsl_new /\ c.hint = c.hint_new
      BY <1>2, <3>6, <3>7, <3>8 DEF Previews, IsPlain, Kept, Base
    <3> QED
      BY <3>3, <3>8, <3>9, PreviewAgain
  <2> QED
    BY <2>1, <2>2
<1>4. PICK s : s = IF b.zsl \/ b.longshot THEN "PREVIEW_PIC_TAKING" ELSE "PIC_TAKING"
  OBVIOUS
<1>5. PICK back : back = IF b.zsl \/ b.longshot THEN "PREVIEWING" ELSE "PREVIEW_STOPPED"
  OBVIOUS
<1>6. PICK o \in takePicture(GoTo(b, s)) : a = IF o.ok THEN o.h ELSE GoTo(o.h, back)
  <2> HIDE DEF ready
  <2>1. CASE b.zsl \/ b.longshot
    BY <1>1, <1>4, <1>5, <2>1
  <2>2. CASE ~(b.zsl \/ b.longshot)
    BY <1>1, <1>4, <1>5, <2>2
  <2> QED
    BY <2>1, <2>2
<1> HIDE DEF ready, Take
<1> QED
  BY <1>3, <1>4, <1>5, <1>6, SafePictureTaken

\* LONGSHOT_ON, with the restart for more buffers.
LEMMA SafeLongshotOn ==
  ASSUME NEW h, Safe(h), h.m_state = "PREVIEWING", h.setup.longshot,
         NEW a \in Previewing_LONGSHOT_ON(h)
  PROVE  Safe(a)
<1>1. PICK b \in Outcomes(LongshotOn(h)) :
        a = b \/ a \in Outcomes(PrepareAndStart(stopPreview(b)))
  BY DEF Previewing_LONGSHOT_ON
<1>2. PICK x \in LongshotOn(h) : b = x.h
  BY DEF Outcomes
<1>3. h \in Hal
  BY DEF Safe
<1>4. Carried(h, b)
  BY <1>2, <1>3, LongshotEntered DEF Carried
<1>5. Safe(b) /\ b.m_state = "PREVIEWING" /\ b.setup.longshot
  BY <1>4, SafeCarried DEF Carried, Base
<1>6. CASE a \in Outcomes(PrepareAndStart(stopPreview(b)))
  <2>1. PICK c : c = stopPreview(b)
    OBVIOUS
  <2>2. PICK o \in PrepareAndStart(c) : a = o.h
    BY <1>6, <2>1 DEF Outcomes
  <2>3. b \in Hal /\ b.live = "none"
    BY <1>5, InPreviewing DEF Previews
  <2>4. Kept(b, c) /\ Down(c) /\ c.m_channels["VIDEO"] = "null"
    BY <2>1, <2>3, PreviewStopped
  <2>5. /\ c \in Hal /\ c.live = "none" /\ c.m_state = "PREVIEWING" /\ ~IsPlain(c)
        /\ c.m_channels["VIDEO"] # "running" /\ c.m_channels["ZSL"] # "running"
    BY <1>5, <2>3, <2>4 DEF Kept, Base, Down, IsPlain
  <2>6. /\ Previews(o.h) /\ o.h.m_state = c.m_state
        /\ IsPlain(o.h) => o.h.pproc = "stopped"
    BY <2>5, PreviewAgain
  <2> QED
    BY <2>2, <2>5, <2>6, SafePreviewing
<1> QED
  BY <1>1, <1>5, <1>6

\* The handler of PREVIEWING keeps the invariant.
LEMMA SafeInPreviewing ==
  ASSUME Safe(hal), procEvtPreviewingState
  PROVE  Safe(hal')
<1>1. hal.m_state = "PREVIEWING"
  BY DEF procEvtPreviewingState
<1>2. Previews(hal) /\ (IsPlain(hal) => hal.pproc = "stopped")
  BY <1>1, InPreviewing
<1>3. ASSUME NEW p \in ParamStrings(hal), hal' \in RestartWithParams(hal, p, "PREVIEW_STOPPED")
      PROVE  Safe(hal')
  BY <1>1, <1>3, SafeRestarted
<1>4. ASSUME hal' = GoTo(stopPreview(hal), "PREVIEW_STOPPED")
      PROVE  Safe(hal')
  BY <1>2, <1>4, SafeGivenUp DEF Previews
<1>5. ASSUME NEW o \in startRecording(hal), hal' = IF o.ok THEN GoTo(o.h, "RECORDING") ELSE o.h
      PROVE  Safe(hal')
  BY <1>1, <1>5, SafeRecordingStarted
<1>6. ASSUME hal' = GoTo(hal, "PREPARE_SNAPSHOT")
      PROVE  Safe(hal')
  <2>1. PICK a : a = GoTo(hal, "PREPARE_SNAPSHOT")
    OBVIOUS
  <2>2. Moved(hal, "PREPARE_SNAPSHOT", a)
    BY <1>2, <2>1, StateEntered DEF Previews, States
  <2>3. Previews(a) /\ (IsPlain(a) => a.pproc = "stopped") /\ a.m_state = "PREPARE_SNAPSHOT"
    BY <1>2, <2>2
    DEF Previews, Moved, Modes, Pending, Picture, Committing, IsPlain, ZslModes, Up
  <2>4. Safe(a)
    BY <2>3, SafePreviewing
  <2> QED
    BY <1>6, <2>1, <2>4
<1>7. ASSUME hal' \in Previewing_TAKE_PICTURE(hal)
      PROVE  Safe(hal')
  BY <1>1, <1>7, SafeTakePicture
<1>8. ASSUME hal.setup.longshot, hal' \in Previewing_LONGSHOT_ON(hal)
      PROVE  Safe(hal')
  BY <1>1, <1>8, SafeLongshotOn
<1> QED
  BY <1>3, <1>4, <1>5, <1>6, <1>7, <1>8
  DEF procEvtPreviewingState, Becomes, Previewing_START_RECORDING

(***************************************************************************)
(* PREPARE_SNAPSHOT and PIC_TAKING.                                        *)
(***************************************************************************)

\* An event that is taken from the queue changes nothing else.
LEMMA SafeTaken ==
  ASSUME NEW h, Safe(h), h.evt_queue # << >>, NEW a, a = Taken(h)
  PROVE  Safe(a) /\ a.m_state = h.m_state /\ a.setup = h.setup
<1>1. h \in Hal
  BY DEF Safe
<1>2. Kept(h, a) /\ a.m_channels = h.m_channels
  BY <1>1, EventTaken
<1>3. Streams(h, a)
  BY <1>2 DEF Streams
<1> QED
  BY <1>2, <1>3, KeptCarries, SafeCarried DEF Kept, Base

\* A request to cancel changes nothing but their number.
LEMMA SafeCancelRequest ==
  ASSUME NEW h, Safe(h), NEW a, a = h \/ a = [h EXCEPT !.cancels = @ - 1]
  PROVE  Safe(a) /\ a.m_state = h.m_state
<1>1. h \in Hal
  BY DEF Safe
<1>2. CASE a = [h EXCEPT !.cancels = @ - 1]
  <2>1. Kept(h, a) /\ Streams(h, a)
    BY <1>1, <1>2 DEF Hal, Kept, Base, Modes, Pending, Picture, Streams
  <2> QED
    BY <2>1, KeptCarries, SafeCarried DEF Kept, Base
<1> QED
  BY <1>2

\* The handler of PREPARE_SNAPSHOT keeps the invariant.
LEMMA SafeInPrepareSnapshot ==
  ASSUME Safe(hal), procEvtPrepareSnapshotState
  PROVE  Safe(hal')
<1>1. /\ hal.m_state = "PREPARE_SNAPSHOT" /\ hal.evt_queue # << >>
      /\ hal' = GoTo(Taken(hal), "PREVIEWING")
  BY DEF procEvtPrepareSnapshotState, Becomes, IsNext
<1>2. PICK b : b = Taken(hal)
  OBVIOUS
<1>3. Safe(b) /\ b.m_state = "PREPARE_SNAPSHOT"
  BY <1>1, <1>2, SafeTaken
<1>4. Previews(b) /\ (IsPlain(b) => b.pproc = "stopped")
  BY <1>3, InPreviewing
<1>5. PICK a : a = GoTo(b, "PREVIEWING")
  OBVIOUS
<1>6. Moved(b, "PREVIEWING", a)
  BY <1>4, <1>5, StateEntered DEF Previews, States
<1>7. Previews(a) /\ (IsPlain(a) => a.pproc = "stopped") /\ a.m_state = "PREVIEWING"
  BY <1>4, <1>6
  DEF Previews, Moved, Modes, Pending, Picture, Committing, IsPlain, ZslModes, Up
<1> QED
  BY <1>1, <1>2, <1>5, <1>7, SafePreviewing

\* What the invariant says of a HAL in PIC_TAKING.
LEMMA InPicture ==
  ASSUME NEW h, Safe(h), h.m_state = "PIC_TAKING"
  PROVE  /\ h \in Hal /\ h.live = "none" /\ h.m_channels["VIDEO"] # "running"
         /\ Committing(h) => ~Up(h) /\ h.m_channels["ZSL"] # "running"
         /\ IsPlain(h) => Down(h) /\ ~h.longshot
BY DEF Safe, Recorded, Joined, StopsWithState, PlainInv, Up

\* A picture that ends leads to PREVIEW_STOPPED, or with the early restart to
\* PREVIEWING, where no preview may run.
LEMMA SafePictureEnds ==
  ASSUME NEW h, Safe(h), h.m_state = "PIC_TAKING",
         NEW s, s = "PREVIEW_STOPPED" \/ (s = "PREVIEWING" /\ h.setup.restart),
         NEW a, a = GoTo(cancelPicture(h), s)
  PROVE  Safe(a)
<1>1. /\ h \in Hal /\ h.live = "none" /\ h.m_channels["VIDEO"] # "running"
      /\ Committing(h) => ~Up(h) /\ h.m_channels["ZSL"] # "running"
      /\ IsPlain(h) => Down(h) /\ ~h.longshot
  BY InPicture
<1>2. PICK b : b = cancelPicture(h)
  OBVIOUS
<1>3. /\ Base(h, b) /\ Streams(h, b) /\ b.pproc = "stopped" /\ b.longshot = h.longshot
  BY <1>1, <1>2, PictureCancelled
<1>4. Moved(b, s, a)
  BY <1>2, <1>3, StateEntered DEF Base, States
<1>5. /\ a \in Hal /\ a.m_state = s /\ a.live = "none" /\ a.setup = h.setup
      /\ a.m_channels["VIDEO"] # "running"
      /\ a.m_channels["ZSL"] = h.m_channels["ZSL"]
      /\ (Up(a) <=> Up(h)) /\ (Down(a) <=> Down(h))
      /\ a.pproc = "stopped" /\ a.longshot = h.longshot
  BY <1>1, <1>3, <1>4 DEF Moved, Base, Streams, Picture, Up, Down
<1>6. CASE s = "PREVIEW_STOPPED"
  BY <1>1, <1>5, <1>6, SafeStopped DEF Committing, IsPlain
<1>7. CASE s = "PREVIEWING" /\ h.setup.restart
  <2>1. Previews(a) /\ ~IsPlain(a)
    BY <1>1, <1>5, <1>7 DEF Previews, Committing, IsPlain, ZslModes
  <2> QED
    BY <1>5, <1>7, <2>1, SafePreviewing
<1> QED
  BY <1>6, <1>7

\* LONGSHOT_OFF during a picture goes back to PREVIEWING.
LEMMA SafeLongshotEnds ==
  ASSUME NEW h, Safe(h), h.m_state \in {"PIC_TAKING", "PREVIEW_PIC_TAKING"}, h.setup.longshot,
         NEW b \in Outcomes(LongshotOff(h)), NEW a, a = GoTo(b, "PREVIEWING")
  PROVE  Safe(a)
<1>1. PICK o \in LongshotOff(h) : b = o.h
  BY DEF Outcomes
<1>2. /\ h \in Hal /\ h.live = "none" /\ h.m_channels["VIDEO"] # "running"
      /\ Committing(h) => ZslModes(h)
  BY InPicture, InPreviewPicture DEF Previews, ZslModes
<1>3. /\ Base(h, b) /\ Pending(h, b) /\ Streams(h, b)
      /\ Modes(h, b) \/ (b.zsl = h.zsl_new /\ b.hint = h.hint_new)
  BY <1>1, <1>2, LongshotLeft
<1>4. Moved(b, "PREVIEWING", a)
  BY <1>3, StateEntered DEF Base, States
<1>5. /\ a \in Hal /\ a.m_state = "PREVIEWING" /\ a.live = "none" /\ a.setup = h.setup
      /\ a.m_channels["VIDEO"] # "running" /\ a.m_channels["ZSL"] = h.m_channels["ZSL"]
  BY <1>2, <1>3, <1>4 DEF Moved, Base, Streams
<1>6. ZslModes(h) => ZslModes(a)
  BY <1>3, <1>4, <1>5 DEF Moved, Modes, Pending, ZslModes
<1>7. Previews(a) /\ ~IsPlain(a)
  BY <1>2, <1>5, <1>6 DEF Previews, Committing, IsPlain
<1> QED
  BY <1>5, <1>7, SafePreviewing

\* The handler of PIC_TAKING keeps the invariant.
LEMMA SafeInPicture ==
  ASSUME Safe(hal), procEvtPicTakingState
  PROVE  Safe(hal')
<1>1. hal.m_state = "PIC_TAKING"
  BY DEF procEvtPicTakingState
<1>2. ASSUME NEW p \in ParamStrings(hal), hal' \in CommitIfOk(hal, p)
      PROVE  Safe(hal')
  BY <1>1, <1>2, SafeSetParams
<1>3. ASSUME NEW c \in CancelRequests(hal), hal' = PicTaking_Cancel(c)
      PROVE  Safe(hal')
  <2>1. Safe(c) /\ c.m_state = "PIC_TAKING"
    BY <1>1, <1>3, SafeCancelRequest DEF CancelRequests
  <2> QED
    BY <1>3, <2>1, SafePictureEnds DEF PicTaking_Cancel
<1>4. ASSUME hal.setup.longshot, NEW b \in Outcomes(LongshotOff(hal)),
             hal' = GoTo(b, "PREVIEWING")
      PROVE  Safe(hal')
  BY <1>1, <1>4, SafeLongshotEnds
<1>5. ASSUME IsNext(DoneEvents), hal' = PicTaking_SNAPSHOT_DONE(Taken(hal))
      PROVE  Safe(hal')
  <2>1. PICK b : b = Taken(hal)
    OBVIOUS
  <2>2. Safe(b) /\ b.m_state = "PIC_TAKING"
    BY <1>1, <1>5, <2>1, SafeTaken DEF IsNext
  <2>3. hal' = GoTo(cancelPicture(b), IF b.setup.restart THEN "PREVIEWING" ELSE "PREVIEW_STOPPED")
    BY <1>5, <2>1 DEF PicTaking_SNAPSHOT_DONE
  <2> QED
    BY <2>2, <2>3, SafePictureEnds
<1> QED
  BY <1>2, <1>3, <1>4, <1>5 DEF procEvtPicTakingState, Becomes

(***************************************************************************)
(* RECORDING and VIDEO_PIC_TAKING.                                         *)
(***************************************************************************)

\* What the invariant says of a HAL that records.
Records(h) ==
  /\ h \in Hal /\ h.m_channels["VIDEO"] = "running"
  /\ Committing(h) => h.m_channels["ZSL"] # "running"
  /\ IsPlain(h) => ~h.longshot /\ Up(h) /\ h.m_channels["ZSL"] # "idle"

\* The invariant says so in both recording states.
LEMMA InRecording ==
  ASSUME NEW h, Safe(h), h.m_state \in {"RECORDING", "VIDEO_PIC_TAKING"}
  PROVE  /\ Records(h)
         /\ h.m_state = "RECORDING" =>
              h.live = "none" /\ (IsPlain(h) => h.pproc = "stopped")
BY DEF Safe, Recorded, Joined, ZslInMode, PlainInv, isCaptureRunning, Records

\* Its recording ends, once no live snapshot is left: preview goes on, or is
\* stopped too.
LEMMA SafeRecordingEnds ==
  ASSUME NEW h, Records(h), h.live = "none", IsPlain(h) => h.pproc = "stopped",
         NEW a, a = GoTo(stopRecording(h), "PREVIEWING") \/ a = Recording_STOP_PREVIEW(h)
  PROVE  Safe(a)
<1>1. PICK b : b = stopRecording(h)
  OBVIOUS
<1>2. /\ Kept(h, b) /\ b.m_channels["VIDEO"] # "running"
      /\ \A d \in Channels : d # "VIDEO" => b.m_channels[d] = h.m_channels[d]
  <2>1. b = stopChannel(h, "VIDEO") /\ "VIDEO" \in Channels /\ h \in Hal
    BY <1>1 DEF stopRecording, Channels, Records
  <2> QED
    BY <2>1, Halted
<1>3. /\ b.m_channels["ZSL"] = h.m_channels["ZSL"]
      /\ b.m_channels["PREVIEW"] = h.m_channels["PREVIEW"]
  BY <1>2 DEF Channels
<1>4. /\ b \in Hal /\ b.live = "none" /\ b.setup = h.setup
      /\ IsPlain(b) => ~b.longshot /\ b.pproc = "stopped"
  BY <1>2 DEF Records, Kept, Base, Picture, IsPlain
<1>5. CASE a = Recording_STOP_PREVIEW(h)
  BY <1>1, <1>4, <1>5, SafeGivenUp DEF Recording_STOP_PREVIEW
<1>6. CASE a = GoTo(stopRecording(h), "PREVIEWING")
  <2>1. Moved(b, "PREVIEWING", a)
    BY <1>1, <1>4, <1>6, StateEntered DEF States
  <2>2. /\ a \in Hal /\ a.m_state = "PREVIEWING" /\ a.live = "none" /\ a.setup = h.setup
        /\ a.m_channels["VIDEO"] # "running"
        /\ a.m_channels["ZSL"] = h.m_channels["ZSL"] /\ (Up(a) <=> Up(h))
        /\ IsPlain(a) => ~a.longshot /\ a.pproc = "stopped"
    BY <1>2, <1>3, <1>4, <2>1 DEF Moved, Picture, Up, IsPlain
  <2>3. Previews(a)
    BY <2>2 DEF Previews, Records, Committing, IsPlain, ZslModes
  <2> QED
    BY <2>2, <2>3, SafePreviewing
<1> QED
  BY <1>5, <1>6

\* A live snapshot leaves the recording alone.
LEMMA RecordsOn ==
  ASSUME NEW h, Records(h), NEW a, LiveShot(h, a)
  PROVE  Records(a)
<1>1. /\ a \in Hal /\ a.setup = h.setup /\ a.longshot = h.longshot
      /\ a.m_channels["VIDEO"] = "running"
      /\ a.m_channels["ZSL"] = h.m_channels["ZSL"]
      /\ Up(a) <=> Up(h)
  BY DEF Records, LiveShot, Streams, Up
<1> QED
  BY <1>1 DEF Records, Committing, IsPlain

\* TAKE_PICTURE during a recording starts the thread of a live snapshot.
LEMMA SafeLivePicture ==
  ASSUME NEW h, Safe(h), h.m_state = "RECORDING", NEW a \in Recording_TAKE_PICTURE(h)
  PROVE  Safe(a)
<1>1. PICK g : g = GoTo(h, "VIDEO_PIC_TAKING")
  OBVIOUS
<1>2. PICK o \in takeLiveSnapshot(g) : a = IF o.ok THEN o.h ELSE GoTo(o.h, "RECORDING")
  BY <1>1 DEF Recording_TAKE_PICTURE
<1>3. Records(h) /\ h.live = "none" /\ (IsPlain(h) => h.pproc = "stopped")
  BY InRecording
<1>4. Moved(h, "VIDEO_PIC_TAKING", g)
  BY <1>1, <1>3, StateEntered DEF Records, States
<1>5. Records(g) /\ g.m_state = "VIDEO_PIC_TAKING" /\ g.live = "none" /\ g.setup = h.setup
      /\ g.pproc = h.pproc
  BY <1>3, <1>4 DEF Records, Moved, Picture, Committing, IsPlain, Up
<1>6. /\ o \in Result /\ LiveShot(g, o.h) /\ (~o.ok => o.h = g)
  BY <1>2, <1>5, LiveSnapshotTaken DEF Records
<1>7. CASE o.ok
  <2>1. Records(a) /\ a.m_state = "VIDEO_PIC_TAKING"
    BY <1>2, <1>5, <1>6, <1>7, RecordsOn DEF LiveShot
  <2> QED
    BY <2>1, SafeRecording DEF Records
<1>8. CASE ~o.ok
  <2>1. Moved(g, "RECORDING", a)
    BY <1>2, <1>5, <1>6, <1>8, StateEntered DEF Records, States
  <2>2. /\ Records(a) /\ a.m_state = "RECORDING" /\ a.live = "none" /\ a.setup = h.setup
        /\ a.pproc = h.pproc
    BY <1>5, <2>1 DEF Records, Moved, Picture, Committing, IsPlain, Up
  <2>3. IsPlain(a) => a.pproc = "stopped"
    BY <1>3, <2>2 DEF IsPlain
  <2> QED
    BY <2>2, <2>3, SafeRecording DEF Records
<1> QED
  BY <1>7, <1>8

\* The handler of RECORDING keeps the invariant.
LEMMA SafeInRecording ==
  ASSUME Safe(hal), procEvtRecordingState
  PROVE  Safe(hal')
<1>1. hal.m_state = "RECORDING"
  BY DEF procEvtRecordingState
<1>2. ASSUME NEW p \in ParamStrings(hal), hal' \in RefuseRestart(hal, p)
      PROVE  Safe(hal')
  BY <1>1, <1>2, SafeSetParams
<1>3. ASSUME hal' \in Recording_TAKE_PICTURE(hal)
      PROVE  Safe(hal')
  BY <1>1, <1>3, SafeLivePicture
<1>4. ASSUME \/ hal' = GoTo(stopRecording(hal), "PREVIEWING")
             \/ hal' = Recording_STOP_PREVIEW(hal)
      PROVE  Safe(hal')
  BY <1>1, <1>4, InRecording, SafeRecordingEnds
<1> QED
  BY <1>2, <1>3, <1>4 DEF procEvtRecordingState, Becomes

\* CANCEL_PICTURE and SNAPSHOT_DONE of a live snapshot go back to RECORDING.
LEMMA SafeLivePictureEnds ==
  ASSUME NEW h, Safe(h), h.m_state = "VIDEO_PIC_TAKING", NEW b \in cancelLiveSnapshot(h),
         NEW a, \/ a = GoTo(b, "RECORDING")
                \/ a = GoTo(stopRecording(b), "PREVIEWING")
                \/ a = Recording_STOP_PREVIEW(b)
  PROVE  Safe(a)
<1>1. Records(h)
  BY InRecording
<1>2. LiveShot(h, b) /\ b.live = "none" /\ b.pproc = "stopped"
  BY <1>1, LiveSnapshotCancelled DEF Records
<1>3. Records(b)
  BY <1>1, <1>2, RecordsOn
<1>4. CASE a = GoTo(b, "RECORDING")
  <2>1. Moved(b, "RECORDING", a)
    BY <1>3, <1>4, StateEntered DEF Records, States
  <2>2. Records(a) /\ a.m_state = "RECORDING" /\ a.live = "none" /\ a.pproc = "stopped"
    BY <1>2, <1>3, <2>1 DEF Records, Moved, Picture, Committing, IsPlain, Up
  <2> QED
    BY <2>2, SafeRecording DEF Records
<1>5. CASE a = GoTo(stopRecording(b), "PREVIEWING") \/ a = Recording_STOP_PREVIEW(b)
  BY <1>2, <1>3, <1>5, SafeRecordingEnds
<1> QED
  BY <1>4, <1>5

\* The handler of VIDEO_PIC_TAKING keeps the invariant.
LEMMA SafeInLivePicture ==
  ASSUME Safe(hal), procEvtVideoPicTakingState
  PROVE  Safe(hal')
<1>1. hal.m_state = "VIDEO_PIC_TAKING"
  BY DEF procEvtVideoPicTakingState
<1>2. ASSUME NEW p \in ParamStrings(hal), hal' \in RefuseRestart(hal, p)
      PROVE  Safe(hal')
  BY <1>1, <1>2, SafeSetParams
<1>3. ASSUME NEW h, Safe(h), h.m_state = "VIDEO_PIC_TAKING", NEW a,
             \/ a \in VideoPicTaking_STOP_RECORDING(h)
             \/ a \in VideoPicTaking_STOP_PREVIEW(h)
             \/ a \in VideoPicTaking_EndPicture(h)
      PROVE  Safe(a)
  <2>1. PICK b \in cancelLiveSnapshot(h) : \/ a = GoTo(b, "RECORDING")
                                           \/ a = GoTo(stopRecording(b), "PREVIEWING")
                                           \/ a = Recording_STOP_PREVIEW(b)
    BY <1>3 DEF VideoPicTaking_STOP_RECORDING, VideoPicTaking_STOP_PREVIEW,
                VideoPicTaking_EndPicture
  <2> QED
    BY <1>3, <2>1, SafeLivePictureEnds
<1>4. ASSUME NEW c \in CancelRequests(hal), hal' \in VideoPicTaking_EndPicture(c)
      PROVE  Safe(hal')
  <2>1. Safe(c) /\ c.m_state = "VIDEO_PIC_TAKING"
    BY <1>1, <1>4, SafeCancelRequest DEF CancelRequests
  <2> QED
    BY <1>3, <1>4, <2>1
<1>5. ASSUME IsNext(DoneEvents), hal' \in VideoPicTaking_EndPicture(Taken(hal))
      PROVE  Safe(hal')
  <2>1. Safe(Taken(hal)) /\ Taken(hal).m_state = "VIDEO_PIC_TAKING"
    BY <1>1, <1>5, SafeTaken DEF IsNext
  <2> QED
    BY <1>3, <1>5, <2>1
<1> QED
  BY <1>1, <1>2, <1>3, <1>4, <1>5 DEF procEvtVideoPicTakingState, Becomes

(***************************************************************************)
(* PREVIEW_PIC_TAKING.                                                     *)
(***************************************************************************)

\* The clean-up of a picture taken from the preview.
LEMMA PreviewPictureCancelled ==
  ASSUME NEW h, Safe(h), h.m_state = "PREVIEW_PIC_TAKING", NEW a \in PreviewPicTaking_Cancel(h)
  PROVE  Previews(a) /\ a.pproc = "stopped"
<1>1. Previews(h) /\ h \in Hal
  BY InPreviewPicture DEF Previews
<1>2. /\ a \in Hal /\ a.setup = h.setup /\ a.live = "none" /\ a.pproc = "stopped"
      /\ Modes(h, a) /\ Pending(h, a) /\ Streams(h, a) /\ a.longshot = h.longshot
  <2>1. CASE h.zsl \/ h.longshot
    <3>1. a = cancelPicture(h)
      BY <2>1 DEF PreviewPicTaking_Cancel
    <3> QED
      BY <1>1, <3>1, PictureCancelled DEF Base, Previews
  <2>2. CASE ~(h.zsl \/ h.longshot)
    <3>1. a \in cancelLiveSnapshot(h)
      BY <2>2 DEF PreviewPicTaking_Cancel
    <3> QED
      BY <1>1, <3>1, LiveSnapshotCancelled DEF LiveShot
  <2> QED
    BY <2>1, <2>2
<1>3. /\ a.m_channels["ZSL"] = h.m_channels["ZSL"]
      /\ a.m_channels["VIDEO"] = h.m_channels["VIDEO"]
      /\ Up(a) <=> Up(h)
  BY <1>2 DEF Streams, Up
<1>4. ZslModes(h) => ZslModes(a)
  BY <1>2, <1>3 DEF ZslModes, Modes, Pending
<1> QED
  BY <1>1, <1>2, <1>3, <1>4 DEF Previews, Committing, IsPlain

\* CANCEL_PICTURE and SNAPSHOT_DONE go back to PREVIEWING.
LEMMA SafePreviewPictureEnds ==
  ASSUME NEW h, Safe(h), h.m_state = "PREVIEW_PIC_TAKING",
         NEW a \in PreviewPicTaking_EndPicture(h)
  PROVE  Safe(a)
<1>1. PICK b \in PreviewPicTaking_Cancel(h) : a = GoTo(b, "PREVIEWING")
  BY DEF PreviewPicTaking_EndPicture
<1>2. Previews(b) /\ b.pproc = "stopped"
  BY PreviewPictureCancelled
<1>3. Moved(b, "PREVIEWING", a)
  BY <1>1, <1>2, StateEntered DEF Previews, States
<1>4. Previews(a) /\ a.pproc = "stopped" /\ a.m_state = "PREVIEWING"
  BY <1>2, <1>3
  DEF Previews, Moved, Modes, Pending, Picture, Committing, IsPlain, ZslModes, Up
<1> QED
  BY <1>4, SafePreviewing

\* The handler of PREVIEW_PIC_TAKING keeps the invariant.
LEMMA SafeInPreviewPicture ==
  ASSUME Safe(hal), procEvtPreviewPicTakingState
  PROVE  Safe(hal')
<1>1. hal.m_state = "PREVIEW_PIC_TAKING"
  BY DEF procEvtPreviewPicTakingState
<1>2. ASSUME NEW p \in ParamStrings(hal), hal' \in RestartWithParams(hal, p, "PIC_TAKING")
      PROVE  Safe(hal')
  BY <1>1, <1>2, SafeRestarted
<1>3. ASSUME NEW c \in CancelRequests(hal), hal' \in PreviewPicTaking_EndPicture(c)
      PROVE  Safe(hal')
  <2>1. Safe(c) /\ c.m_state = "PREVIEW_PIC_TAKING"
    BY <1>1, <1>3, SafeCancelRequest DEF CancelRequests
  <2> QED
    BY <1>3, <2>1, SafePreviewPictureEnds
<1>4. ASSUME hal' \in PreviewPicTaking_STOP_PREVIEW(hal)
      PROVE  Safe(hal')
  <2>1. PICK b \in PreviewPicTaking_Cancel(hal) :
          hal' = GoTo(unpreparePreview(b), "PREVIEW_STOPPED")
    BY <1>4 DEF PreviewPicTaking_STOP_PREVIEW
  <2>2. Previews(b) /\ b.pproc = "stopped"
    BY <1>1, PreviewPictureCancelled
  <2> QED
    BY <2>1, <2>2, SafeGivenUp DEF Previews
<1>5. ASSUME NEW o \in startRecording(hal),
             hal' = IF o.ok THEN GoTo(o.h, "VIDEO_PIC_TAKING") ELSE o.h
      PROVE  Safe(hal')
  BY <1>1, <1>5, SafeRecordingStarted
<1>6. ASSUME hal.setup.longshot, NEW b \in Outcomes(LongshotOff(hal)),
             hal' = GoTo(b, "PREVIEWING")
      PROVE  Safe(hal')
  BY <1>1, <1>6, SafeLongshotEnds
<1>7. ASSUME IsNext(DoneEvents), hal' \in PreviewPicTaking_EndPicture(Taken(hal))
      PROVE  Safe(hal')
  <2>1. Safe(Taken(hal)) /\ Taken(hal).m_state = "PREVIEW_PIC_TAKING"
    BY <1>1, <1>7, SafeTaken DEF IsNext
  <2> QED
    BY <1>7, <2>1, SafePreviewPictureEnds
<1> QED
  BY <1>2, <1>3, <1>4, <1>5, <1>6, <1>7
  DEF procEvtPreviewPicTakingState, Becomes, PreviewPicTaking_START_RECORDING

(***************************************************************************)
(* What is handled alike in several states, and the other threads.         *)
(***************************************************************************)

\* LONGSHOT_ON and LONGSHOT_OFF elsewhere only commit.
LEMMA SafeCommand ==
  ASSUME Safe(hal), sendCommand
  PROVE  Safe(hal')
<1>1. hal \in Hal /\ hal.setup.longshot
  BY DEF Safe, sendCommand
<1>2. PICK o : o \in LongshotOn(hal) \cup LongshotOff(hal) /\ hal' = o.h
  BY DEF sendCommand, Becomes, Outcomes
<1>3. Carried(hal, o.h)
  <2>1. CASE o \in LongshotOn(hal)
    BY <1>1, <2>1, LongshotEntered DEF Carried
  <2>2. CASE o \in LongshotOff(hal)
    BY <1>1, <2>2, LongshotLeft DEF Carried
  <2> QED
    BY <1>2, <2>1, <2>2
<1> QED
  BY <1>2, <1>3, SafeCarried

\* The thermal notification, ignored events and commands.
LEMMA SafeElsewhere ==
  ASSUME Safe(hal), thermalEvtHandle \/ IgnoreEvent \/ IgnoreCancel
  PROVE  Safe(hal')
<1>1. CASE thermalEvtHandle
  BY <1>1, SafeCommitted DEF thermalEvtHandle, Becomes, updateThermalLevel
<1>2. CASE IgnoreEvent
  BY <1>2, SafeTaken DEF IgnoreEvent, Becomes, IsNext
<1>3. CASE IgnoreCancel
  BY <1>3, SafeCancelRequest DEF IgnoreCancel, Becomes
<1> QED
  BY <1>1, <1>2, <1>3

\* The post-processor that owes an event belongs to a picture.
LEMMA SafeSnapshotDone ==
  ASSUME Safe(hal), SnapshotDone
  PROVE  Safe(hal')
<1>1. hal \in Hal /\ hal.pproc = "owing"
  BY DEF Safe, SnapshotDone
<1>2. PICK q : q = [hal EXCEPT !.evt_queue = Append(@, "SNAPSHOT_DONE")]
  OBVIOUS
<1>3. Kept(hal, q) /\ q.m_channels = hal.m_channels
  <2>1. "SNAPSHOT_DONE" \in Events
    BY DEF Events
  <2> QED
    BY <1>1, <1>2, <2>1, EventQueued, Zenon
<1>4. Safe(q) /\ q \in Hal /\ q.pproc = "owing"
  BY <1>1, <1>3, KeptCarries, SafeCarried DEF Kept, Base, Streams, Picture
<1>5. PICK a : a = [q EXCEPT !.pproc = "started"]
  OBVIOUS
<1>6. hal' = a
  <2>1. hal' = [hal EXCEPT !.pproc = "started", !.evt_queue = Append(@, "SNAPSHOT_DONE")]
    BY DEF SnapshotDone, Becomes
  <2>2. PICK e : e = Append(hal.evt_queue, "SNAPSHOT_DONE")
    OBVIOUS
  <2>3. hal' = [hal EXCEPT !.pproc = "started", !.evt_queue = e]
    BY <2>1, <2>2
  <2>4. a = [[hal EXCEPT !.evt_queue = e] EXCEPT !.pproc = "started"]
    BY <1>2, <1>5, <2>2
  <2> QED
    BY <1>1, <2>3, <2>4 DEF Hal
<1>7. Shot(q, a)
  BY <1>4, <1>5, PostProcSet
<1>8. /\ a \in Hal /\ a.m_state = q.m_state /\ a.setup = q.setup /\ a.live = q.live
      /\ a.zsl = q.zsl /\ a.zsl_new = q.zsl_new /\ a.hint = q.hint /\ a.hint_new = q.hint_new
      /\ a.longshot = q.longshot
      /\ a.m_channels["ZSL"] = q.m_channels["ZSL"]
      /\ a.m_channels["PREVIEW"] = q.m_channels["PREVIEW"]
      /\ a.m_channels["VIDEO"] = q.m_channels["VIDEO"]
      /\ (Up(a) <=> Up(q)) /\ (Down(a) <=> Down(q))
  BY <1>7 DEF Shot, Base, Modes, Pending, Streams, Up, Down
<1>9. Recorded(a) /\ Joined(a)
  BY <1>4, <1>8 DEF Safe, Recorded, Joined
<1>10. Committing(a) => StopsWithState(a) /\ ZslInMode(a)
  BY <1>4, <1>8 DEF Safe, Committing, StopsWithState, ZslInMode
<1>11. IsPlain(a) => PlainInv(a)
  BY <1>4, <1>8 DEF Safe, IsPlain, PlainInv, isCaptureRunning
<1> QED
  BY <1>6, <1>8, <1>9, <1>10, <1>11 DEF Safe

\* The event of the prepared hardware is only queued.
LEMMA SafePrepSnapshotDone ==
  ASSUME Safe(hal), PrepSnapshotDone
  PROVE  Safe(hal')
<1>1. hal \in Hal /\ "PREP_SNAPSHOT_DONE" \in Events
  BY DEF Safe, Events
<1>2. PICK q : q = [hal EXCEPT !.evt_queue = Append(@, "PREP_SNAPSHOT_DONE")]
  OBVIOUS
<1>3. Kept(hal, q) /\ q.m_channels = hal.m_channels
  BY <1>1, <1>2, EventQueued, Zenon
<1>4. Safe(q)
  BY <1>3, KeptCarries, SafeCarried DEF Streams
<1> QED
  BY <1>2, <1>4 DEF PrepSnapshotDone, Becomes

\* The thread of a live snapshot runs only in VIDEO_PIC_TAKING.
LEMMA SafeLiveThread ==
  ASSUME Safe(hal), LiveSnapshotThread
  PROVE  Safe(hal')
<1>1. PICK o \in takeLiveSnapshot_internal(hal) : hal' = o.h
  BY DEF LiveSnapshotThread, Becomes, Outcomes
<1>2. hal.m_state = "VIDEO_PIC_TAKING"
  BY DEF LiveSnapshotThread, Safe, Joined
<1>3. Records(hal) /\ hal \in Hal
  BY <1>2, InRecording DEF Records
<1>4. LiveShot(hal, o.h)
  BY <1>3, LiveThreadWorks
<1>5. Records(o.h) /\ o.h.m_state = "VIDEO_PIC_TAKING"
  BY <1>2, <1>3, <1>4, RecordsOn DEF LiveShot
<1> QED
  BY <1>1, <1>5, SafeRecording DEF Records
-----------------------------------------------------------------------------
(***************************************************************************)
(* The invariant holds in every state.                                     *)
(***************************************************************************)
CameraInv == Safe(hal)

\* It holds when the camera is opened.
LEMMA SafeInit == Init => Safe(hal)
<1> SUFFICES ASSUME Init
             PROVE  Safe(hal)
  OBVIOUS
<1>1. /\ hal.m_state = "PREVIEW_STOPPED" /\ hal.live = "none" /\ hal.pproc = "stopped"
      /\ ~hal.longshot /\ hal.m_channels = [c \in Channels |-> "null"]
  BY DEF Init
<1>2. hal \in Hal
  <2>1. [c \in Channels |-> "null"] \in [Channels -> {"null", "idle", "running"}]
    OBVIOUS
  <2>2. << >> \in Seq(Events) /\ 0 \in Int /\ {} \in SUBSET BOOLEAN
    OBVIOUS
  <2> QED
    BY <2>1, <2>2 DEF Init, Hal, States
<1>3. Down(hal) /\ ~Up(hal) /\ hal.m_channels["VIDEO"] # "running"
  BY <1>1 DEF Down, Up, Channels
<1> QED
  BY <1>1, <1>2, <1>3, SafeStopped

\* Every step of every thread keeps it.
LEMMA SafeNext == Safe(hal) /\ [Next]_hal => Safe(hal')
<1> SUFFICES ASSUME Safe(hal), [Next]_hal
             PROVE  Safe(hal')
  OBVIOUS
<1>1. CASE UNCHANGED hal
  BY <1>1
<1>2. CASE procEvtPreviewStoppedState
  BY <1>2, SafeInStopped
<1>3. CASE procEvtPreviewReadyState
  BY <1>3, SafeInReady
<1>4. CASE procEvtPreviewingState
  BY <1>4, SafeInPreviewing
<1>5. CASE procEvtPrepareSnapshotState
  BY <1>5, SafeInPrepareSnapshot
<1>6. CASE procEvtPicTakingState
  BY <1>6, SafeInPicture
<1>7. CASE procEvtRecordingState
  BY <1>7, SafeInRecording
<1>8. CASE procEvtVideoPicTakingState
  BY <1>8, SafeInLivePicture
<1>9. CASE procEvtPreviewPicTakingState
  BY <1>9, SafeInPreviewPicture
<1>10. CASE sendCommand
  BY <1>10, SafeCommand
<1>11. CASE thermalEvtHandle \/ IgnoreEvent \/ IgnoreCancel
  BY <1>11, SafeElsewhere
<1>12. CASE SnapshotDone
  BY <1>12, SafeSnapshotDone
<1>13. CASE PrepSnapshotDone
  BY <1>13, SafePrepSnapshotDone
<1>14. CASE LiveSnapshotThread
  BY <1>14, SafeLiveThread
<1> QED
  BY <1>1, <1>2, <1>3, <1>4, <1>5, <1>6, <1>7, <1>8, <1>9, <1>10, <1>11, <1>12, <1>13, <1>14
  DEF Next

\* The inductive invariant of the camera state machine.
THEOREM CameraInvariance == Spec => []CameraInv
<1>1. Init => CameraInv
  BY SafeInit DEF CameraInv
<1>2. CameraInv /\ [Next]_hal => CameraInv'
  BY SafeNext DEF CameraInv
<1> QED
  BY <1>1, <1>2, PTL DEF Spec

\* For every setup, whatever fails, the video channel streams exactly in the
\* recording states (m_channels[QCAMERA_CH_TYPE_VIDEO] against m_state).
THEOREM RecordingIsSeen == Spec => []RecordingMatchesState
<1>1. CameraInv => RecordingMatchesState
  BY DEF CameraInv, Safe, Recorded, RecordingMatchesState
<1> QED
  BY <1>1, CameraInvariance, PTL

\* For every setup the thread of a live snapshot is joined before its state
\* is left (cancelLiveSnapshot before each exit of VIDEO_PIC_TAKING).
THEOREM LiveThreadsAreJoined == Spec => []LiveThreadIsJoined
<1>1. CameraInv => LiveThreadIsJoined
  BY DEF CameraInv, Safe, Joined, LiveThreadIsJoined
<1> QED
  BY <1>1, CameraInvariance, PTL

\* Where commits and parameter strings do not fail, no preview or ZSL channel
\* streams in a state without preview, whatever else fails.
THEOREM PreviewIsStopped == Spec => []PreviewStopsWithState
<1>1. CameraInv => PreviewStopsWithState
  BY DEF CameraInv, Safe, Committing, StopsWithState, PreviewStopsWithState, PreviewUp, Up
<1> QED
  BY <1>1, CameraInvariance, PTL

\* Where nothing fails, the states that stand for a running preview have one,
\* through every rebuild for a picture, a recording or new parameters.
THEOREM PreviewIsRunning == Spec => []PreviewRunsInState
<1>1. CameraInv => PreviewRunsInState
  BY DEF CameraInv, Safe, IsPlain, Plain, PlainInv, PreviewRunsInState, PreviewUp, Up
<1> QED
  BY <1>1, CameraInvariance, PTL

\* Where nothing fails, the post-processor is stopped when no picture is
\* being taken.
THEOREM PostProcStops == Spec => []PostProcEnds
<1>1. CameraInv => PostProcEnds
  BY DEF CameraInv, Safe, IsPlain, Plain, PlainInv, PostProcEnds
<1> QED
  BY <1>1, CameraInvariance, PTL
=============================================================================
