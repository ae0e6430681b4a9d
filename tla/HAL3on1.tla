------------------------------ MODULE HAL3on1 ------------------------------
(***************************************************************************)
(* The adapter that presents the HAL1 camera as a HAL3 device              *)
(* (HAL3on1-adapter.cpp).  A capture request is served by the thread that  *)
(* brings it, buffer by buffer; the frames come from the callback thread   *)
(* of HAL1, of which there is one.  Both sides spin on shared fields: the  *)
(* request until there is a frame, the callback until it has been taken.   *)
(* flush() may run beside a request, without a lock.                       *)
(*                                                                         *)
(* Frames are 0 or 1: there or not.  The settings of a request, the crop   *)
(* of small streams and the torch are left out.                            *)
(***************************************************************************)
EXTENDS Naturals, Sequences

CONSTANTS Requests       \* [still, bufs]: the intent and the output buffers

ASSUME RequestsAssumption ==
  \A r \in Requests : r.still \in BOOLEAN /\ r.bufs \in Seq({"YUV", "BLOB", "VIDEO"})

VARIABLES h3Pc,          \* the device: "closed", "open", "ready", "closing", or
                         \* what a running flush() does next
          reqPc, bufs,   \* the request and its buffers still to be filled
          cb3,           \* the callback thread
          jpeg_size, video_buffer_size, preview_really_started, video_stream,
          hal1, picture, recording, msgs,   \* HAL1, external
          jpegFor,       \* history: whose JPEG it is, "own" or "old"
          kinds,         \* history: buffers asked for since configure_streams
          hurt           \* history: what went beyond ordinary use since then

requestVars == <<reqPc, bufs>>
adapterVars == <<jpeg_size, video_buffer_size, preview_really_started, video_stream>>
hal1Vars    == <<hal1, picture, recording, msgs>>
historyVars == <<jpegFor, kinds, hurt>>
hal3on1Vars == <<h3Pc, requestVars, cb3, adapterVars, hal1Vars, historyVars>>

HAL3on1Init ==
  /\ h3Pc = "closed"
  /\ reqPc = "idle" /\ bufs = << >>
  /\ cb3 = "idle"
  /\ jpeg_size = 0 /\ video_buffer_size = 0 /\ preview_really_started = 0
  /\ video_stream = FALSE
  /\ hal1 = "stopped" /\ picture = "none" /\ recording = FALSE /\ msgs = {}
  /\ jpegFor = "none" /\ kinds = {} /\ hurt = {}

\* The callback thread is in no callback, and no picture is on its way.
Quiet == cb3 = "idle" /\ picture = "none"
-----------------------------------------------------------------------------
\* The adapter's fields are zeroed, HAL1 is opened anew.
camera_device_open ==
  /\ h3Pc = "closed"
  /\ h3Pc' = "open"
  /\ jpeg_size' = 0 /\ video_buffer_size' = 0 /\ preview_really_started' = 0
  /\ video_stream' = FALSE
  /\ hal1' = "stopped" /\ picture' = "none" /\ recording' = FALSE /\ msgs' = {}
  /\ jpegFor' = "none" /\ kinds' = {} /\ hurt' = {}
  /\ UNCHANGED <<requestVars, cb3>>

\* A video stream among the configured ones empties the video buffer, which
\* lets a callback go that waits for it.
configure_streams(video) ==
  /\ h3Pc \in {"open", "ready"} /\ reqPc = "idle"
  /\ h3Pc' = "ready"
  /\ video_buffer_size' = IF video THEN 0 ELSE video_buffer_size
  /\ hal1' = "preview"
  /\ preview_really_started' = 0
  /\ kinds' = {}
  /\ hurt' = IF Quiet /\ ~recording /\ ~video_stream THEN {} ELSE {"busy"}
  /\ UNCHANGED <<requestVars, cb3, jpeg_size, video_stream, picture, recording, msgs, jpegFor>>

\* A configured device, whether flush() is running or not.
Serving == {"ready", "stopRecording", "clearVideo", "cancelPicture"}

\* take_picture of HAL1 needs a preview and no other picture.
Takes == hal1 = "preview" /\ picture = "none"

Range3(s) == {s[i] : i \in 1 .. Len(s)}

\* What a request adds to the history of unusual use: a picture taken and not
\* asked for or the other way round; one that HAL1 refuses, that the callback
\* of the last one is going to cancel, or that comes before the first preview
\* frame; pictures beside video; a request while flush() is running.
Unusual(r) ==
  {h \in {"intent", "early", "mixed", "flush"} :
     \/ h = "intent" /\ (r.still # ("BLOB" \in Range3(r.bufs)))
     \/ h = "early" /\ r.still /\ ~(Takes /\ cb3 = "idle" /\ preview_really_started # 0)
     \/ h = "mixed" /\ {"BLOB", "VIDEO"} \subseteq kinds \cup Range3(r.bufs)
     \/ h = "flush" /\ h3Pc # "ready"}

\* process_capture_request up to the buffers: with the intent STILL_CAPTURE a
\* picture is taken; the result of take_picture is not looked at.
process_capture_request(r) ==
  /\ h3Pc \in Serving /\ reqPc = "idle"
  /\ reqPc' = "buffer" /\ bufs' = r.bufs
  /\ msgs' = IF r.still THEN msgs \cup {"COMPRESSED"} ELSE msgs
  /\ picture' = IF r.still /\ Takes THEN "own" ELSE picture
  /\ kinds' = kinds \cup Range3(r.bufs)
  /\ hurt' = hurt \cup Unusual(r)
  /\ UNCHANGED <<h3Pc, cb3, adapterVars, hal1, recording, jpegFor>>

Buffer(b) == reqPc = "buffer" /\ bufs # << >> /\ Head(bufs) = b

\* Mutant: the JPEG is given up before it is copied.
GiveUpJpeg == jpeg_size' = 0

KeepJpeg == jpeg_size' = jpeg_size

\* BLOB: wait for the JPEG, ...
BlobReady ==
  /\ Buffer("BLOB") /\ jpeg_size # 0
  /\ reqPc' = "copyJpeg"
  /\ KeepJpeg
  /\ UNCHANGED <<h3Pc, bufs, cb3, video_buffer_size, preview_really_started, video_stream,
                 hal1Vars, historyVars>>

GiveBackJpeg == jpeg_size' = 0

\* ... copy it, let the callback go, ...
BlobCopied ==
  /\ reqPc = "copyJpeg"
  /\ reqPc' = "jpegCopied"
  /\ GiveBackJpeg
  /\ UNCHANGED <<h3Pc, bufs, cb3, video_buffer_size, preview_really_started, video_stream,
                 hal1Vars, historyVars>>

\* ... and only then disable the message.
BlobDone ==
  /\ reqPc = "jpegCopied"
  /\ reqPc' = "buffer" /\ bufs' = Tail(bufs)
  /\ msgs' = msgs \ {"COMPRESSED"}
  /\ UNCHANGED <<h3Pc, cb3, adapterVars, hal1, picture, recording, historyVars>>

\* YUV: once there was a preview frame, the last one is copied.
YuvCopied ==
  /\ Buffer("YUV") /\ preview_really_started # 0
  /\ bufs' = Tail(bufs)
  /\ UNCHANGED <<h3Pc, reqPc, cb3, adapterVars, hal1Vars, historyVars>>

\* VIDEO: the first one starts the recording; ...
VideoBegin ==
  /\ Buffer("VIDEO") /\ preview_really_started # 0
  /\ \/ /\ ~video_stream
        /\ msgs' = msgs \cup {"VIDEO"}
        /\ recording' = (recording \/ hal1 = "preview")
        /\ reqPc' = "videoStarted"
     \/ /\ video_stream
        /\ reqPc' = "waitVideo"
        /\ UNCHANGED <<msgs, recording>>
  /\ UNCHANGED <<h3Pc, bufs, cb3, adapterVars, hal1, picture, historyVars>>

VideoStarted ==
  /\ reqPc = "videoStarted"
  /\ reqPc' = "waitVideo"
  /\ video_stream' = TRUE
  /\ UNCHANGED <<h3Pc, bufs, cb3, jpeg_size, video_buffer_size, preview_really_started,
                 hal1Vars, historyVars>>

\* ... wait for a frame, ...
VideoReady ==
  /\ reqPc = "waitVideo" /\ video_buffer_size # 0
  /\ reqPc' = "copyVideo"
  /\ UNCHANGED <<h3Pc, bufs, cb3, adapterVars, hal1Vars, historyVars>>

\* ... copy it, let the callback go.
VideoCopied ==
  /\ reqPc = "copyVideo"
  /\ reqPc' = "buffer" /\ bufs' = Tail(bufs)
  /\ video_buffer_size' = 0
  /\ UNCHANGED <<h3Pc, cb3, jpeg_size, preview_really_started, video_stream, hal1Vars, historyVars>>

Older(w) == IF w = "own" THEN "old" ELSE w

\* The result is sent and the call returns.
RequestDone ==
  /\ reqPc = "buffer" /\ bufs = << >>
  /\ reqPc' = "idle"
  /\ picture' = Older(picture) /\ jpegFor' = Older(jpegFor)
  /\ UNCHANGED <<h3Pc, bufs, cb3, adapterVars, hal1, recording, msgs, kinds, hurt>>
-----------------------------------------------------------------------------
\* A picture has ended: with zsl, or while recording, preview goes on.
AfterPicture == hal1' = hal1 \/ (~recording /\ hal1' = "stopped")

\* hal1_data_callback.  PREVIEW_FRAME; ...
PreviewFrame ==
  /\ cb3 = "idle" /\ hal1 = "preview" /\ preview_really_started = 0
  /\ preview_really_started' = 1
  /\ UNCHANGED <<h3Pc, requestVars, cb3, jpeg_size, video_buffer_size, video_stream,
                 hal1Vars, historyVars>>

\* ... COMPRESSED_IMAGE, if it is enabled (HAL1 checks); ...
JpegCallback ==
  /\ cb3 = "idle" /\ picture # "none"
  /\ picture' = "none" /\ AfterPicture
  /\ \/ /\ "COMPRESSED" \in msgs
        /\ jpeg_size' = 1 /\ jpegFor' = picture
        /\ cb3' = "jpeg"
     \/ "COMPRESSED" \notin msgs /\ UNCHANGED <<jpeg_size, jpegFor, cb3>>
  /\ UNCHANGED <<h3Pc, requestVars, video_buffer_size, preview_really_started, video_stream,
                 recording, msgs, kinds, hurt>>

\* ... when it was taken preview is stopped, which ends a recording and
\* cancels a picture, ...
JpegTaken ==
  /\ cb3 = "jpeg" /\ jpeg_size = 0
  /\ cb3' = "stopped"
  /\ hal1' = "stopped" /\ picture' = "none" /\ recording' = FALSE
  /\ UNCHANGED <<h3Pc, requestVars, adapterVars, msgs, historyVars>>

\* Mutant: preview stays stopped.
StayStopped == hal1' = "stopped"

StartAgain == hal1' = "preview"

\* ... started again, ...
PreviewAgain ==
  /\ cb3 = "stopped"
  /\ cb3' = "started"
  /\ StartAgain
  /\ UNCHANGED <<h3Pc, requestVars, adapterVars, picture, recording, msgs, historyVars>>

\* ... and its first frame awaited again.
JpegReturn ==
  /\ cb3 = "started"
  /\ cb3' = "idle"
  /\ preview_really_started' = 0
  /\ UNCHANGED <<h3Pc, requestVars, jpeg_size, video_buffer_size, video_stream,
                 hal1Vars, historyVars>>

\* hal1_data_timestamp_callback
VideoCallback ==
  /\ cb3 = "idle" /\ recording /\ "VIDEO" \in msgs
  /\ cb3' = "video"
  /\ video_buffer_size' = 1
  /\ UNCHANGED <<h3Pc, requestVars, jpeg_size, preview_really_started, video_stream,
                 hal1Vars, historyVars>>

VideoTaken ==
  /\ cb3 = "video" /\ video_buffer_size = 0
  /\ cb3' = "idle"
  /\ UNCHANGED <<h3Pc, requestVars, adapterVars, hal1Vars, historyVars>>
-----------------------------------------------------------------------------
\* flush(), at any time: the message is disabled, ...
camera3_flush ==
  /\ h3Pc = "ready"
  /\ \/ /\ video_stream
        /\ msgs' = msgs \ {"VIDEO"}
        /\ h3Pc' = "stopRecording"
     \/ /\ ~video_stream
        /\ msgs' = msgs \ {"COMPRESSED"}
        /\ h3Pc' = "cancelPicture"
  /\ hurt' = IF reqPc = "idle" /\ Quiet THEN hurt ELSE hurt \cup {"flush"}
  /\ UNCHANGED <<requestVars, cb3, adapterVars, hal1, picture, recording, jpegFor, kinds>>

\* ... the recording is stopped and then the flag cleared, ...
FlushRecording ==
  /\ h3Pc = "stopRecording"
  /\ h3Pc' = "clearVideo"
  /\ recording' = FALSE
  /\ UNCHANGED <<requestVars, cb3, adapterVars, hal1, picture, msgs, historyVars>>

FlushVideo ==
  /\ h3Pc = "clearVideo"
  /\ h3Pc' = "ready"
  /\ video_stream' = FALSE
  /\ UNCHANGED <<requestVars, cb3, jpeg_size, video_buffer_size, preview_really_started,
                 hal1Vars, historyVars>>

\* ... or the picture is cancelled.  The release of HAL1 at the end of both does
\* nothing while preview runs and frees channels that are not used when it does
\* not.
FlushPicture ==
  /\ h3Pc = "cancelPicture"
  /\ h3Pc' = "ready"
  /\ picture' = "none"
  /\ \/ picture = "none" /\ UNCHANGED hal1
     \/ picture # "none" /\ AfterPicture
  /\ UNCHANGED <<requestVars, cb3, adapterVars, recording, msgs, historyVars>>

\* camera3_close(): preview is stopped; then HAL1's close() joins its
\* callback thread, and the adapter is freed.
CloseBegin ==
  /\ h3Pc \in {"open", "ready"} /\ reqPc = "idle"
  /\ h3Pc' = "closing"
  /\ hal1' = "stopped" /\ picture' = "none" /\ recording' = FALSE
  /\ UNCHANGED <<requestVars, cb3, adapterVars, msgs, historyVars>>

CloseEnd ==
  /\ h3Pc = "closing" /\ cb3 = "idle"
  /\ h3Pc' = "closed"
  /\ UNCHANGED <<requestVars, cb3, adapterVars, hal1Vars, historyVars>>

RequestStep == BlobReady \/ BlobCopied \/ BlobDone \/ YuvCopied \/ VideoBegin
                 \/ VideoStarted \/ VideoReady \/ VideoCopied \/ RequestDone

CallbackStep == JpegTaken \/ PreviewAgain \/ JpegReturn \/ VideoTaken

FlushStep == FlushRecording \/ FlushVideo \/ FlushPicture

HAL3on1Next ==
  \/ camera_device_open
  \/ \E video \in BOOLEAN : configure_streams(video)
  \/ \E r \in Requests : process_capture_request(r)
  \/ RequestStep
  \/ PreviewFrame \/ JpegCallback \/ VideoCallback \/ CallbackStep
  \/ camera3_flush \/ FlushStep
  \/ CloseBegin \/ CloseEnd

\* The threads run, and HAL1 has frames for its callback thread.
HAL3on1Fairness ==
  /\ WF_hal3on1Vars(RequestStep)
  /\ WF_hal3on1Vars(PreviewFrame \/ JpegCallback \/ VideoCallback \/ CallbackStep)
  /\ WF_hal3on1Vars(FlushStep) /\ WF_hal3on1Vars(CloseEnd)
-----------------------------------------------------------------------------
\* While a request copies a frame, the callback that owns the memory has not
\* returned, and in ordinary use the frame is the request's own and its stream
\* has not been stopped: the two threads share no lock, only the sizes.
CopiesLiveFrame ==
  /\ reqPc = "copyJpeg" => cb3 = "jpeg" /\ (hurt = {} => jpegFor = "own")
  /\ reqPc = "copyVideo" => cb3 = "video" /\ (hurt = {} => recording)

\* In ordinary use a capture request returns: photos, each taken when the last
\* one is over, or video, each without the other, and no flush that meets a
\* request or a frame.  A device used in this way for photos can also be closed:
\* the callback thread, which close() joins, does not spin on a frame.  After
\* video it usually does, as frames go on coming after the last request.
\* Outside ordinary use the code has no way out of its loops.
RequestEnds ==
  /\ reqPc # "idle" ~> (reqPc = "idle" \/ hurt # {})
  /\ (h3Pc = "closing" /\ hurt = {} /\ "VIDEO" \notin kinds) ~> h3Pc = "closed"
=============================================================================
