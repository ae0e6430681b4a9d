------------------------- MODULE CameraServicesProofs -------------------------
(***************************************************************************)
(* Proofs about the HAL3 adapter (HAL3on1), for any set of requests, about *)
(* the callback notifier (QCameraCbNotifier), for any number of pictures,  *)
(* of JPEGs in a picture and of queued jobs, and about the frames in the   *)
(* post-processor (QCameraPostProc), for any finite set of buffers and any *)
(* number of frames per picture.                                           *)
(***************************************************************************)
EXTENDS CameraServices, QueueFacts

Kinds == {"YUV", "BLOB", "VIDEO"}

\* The request's thread is at one of its buffers, which names what it does.
RequestTypeOK ==
  /\ bufs \in Seq(Kinds)
  /\ reqPc \in {"idle", "buffer", "copyJpeg", "jpegCopied", "videoStarted", "waitVideo",
                "copyVideo"}
  /\ reqPc \in {"copyJpeg", "jpegCopied"} => bufs # << >> /\ Head(bufs) = "BLOB"
  /\ reqPc \in {"videoStarted", "waitVideo", "copyVideo"} => bufs # << >> /\ Head(bufs) = "VIDEO"

\* A size that is set belongs to a callback that has not returned, and stays
\* set while the request copies.
SizesTellOwner ==
  /\ jpeg_size # 0 => cb3 = "jpeg"
  /\ video_buffer_size # 0 => cb3 = "video"
  /\ reqPc = "copyJpeg" => jpeg_size # 0
  /\ reqPc = "copyVideo" => video_buffer_size # 0

\* Requests come to a configured device only, and a device that is being
\* closed gets no new frames.
DeviceInUse ==
  /\ h3Pc \in {"closed", "open", "closing"} \cup Serving
  /\ h3Pc \notin Serving => reqPc = "idle"
  /\ h3Pc \in {"closing", "closed"} => picture = "none" /\ ~recording
  /\ h3Pc = "closed" => cb3 = "idle"

\* The buffer for a JPEG is still to be filled.
BlobWanted == reqPc # "idle" /\ "BLOB" \in Range3(bufs)

\* In ordinary use a picture on its way, or a JPEG that is there, is the one
\* the current request waits for, never both, and neither is left when the JPEG
\* was copied; video frames come from a recording that goes on; and a flush that
\* is not over met neither a request nor a frame.
OrdinaryUse ==
  hurt = {} =>
    /\ picture # "none" => picture = "own" /\ jpeg_size = 0 /\ BlobWanted
    /\ jpeg_size # 0 => jpegFor = "own" /\ BlobWanted
    /\ reqPc = "jpegCopied" => picture = "none" /\ jpeg_size = 0
    /\ video_buffer_size # 0 /\ h3Pc # "closing" => recording
    /\ h3Pc \in Serving \ {"ready"} => reqPc = "idle" /\ picture = "none"
    /\ h3Pc = "stopRecording" => cb3 = "idle" /\ "VIDEO" \notin msgs

HAL3on1IndInv == RequestTypeOK /\ SizesTellOwner /\ DeviceInUse /\ OrdinaryUse

\* It holds before the first request.
LEMMA HAL3on1InitInv == HAL3on1Init => HAL3on1IndInv
<1> SUFFICES ASSUME HAL3on1Init PROVE HAL3on1IndInv
  OBVIOUS
<1>1. bufs \in Seq(Kinds)
  BY EmptySeq DEF HAL3on1Init
<1> QED BY <1>1 DEF HAL3on1Init, HAL3on1IndInv, RequestTypeOK, SizesTellOwner, DeviceInUse,
                    OrdinaryUse, Serving

\* The invariant says what the request may copy.
LEMMA CopiesOwned == HAL3on1IndInv => CopiesLiveFrame
  BY DEF HAL3on1IndInv, SizesTellOwner, DeviceInUse, OrdinaryUse, CopiesLiveFrame, Serving

\* A buffer that was filled is taken from the list; the others stay.
LEMMA BufferTaken ==
  ASSUME NEW q \in Seq(Kinds), q # << >>
  PROVE  /\ Tail(q) \in Seq(Kinds)
         /\ Head(q) # "BLOB" /\ "BLOB" \in Range3(q) => "BLOB" \in Range3(Tail(q))
<1>1. \A r : Range3(r) = Entries(r)
  BY DEF Range3, Entries
<1> QED BY <1>1, EntriesDequeue, CountDequeue

\* The calls that configure, open and close the device.
LEMMA DeviceStep ==
  ASSUME HAL3on1IndInv,
         \/ camera_device_open \/ CloseBegin \/ CloseEnd
         \/ \E video \in BOOLEAN : configure_streams(video)
  PROVE  HAL3on1IndInv'
<1> USE DEF Serving
<1>0. RequestTypeOK /\ SizesTellOwner /\ DeviceInUse /\ OrdinaryUse
  BY DEF HAL3on1IndInv
<1>1. CASE camera_device_open
  BY <1>0, <1>1 DEF camera_device_open, HAL3on1IndInv, RequestTypeOK, SizesTellOwner, DeviceInUse,
                    OrdinaryUse, requestVars
<1>2. ASSUME NEW video \in BOOLEAN, configure_streams(video) PROVE HAL3on1IndInv'
  BY <1>0, <1>2 DEF configure_streams, HAL3on1IndInv, RequestTypeOK, SizesTellOwner, DeviceInUse,
                    OrdinaryUse, requestVars, Quiet, BlobWanted
<1>3. CASE CloseBegin
  BY <1>0, <1>3 DEF CloseBegin, HAL3on1IndInv, RequestTypeOK, SizesTellOwner, DeviceInUse,
                    OrdinaryUse, requestVars, adapterVars, historyVars, BlobWanted
<1>4. CASE CloseEnd
  BY <1>0, <1>4 DEF CloseEnd, HAL3on1IndInv, RequestTypeOK, SizesTellOwner, DeviceInUse,
                    OrdinaryUse, requestVars, adapterVars, historyVars, hal1Vars, BlobWanted
<1> QED BY <1>1, <1>2, <1>3, <1>4

\* A request that comes in the ordinary way and wants a JPEG takes a picture.
LEMMA CaptureStep ==
  ASSUME HAL3on1IndInv, NEW r \in Requests, process_capture_request(r)
  PROVE  HAL3on1IndInv'
<1>0. RequestTypeOK /\ SizesTellOwner /\ DeviceInUse /\ OrdinaryUse
  BY DEF HAL3on1IndInv
<1>1. /\ h3Pc \in Serving /\ reqPc = "idle" /\ reqPc' = "buffer" /\ bufs' = r.bufs
      /\ picture' = IF r.still /\ Takes THEN "own" ELSE picture
      /\ hurt' = hurt \cup Unusual(r)
      /\ UNCHANGED <<h3Pc, cb3, jpeg_size, video_buffer_size, recording, jpegFor>>
  BY DEF process_capture_request, adapterVars
<1>2. r.bufs \in Seq(Kinds) /\ r.still \in BOOLEAN
  BY RequestsAssumption DEF Kinds
<1>3. RequestTypeOK' /\ SizesTellOwner' /\ DeviceInUse'
  BY <1>0, <1>1, <1>2 DEF RequestTypeOK, SizesTellOwner, DeviceInUse, Serving
<1>4. ASSUME hurt' = {}
      PROVE  /\ picture' # "none" => picture' = "own" /\ jpeg_size' = 0 /\ BlobWanted'
             /\ jpeg_size' = 0 /\ h3Pc' = "ready"
             /\ video_buffer_size' # 0 /\ h3Pc' # "closing" => recording'
  <2>1. hurt = {} /\ Unusual(r) = {}
    BY <1>1, <1>4
  <2>2. /\ r.still = ("BLOB" \in Range3(r.bufs))
        /\ r.still => Takes
        /\ h3Pc = "ready"
    <3>1. "intent" \notin Unusual(r) /\ "early" \notin Unusual(r) /\ "flush" \notin Unusual(r)
      BY <2>1
    <3> QED BY <3>1 DEF Unusual
  <2>3. picture = "none" /\ jpeg_size = 0
    BY <1>0, <1>1, <2>1 DEF OrdinaryUse, BlobWanted
  <2> QED BY <1>0, <1>1, <2>1, <2>2, <2>3 DEF OrdinaryUse, BlobWanted
<1>5. OrdinaryUse'
  BY <1>1, <1>4 DEF OrdinaryUse, Serving
<1> QED BY <1>3, <1>5 DEF HAL3on1IndInv

\* The thread of the request, buffer by buffer.
LEMMA RequestStepInv ==
  ASSUME HAL3on1IndInv, RequestStep
  PROVE  HAL3on1IndInv'
<1>0. RequestTypeOK /\ SizesTellOwner /\ DeviceInUse /\ OrdinaryUse
  BY DEF HAL3on1IndInv
<1>1. CASE BlobReady
  BY <1>0, <1>1 DEF BlobReady, Buffer, KeepJpeg, HAL3on1IndInv, RequestTypeOK, SizesTellOwner,
     DeviceInUse, OrdinaryUse, BlobWanted, hal1Vars, historyVars
<1>2. ASSUME bufs # << >>, bufs' = Tail(bufs), reqPc # "idle", reqPc' = "buffer",
             Head(bufs) = "BLOB" => reqPc = "jpegCopied",
             video_buffer_size' \in {0, video_buffer_size}, UNCHANGED jpeg_size,
             UNCHANGED <<h3Pc, cb3, picture, recording, jpegFor, hurt>>
      PROVE  HAL3on1IndInv'
  <2>1. /\ bufs' \in Seq(Kinds)
        /\ Head(bufs) # "BLOB" /\ "BLOB" \in Range3(bufs) => "BLOB" \in Range3(bufs')
    <3>1. bufs \in Seq(Kinds)
      BY <1>0 DEF RequestTypeOK
    <3> QED BY <1>2, <3>1, BufferTaken, Zenon
  <2>2. RequestTypeOK'
    BY <1>2, <2>1 DEF RequestTypeOK
  <2>3. SizesTellOwner' /\ DeviceInUse'
    BY <1>0, <1>2 DEF SizesTellOwner, DeviceInUse
  <2>4. OrdinaryUse'
    <3> DEFINE before == "BLOB" \in Range3(bufs)
               after  == "BLOB" \in Range3(bufs')
    <3>1. Head(bufs) # "BLOB" /\ before => after
      BY <2>1
    <3>2. BlobWanted => before
      BY DEF BlobWanted
    <3>3. after => BlobWanted'
      BY <1>2 DEF BlobWanted
    <3> HIDE DEF before, after
    <3> QED BY <1>0, <1>2, <3>1, <3>2, <3>3 DEF OrdinaryUse, DeviceInUse
  <2> QED BY <2>2, <2>3, <2>4 DEF HAL3on1IndInv
<1>3. CASE BlobCopied
  BY <1>0, <1>3 DEF BlobCopied, GiveBackJpeg, HAL3on1IndInv, RequestTypeOK, SizesTellOwner,
     DeviceInUse, OrdinaryUse, BlobWanted, hal1Vars, historyVars
<1>4. CASE BlobDone
  BY <1>0, <1>2, <1>4 DEF BlobDone, RequestTypeOK, adapterVars, historyVars
<1>5. CASE YuvCopied
  BY <1>2, <1>5 DEF YuvCopied, Buffer, adapterVars, hal1Vars, historyVars
<1>6. CASE VideoBegin
  <2>1. recording => recording'
    BY <1>6, Zenon DEF VideoBegin
  <2>2. /\ reqPc = "buffer" /\ bufs # << >> /\ Head(bufs) = "VIDEO"
        /\ reqPc' \in {"videoStarted", "waitVideo"}
        /\ UNCHANGED <<h3Pc, bufs, cb3, jpeg_size, video_buffer_size, picture, jpegFor, hurt>>
    BY <1>6 DEF VideoBegin, Buffer, adapterVars, historyVars
  <2> QED BY <1>0, <2>1, <2>2 DEF HAL3on1IndInv, RequestTypeOK, SizesTellOwner, DeviceInUse,
     OrdinaryUse, BlobWanted, Serving
<1>7. CASE VideoStarted
  BY <1>0, <1>7 DEF VideoStarted, HAL3on1IndInv, RequestTypeOK, SizesTellOwner,
     DeviceInUse, OrdinaryUse, BlobWanted, hal1Vars, historyVars
<1>8. CASE VideoReady
  BY <1>0, <1>8 DEF VideoReady, HAL3on1IndInv, RequestTypeOK, SizesTellOwner,
     DeviceInUse, OrdinaryUse, BlobWanted, adapterVars, hal1Vars, historyVars
<1>9. CASE VideoCopied
  BY <1>0, <1>2, <1>9 DEF VideoCopied, RequestTypeOK, hal1Vars, historyVars
<1>10. CASE RequestDone
  <2>1. ~BlobWanted
    BY <1>10 DEF RequestDone, BlobWanted, Range3
  <2> QED BY <1>0, <1>10, <2>1 DEF RequestDone, HAL3on1IndInv, RequestTypeOK, SizesTellOwner,
     DeviceInUse, OrdinaryUse, Older, adapterVars
<1> QED BY <1>1, <1>3, <1>4, <1>5, <1>6, <1>7, <1>8, <1>9, <1>10 DEF RequestStep

\* HAL1's callback thread.
LEMMA CallbackStepInv ==
  ASSUME HAL3on1IndInv, PreviewFrame \/ JpegCallback \/ VideoCallback \/ CallbackStep
  PROVE  HAL3on1IndInv'
<1>0. RequestTypeOK /\ SizesTellOwner /\ DeviceInUse /\ OrdinaryUse
  BY DEF HAL3on1IndInv
<1> USE DEF HAL3on1IndInv, RequestTypeOK, SizesTellOwner, DeviceInUse, OrdinaryUse, BlobWanted,
            requestVars, adapterVars, hal1Vars, historyVars
<1>1. CASE PreviewFrame
  BY <1>0, <1>1 DEF PreviewFrame
<1>2. CASE JpegCallback
  BY <1>0, <1>2 DEF JpegCallback
<1>3. CASE VideoCallback
  BY <1>0, <1>3 DEF VideoCallback
<1>4. CASE JpegTaken
  BY <1>0, <1>4 DEF JpegTaken
<1>5. CASE PreviewAgain
  BY <1>0, <1>5 DEF PreviewAgain, StartAgain
<1>6. CASE JpegReturn
  BY <1>0, <1>6 DEF JpegReturn
<1>7. CASE VideoTaken
  BY <1>0, <1>7 DEF VideoTaken
<1> QED BY <1>1, <1>2, <1>3, <1>4, <1>5, <1>6, <1>7 DEF CallbackStep

\* flush(), which takes no lock.
LEMMA FlushStepInv == HAL3on1IndInv /\ (camera3_flush \/ FlushStep) => HAL3on1IndInv'
<1> SUFFICES ASSUME HAL3on1IndInv, camera3_flush \/ FlushStep PROVE HAL3on1IndInv'
  OBVIOUS
<1> USE DEF HAL3on1IndInv, RequestTypeOK, SizesTellOwner, DeviceInUse, OrdinaryUse, BlobWanted,
            Serving, requestVars, adapterVars, hal1Vars, historyVars
<1>1. CASE camera3_flush
  BY <1>1 DEF camera3_flush, Quiet
<1>2. CASE FlushRecording
  BY <1>2 DEF FlushRecording
<1>3. CASE FlushVideo
  BY <1>3 DEF FlushVideo
<1>4. CASE FlushPicture
  BY <1>4 DEF FlushPicture
<1> QED BY <1>1, <1>2, <1>3, <1>4 DEF FlushStep

\* Every step of the adapter keeps the invariant.
LEMMA HAL3on1Inductive == HAL3on1IndInv /\ [HAL3on1Next]_hal3on1Vars => HAL3on1IndInv'
<1> SUFFICES ASSUME HAL3on1IndInv, [HAL3on1Next]_hal3on1Vars PROVE HAL3on1IndInv'
  OBVIOUS
<1>1. CASE UNCHANGED hal3on1Vars
  BY <1>1 DEF HAL3on1IndInv, RequestTypeOK, SizesTellOwner, DeviceInUse, OrdinaryUse, BlobWanted,
     hal3on1Vars, requestVars, adapterVars, hal1Vars, historyVars
<1>2. CASE \E r \in Requests : process_capture_request(r)
  BY <1>2, CaptureStep
<1> QED BY <1>1, <1>2, DeviceStep, RequestStepInv, CallbackStepInv, FlushStepInv DEF HAL3on1Next

\* A request copies only a frame whose callback has not returned, for any set
\* of requests the framework may send; in ordinary use the frame is its own.
THEOREM RequestsCopyLiveFrames == FairSpec => []CopiesLiveFrame
<1>1. Init => HAL3on1IndInv
  BY HAL3on1InitInv DEF Init
<1>2. HAL3on1IndInv /\ [Next]_serviceVars => HAL3on1IndInv'
  BY HAL3on1Inductive DEF Next, ApiMoves, NotifierMoves, PostProcMoves, HAL3on1Moves, serviceVars
<1> QED BY <1>1, <1>2, CopiesOwned, PTL DEF FairSpec
-----------------------------------------------------------------------------
CbCommands == {"START", "STOP", "JOB", "EXIT"}

NotifierTypeOK ==
  /\ pictures \in 0 .. MaxPictures /\ pic \in {0, pictures}
  /\ cmd_queue \in Seq(CbCommands) /\ mDataQ \in Seq({Frame} \cup Jpegs)
  /\ cbPc = "wait" => cbArg = NoData

\* A command with priority is in front of every job.
JobsBehind(q) == \A i, j \in 1 .. Len(q) : i < j /\ q[i] = "JOB" => q[j] \notin ModeCommands

StopPending == "STOP" \in Entries(cmd_queue)

\* The pictures whose JPEGs may come up in the last picture that began.
Current == {pictures} \cup stragglers

\* JPEGs wait in the queue for the last picture that began; when it has ended,
\* or they are of other pictures, only as long as a STOP has not been handled.
QueuedIsCurrent ==
  \A d \in Entries(mDataQ) : d \in Jpegs /\ (pic = 0 \/ d.pic \notin Current) => StopPending

\* So does the JPEG in the thread's hands; if another picture has begun since
\* then, its START has passed that STOP.
HeldIsCurrent ==
  cbArg.cb = "SNAPSHOT" =>
    /\ pic = 0 \/ cbArg.pic \notin Current => StopPending
    /\ cbArg.pic \notin Current => overtaken

NotifierIndInv ==
  NotifierTypeOK /\ JobsBehind(cmd_queue) /\ QueuedIsCurrent /\ HeldIsCurrent

\* It holds before the first callback.
LEMMA NotifierInitInv == NotifierInit => NotifierIndInv
<1> SUFFICES ASSUME NotifierInit PROVE NotifierIndInv
  OBVIOUS
<1>1. NotifierTypeOK
  BY EmptySeq, NotifierAssumption DEF NotifierInit, NotifierTypeOK
<1>2. JobsBehind(cmd_queue)
  BY DEF NotifierInit, JobsBehind
<1>3. QueuedIsCurrent
  BY EntriesEmpty DEF NotifierInit, QueuedIsCurrent
<1>4. HeldIsCurrent
  BY DEF NotifierInit, HeldIsCurrent, NoData
<1> QED BY <1>1, <1>2, <1>3, <1>4 DEF NotifierIndInv

\* The invariant says that what is delivered is current.
LEMMA CurrentDelivered == NotifierIndInv => DeliversCurrent
  BY DEF NotifierIndInv, HeldIsCurrent, Current, DeliversCurrent

\* What happens to the order and the commands of the queue: a command with
\* priority, ...
LEMMA ModeSent ==
  ASSUME NEW q \in Seq(CbCommands), JobsBehind(q), NEW c \in {"START", "STOP", "EXIT"}
  PROVE  LET r == enqueueWithPriority(q, c) IN
         r \in Seq(CbCommands) /\ JobsBehind(r) /\ Entries(r) = Entries(q) \cup {c}
<1> DEFINE r == enqueueWithPriority(q, c)
<1>1. c \in CbCommands /\ c # "JOB"
  BY DEF CbCommands
<1>2. r \in Seq(CbCommands) /\ InFront(q, r, c) /\ Entries(r) = Entries(q) \cup {c}
  <2>1. r = enqueueWithPriority(q, c)
    OBVIOUS
  <2> HIDE DEF r
  <2> QED BY <1>1, <2>1, EntriesPriority
<1>0. Len(q) \in Nat
  BY LenProperties
<1> HIDE DEF r
<1>3. JobsBehind(r)
  <2> SUFFICES ASSUME NEW i \in 1 .. Len(r), NEW j \in 1 .. Len(r), i < j, r[i] = "JOB"
               PROVE  r[j] \notin ModeCommands
    BY DEF JobsBehind
  <2>1. i # 1
    BY <1>1, <1>2 DEF InFront
  <2>2. i - 1 \in 1 .. Len(q) /\ j - 1 \in 1 .. Len(q) /\ i - 1 < j - 1
        /\ i - 1 + 1 = i /\ j - 1 + 1 = j
    BY <1>0, <1>2, <2>1 DEF InFront
  <2>3. q[i - 1] = "JOB" /\ q[j - 1] = r[j]
    BY <1>2, <2>2 DEF InFront
  <2> QED BY <2>2, <2>3 DEF JobsBehind
<1> QED BY <1>2, <1>3 DEF r

\* ... a job, ...
LEMMA JobSent ==
  ASSUME NEW q \in Seq(CbCommands), JobsBehind(q)
  PROVE  LET r == enqueue(q, "JOB") IN
         r \in Seq(CbCommands) /\ JobsBehind(r) /\ Entries(r) = Entries(q) \cup {"JOB"}
<1> DEFINE r == enqueue(q, "JOB")
<1>1. "JOB" \in CbCommands /\ "JOB" \notin ModeCommands
  BY DEF CbCommands, ModeCommands
<1>2. /\ Append(q, "JOB") \in Seq(CbCommands)
      /\ Len(Append(q, "JOB")) = Len(q) + 1
      /\ \A i \in 1 .. Len(q) : Append(q, "JOB")[i] = q[i]
      /\ Append(q, "JOB")[Len(q) + 1] = "JOB"
      /\ Len(q) \in Nat
  BY <1>1, AppendProperties, LenProperties
<1>3. /\ r \in Seq(CbCommands) /\ Len(r) = Len(q) + 1 /\ r[Len(q) + 1] = "JOB"
      /\ \A i \in 1 .. Len(q) : r[i] = q[i]
  BY <1>2, Zenon DEF enqueue
<1>4. Entries(r) = Entries(q) \cup {"JOB"}
  BY <1>1, EntriesEnqueue
<1> HIDE DEF r
<1>5. JobsBehind(r)
  BY <1>1, <1>2, <1>3 DEF JobsBehind
<1> QED BY <1>3, <1>4, <1>5 DEF r

\* ... and the command that is taken: when it is a job, no mode command waits.
LEMMA CommandTaken ==
  ASSUME NEW q \in Seq(CbCommands), JobsBehind(q), q # << >>
  PROVE  /\ Tail(q) \in Seq(CbCommands) /\ JobsBehind(Tail(q))
         /\ Entries(q) = Entries(Tail(q)) \cup {Head(q)}
         /\ Head(q) = "JOB" => Entries(q) \cap ModeCommands = {}
<1> DEFINE r == Tail(q)
<1>1. /\ r \in Seq(CbCommands) /\ Len(r) = Len(q) - 1 /\ Head(q) = q[1]
      /\ \A i \in 1 .. Len(r) : r[i] = q[i + 1]
      /\ Len(q) \in Nat /\ Len(q) > 0
  BY HeadTailProperties, LenProperties, EmptySeq
<1>2. Entries(q) = Entries(r) \cup {Head(q)}
  BY EntriesDequeue
<1> HIDE DEF r
<1>3. JobsBehind(r)
  BY <1>1 DEF JobsBehind
<1>4. ASSUME Head(q) = "JOB", NEW c \in ModeCommands, c \in Entries(q) PROVE FALSE
  <2>1. PICK j \in 1 .. Len(q) : q[j] = c
    BY <1>4 DEF Entries
  <2>2. j # 1 /\ 1 \in 1 .. Len(q) /\ 1 < j
    BY <1>1, <1>4, <2>1 DEF ModeCommands
  <2> QED BY <1>1, <1>4, <2>1, <2>2 DEF JobsBehind
<1> QED BY <1>1, <1>2, <1>3, <1>4 DEF r

\* A mode command that is sent while STOP waits passes it.
LEMMA StopIsPassed == StopPending => ModePending
  BY DEF StopPending, ModePending, Entries, ModeCommands

\* A step that sends a mode command and may begin or end a picture.
LEMMA ModeStep ==
  ASSUME NotifierIndInv,
         \/ pic = 0 /\ pic' = pictures' /\ pictures' = pictures + 1 /\ pictures < MaxPictures
            /\ SendMode("START")
         \/ pic' = 0 /\ pictures' = pictures /\ stragglers' = stragglers /\ SendMode("STOP"),
         cbPc' = "wait" => cbPc = "wait",
         UNCHANGED <<mDataQ, cbArg>>
  PROVE  NotifierIndInv'
<1>0. /\ NotifierTypeOK /\ JobsBehind(cmd_queue) /\ QueuedIsCurrent /\ HeldIsCurrent
  BY DEF NotifierIndInv
<1>1. PICK c \in {"START", "STOP"} :
        cmd_queue' = enqueueWithPriority(cmd_queue, c) /\ (c = "STOP" \/ (pic = 0 /\ pic' # 0))
  BY <1>0 DEF SendMode, NotifierTypeOK
<1>2. overtaken' = ModePending
  BY DEF SendMode
<1>3. /\ cmd_queue' \in Seq(CbCommands) /\ JobsBehind(cmd_queue')
      /\ Entries(cmd_queue') = Entries(cmd_queue) \cup {c}
  BY <1>0, <1>1, ModeSent DEF NotifierTypeOK
<1>4. StopPending => StopPending' /\ overtaken'
  BY <1>2, <1>3, StopIsPassed DEF StopPending
<1>5. NotifierTypeOK'
  BY <1>0, <1>3, NotifierAssumption DEF NotifierTypeOK
<1>6. (StopPending' /\ UNCHANGED Current) \/ pic = 0
  BY <1>0, <1>1, <1>3 DEF StopPending, NotifierTypeOK, Current
<1>7. QueuedIsCurrent'
  BY <1>0, <1>4, <1>6 DEF QueuedIsCurrent
<1>8. HeldIsCurrent'
  BY <1>0, <1>4, <1>6 DEF HeldIsCurrent
<1> QED BY <1>3, <1>5, <1>7, <1>8 DEF NotifierIndInv

\* A step after which the queue has no more data than before.
LEMMA DataKept ==
  ASSUME NotifierIndInv, UNCHANGED <<pic, pictures, stragglers>>,
         mDataQ' \in Seq({Frame} \cup Jpegs), Entries(mDataQ') \subseteq Entries(mDataQ),
         cmd_queue' \in Seq(CbCommands), JobsBehind(cmd_queue'),
         StopPending => StopPending' \/ Entries(mDataQ') \cap Jpegs = {},
         HeldIsCurrent', cbPc' = "wait" => cbArg' = NoData
  PROVE  NotifierIndInv'
<1>1. NotifierTypeOK'
  BY DEF NotifierIndInv, NotifierTypeOK
<1>2. QueuedIsCurrent'
  BY DEF NotifierIndInv, QueuedIsCurrent, Current
<1> QED BY <1>1, <1>2 DEF NotifierIndInv

\* The thread's hands are empty, or hold a frame.
LEMMA NotHeld == NoData.cb # "SNAPSHOT" /\ Frame.cb # "SNAPSHOT" /\ Frame \notin Jpegs
  BY DEF NoData, Frame, Jpegs

\* New data: a frame, or a JPEG that may come up in the picture being taken.
LEMMA DataAdded ==
  ASSUME NotifierIndInv,
         UNCHANGED <<pic, pictures, stragglers, cmd_queue, overtaken, cbPc, cbArg>>,
         NEW d \in {Frame} \cup Jpegs, d \in Jpegs => pic # 0 /\ d.pic \in Current,
         mDataQ' = enqueue(mDataQ, d)
  PROVE  NotifierIndInv'
<1>0. /\ NotifierTypeOK /\ JobsBehind(cmd_queue) /\ QueuedIsCurrent /\ HeldIsCurrent
  BY DEF NotifierIndInv
<1>1. /\ mDataQ' \in Seq({Frame} \cup Jpegs)
      /\ Entries(mDataQ') = Entries(mDataQ) \cup {d}
  <2>1. mDataQ \in Seq({Frame} \cup Jpegs)
    BY <1>0 DEF NotifierTypeOK
  <2>2. enqueue(mDataQ, d) \in Seq({Frame} \cup Jpegs)
    BY <2>1, CountEnqueue
  <2>3. Entries(enqueue(mDataQ, d)) = Entries(mDataQ) \cup {d}
    BY <2>1, EntriesEnqueue
  <2> QED BY <2>2, <2>3
<1>2. StopPending' = StopPending /\ Current' = Current
  BY DEF StopPending, Current
<1>3. NotifierTypeOK'
  BY <1>0, <1>1 DEF NotifierTypeOK
<1>4. QueuedIsCurrent'
  BY <1>0, <1>1, <1>2 DEF QueuedIsCurrent
<1>5. HeldIsCurrent'
  BY <1>0, <1>2 DEF HeldIsCurrent
<1> QED BY <1>0, <1>3, <1>4, <1>5 DEF NotifierIndInv

\* The events of the state machine that concern the notifier.
SmEvents == {DoneEvent} \cup {JpegEvent(p) : p \in 1 .. MaxPictures}

\* While a picture is taken, the reports that wait are of that picture or were
\* there when it began.
EventsCurrent ==
  pic # 0 => \A p \in 1 .. MaxPictures : JpegEvent(p) \in Entries(smEvents) => p \in Current

EventInv ==
  /\ smEvents \in Seq(SmEvents)
  /\ encoding \in Nat /\ (encoding > 0 => pic # 0)
  /\ EventsCurrent

\* The events can be told apart.
LEMMA EventsDiffer ==
  \A p, q \in 1 .. MaxPictures : JpegEvent(p) # DoneEvent /\ (JpegEvent(p) = JpegEvent(q) => p = q)
<1> SUFFICES ASSUME NEW p \in 1 .. MaxPictures, NEW q \in 1 .. MaxPictures
             PROVE  JpegEvent(p) # DoneEvent /\ (JpegEvent(p) = JpegEvent(q) => p = q)
  OBVIOUS
<1>1. JpegEvent(p).evt = "JPEG_EVT_NOTIFY" /\ DoneEvent.evt = "SNAPSHOT_DONE"
  BY DEF JpegEvent, DoneEvent
<1>2. JpegEvent(p).pic = p /\ JpegEvent(q).pic = q
  BY DEF JpegEvent
<1>3. JpegEvent(p) # DoneEvent
  BY <1>1
<1>4. JpegEvent(p) = JpegEvent(q) => p = q
  BY <1>2
<1> QED BY <1>3, <1>4

\* An event is taken: it was in the queue, and the others stay.
LEMMA EventTaken ==
  ASSUME smEvents \in Seq(SmEvents), smEvents # << >>
  PROVE  /\ Tail(smEvents) \in Seq(SmEvents) /\ Entries(Tail(smEvents)) \subseteq Entries(smEvents)
         /\ Head(smEvents) \in Entries(smEvents)
         /\ Head(smEvents) # DoneEvent => \E p \in 1 .. MaxPictures : Head(smEvents) = JpegEvent(p)
<1>1. Head(smEvents) \in SmEvents /\ Tail(smEvents) \in Seq(SmEvents)
  BY CountDequeue
<1>2. Entries(smEvents) = Entries(Tail(smEvents)) \cup {Head(smEvents)}
  BY EntriesDequeue
<1> QED BY <1>1, <1>2 DEF SmEvents

\* Every step keeps what is known of the events.
LEMMA EventStep ==
  ASSUME NotifierTypeOK, EventInv, [NotifierNext]_notifierVars
  PROVE  EventInv'
<1> USE DEF pictureVars, threadVars, EventInv
<1>1. CASE UNCHANGED <<smEvents, pic, pictures, stragglers, encoding>>
  BY <1>1 DEF EventsCurrent, Current
<1>2. CASE TakePicture
  <2>1. encoding' \in Nat /\ pic' # 0 /\ smEvents' = smEvents
    BY <1>2, NotifierAssumption DEF TakePicture, NotifierTypeOK
  <2>2. ASSUME NEW p \in 1 .. MaxPictures, JpegEvent(p) \in Entries(smEvents) PROVE p \in stragglers'
    BY <1>2, <2>2 DEF TakePicture, Entries
  <2> QED BY <2>1, <2>2 DEF EventsCurrent, Current
<1>3. CASE CancelPicture
  BY <1>3 DEF CancelPicture, EventsCurrent
<1>4. CASE JpegEncoded
  <2>1. pic \in 1 .. MaxPictures /\ pic = pictures /\ encoding - 1 \in Nat
    BY <1>4, NotifierAssumption DEF JpegEncoded, NotifierTypeOK
  <2>2. JpegEvent(pic) \in SmEvents
    BY <2>1 DEF SmEvents
  <2>3. smEvents' \in Seq(SmEvents) /\ Entries(smEvents') = Entries(smEvents) \cup {JpegEvent(pic)}
    BY <1>4, <2>2, CountEnqueue, EntriesEnqueue DEF JpegEncoded
  <2>4. encoding' \in Nat /\ UNCHANGED <<pic, pictures, stragglers>>
    BY <1>4, <2>1 DEF JpegEncoded
  <2>5. EventsCurrent'
    BY <2>1, <2>3, <2>4, EventsDiffer DEF EventsCurrent, Current
  <2> QED BY <2>1, <2>3, <2>4, <2>5
<1>5. CASE SmJpeg
  <2>1. smEvents # << >> /\ smEvents' = Tail(smEvents)
        /\ UNCHANGED <<pic, pictures, stragglers, encoding>>
    BY <1>5 DEF SmJpeg
  <2> QED BY <2>1, EventTaken DEF EventsCurrent, Current
<1>6. CASE SmSnapshotDone
  <2>1. /\ smEvents # << >> /\ smEvents' = Tail(smEvents) /\ UNCHANGED <<pictures, stragglers>>
        /\ (pic' = 0 /\ encoding' = 0) \/ UNCHANGED <<pic, encoding>>
    BY <1>6 DEF SmSnapshotDone, EndPicture
  <2> QED BY <2>1, EventTaken DEF EventsCurrent, Current
<1>7. CASE DO_NEXT_JOB
  <2>1. UNCHANGED <<pic, pictures, stragglers, encoding>>
        /\ (smEvents' = smEvents \/ smEvents' = enqueue(smEvents, DoneEvent))
    BY <1>7 DEF DO_NEXT_JOB
  <2>2. CASE smEvents' = enqueue(smEvents, DoneEvent)
    <3>1. smEvents' \in Seq(SmEvents) /\ Entries(smEvents') = Entries(smEvents) \cup {DoneEvent}
      BY <2>2, CountEnqueue, EntriesEnqueue DEF SmEvents
    <3> QED BY <2>1, <3>1, EventsDiffer DEF EventsCurrent, Current
  <2> QED BY <1>1, <2>1, <2>2
<1>8. CASE flushVideoNotifications \/ FrameArrives \/ ExitNotifier
  BY <1>1, <1>8 DEF flushVideoNotifications, FrameArrives, ExitNotifier
<1>9. CASE \E p \in Posters : SendJob(p)
  BY <1>1, <1>9 DEF SendJob
<1>10. CASE START_DATA_PROC \/ STOP_DATA_PROC \/ LoseSnapshot \/ CallbackReturns \/ EXIT
  BY <1>1, <1>10 DEF START_DATA_PROC, STOP_DATA_PROC, LoseSnapshot, CallbackReturns, EXIT
<1>11. CASE UNCHANGED notifierVars
  BY <1>1, <1>11 DEF notifierVars
<1> QED BY <1>2, <1>3, <1>4, <1>5, <1>6, <1>7, <1>8, <1>9, <1>10, <1>11
        DEF NotifierNext, SmEvent, CbNotify

\* The stream's thread, and whoever sends the command after the data.
LEMMA PosterStep ==
  ASSUME NotifierIndInv, FrameArrives \/ \E p \in Posters : SendJob(p)
  PROVE  NotifierIndInv'
<1>0. /\ NotifierTypeOK /\ JobsBehind(cmd_queue) /\ QueuedIsCurrent /\ HeldIsCurrent
  BY DEF NotifierIndInv
<1>1. CASE FrameArrives
  BY <1>1, NotHeld, DataAdded DEF FrameArrives, pictureVars, threadVars
<1>2. ASSUME NEW p \in Posters, SendJob(p) PROVE NotifierIndInv'
  <2>1. /\ cmd_queue' = enqueue(cmd_queue, "JOB")
        /\ UNCHANGED <<pic, pictures, stragglers, mDataQ, overtaken, cbPc, cbArg>>
    BY <1>2 DEF SendJob, NextJob, pictureVars, threadVars
  <2>2. /\ cmd_queue' \in Seq(CbCommands) /\ JobsBehind(cmd_queue')
        /\ Entries(cmd_queue') = Entries(cmd_queue) \cup {"JOB"}
    BY <1>0, <2>1, JobSent DEF NotifierTypeOK
  <2>3. StopPending' = StopPending /\ Current' = Current
    BY <2>1, <2>2 DEF StopPending, Current
  <2>4. HeldIsCurrent'
    BY <1>0, <2>1, <2>3 DEF HeldIsCurrent
  <2> QED BY <1>0, <2>1, <2>2, <2>3, <2>4, DataKept DEF NotifierTypeOK
<1> QED BY <1>1, <1>2

\* The state machine's thread and the encoder.
LEMMA SmStep ==
  ASSUME NotifierIndInv, EventInv,
         \/ TakePicture \/ CancelPicture \/ JpegEncoded \/ SmEvent \/ flushVideoNotifications
         \/ ExitNotifier
  PROVE  NotifierIndInv'
<1>0. /\ NotifierTypeOK /\ JobsBehind(cmd_queue) /\ QueuedIsCurrent /\ HeldIsCurrent
  BY DEF NotifierIndInv
<1> USE DEF pictureVars, threadVars
<1>1. CASE TakePicture
  BY <1>1, ModeStep DEF TakePicture
<1>2. CASE CancelPicture
  BY <1>2, ModeStep DEF CancelPicture
<1>3. ASSUME UNCHANGED <<pic, pictures, stragglers, cmd_queue, mDataQ, overtaken, cbArg>>,
             cbPc' = "wait" => cbPc = "wait"
      PROVE  NotifierIndInv'
  <2>1. StopPending' = StopPending /\ Current' = Current
    BY <1>3 DEF StopPending, Current
  <2>2. HeldIsCurrent'
    BY <1>0, <1>3, <2>1 DEF HeldIsCurrent
  <2> QED BY <1>0, <1>3, <2>1, <2>2, DataKept DEF NotifierTypeOK
<1>4. CASE JpegEncoded
  BY <1>3, <1>4 DEF JpegEncoded
<1>5. CASE SmJpeg
  <2>1. CASE UNCHANGED mDataQ
    BY <1>3, <1>5, <2>1 DEF SmJpeg
  <2>2. ASSUME pic # 0, mDataQ' = enqueue(mDataQ, [cb |-> "SNAPSHOT", pic |-> Head(smEvents).pic])
        PROVE  NotifierIndInv'
    <3>1. PICK p \in 1 .. MaxPictures : Head(smEvents) = JpegEvent(p) /\ p \in Current
      BY <1>5, <2>2, EventTaken DEF SmJpeg, EventInv, EventsCurrent
    <3>2. Head(smEvents).pic = p
      BY <3>1 DEF JpegEvent
    <3>3. [cb |-> "SNAPSHOT", pic |-> p] \in Jpegs /\ [cb |-> "SNAPSHOT", pic |-> p].pic = p
      BY DEF Jpegs
    <3> QED BY <1>5, <2>2, <3>1, <3>2, <3>3, DataAdded DEF SmJpeg
  <2> QED BY <1>5, <2>1, <2>2 DEF SmJpeg
<1>6. CASE SmSnapshotDone
  <2>1. CASE EndPicture
    BY <1>6, <2>1, ModeStep DEF SmSnapshotDone, EndPicture
  <2>2. CASE UNCHANGED <<pic, cmd_queue, overtaken>>
    BY <1>3, <1>6, <2>2 DEF SmSnapshotDone
  <2> QED BY <1>6, <2>1, <2>2 DEF SmSnapshotDone
<1>7. CASE flushVideoNotifications
  <2>1. /\ mDataQ' = flushNodes(mDataQ, {Frame})
        /\ UNCHANGED <<pic, pictures, stragglers, cmd_queue, overtaken, cbPc, cbArg>>
    BY <1>7 DEF flushVideoNotifications
  <2>2. mDataQ' \in Seq({Frame} \cup Jpegs) /\ Entries(mDataQ') \subseteq Entries(mDataQ)
    BY <1>0, <2>1, EntriesFlushed DEF NotifierTypeOK
  <2>3. StopPending' = StopPending /\ Current' = Current
    BY <2>1 DEF StopPending, Current
  <2>4. HeldIsCurrent'
    BY <1>0, <2>1, <2>3 DEF HeldIsCurrent
  <2> QED BY <1>0, <2>1, <2>2, <2>3, <2>4, DataKept DEF NotifierTypeOK
<1>8. CASE ExitNotifier
  <2>1. /\ cmd_queue' = enqueueWithPriority(cmd_queue, "EXIT")
        /\ UNCHANGED <<pic, pictures, stragglers, mDataQ, overtaken, cbPc, cbArg>>
    BY <1>8 DEF ExitNotifier
  <2>2. /\ cmd_queue' \in Seq(CbCommands) /\ JobsBehind(cmd_queue')
        /\ Entries(cmd_queue') = Entries(cmd_queue) \cup {"EXIT"}
    BY <1>0, <2>1, ModeSent DEF NotifierTypeOK
  <2>3. StopPending' = StopPending /\ Current' = Current
    BY <2>1, <2>2 DEF StopPending, Current
  <2>4. HeldIsCurrent'
    BY <1>0, <2>1, <2>3 DEF HeldIsCurrent
  <2> QED BY <1>0, <2>1, <2>2, <2>3, <2>4, DataKept DEF NotifierTypeOK
<1> QED BY <1>1, <1>2, <1>4, <1>5, <1>6, <1>7, <1>8 DEF SmEvent

\* The callback thread.
LEMMA CbStep ==
  ASSUME NotifierIndInv, CbNotify
  PROVE  NotifierIndInv'
<1>0. /\ NotifierTypeOK /\ JobsBehind(cmd_queue) /\ QueuedIsCurrent /\ HeldIsCurrent
  BY DEF NotifierIndInv
<1> USE DEF pictureVars, threadVars
<1>1. ASSUME NEW c, Command(c)
      PROVE  /\ cbPc = "wait" /\ cbArg = NoData
             /\ cmd_queue' \in Seq(CbCommands) /\ JobsBehind(cmd_queue')
             /\ Entries(cmd_queue) = Entries(cmd_queue') \cup {c}
             /\ c = "JOB" => ~StopPending
  BY <1>0, <1>1, CommandTaken DEF Command, NotifierTypeOK, StopPending, ModeCommands
<1>2. ASSUME cbArg'.cb # "SNAPSHOT" PROVE HeldIsCurrent'
  BY <1>2 DEF HeldIsCurrent
<1>3. CASE START_DATA_PROC
  <2>1. StopPending => StopPending'
    BY <1>1, <1>3 DEF START_DATA_PROC, StopPending
  <2> QED BY <1>0, <1>1, <1>2, <1>3, <2>1, NotHeld, DataKept DEF START_DATA_PROC, NotifierTypeOK
<1>4. CASE STOP_DATA_PROC
  <2>1. mDataQ' \in Seq({Frame} \cup Jpegs) /\ Entries(mDataQ') = Entries(mDataQ) \ Jpegs
    BY <1>0, <1>4, EntriesFlushed DEF STOP_DATA_PROC, WithoutSnapshots, NotifierTypeOK
  <2>2. Entries(mDataQ') \cap Jpegs = {} /\ Entries(mDataQ') \subseteq Entries(mDataQ)
    BY <2>1
  <2> QED BY <1>0, <1>1, <1>2, <1>4, <2>1, <2>2, NotHeld, DataKept DEF STOP_DATA_PROC
<1>5. CASE EXIT
  <2>1. mDataQ' \in Seq({Frame} \cup Jpegs) /\ Entries(mDataQ') = {}
    BY <1>5, EntriesEmpty, EmptySeq DEF EXIT
  <2> QED BY <1>0, <1>1, <1>2, <1>5, <2>1, NotHeld, DataKept DEF EXIT
<1>6. CASE CallbackReturns
  <2>1. StopPending' = StopPending /\ Current' = Current
    BY <1>6 DEF CallbackReturns, StopPending, Current
  <2> QED BY <1>0, <1>2, <1>6, <2>1, NotHeld, DataKept DEF CallbackReturns, NotifierTypeOK
<1>7. ASSUME Command("JOB"), mDataQ # << >>
      PROVE  /\ Tail(mDataQ) \in Seq({Frame} \cup Jpegs)
             /\ Entries(Tail(mDataQ)) \subseteq Entries(mDataQ)
             /\ Head(mDataQ) \in Jpegs => pic # 0 /\ Head(mDataQ).pic \in Current
  <2>1. /\ Tail(mDataQ) \in Seq({Frame} \cup Jpegs)
        /\ Entries(mDataQ) = Entries(Tail(mDataQ)) \cup {Head(mDataQ)}
    BY <1>0, <1>7, CountDequeue, EntriesDequeue DEF NotifierTypeOK
  <2>2. ~StopPending
    BY <1>1, <1>7
  <2> QED BY <1>0, <2>1, <2>2 DEF QueuedIsCurrent
<1>8. CASE LoseSnapshot
  <2>1. Command("JOB") /\ mDataQ # << >> /\ mDataQ' = Tail(mDataQ)
        /\ UNCHANGED <<pic, pictures, stragglers, cbPc, cbArg>>
    BY <1>8 DEF LoseSnapshot
  <2> QED BY <1>0, <1>1, <1>2, <1>7, <2>1, NotHeld, DataKept
<1>9. CASE DO_NEXT_JOB
  <2>1. Command("JOB") /\ UNCHANGED <<pic, pictures, stragglers, overtaken>>
    BY <1>9 DEF DO_NEXT_JOB
  <2>2. mDataQ' \in Seq({Frame} \cup Jpegs) /\ Entries(mDataQ') \subseteq Entries(mDataQ)
    <3>1. CASE mDataQ = << >>
      BY <1>0, <1>9, <3>1 DEF DO_NEXT_JOB, NotifierTypeOK
    <3>2. CASE mDataQ # << >>
      BY <1>7, <1>9, <2>1, <3>2 DEF DO_NEXT_JOB
    <3> QED BY <3>1, <3>2
  <2>3. CASE UNCHANGED <<cbPc, cbArg>>
    BY <1>1, <1>2, <2>1, <2>2, <2>3, NotHeld, DataKept
  <2>4. CASE cbPc' = "callback" /\ cbArg' = Frame
    BY <1>1, <1>2, <2>1, <2>2, <2>4, NotHeld, DataKept
  <2>5. CASE cbPc' \in {"sync", "callback"} /\ mDataQ # << >> /\ Head(mDataQ) \in Jpegs
             /\ cbArg' = Head(mDataQ)
    <3>1. pic' # 0 /\ cbArg'.pic \in Current'
      BY <1>7, <2>1, <2>5 DEF Current
    <3>2. HeldIsCurrent'
      BY <3>1 DEF HeldIsCurrent
    <3> QED BY <1>1, <2>1, <2>2, <2>5, <3>2, DataKept
  <2> QED BY <1>9, <2>3, <2>4, <2>5 DEF DO_NEXT_JOB
<1> QED BY <1>3, <1>4, <1>5, <1>6, <1>8, <1>9 DEF CbNotify

\* The two invariants together.
LEMMA NotifierInductive ==
  NotifierIndInv /\ EventInv /\ [NotifierNext]_notifierVars => NotifierIndInv' /\ EventInv'
<1> SUFFICES ASSUME NotifierIndInv, EventInv, [NotifierNext]_notifierVars
             PROVE  NotifierIndInv' /\ EventInv'
  OBVIOUS
<1>1. ASSUME UNCHANGED notifierVars PROVE NotifierIndInv'
  BY <1>1 DEF notifierVars, NotifierIndInv, NotifierTypeOK, QueuedIsCurrent, HeldIsCurrent,
              StopPending, Current
<1>2. ASSUME \E p \in Posters : SendJob(p) PROVE NotifierIndInv'
  BY <1>2, PosterStep
<1>3. NotifierIndInv'
  BY <1>1, <1>2, PosterStep, SmStep, CbStep DEF NotifierNext
<1>4. EventInv'
  BY EventStep DEF NotifierIndInv
<1> QED BY <1>3, <1>4

\* A JPEG that the thread delivers was encoded for the last picture that began,
\* or its report was still waiting for the state machine when that picture
\* began, for any number of pictures and JPEGs, unless a mode command passed
\* another one.
THEOREM CurrentJpegDelivered == FairSpec => []DeliversCurrent
<1>1. Init => NotifierIndInv /\ EventInv
  <2>1. NotifierInit => EventInv
    BY EmptySeq, EntriesEmpty DEF NotifierInit, EventInv, EventsCurrent
  <2> QED BY <2>1, NotifierInitInv DEF Init
<1>2. NotifierIndInv /\ EventInv /\ [Next]_serviceVars => NotifierIndInv' /\ EventInv'
  BY NotifierInductive DEF Next, ApiMoves, NotifierMoves, PostProcMoves, HAL3on1Moves, serviceVars
<1> QED BY <1>1, <1>2, CurrentDelivered, PTL DEF FairSpec

\* When the thread has counted all JPEGs of a picture, it waits for
\* SNAPSHOT_DONE, which will end the picture, or a mode command waits for it and
\* resets the count; that command is in front of all jobs.
CountInv ==
  /\ numOfSnapshotRcvd \in 0 .. Burst
  /\ numOfSnapshotRcvd = Burst => ModePending \/ (cbPc = "sync" /\ pic # 0)

\* Which command waits, in terms of the queue's entries.
LEMMA ModeEntries ==
  ModePending <=> \E c \in ModeCommands : c \in Entries(cmd_queue)
  BY DEF ModePending, Entries

\* A sequence with more commands has the mode commands of the other one.
LEMMA ModeStays ==
  ASSUME Entries(cmd_queue) \cap ModeCommands \subseteq Entries(cmd_queue')
  PROVE  ModePending => ModePending'
<1>1. ModePending' <=> \E c \in ModeCommands : c \in Entries(cmd_queue')
  BY DEF ModePending, Entries
<1> QED BY <1>1, ModeEntries

\* Sending a mode command.
LEMMA ModeWaits ==
  ASSUME NotifierIndInv, NEW c \in ModeCommands, SendMode(c)
  PROVE  ModePending'
<1>1. Entries(cmd_queue') = Entries(cmd_queue) \cup {c}
  BY ModeSent DEF SendMode, NotifierIndInv, NotifierTypeOK, ModeCommands
<1>2. ModePending' <=> \E d \in ModeCommands : d \in Entries(cmd_queue')
  BY DEF ModePending, Entries
<1> QED BY <1>1, <1>2

\* When a job is taken no mode command waits, so a JPEG is still to be counted,
\* and it is one of a picture that is being taken.
LEMMA JobMeansRoom ==
  ASSUME NotifierIndInv, CountInv, Command("JOB")
  PROVE  /\ numOfSnapshotRcvd \in 0 .. Burst - 1
         /\ mDataQ # << >> /\ Head(mDataQ) \in Jpegs => pic # 0
<1>1. Entries(cmd_queue) \cap ModeCommands = {} /\ cbPc = "wait"
  BY CommandTaken DEF Command, NotifierIndInv, NotifierTypeOK
<1>2. numOfSnapshotRcvd # Burst
  BY <1>1, ModeEntries DEF CountInv
<1>3. ASSUME mDataQ # << >>, Head(mDataQ) \in Jpegs PROVE pic # 0
  <2>1. Head(mDataQ) \in Entries(mDataQ)
    BY <1>3, EntriesDequeue DEF NotifierIndInv, NotifierTypeOK
  <2> QED BY <1>1, <1>3, <2>1 DEF NotifierIndInv, QueuedIsCurrent, StopPending, ModeCommands
<1> QED BY <1>2, <1>3, NotifierAssumption DEF CountInv

\* Every step keeps the count in its bounds.
LEMMA CountStep ==
  ASSUME NotifierIndInv, CountInv, [NotifierNext]_notifierVars
  PROVE  CountInv'
<1>0. /\ NotifierTypeOK /\ JobsBehind(cmd_queue) /\ cmd_queue \in Seq(CbCommands)
      /\ Burst \in Nat /\ Burst # 0
  BY NotifierAssumption DEF NotifierIndInv, NotifierTypeOK
<1> USE DEF pictureVars, threadVars
<1>1. ASSUME UNCHANGED <<numOfSnapshotRcvd, cbPc, pic>>,
             Entries(cmd_queue) \cap ModeCommands \subseteq Entries(cmd_queue')
      PROVE  CountInv'
  BY <1>1, ModeStays DEF CountInv
<1>2. ASSUME UNCHANGED numOfSnapshotRcvd, NEW c \in ModeCommands, SendMode(c) PROVE CountInv'
  BY <1>2, ModeWaits DEF CountInv
<1>3. CASE TakePicture \/ CancelPicture
  BY <1>2, <1>3 DEF TakePicture, CancelPicture, ModeCommands
<1>4. CASE SmSnapshotDone
  <2>1. CASE EndPicture
    BY <1>2, <1>4, <2>1 DEF SmSnapshotDone, EndPicture, ModeCommands
  <2>2. CASE pic = 0 /\ UNCHANGED <<pic, cmd_queue>>
    <3>1. UNCHANGED numOfSnapshotRcvd /\ (ModePending => ModePending')
      BY <1>4, <2>2 DEF SmSnapshotDone, ModePending
    <3> QED BY <2>2, <3>1 DEF CountInv
  <2> QED BY <1>4, <2>1, <2>2 DEF SmSnapshotDone
<1>5. CASE JpegEncoded \/ SmJpeg \/ flushVideoNotifications \/ FrameArrives
  BY <1>1, <1>5 DEF JpegEncoded, SmJpeg, flushVideoNotifications, FrameArrives
<1>6. ASSUME NEW p \in Posters, SendJob(p) PROVE CountInv'
  <2>1. Entries(cmd_queue') = Entries(cmd_queue) \cup {"JOB"}
    BY <1>0, <1>6, JobSent DEF SendJob, NextJob
  <2> QED BY <1>1, <1>6, <2>1 DEF SendJob
<1>7. CASE ExitNotifier
  <2>1. Entries(cmd_queue') = Entries(cmd_queue) \cup {"EXIT"}
    BY <1>0, <1>7, ModeSent DEF ExitNotifier
  <2> QED BY <1>1, <1>7, <2>1 DEF ExitNotifier
<1>8. CASE START_DATA_PROC \/ STOP_DATA_PROC
  BY <1>0, <1>8 DEF START_DATA_PROC, STOP_DATA_PROC, CountInv
<1>9. CASE CallbackReturns
  <2>1. UNCHANGED <<numOfSnapshotRcvd, cmd_queue>> /\ cbPc # "sync"
    BY <1>9 DEF CallbackReturns
  <2>2. ModePending => ModePending'
    BY <2>1 DEF ModePending
  <2> QED BY <2>1, <2>2 DEF CountInv
<1>10. CASE EXIT
  <2>1. UNCHANGED numOfSnapshotRcvd /\ cbPc = "wait" /\ cmd_queue # << >>
        /\ Head(cmd_queue) = "EXIT" /\ cmd_queue' = Tail(cmd_queue)
    BY <1>10 DEF EXIT, Command
  <2>2. Entries(cmd_queue) = Entries(cmd_queue') \cup {"EXIT"}
    BY <1>0, <2>1, CommandTaken
  <2>3. Entries(cmd_queue) \cap ModeCommands \subseteq Entries(cmd_queue')
    BY <2>2 DEF ModeCommands
  <2> QED BY <2>1, <2>3, ModeStays DEF CountInv
<1>11. CASE LoseSnapshot
  BY <1>0, <1>11, JobMeansRoom DEF LoseSnapshot, CountInv
<1>12. CASE DO_NEXT_JOB
  <2>1. Command("JOB") /\ UNCHANGED pic
    BY <1>12 DEF DO_NEXT_JOB
  <2>2. CASE UNCHANGED numOfSnapshotRcvd
    BY <1>0, <2>1, <2>2, JobMeansRoom DEF CountInv
  <2>3. CASE /\ mDataQ # << >> /\ Head(mDataQ) \in Jpegs
             /\ numOfSnapshotRcvd' = numOfSnapshotRcvd + 1
             /\ LastSnapshot(numOfSnapshotRcvd') => cbPc' = "sync"
    BY <1>0, <2>1, <2>3, JobMeansRoom DEF LastSnapshot, CountInv
  <2> QED BY <1>12, <2>2, <2>3 DEF DO_NEXT_JOB
<1>13. CASE UNCHANGED notifierVars
  BY <1>1, <1>13 DEF notifierVars
<1> QED BY <1>3, <1>4, <1>5, <1>6, <1>7, <1>8, <1>9, <1>10, <1>11, <1>12, <1>13
        DEF NotifierNext, SmEvent, CbNotify

\* The callback thread never counts more JPEGs than a picture has, for any
\* number of them and also when mode commands overtake each other: the test
\* with == cannot be missed.
THEOREM JpegsAreCounted == FairSpec => []NoSurplusJpeg
<1> DEFINE Inv == NotifierIndInv /\ EventInv /\ CountInv
<1>1. Init => Inv
  <2>1. NotifierInit => EventInv
    BY EmptySeq, EntriesEmpty DEF NotifierInit, EventInv, EventsCurrent
  <2>2. NotifierInit => CountInv
    BY NotifierAssumption DEF NotifierInit, CountInv
  <2> QED BY <2>1, <2>2, NotifierInitInv DEF Init
<1>2. Inv /\ [Next]_serviceVars => Inv'
  BY NotifierInductive, CountStep
     DEF Next, ApiMoves, NotifierMoves, PostProcMoves, HAL3on1Moves, serviceVars
<1>3. Inv => NoSurplusJpeg
  BY NotifierAssumption DEF CountInv, NoSurplusJpeg
<1> QED BY <1>1, <1>2, <1>3, PTL DEF FairSpec
-----------------------------------------------------------------------------
Job == [frame : Frames, jobId : BOOLEAN, encoded : BOOLEAN]

PostProcTypeOK ==
  /\ free \in SUBSET Frames /\ reprocHand \in SUBSET Frames
  /\ m_inputPPQ \in Seq(Frames) /\ m_ongoingPPQ \in Seq(Frames)
  /\ m_inputJpegQ \in Seq(Frames) /\ m_ongoingJpegQ \in Seq(Job)

\* No two running jobs encode the same frame.
DistinctJobs(q) == \A i, j \in 1 .. Len(q) : q[i].frame = q[j].frame => i = j

\* No frame is twice in a queue, and the reprocessing thread holds one.
NoneTwice ==
  /\ Distinct(m_inputPPQ) /\ Distinct(m_ongoingPPQ) /\ Distinct(m_inputJpegQ)
  /\ DistinctJobs(m_ongoingJpegQ)
  /\ \A f, g \in reprocHand : f = g

\* Six sets hold every frame and have none in common.
Partition(A, B, C, D, E, F) ==
  /\ A \cup B \cup C \cup D \cup E \cup F = Frames
  /\ A \cap (B \cup C \cup D \cup E \cup F) = {}
  /\ B \cap (C \cup D \cup E \cup F) = {}
  /\ C \cap (D \cup E \cup F) = {}
  /\ D \cap (E \cup F) = {}
  /\ E \cap F = {}

\* The queues as sets, beside the stream's frames and the reprocessing thread's.
Apart == Partition(free, reprocHand, FramesOf(m_inputPPQ), FramesOf(m_ongoingPPQ),
                   FramesOf(m_inputJpegQ), JobFrames(m_ongoingJpegQ))

PostProcIndInv == PostProcTypeOK /\ NoneTwice /\ Apart

\* FramesOf is Entries of QueueFacts.
LEMMA FramesAreEntries == ASSUME NEW q PROVE FramesOf(q) = Entries(q)
  BY DEF FramesOf, Entries

\* An empty queue of jobs holds no frame.
LEMMA NoJobs == JobFrames(<< >>) = {} /\ DistinctJobs(<< >>)
  BY DEF JobFrames, DistinctJobs

\* The invariant holds when the post-processor is created.
LEMMA PostProcInitInv == PostProcInit => PostProcIndInv
<1> SUFFICES ASSUME PostProcInit PROVE PostProcIndInv
  OBVIOUS
<1>0. /\ free = Frames /\ reprocHand = {} /\ m_inputPPQ = << >> /\ m_ongoingPPQ = << >>
      /\ m_inputJpegQ = << >> /\ m_ongoingJpegQ = << >>
  BY DEF PostProcInit
<1>1. PostProcTypeOK
  BY <1>0, EmptySeq DEF PostProcTypeOK
<1>2. NoneTwice
  BY <1>0, EntriesEmpty, NoJobs DEF NoneTwice
<1>3. Apart
  BY <1>0, EntriesEmpty, FramesAreEntries, NoJobs DEF Apart, Partition
<1> QED BY <1>1, <1>2, <1>3 DEF PostProcIndInv

\* The invariant says that every frame is in one place, and that every job
\* has a frame of its own.
LEMMA OnePlace == PostProcIndInv => FrameInOnePlace
<1> SUFFICES ASSUME PostProcIndInv PROVE FrameInOnePlace
  OBVIOUS
<1>1. ASSUME NEW f \in Frames PROVE Cardinality({k \in DOMAIN Places : f \in Places[k]}) = 1
  <2> DEFINE P == {k \in DOMAIN Places : f \in Places[k]}
  <2>1. /\ 1 \in P <=> f \in free
        /\ 2 \in P <=> f \in reprocHand
        /\ 3 \in P <=> f \in FramesOf(m_inputPPQ)
        /\ 4 \in P <=> f \in FramesOf(m_ongoingPPQ)
        /\ 5 \in P <=> f \in FramesOf(m_inputJpegQ)
        /\ 6 \in P <=> f \in JobFrames(m_ongoingJpegQ)
    BY DEF Places
  <2>2. P \subseteq {1, 2, 3, 4, 5, 6}
    BY DEF Places
  <2> HIDE DEF P
  <2>3. \E k : P = {k}
    <3> USE DEF PostProcIndInv, Apart, Partition
    <3>1. CASE f \in free
      <4>1. P = {1}
        BY <3>1, <2>1, <2>2
      <4> QED BY <4>1
    <3>2. CASE f \in reprocHand
      <4>1. P = {2}
        BY <3>2, <2>1, <2>2
      <4> QED BY <4>1
    <3>3. CASE f \in FramesOf(m_inputPPQ)
      <4>1. P = {3}
        BY <3>3, <2>1, <2>2
      <4> QED BY <4>1
    <3>4. CASE f \in FramesOf(m_ongoingPPQ)
      <4>1. P = {4}
        BY <3>4, <2>1, <2>2
      <4> QED BY <4>1
    <3>5. CASE f \in FramesOf(m_inputJpegQ)
      <4>1. P = {5}
        BY <3>5, <2>1, <2>2
      <4> QED BY <4>1
    <3>6. CASE f \in JobFrames(m_ongoingJpegQ)
      <4>1. P = {6}
        BY <3>6, <2>1, <2>2
      <4> QED BY <4>1
    <3> QED BY <3>1, <3>2, <3>3, <3>4, <3>5, <3>6
  <2> QED BY <2>3, FS_Singleton DEF P
<1>2. Cardinality(JobFrames(m_ongoingJpegQ)) = Len(m_ongoingJpegQ)
  <2> DEFINE q == m_ongoingJpegQ
             f == [i \in 1 .. Len(q) |-> q[i].frame]
  <2>1. f \in Bijection(1 .. Len(q), JobFrames(q))
    BY DEF Bijection, Injection, Surjection, IsInjective, JobFrames, PostProcIndInv, NoneTwice,
           DistinctJobs
  <2>2. Len(q) \in Nat
    BY LenProperties DEF PostProcIndInv, PostProcTypeOK
  <2>3. IsFiniteSet(1 .. Len(q)) /\ Cardinality(1 .. Len(q)) = Len(q)
    BY <2>2, FS_Interval
  <2> HIDE DEF f, q
  <2>4. ExistsBijection(1 .. Len(q), JobFrames(q))
    BY <2>1 DEF ExistsBijection
  <2>5. Cardinality(JobFrames(q)) = Len(q)
    BY <2>3, <2>4, FS_Bijection
  <2> QED BY <2>5 DEF q
<1> QED BY <1>1, <1>2 DEF FrameInOnePlace
-----------------------------------------------------------------------------
\* A job that is started adds its frame.
LEMMA JobStarted ==
  ASSUME NEW q \in Seq(Job), NEW e \in Job
  PROVE  /\ enqueue(q, e) \in Seq(Job)
         /\ JobFrames(enqueue(q, e)) = JobFrames(q) \cup {e.frame}
         /\ DistinctJobs(q) /\ e.frame \notin JobFrames(q) => DistinctJobs(enqueue(q, e))
<1> DEFINE r == enqueue(q, e)
<1>1. /\ Append(q, e) \in Seq(Job)
      /\ Len(Append(q, e)) = Len(q) + 1
      /\ \A i \in 1 .. Len(q) : Append(q, e)[i] = q[i]
      /\ Append(q, e)[Len(q) + 1] = e
      /\ Len(q) \in Nat
  BY AppendProperties, LenProperties
<1>2. /\ r \in Seq(Job) /\ Len(r) = Len(q) + 1 /\ r[Len(q) + 1] = e
      /\ \A i \in 1 .. Len(q) : r[i] = q[i]
  BY <1>1, Zenon DEF enqueue
<1> HIDE DEF r
<1>3. JobFrames(r) = JobFrames(q) \cup {e.frame}
  <2>1. 1 .. Len(r) = (1 .. Len(q)) \cup {Len(q) + 1}
    BY <1>1, <1>2
  <2> QED BY <1>2, <2>1 DEF JobFrames
<1>4. ASSUME DistinctJobs(q), e.frame \notin JobFrames(q) PROVE DistinctJobs(r)
  BY <1>1, <1>2, <1>4 DEF DistinctJobs, JobFrames
<1> QED BY <1>2, <1>3, <1>4 DEF r

\* Jobs that are flushed leave the frames of the others.
LEMMA JobsFlushed ==
  ASSUME NEW q \in Seq(Job), NEW M
  PROVE  /\ flushNodes(q, M) \in Seq(Job)
         /\ JobFrames(flushNodes(q, M)) \subseteq JobFrames(q)
         /\ DistinctJobs(q) => DistinctJobs(flushNodes(q, M))
<1> DEFINE r == flushNodes(q, M)
<1>1. /\ r \in Seq(Job)
      /\ \E at \in [1 .. Len(r) -> Kept(q, M)] :
           /\ \A n \in 1 .. Len(r) : r[n] = q[at[n]]
           /\ \A m, n \in 1 .. Len(r) : m < n => at[m] < at[n]
           /\ \A i \in Kept(q, M) : \E n \in 1 .. Len(r) : at[n] = i
  BY FlushKeeps
<1> HIDE DEF r
<1>2. PICK at \in [1 .. Len(r) -> Kept(q, M)] :
        /\ \A n \in 1 .. Len(r) : r[n] = q[at[n]]
        /\ \A m, n \in 1 .. Len(r) : m < n => at[m] < at[n]
  BY <1>1
<1>3. /\ Len(r) \in Nat /\ Len(q) \in Nat
      /\ \A n \in 1 .. Len(r) : at[n] \in 1 .. Len(q)
  BY <1>1, LenProperties DEF Kept
<1>4. JobFrames(r) \subseteq JobFrames(q)
  BY <1>2, <1>3 DEF JobFrames
<1>5. ASSUME DistinctJobs(q) PROVE DistinctJobs(r)
  <2> SUFFICES ASSUME NEW m \in 1 .. Len(r), NEW n \in 1 .. Len(r), r[m].frame = r[n].frame
               PROVE  m = n
    BY DEF DistinctJobs
  <2>1. at[m] = at[n]
    BY <1>2, <1>3, <1>5 DEF DistinctJobs
  <2>2. ~(at[m] < at[n]) /\ ~(at[n] < at[m])
    BY <1>3, <2>1
  <2> QED BY <1>2, <1>3, <2>2
<1> QED BY <1>1, <1>4, <1>5 DEF r

\* Marks on jobs leave their frames alone.
LEMMA JobsMarked ==
  ASSUME NEW q \in Seq(Job), NEW r \in Seq(Job), Len(r) = Len(q),
         \A i \in 1 .. Len(q) : r[i].frame = q[i].frame
  PROVE  JobFrames(r) = JobFrames(q) /\ (DistinctJobs(q) => DistinctJobs(r))
  BY DEF JobFrames, DistinctJobs

\* Steps that move no frame.
LEMMA FrameOfFrames ==
  ASSUME PostProcIndInv, UNCHANGED <<free, reprocHand, queueVars>>
  PROVE  PostProcIndInv'
  BY DEF PostProcIndInv, PostProcTypeOK, NoneTwice, Apart, queueVars

\* The invariant after a step, from the sets after it.
LEMMA Settled ==
  ASSUME PostProcTypeOK', NoneTwice',
         NEW A, NEW B, NEW C, NEW D, NEW E, NEW F, Partition(A, B, C, D, E, F),
         free' = A, reprocHand' = B, FramesOf(m_inputPPQ') = C, FramesOf(m_ongoingPPQ') = D,
         FramesOf(m_inputJpegQ') = E, JobFrames(m_ongoingJpegQ') = F
  PROVE  PostProcIndInv'
<1>1. Apart'
  BY DEF Apart, FramesOf, JobFrames
<1> QED BY <1>1 DEF PostProcIndInv

\* A frame that is enqueued is added, the first that is dequeued taken away.
LEMMA FrameQueued ==
  ASSUME NEW q \in Seq(Frames), NEW f \in Frames
  PROVE  /\ enqueue(q, f) \in Seq(Frames)
         /\ FramesOf(enqueue(q, f)) = FramesOf(q) \cup {f}
         /\ Distinct(q) /\ f \notin FramesOf(q) => Distinct(enqueue(q, f))
  BY EntriesEnqueue, CountEnqueue, FramesAreEntries

\* The first frame that is dequeued is taken away.
LEMMA FrameTaken ==
  ASSUME NEW q \in Seq(Frames), q # << >>
  PROVE  /\ Head(q) \in Frames /\ Tail(q) \in Seq(Frames)
         /\ FramesOf(q) = FramesOf(Tail(q)) \cup {Head(q)}
         /\ Distinct(q) => Distinct(Tail(q)) /\ Head(q) \notin FramesOf(Tail(q))
  BY EntriesDequeue, CountDequeue, FramesAreEntries
-----------------------------------------------------------------------------
\* processJpegEvt(): the job whose event arrived is released.
LEMMA JpegEvtStep ==
  ASSUME PostProcIndInv, processJpegEvt
  PROVE  PostProcIndInv'
<1>1. CASE UNCHANGED <<m_ongoingJpegQ, free>>
  BY <1>1, FrameOfFrames DEF processJpegEvt, queueVars
<1>2. ASSUME NEW done, m_ongoingJpegQ' = flushNodes(m_ongoingJpegQ, done),
             free' = free \cup (JobFrames(m_ongoingJpegQ) \ JobFrames(m_ongoingJpegQ'))
      PROVE  PostProcIndInv'
  <2> DEFINE F == JobFrames(m_ongoingJpegQ)
             G == JobFrames(m_ongoingJpegQ')
  <2>1. UNCHANGED <<reprocHand, m_inputPPQ, m_ongoingPPQ, m_inputJpegQ>>
    BY DEF processJpegEvt
  <2>2. /\ m_ongoingJpegQ' \in Seq(Job) /\ G \subseteq F
        /\ DistinctJobs(m_ongoingJpegQ')
    BY <1>2, JobsFlushed DEF PostProcIndInv, PostProcTypeOK, NoneTwice
  <2>3. Partition(free \cup (F \ G), reprocHand, FramesOf(m_inputPPQ), FramesOf(m_ongoingPPQ),
                  FramesOf(m_inputJpegQ), G)
    <3> HIDE DEF F, G
    <3>1. Partition(free, reprocHand, FramesOf(m_inputPPQ), FramesOf(m_ongoingPPQ),
                    FramesOf(m_inputJpegQ), F)
      BY DEF PostProcIndInv, Apart, F
    <3> QED BY <2>2, <3>1 DEF Partition
  <2>4. PostProcTypeOK'
    BY <1>2, <2>1, <2>2, <2>3 DEF PostProcTypeOK, PostProcIndInv, Partition
  <2>5. NoneTwice'
    BY <2>1, <2>2 DEF NoneTwice, PostProcIndInv
  <2> HIDE DEF F, G
  <2>6. free' = free \cup (F \ G) /\ JobFrames(m_ongoingJpegQ') = G
    BY <1>2 DEF F, G
  <2> QED BY <2>1, <2>3, <2>4, <2>5, <2>6, Settled
<1> QED BY <1>1, <1>2 DEF processJpegEvt

\* processData(): a frame of the stream goes to one of the input queues.
LEMMA DataStep ==
  ASSUME PostProcIndInv, NEW f \in Frames, processData(f)
  PROVE  PostProcIndInv'
<1>0. PostProcTypeOK /\ NoneTwice /\ Apart
  BY DEF PostProcIndInv
<1>1. /\ f \in free /\ free' = free \ {f}
      /\ UNCHANGED <<reprocHand, m_ongoingPPQ, m_ongoingJpegQ>>
  BY DEF processData
<1>2. f \notin FramesOf(m_inputPPQ) /\ f \notin FramesOf(m_inputJpegQ)
  BY <1>0, <1>1 DEF Apart, Partition
<1>3. CASE m_inputPPQ' = enqueue(m_inputPPQ, f) /\ m_inputJpegQ' = m_inputJpegQ
  <2>1. /\ m_inputPPQ' \in Seq(Frames) /\ Distinct(m_inputPPQ')
        /\ FramesOf(m_inputPPQ') = FramesOf(m_inputPPQ) \cup {f}
    BY <1>0, <1>2, <1>3, FrameQueued DEF PostProcTypeOK, NoneTwice
  <2>2. Partition(free \ {f}, reprocHand, FramesOf(m_inputPPQ) \cup {f}, FramesOf(m_ongoingPPQ),
                  FramesOf(m_inputJpegQ), JobFrames(m_ongoingJpegQ))
    BY <1>0, <1>1 DEF Apart, Partition
  <2>3. PostProcTypeOK' /\ NoneTwice'
    BY <1>0, <1>1, <1>3, <2>1 DEF PostProcTypeOK, NoneTwice
  <2> QED BY <1>1, <1>3, <2>1, <2>2, <2>3, Settled
<1>4. CASE m_inputJpegQ' = enqueue(m_inputJpegQ, f) /\ m_inputPPQ' = m_inputPPQ
  <2>1. /\ m_inputJpegQ' \in Seq(Frames) /\ Distinct(m_inputJpegQ')
        /\ FramesOf(m_inputJpegQ') = FramesOf(m_inputJpegQ) \cup {f}
    BY <1>0, <1>2, <1>4, FrameQueued DEF PostProcTypeOK, NoneTwice
  <2>2. Partition(free \ {f}, reprocHand, FramesOf(m_inputPPQ), FramesOf(m_ongoingPPQ),
                  FramesOf(m_inputJpegQ) \cup {f}, JobFrames(m_ongoingJpegQ))
    BY <1>0, <1>1 DEF Apart, Partition
  <2>3. PostProcTypeOK' /\ NoneTwice'
    BY <1>0, <1>1, <1>4, <2>1 DEF PostProcTypeOK, NoneTwice
  <2> QED BY <1>1, <1>4, <2>1, <2>2, <2>3, Settled
<1> QED BY <1>3, <1>4 DEF processData

\* processPPData(), first half: the reprocessing thread takes the oldest job.
LEMMA PPDataStep ==
  ASSUME PostProcIndInv, processPPData
  PROVE  PostProcIndInv'
<1>0. PostProcTypeOK /\ NoneTwice /\ Apart
  BY DEF PostProcIndInv
<1> DEFINE f == Head(m_ongoingPPQ)
           q == Tail(m_ongoingPPQ)
<1>1. /\ reprocHand = {} /\ reprocHand' = {f} /\ m_ongoingPPQ # << >> /\ m_ongoingPPQ' = q
      /\ UNCHANGED <<free, m_inputPPQ, m_inputJpegQ, m_ongoingJpegQ>>
  BY DEF processPPData
<1>2. /\ f \in Frames /\ q \in Seq(Frames) /\ Distinct(q) /\ f \notin FramesOf(q)
      /\ FramesOf(m_ongoingPPQ) = FramesOf(q) \cup {f}
  BY <1>0, <1>1, FrameTaken DEF PostProcTypeOK, NoneTwice
<1> HIDE DEF f, q
<1>3. Partition(free, {f}, FramesOf(m_inputPPQ), FramesOf(q), FramesOf(m_inputJpegQ),
                JobFrames(m_ongoingJpegQ))
  BY <1>0, <1>1, <1>2 DEF Apart, Partition
<1>4. PostProcTypeOK' /\ NoneTwice'
  BY <1>0, <1>1, <1>2 DEF PostProcTypeOK, NoneTwice
<1> QED BY <1>1, <1>3, <1>4, Settled

\* Second half: it goes to the encoder's queue.
LEMMA PPDataPostedStep ==
  ASSUME PostProcIndInv, PPDataPosted
  PROVE  PostProcIndInv'
<1>0. PostProcTypeOK /\ NoneTwice /\ Apart
  BY DEF PostProcIndInv
<1>1. PICK f \in reprocHand :
        /\ m_inputJpegQ' = enqueue(m_inputJpegQ, f) /\ reprocHand' = {}
        /\ UNCHANGED <<free, m_inputPPQ, m_ongoingPPQ, m_ongoingJpegQ>>
  BY DEF PPDataPosted
<1>2. f \in Frames /\ reprocHand = {f} /\ f \notin FramesOf(m_inputJpegQ)
  BY <1>0 DEF PostProcTypeOK, NoneTwice, Apart, Partition
<1>3. /\ m_inputJpegQ' \in Seq(Frames) /\ Distinct(m_inputJpegQ')
      /\ FramesOf(m_inputJpegQ') = FramesOf(m_inputJpegQ) \cup {f}
  BY <1>0, <1>1, <1>2, FrameQueued DEF PostProcTypeOK, NoneTwice
<1>4. Partition(free, {}, FramesOf(m_inputPPQ), FramesOf(m_ongoingPPQ),
                FramesOf(m_inputJpegQ) \cup {f}, JobFrames(m_ongoingJpegQ))
  BY <1>0, <1>2 DEF Apart, Partition
<1>5. PostProcTypeOK' /\ NoneTwice'
  BY <1>0, <1>1, <1>3 DEF PostProcTypeOK, NoneTwice
<1> QED BY <1>1, <1>3, <1>4, <1>5, Settled

\* The encoder finishes a job: the job keeps its frame.
LEMMA JobDoneStep ==
  ASSUME PostProcIndInv, JpegJobDone
  PROVE  PostProcIndInv'
<1>0. PostProcTypeOK /\ NoneTwice /\ Apart
  BY DEF PostProcIndInv
<1> DEFINE q == m_ongoingJpegQ
           r == m_ongoingJpegQ'
<1>1. PICK i \in DOMAIN m_ongoingJpegQ :
        /\ m_ongoingJpegQ' = [m_ongoingJpegQ EXCEPT ![i].encoded = TRUE]
        /\ UNCHANGED <<free, reprocHand, m_inputPPQ, m_ongoingPPQ, m_inputJpegQ>>
  BY DEF JpegJobDone
<1>2. q \in Seq(Job) /\ Len(q) \in Nat /\ DOMAIN q = 1 .. Len(q)
  BY <1>0, LenProperties DEF PostProcTypeOK
<1> DEFINE e == [q[i] EXCEPT !.encoded = TRUE]
<1>3. e \in Job /\ e.frame = q[i].frame
  <2>1. q[i] \in Job
    BY <1>1, <1>2, ElementOfSeq
  <2> QED BY <2>1 DEF Job
<1>4. r = [q EXCEPT ![i] = e]
  BY <1>1
<1> HIDE DEF e, q, r
<1>5. r \in Seq(Job) /\ Len(r) = Len(q) /\ \A k \in 1 .. Len(q) : r[k].frame = q[k].frame
  <2>1. r \in Seq(Job) /\ Len(r) = Len(q)
    BY <1>1, <1>2, <1>3, <1>4, ExceptSeq DEF q
  <2>2. ASSUME NEW k \in 1 .. Len(q) PROVE r[k].frame = q[k].frame
    BY <1>2, <1>3, <1>4
  <2> QED BY <2>1, <2>2
<1>6. JobFrames(r) = JobFrames(q) /\ DistinctJobs(r)
  BY <1>0, <1>2, <1>5, JobsMarked DEF NoneTwice, q
<1>7. PostProcTypeOK' /\ NoneTwice'
  BY <1>0, <1>1, <1>5, <1>6 DEF PostProcTypeOK, NoneTwice, r
<1> QED BY <1>0, <1>1, <1>6, <1>7, Settled DEF Apart, q, r

\* STOP: the frames of the aborted jobs are released.
LEMMA DataProcStopStep ==
  ASSUME PostProcIndInv, DataProcStop
  PROVE  PostProcIndInv'
<1>0. PostProcTypeOK /\ NoneTwice /\ Apart
  BY DEF PostProcIndInv
<1>1. /\ free' = free \cup JobFrames(m_ongoingJpegQ) /\ m_ongoingJpegQ' = << >>
      /\ UNCHANGED <<reprocHand, m_inputPPQ, m_ongoingPPQ, m_inputJpegQ>>
  BY DEF DataProcStop
<1>2. Partition(free \cup JobFrames(m_ongoingJpegQ), reprocHand, FramesOf(m_inputPPQ),
                FramesOf(m_ongoingPPQ), FramesOf(m_inputJpegQ), {})
  BY <1>0 DEF Apart, Partition
<1>3. JobFrames(m_ongoingJpegQ') = {} /\ DistinctJobs(m_ongoingJpegQ') /\ m_ongoingJpegQ' \in Seq(Job)
  BY <1>1, NoJobs, EmptySeq
<1>4. PostProcTypeOK' /\ NoneTwice'
  BY <1>0, <1>1, <1>2, <1>3 DEF PostProcTypeOK, NoneTwice, Partition
<1> QED BY <1>1, <1>2, <1>3, <1>4, Settled

\* The queues are flushed into the stream.
LEMMA FlushQueuesStep ==
  ASSUME PostProcIndInv, FlushQueues
  PROVE  PostProcIndInv'
<1>0. PostProcTypeOK /\ NoneTwice /\ Apart
  BY DEF PostProcIndInv
<1>1. /\ free' = free \cup Flushed
      /\ m_ongoingPPQ' = << >> /\ m_inputJpegQ' = << >> /\ m_inputPPQ' = << >>
      /\ UNCHANGED <<reprocHand, m_ongoingJpegQ>>
  BY DEF FlushQueues
<1>2. Partition(free \cup Flushed, reprocHand, {}, {}, {}, JobFrames(m_ongoingJpegQ))
  BY <1>0 DEF Apart, Partition, Flushed
<1>3. FramesOf(<< >>) = {} /\ Distinct(<< >>) /\ << >> \in Seq(Frames)
  BY EntriesEmpty, FramesAreEntries, EmptySeq
<1>4. PostProcTypeOK' /\ NoneTwice'
  BY <1>0, <1>1, <1>2, <1>3 DEF PostProcTypeOK, NoneTwice, Partition
<1> QED BY <1>1, <1>2, <1>3, <1>4, Settled

\* DO_NEXT_JOB, first half: the encoder takes the oldest frame, or it is
\* released.
LEMMA EncodeNextStep ==
  ASSUME PostProcIndInv, EncodeNext
  PROVE  PostProcIndInv'
<1>0. PostProcTypeOK /\ NoneTwice /\ Apart
  BY DEF PostProcIndInv
<1>1. UNCHANGED <<reprocHand, m_inputPPQ, m_ongoingPPQ>>
  BY DEF EncodeNext
<1>2. CASE m_inputJpegQ = << >>
  <2>1. UNCHANGED <<free, reprocHand, queueVars>>
    BY <1>1, <1>2 DEF EncodeNext, TailOf, queueVars
  <2> QED BY <2>1, FrameOfFrames
<1>3. CASE m_inputJpegQ # << >>
  <2> DEFINE f == Head(m_inputJpegQ)
             q == Tail(m_inputJpegQ)
  <2>1. m_inputJpegQ' = q
    BY <1>3 DEF EncodeNext, TailOf
  <2>2. /\ f \in Frames /\ q \in Seq(Frames) /\ Distinct(q) /\ f \notin FramesOf(q)
        /\ FramesOf(m_inputJpegQ) = FramesOf(q) \cup {f}
    BY <1>0, <1>3, FrameTaken DEF PostProcTypeOK, NoneTwice
  <2>3. \/ m_ongoingJpegQ' = enqueue(m_ongoingJpegQ, NewJob(f)) /\ free' = free
        \/ m_ongoingJpegQ' = m_ongoingJpegQ /\ free' = free \cup {f}
    BY <1>3 DEF EncodeNext, DropFailedJob
  <2> HIDE DEF f, q
  <2>4. CASE m_ongoingJpegQ' = enqueue(m_ongoingJpegQ, NewJob(f)) /\ free' = free
    <3>1. NewJob(f) \in Job /\ NewJob(f).frame = f
      BY <2>2 DEF NewJob, Job
    <3>2. f \notin JobFrames(m_ongoingJpegQ)
      BY <1>0, <2>2 DEF Apart, Partition
    <3>3. /\ m_ongoingJpegQ' \in Seq(Job) /\ DistinctJobs(m_ongoingJpegQ')
          /\ JobFrames(m_ongoingJpegQ') = JobFrames(m_ongoingJpegQ) \cup {f}
      BY <1>0, <2>4, <3>1, <3>2, JobStarted DEF PostProcTypeOK, NoneTwice
    <3>4. Partition(free, reprocHand, FramesOf(m_inputPPQ), FramesOf(m_ongoingPPQ), FramesOf(q),
                    JobFrames(m_ongoingJpegQ) \cup {f})
      BY <1>0, <2>2 DEF Apart, Partition
    <3>5. PostProcTypeOK' /\ NoneTwice'
      BY <1>0, <1>1, <2>1, <2>2, <2>4, <3>3 DEF PostProcTypeOK, NoneTwice
    <3> QED BY <1>1, <2>1, <2>4, <3>3, <3>4, <3>5, Settled
  <2>5. CASE m_ongoingJpegQ' = m_ongoingJpegQ /\ free' = free \cup {f}
    <3>1. Partition(free \cup {f}, reprocHand, FramesOf(m_inputPPQ), FramesOf(m_ongoingPPQ),
                    FramesOf(q), JobFrames(m_ongoingJpegQ))
      BY <1>0, <2>2 DEF Apart, Partition
    <3>2. PostProcTypeOK' /\ NoneTwice'
      BY <1>0, <1>1, <2>1, <2>2, <2>5 DEF PostProcTypeOK, NoneTwice
    <3> QED BY <1>1, <2>1, <2>5, <3>1, <3>2, Settled
  <2> QED BY <2>3, <2>4, <2>5
<1> QED BY <1>2, <1>3

\* DO_NEXT_JOB, second half: ids are stored, the oldest frame goes to
\* reprocessing, or is released.
LEMMA ReprocessNextStep ==
  ASSUME PostProcIndInv, ReprocessNext
  PROVE  PostProcIndInv'
<1>0. PostProcTypeOK /\ NoneTwice /\ Apart
  BY DEF PostProcIndInv
<1>1. UNCHANGED <<reprocHand, m_inputJpegQ>>
  BY DEF ReprocessNext
<1>2. /\ m_ongoingJpegQ' \in Seq(Job) /\ DistinctJobs(m_ongoingJpegQ')
      /\ JobFrames(m_ongoingJpegQ') = JobFrames(m_ongoingJpegQ)
  <2> DEFINE q == m_ongoingJpegQ
             r == m_ongoingJpegQ'
  <2>1. /\ q \in Seq(Job) /\ Len(q) \in Nat /\ DOMAIN q = 1 .. Len(q)
        /\ \A i \in 1 .. Len(q) : q[i] \in Job
    BY <1>0, LenProperties, ElementOfSeq DEF PostProcTypeOK
  <2>2. r = [i \in DOMAIN q |-> [q[i] EXCEPT !.jobId = TRUE]]
    BY DEF ReprocessNext
  <2> HIDE DEF q, r
  <2>3. \A i \in 1 .. Len(q) : [q[i] EXCEPT !.jobId = TRUE] \in Job
                               /\ [q[i] EXCEPT !.jobId = TRUE].frame = q[i].frame
    BY <2>1 DEF Job
  <2>4. r \in [1 .. Len(q) -> Job] /\ \A i \in 1 .. Len(q) : r[i].frame = q[i].frame
    BY <2>1, <2>2, <2>3
  <2>5. r \in Seq(Job)
    BY <2>1, <2>4, SeqDef
  <2>6. Len(r) = Len(q)
    <3>1. DOMAIN r = 1 .. Len(q) /\ DOMAIN r = 1 .. Len(r) /\ Len(r) \in Nat
      BY <2>4, <2>5, LenProperties
    <3> QED BY <2>1, <3>1
  <2>7. JobFrames(r) = JobFrames(q) /\ (DistinctJobs(q) => DistinctJobs(r))
    BY <2>1, <2>4, <2>5, <2>6, JobsMarked
  <2> QED BY <1>0, <2>5, <2>7 DEF NoneTwice, q, r
<1>3. CASE m_inputPPQ = << >>
  <2>1. UNCHANGED <<free, m_inputPPQ, m_ongoingPPQ>>
    BY <1>3 DEF ReprocessNext, TailOf
  <2>2. PostProcTypeOK' /\ NoneTwice'
    BY <1>0, <1>1, <1>2, <2>1 DEF PostProcTypeOK, NoneTwice
  <2> QED BY <1>0, <1>1, <1>2, <2>1, <2>2, Settled DEF Apart
<1>4. CASE m_inputPPQ # << >>
  <2> DEFINE f == Head(m_inputPPQ)
             q == Tail(m_inputPPQ)
  <2>1. m_inputPPQ' = q
    BY <1>4 DEF ReprocessNext, TailOf
  <2>2. /\ f \in Frames /\ q \in Seq(Frames) /\ Distinct(q) /\ f \notin FramesOf(q)
        /\ FramesOf(m_inputPPQ) = FramesOf(q) \cup {f}
    BY <1>0, <1>4, FrameTaken DEF PostProcTypeOK, NoneTwice
  <2>3. \/ m_ongoingPPQ' = enqueue(m_ongoingPPQ, f) /\ free' = free
        \/ m_ongoingPPQ' = m_ongoingPPQ /\ free' = free \cup {f}
    BY <1>4 DEF ReprocessNext
  <2> HIDE DEF f, q
  <2>4. CASE m_ongoingPPQ' = enqueue(m_ongoingPPQ, f) /\ free' = free
    <3>1. f \notin FramesOf(m_ongoingPPQ)
      BY <1>0, <2>2 DEF Apart, Partition
    <3>2. /\ m_ongoingPPQ' \in Seq(Frames) /\ Distinct(m_ongoingPPQ')
          /\ FramesOf(m_ongoingPPQ') = FramesOf(m_ongoingPPQ) \cup {f}
      BY <1>0, <2>2, <2>4, <3>1, FrameQueued DEF PostProcTypeOK, NoneTwice
    <3>3. Partition(free, reprocHand, FramesOf(q), FramesOf(m_ongoingPPQ) \cup {f},
                    FramesOf(m_inputJpegQ), JobFrames(m_ongoingJpegQ))
      BY <1>0, <2>2 DEF Apart, Partition
    <3>4. PostProcTypeOK' /\ NoneTwice'
      BY <1>0, <1>1, <1>2, <2>1, <2>2, <2>4, <3>2 DEF PostProcTypeOK, NoneTwice
    <3> QED BY <1>1, <1>2, <2>1, <2>4, <3>2, <3>3, <3>4, Settled
  <2>5. CASE m_ongoingPPQ' = m_ongoingPPQ /\ free' = free \cup {f}
    <3>1. Partition(free \cup {f}, reprocHand, FramesOf(q), FramesOf(m_ongoingPPQ),
                    FramesOf(m_inputJpegQ), JobFrames(m_ongoingJpegQ))
      BY <1>0, <2>2 DEF Apart, Partition
    <3>2. PostProcTypeOK' /\ NoneTwice'
      BY <1>0, <1>1, <1>2, <2>1, <2>2, <2>5 DEF PostProcTypeOK, NoneTwice
    <3> QED BY <1>1, <1>2, <2>1, <2>5, <3>1, <3>2, Settled
  <2> QED BY <2>3, <2>4, <2>5
<1> QED BY <1>3, <1>4

\* What HeadOf and TailOf take from a queue and leave of it.
LEMMA FirstTaken ==
  ASSUME NEW q \in Seq(Frames), Distinct(q)
  PROVE  /\ TailOf(q) \in Seq(Frames) /\ Distinct(TailOf(q)) /\ HeadOf(q) \subseteq Frames
         /\ FramesOf(q) = FramesOf(TailOf(q)) \cup HeadOf(q)
         /\ HeadOf(q) \cap FramesOf(TailOf(q)) = {}
<1>1. CASE q = << >>
  BY <1>1 DEF TailOf, HeadOf
<1>2. CASE q # << >>
  <2>1. TailOf(q) = Tail(q) /\ HeadOf(q) = {Head(q)}
    BY <1>2 DEF TailOf, HeadOf
  <2>2. /\ Head(q) \in Frames /\ Tail(q) \in Seq(Frames)
        /\ FramesOf(q) = FramesOf(Tail(q)) \cup {Head(q)}
        /\ Distinct(Tail(q)) /\ Head(q) \notin FramesOf(Tail(q))
    BY <1>2, FrameTaken
  <2> QED BY <2>1, <2>2, Zenon
<1> QED BY <1>1, <1>2

\* DO_NEXT_JOB after STOP: the oldest frame of each input queue is released.
LEMMA ReturnNextStep ==
  ASSUME PostProcIndInv, ReturnNext
  PROVE  PostProcIndInv'
<1>0. PostProcTypeOK /\ NoneTwice /\ Apart
  BY DEF PostProcIndInv
<1> DEFINE A == HeadOf(m_inputJpegQ)
           B == HeadOf(m_inputPPQ)
           q == TailOf(m_inputJpegQ)
           r == TailOf(m_inputPPQ)
<1>1. /\ free' = free \cup A \cup B /\ m_inputJpegQ' = q /\ m_inputPPQ' = r
      /\ UNCHANGED <<reprocHand, m_ongoingPPQ, m_ongoingJpegQ>>
  BY DEF ReturnNext
<1>2. /\ q \in Seq(Frames) /\ Distinct(q) /\ A \subseteq Frames
      /\ FramesOf(m_inputJpegQ) = FramesOf(q) \cup A /\ A \cap FramesOf(q) = {}
      /\ r \in Seq(Frames) /\ Distinct(r) /\ B \subseteq Frames
      /\ FramesOf(m_inputPPQ) = FramesOf(r) \cup B /\ B \cap FramesOf(r) = {}
  BY <1>0, FirstTaken DEF PostProcTypeOK, NoneTwice
<1> HIDE DEF A, B, q, r
<1>3. Partition(free \cup A \cup B, reprocHand, FramesOf(r), FramesOf(m_ongoingPPQ), FramesOf(q),
                JobFrames(m_ongoingJpegQ))
  BY <1>0, <1>2 DEF Apart, Partition
<1>4. PostProcTypeOK' /\ NoneTwice'
  BY <1>0, <1>1, <1>2 DEF PostProcTypeOK, NoneTwice
<1> QED BY <1>1, <1>3, <1>4, Settled

\* The steps of the state machine's thread, and of the others where they only
\* pass commands on, move no frame.
LEMMA QuietPostProcStep ==
  ASSUME PostProcIndInv,
         \/ PostProcStart \/ RequestFrames \/ PostProcStop \/ CancelFrames \/ DataPosted
         \/ DataProcStart \/ StopReprocess
  PROVE  PostProcIndInv'
<1>1. UNCHANGED <<free, reprocHand, queueVars>>
  BY DEF PostProcStart, RequestFrames, PostProcStop, CancelFrames, DataPosted, DataProcStart,
         StopReprocess
<1> QED BY <1>1, FrameOfFrames
-----------------------------------------------------------------------------
\* Every step of the post-processor keeps the invariant.
LEMMA PostProcInductive == PostProcIndInv /\ [PostProcNext]_postProcVars => PostProcIndInv'
<1> SUFFICES ASSUME PostProcIndInv, [PostProcNext]_postProcVars PROVE PostProcIndInv'
  OBVIOUS
<1>1. CASE UNCHANGED postProcVars
  BY <1>1, FrameOfFrames DEF postProcVars, queueVars
<1>2. CASE \E f \in Frames : processData(f)
  BY <1>2, DataStep
<1>3. CASE DataProcess
  BY <1>3, QuietPostProcStep, DataProcStopStep, FlushQueuesStep, EncodeNextStep,
     ReprocessNextStep, ReturnNextStep DEF DataProcess
<1> QED BY <1>1, <1>2, <1>3, QuietPostProcStep, JpegEvtStep, PPDataStep, PPDataPostedStep,
           JobDoneStep DEF PostProcNext

\* Every frame of the snapshot stream is in one place at any time, for any
\* number of frames and however the four threads that pass them on interleave.
THEOREM FramesInOnePlace == FairSpec => []FrameInOnePlace
<1>1. Init => PostProcIndInv
  BY PostProcInitInv DEF Init
<1>2. PostProcIndInv /\ [Next]_serviceVars => PostProcIndInv'
  BY PostProcInductive DEF Next, ApiMoves, NotifierMoves, PostProcMoves, HAL3on1Moves, serviceVars
<1> QED BY <1>1, <1>2, OnePlace, PTL DEF FairSpec
===============================================================================
