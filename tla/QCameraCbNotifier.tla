-------------------------- MODULE QCameraCbNotifier --------------------------
(***************************************************************************)
(* The callback thread of the camera HAL (QCameraCbNotifier).  Frames of   *)
(* the streams and JPEGs of the post-processor are put in mDataQ, each     *)
(* followed by a DO_NEXT_JOB command; START and STOP of the snapshot mode  *)
(* go to the head of the command queue.  With the last JPEG of a picture   *)
(* the thread waits for the state machine to handle SNAPSHOT_DONE.         *)
(*                                                                         *)
(* Of the state machine there is what concerns this thread: whether a      *)
(* picture is being taken, and the events.  TAKE_PICTURE and               *)
(* CANCEL_PICTURE overtake events, so they may come at any time; QCameraApi *)
(* has the queue they overtake in.  Longshot, which counts no JPEGs, is     *)
(* left out.                                                                *)
(***************************************************************************)
EXTENDS QCameraQueue, FiniteSets

CONSTANTS Burst,         \* numOfSnapshotsExpected()
          MaxPictures,   \* bound: pictures taken
          MaxJobs        \* bound: jobs queued when a frame is added

ASSUME NotifierAssumption == {Burst, MaxPictures, MaxJobs} \subseteq Nat \ {0}

VARIABLES pic,             \* the picture being taken, 0 if there is none
          pictures,        \* how many there were
          encoding,        \* JPEGs the encoder still owes
          smEvents,        \* JPEG_EVT_NOTIFY events, with the picture the JPEG was
                           \* encoded for, and SNAPSHOT_DONE events
          postPc,          \* who is between mDataQ.enqueue and sendCmd
          cmd_queue, mDataQ, mActive,
          cbPc, cbArg,     \* the callback thread and the data in its hands
          isSnapshotActive, numOfSnapshotRcvd,
          stragglers,      \* history: earlier pictures whose JPEG events were still
                           \* queued when the last picture began
          overtaken,       \* history: the last mode command passed another one
          lost             \* history: a JPEG failed or nobody wanted it

notifierVars == <<pic, pictures, encoding, smEvents, postPc, cmd_queue, mDataQ,
                  mActive, cbPc, cbArg, isSnapshotActive, numOfSnapshotRcvd,
                  stragglers, overtaken, lost>>

threadVars  == <<cbPc, cbArg, isSnapshotActive, numOfSnapshotRcvd>>
pictureVars == <<pic, pictures, encoding, stragglers>>

Posters == {"stream", "sm"}
NoData  == [cb |-> "none", pic |-> 0]
Frame   == [cb |-> "TIMESTAMP", pic |-> 0]
Jpegs   == [cb : {"SNAPSHOT"}, pic : 1 .. MaxPictures]

JpegEvent(p) == [evt |-> "JPEG_EVT_NOTIFY", pic |-> p]
DoneEvent    == [evt |-> "SNAPSHOT_DONE", pic |-> 0]

NotifierInit ==
  /\ pic = 0 /\ pictures = 0 /\ encoding = 0
  /\ smEvents = << >>
  /\ postPc = [p \in Posters |-> "idle"]
  /\ cmd_queue = << >> /\ mDataQ = << >> /\ mActive = TRUE
  /\ cbPc = "wait" /\ cbArg = NoData
  /\ isSnapshotActive = FALSE /\ numOfSnapshotRcvd = 0
  /\ stragglers = {} /\ overtaken = FALSE /\ lost = FALSE

ModeCommands == {"START", "STOP"}
ModePending == \E i \in 1 .. Len(cmd_queue) : cmd_queue[i] \in ModeCommands

\* Mutant: the command waits for the jobs in front of it.
SendModeLast(cmd) ==
  /\ cmd_queue' = enqueue(cmd_queue, cmd)
  /\ overtaken' = FALSE

\* startSnapshots() and stopSnapshots(): sendCmd with priority.
SendMode(cmd) ==
  /\ cmd_queue' = enqueueWithPriority(cmd_queue, cmd)
  /\ overtaken' = ModePending
-----------------------------------------------------------------------------
\* The state machine's thread, between two commands or events.
SmFree == postPc["sm"] = "idle" /\ mActive

TakePicture ==
  /\ SmFree /\ pic = 0 /\ pictures < MaxPictures
  /\ pic' = pictures + 1 /\ pictures' = pictures + 1
  /\ encoding' = Burst
  /\ stragglers' = {p \in 1 .. MaxPictures :
                      \E i \in 1 .. Len(smEvents) : smEvents[i] = JpegEvent(p)}
  /\ SendMode("START")
  /\ UNCHANGED <<smEvents, postPc, mDataQ, mActive, threadVars, lost>>

\* The post-processor is stopped, which also aborts the encoder's jobs.
CancelPicture ==
  /\ SmFree /\ pic # 0
  /\ pic' = 0 /\ encoding' = 0
  /\ SendMode("STOP")
  /\ UNCHANGED <<pictures, stragglers, smEvents, postPc, mDataQ, mActive, threadVars, lost>>

\* The encoder's thread reports a JPEG of the picture it works for
\* (jpegEvtHandle).
JpegEncoded ==
  /\ encoding > 0
  /\ encoding' = encoding - 1
  /\ smEvents' = enqueue(smEvents, JpegEvent(pic))
  /\ UNCHANGED <<pic, pictures, stragglers, postPc, cmd_queue, mDataQ, mActive, threadVars, overtaken, lost>>

\* JPEG_EVT_NOTIFY: no picture, no case; a JPEG with an error, or while
\* COMPRESSED_IMAGE is disabled, goes nowhere; else the event's buffer goes to
\* mDataQ, whatever picture it was encoded for: processJpegEvt does not look
\* whether it found the job.
SmJpeg ==
  /\ SmFree /\ smEvents # << >> /\ Head(smEvents) # DoneEvent
  /\ smEvents' = Tail(smEvents)
  /\ \/ /\ pic # 0
        /\ mDataQ' = enqueue(mDataQ, [cb |-> "SNAPSHOT", pic |-> Head(smEvents).pic])
        /\ postPc' = [postPc EXCEPT !["sm"] = "enqueued"]
        /\ UNCHANGED lost
     \/ /\ pic # 0
        /\ lost' = TRUE
        /\ UNCHANGED <<mDataQ, postPc>>
     \/ /\ pic = 0
        /\ UNCHANGED <<mDataQ, postPc, lost>>
  /\ UNCHANGED <<pictureVars, cmd_queue, mActive, threadVars, overtaken>>

\* The post-processor is stopped when a picture ends.
EndPicture ==
  /\ pic' = 0 /\ encoding' = 0
  /\ SendMode("STOP")

\* SNAPSHOT_DONE ends whatever picture there is and lets the thread go on.
SmSnapshotDone ==
  /\ SmFree /\ smEvents # << >> /\ Head(smEvents) = DoneEvent
  /\ smEvents' = Tail(smEvents)
  /\ \/ pic # 0 /\ EndPicture
     \/ pic = 0 /\ UNCHANGED <<pic, encoding, cmd_queue, overtaken>>
  /\ cbPc' = "callback"
  /\ UNCHANGED <<pictures, stragglers, postPc, mDataQ, mActive, cbArg, isSnapshotActive,
                 numOfSnapshotRcvd, lost>>

\* stopRecording() takes the video frames out of the queue, not their jobs.
flushVideoNotifications ==
  /\ SmFree
  /\ mDataQ' = flushNodes(mDataQ, {Frame})
  /\ UNCHANGED <<pictureVars, smEvents, postPc, cmd_queue, mActive, threadVars, overtaken, lost>>
-----------------------------------------------------------------------------
QueuedJobs == Cardinality({i \in 1 .. Len(cmd_queue) : cmd_queue[i] = "JOB"})

\* notifyCallback() of a stream's thread, up to the command.
FrameArrives ==
  /\ postPc["stream"] = "idle" /\ mActive
  /\ QueuedJobs < MaxJobs
  /\ mDataQ' = enqueue(mDataQ, Frame)
  /\ postPc' = [postPc EXCEPT !["stream"] = "enqueued"]
  /\ UNCHANGED <<pictureVars, smEvents, cmd_queue, mActive, threadVars, overtaken, lost>>

\* sendCmd(DO_NEXT_JOB) without priority.
NextJob == enqueue(cmd_queue, "JOB")

SendJob(p) ==
  /\ postPc[p] = "enqueued"
  /\ cmd_queue' = NextJob
  /\ postPc' = [postPc EXCEPT ![p] = "idle"]
  /\ UNCHANGED <<pictureVars, smEvents, mDataQ, mActive, threadVars, overtaken, lost>>
-----------------------------------------------------------------------------
\* cbNotifyRoutine takes a command.
Command(cmd) ==
  /\ cbPc = "wait" /\ cmd_queue # << >> /\ Head(cmd_queue) = cmd
  /\ cmd_queue' = Tail(cmd_queue)

START_DATA_PROC ==
  /\ Command("START")
  /\ isSnapshotActive' = TRUE /\ numOfSnapshotRcvd' = 0
  /\ UNCHANGED <<pictureVars, smEvents, postPc, mDataQ, mActive, cbPc, cbArg, overtaken, lost>>

\* Mutant: the JPEGs of the picture stay in the queue.
KeepSnapshots == mDataQ

\* matchSnapshotNotifications
WithoutSnapshots == flushNodes(mDataQ, Jpegs)

STOP_DATA_PROC ==
  /\ Command("STOP")
  /\ mDataQ' = WithoutSnapshots
  /\ isSnapshotActive' = FALSE /\ numOfSnapshotRcvd' = 0
  /\ UNCHANGED <<pictureVars, smEvents, postPc, mActive, cbPc, cbArg, overtaken, lost>>

\* Mutant: one JPEG too many is waited for.
AfterLastSnapshot(n) == n = Burst + 1

LastSnapshot(n) == n = Burst

\* DO_NEXT_JOB: nothing there, a frame, a JPEG nobody expects, or a JPEG that
\* is counted; with the last one processSyncEvt comes before the callback.
\* (A message type that is not enabled is the case of LoseSnapshot.)
DO_NEXT_JOB ==
  /\ Command("JOB")
  /\ mDataQ' = IF mDataQ = << >> THEN mDataQ ELSE Tail(mDataQ)
  /\ \/ /\ mDataQ = << >>
        /\ UNCHANGED <<threadVars, smEvents>>
     \/ /\ mDataQ # << >> /\ Head(mDataQ) = Frame
        /\ cbPc' = "callback" /\ cbArg' = Frame
        /\ UNCHANGED <<isSnapshotActive, numOfSnapshotRcvd, smEvents>>
     \/ /\ mDataQ # << >> /\ Head(mDataQ) \in Jpegs /\ ~isSnapshotActive
        /\ UNCHANGED <<threadVars, smEvents>>
     \/ /\ mDataQ # << >> /\ Head(mDataQ) \in Jpegs /\ isSnapshotActive
        /\ numOfSnapshotRcvd' = numOfSnapshotRcvd + 1
        /\ cbArg' = Head(mDataQ)
        /\ \/ /\ LastSnapshot(numOfSnapshotRcvd')
              /\ smEvents' = enqueue(smEvents, DoneEvent)
              /\ cbPc' = "sync"
           \/ /\ ~LastSnapshot(numOfSnapshotRcvd')
              /\ cbPc' = "callback"
              /\ UNCHANGED smEvents
        /\ UNCHANGED isSnapshotActive
  /\ UNCHANGED <<pictureVars, postPc, mActive, overtaken, lost>>

\* COMPRESSED_IMAGE was disabled while the JPEG was in the queue.
LoseSnapshot ==
  /\ Command("JOB") /\ mDataQ # << >> /\ Head(mDataQ) \in Jpegs
  /\ mDataQ' = Tail(mDataQ)
  /\ lost' = TRUE
  /\ UNCHANGED <<pictureVars, smEvents, postPc, mActive, threadVars, overtaken>>

\* The framework returns from the callback, and the data is released.
CallbackReturns ==
  /\ cbPc = "callback"
  /\ cbPc' = "wait" /\ cbArg' = NoData
  /\ UNCHANGED <<pictureVars, smEvents, postPc, cmd_queue, mDataQ, mActive,
                 isSnapshotActive, numOfSnapshotRcvd, overtaken, lost>>

\* exit() of closeCamera, when the state machine's thread has ended.
ExitNotifier ==
  /\ SmFree /\ pic = 0
  /\ mActive' = FALSE
  /\ cmd_queue' = enqueueWithPriority(cmd_queue, "EXIT")
  /\ UNCHANGED <<pictureVars, smEvents, postPc, mDataQ, threadVars, overtaken, lost>>

EXIT ==
  /\ Command("EXIT")
  /\ mDataQ' = << >>
  /\ cbPc' = "exited"
  /\ UNCHANGED <<pictureVars, smEvents, postPc, mActive, cbArg, isSnapshotActive,
                 numOfSnapshotRcvd, overtaken, lost>>

SmEvent == SmJpeg \/ SmSnapshotDone
CbNotify == START_DATA_PROC \/ STOP_DATA_PROC \/ DO_NEXT_JOB \/ LoseSnapshot
              \/ CallbackReturns \/ EXIT

NotifierNext ==
  \/ TakePicture \/ CancelPicture \/ JpegEncoded
  \/ SmEvent \/ flushVideoNotifications
  \/ FrameArrives \/ \E p \in Posters : SendJob(p)
  \/ CbNotify \/ ExitNotifier

\* The threads run, the encoder finishes, the framework's callbacks return.
NotifierFairness ==
  /\ WF_notifierVars(JpegEncoded) /\ WF_notifierVars(CbNotify)
  /\ WF_notifierVars(SmEvent \/ SendJob("sm")) /\ WF_notifierVars(SendJob("stream"))
-----------------------------------------------------------------------------
\* The JPEG in the hands of the callback thread was encoded for the last picture
\* that began, or its report was still in the state machine's queue when that
\* picture began (TAKE_PICTURE overtakes events, and processJpegEvt delivers
\* whatever the event carries).  There is no third way: of a picture without such
\* reports, no JPEG that waits in mDataQ comes up in the next picture, but for a
\* START that passed the STOP of the picture before (overtaken).
DeliversCurrent ==
  cbArg.cb = "SNAPSHOT" /\ ~overtaken => cbArg.pic \in {pictures} \cup stragglers

\* The thread never counts more JPEGs than a picture has.  It tests the count
\* with ==, so one too many would be delivered and the picture would never end;
\* yet stragglers are counted too, JPEGs go on arriving while it waits for
\* SNAPSHOT_DONE, and mode commands may overtake each other.
NoSurplusJpeg == numOfSnapshotRcvd <= Burst

\* Every picture comes to its end by itself, although the callback thread and
\* the state machine's thread wait for each other, unless one of its JPEGs was
\* lost, or its START passed the STOP of the picture before.
PictureEnds ==
  pic # 0 ~> (pic = 0 \/ overtaken \/ lost)
=============================================================================
