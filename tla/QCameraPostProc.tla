--------------------------- MODULE QCameraPostProc ---------------------------
(***************************************************************************)
(* The frames of a picture in the post-processor (QCameraPostProc.cpp).    *)
(* The stream's thread brings them, the data processing thread sends them  *)
(* to the reprocessing channel and to the JPEG encoder, the threads of     *)
(* those bring them on, the state machine's thread starts and stops it all *)
(* and releases a frame when its JPEG is there.  A frame that is released  *)
(* goes back to the stream, which has only so many.                        *)
(*                                                                         *)
(* Modelled for the ZSL channel, whose stream outlives the picture; a      *)
(* capture channel is stopped before its frame is encoded and does not     *)
(* want it back.  Longshot with its save thread, and the raw formats, are  *)
(* left out.                                                               *)
(***************************************************************************)
EXTENDS QCameraQueue, FiniteSets

CONSTANTS Frames,        \* buffers of the snapshot stream
          PicFrames      \* frames a picture asks for

ASSUME PostProcAssumption == IsFiniteSet(Frames) /\ PicFrames \in Nat

VARIABLES needReprocess,   \* of the parameters
          free,            \* frames the stream has
          due,             \* frames the picture still waits for
          ppSm,            \* the state machine's thread
          streamHand, reprocHand, \* frames in the hands of the two threads
          m_inputPPQ, m_ongoingPPQ, m_inputJpegQ,
          m_ongoingJpegQ,  \* [frame, jobId, encoded]: jobId tells if it is known yet
          jpegEvents,      \* frames of finished jobs, "gone" for aborted ones
          ppCmds, dpPc, is_active, m_pReprocChannel

postProcVars == <<needReprocess, free, due, ppSm, streamHand, reprocHand,
                  m_inputPPQ, m_ongoingPPQ, m_inputJpegQ, m_ongoingJpegQ,
                  jpegEvents, ppCmds, dpPc, is_active, m_pReprocChannel>>

queueVars == <<m_inputPPQ, m_ongoingPPQ, m_inputJpegQ, m_ongoingJpegQ>>
dpVars    == <<dpPc, is_active, m_pReprocChannel>>

PostProcInit ==
  /\ needReprocess \in BOOLEAN
  /\ free = Frames /\ due = 0
  /\ ppSm = "idle"
  /\ streamHand = {} /\ reprocHand = {}
  /\ m_inputPPQ = << >> /\ m_ongoingPPQ = << >>
  /\ m_inputJpegQ = << >> /\ m_ongoingJpegQ = << >>
  /\ jpegEvents = << >>
  /\ ppCmds = << >> /\ dpPc = "wait" /\ is_active = FALSE
  /\ m_pReprocChannel = FALSE

FramesOf(q) == {q[i] : i \in 1 .. Len(q)}
JobFrames(q) == {q[i].frame : i \in 1 .. Len(q)}
-----------------------------------------------------------------------------
\* start(): the reprocessing channel, then START_DATA_PROC; the call waits for
\* it.  The stream is asked for the frames afterwards.
PostProcStart ==
  /\ ppSm = "idle"
  /\ ppSm' = "starting"
  /\ m_pReprocChannel' = needReprocess
  /\ ppCmds' = enqueue(ppCmds, "START")
  /\ UNCHANGED <<needReprocess, free, due, streamHand, reprocHand, queueVars, jpegEvents,
                 dpPc, is_active>>

RequestFrames ==
  /\ ppSm = "started"
  /\ ppSm' = "picture"
  /\ due' = PicFrames
  /\ UNCHANGED <<needReprocess, free, streamHand, reprocHand, queueVars, jpegEvents, ppCmds, dpVars>>

\* stop(), at the end of the picture or when it is cancelled; waits as well.
PostProcStop ==
  /\ ppSm = "picture"
  /\ ppSm' = "stopping"
  /\ ppCmds' = enqueueWithPriority(ppCmds, "STOP")
  /\ UNCHANGED <<needReprocess, free, due, streamHand, reprocHand, queueVars, jpegEvents, dpVars>>

\* Only then is the stream told that no more frames are wanted.
CancelFrames ==
  /\ ppSm = "stopped"
  /\ ppSm' = "idle"
  /\ due' = 0
  /\ UNCHANGED <<needReprocess, free, streamHand, reprocHand, queueVars, jpegEvents, ppCmds, dpVars>>

\* processJpegEvt(), if a picture is being taken: the job with this id is
\* released and the data thread woken, twice if a frame waits for it.
processJpegEvt ==
  /\ ppSm \in {"idle", "picture"} /\ jpegEvents # << >>
  /\ jpegEvents' = Tail(jpegEvents)
  /\ LET done == {[frame |-> Head(jpegEvents), jobId |-> TRUE, encoded |-> TRUE]} IN
     \/ /\ ppSm = "picture"
        /\ m_ongoingJpegQ' = flushNodes(m_ongoingJpegQ, done)
        /\ free' = free \cup (JobFrames(m_ongoingJpegQ) \ JobFrames(m_ongoingJpegQ'))
        /\ ppCmds' = IF m_inputPPQ = << >> THEN enqueue(ppCmds, "JOB")
                     ELSE enqueue(enqueue(ppCmds, "JOB"), "JOB")
     \/ /\ ppSm = "idle"
        /\ UNCHANGED <<m_ongoingJpegQ, free, ppCmds>>
  /\ UNCHANGED <<needReprocess, due, ppSm, streamHand, reprocHand, m_inputPPQ, m_ongoingPPQ,
                 m_inputJpegQ, dpVars>>
-----------------------------------------------------------------------------
\* processData() of the stream's thread: to one of the input queues, ...
processData(f) ==
  /\ f \in free /\ due > 0 /\ streamHand = {}
  /\ free' = free \ {f} /\ due' = due - 1
  /\ streamHand' = {"posting"}
  /\ \/ /\ needReprocess
        /\ m_inputPPQ' = enqueue(m_inputPPQ, f)
        /\ UNCHANGED m_inputJpegQ
     \/ /\ ~needReprocess
        /\ m_inputJpegQ' = enqueue(m_inputJpegQ, f)
        /\ UNCHANGED m_inputPPQ
  /\ UNCHANGED <<needReprocess, ppSm, reprocHand, m_ongoingPPQ, m_ongoingJpegQ, jpegEvents,
                 ppCmds, dpVars>>

\* ... then the command.
DataPosted ==
  /\ streamHand # {}
  /\ streamHand' = {}
  /\ ppCmds' = enqueue(ppCmds, "JOB")
  /\ UNCHANGED <<needReprocess, free, due, ppSm, reprocHand, queueVars, jpegEvents, dpVars>>

\* processPPData() of the reprocessing channel's thread: the oldest job is
\* taken out, ...
processPPData ==
  /\ m_pReprocChannel /\ reprocHand = {} /\ m_ongoingPPQ # << >>
  /\ reprocHand' = {Head(m_ongoingPPQ)}
  /\ m_ongoingPPQ' = Tail(m_ongoingPPQ)
  /\ UNCHANGED <<needReprocess, free, due, ppSm, streamHand, m_inputPPQ, m_inputJpegQ,
                 m_ongoingJpegQ, jpegEvents, ppCmds, dpVars>>

\* ... and given to the encoder's queue.
PPDataPosted ==
  \E f \in reprocHand :
    /\ m_inputJpegQ' = enqueue(m_inputJpegQ, f)
    /\ reprocHand' = {}
    /\ ppCmds' = enqueue(ppCmds, "JOB")
    /\ UNCHANGED <<needReprocess, free, due, ppSm, streamHand, m_inputPPQ, m_ongoingPPQ,
                   m_ongoingJpegQ, jpegEvents, dpVars>>

\* The encoder has finished a job and sends the event.
JpegJobDone ==
  \E i \in DOMAIN m_ongoingJpegQ :
    /\ ~m_ongoingJpegQ[i].encoded
    /\ m_ongoingJpegQ' = [m_ongoingJpegQ EXCEPT ![i].encoded = TRUE]
    /\ jpegEvents' = enqueue(jpegEvents, m_ongoingJpegQ[i].frame)
    /\ UNCHANGED <<needReprocess, free, due, ppSm, streamHand, reprocHand, m_inputPPQ,
                   m_ongoingPPQ, m_inputJpegQ, ppCmds, dpVars>>
-----------------------------------------------------------------------------
\* dataProcessRoutine takes a command.
PpCommand(cmd) ==
  /\ dpPc = "wait" /\ ppCmds # << >> /\ Head(ppCmds) = cmd
  /\ ppCmds' = Tail(ppCmds)

DataProcStart ==
  /\ PpCommand("START")
  /\ is_active' = TRUE
  /\ ppSm' = "started"
  /\ UNCHANGED <<needReprocess, free, due, streamHand, reprocHand, queueVars, jpegEvents,
                 dpPc, m_pReprocChannel>>

\* STOP: running jobs are aborted and released, their events are of no use
\* (bound: of several in the queue one is kept); ...
DataProcStop ==
  /\ PpCommand("STOP")
  /\ is_active' = FALSE
  /\ free' = free \cup JobFrames(m_ongoingJpegQ)
  /\ m_ongoingJpegQ' = << >>
  /\ jpegEvents' = IF jpegEvents = << >> THEN << >> ELSE <<"gone">>
  /\ dpPc' = "stopChannel"
  /\ UNCHANGED <<needReprocess, due, ppSm, streamHand, reprocHand, m_inputPPQ, m_ongoingPPQ,
                 m_inputJpegQ, m_pReprocChannel>>

\* ... the reprocessing channel is stopped, which joins its thread; ...
StopReprocess ==
  /\ dpPc = "stopChannel" /\ reprocHand = {}
  /\ m_pReprocChannel' = FALSE
  /\ dpPc' = "flush"
  /\ UNCHANGED <<needReprocess, free, due, ppSm, streamHand, reprocHand, queueVars, jpegEvents,
                 ppCmds, is_active>>

\* Mutant: the frames being reprocessed are forgotten.
FlushedInputs == FramesOf(m_inputJpegQ) \cup FramesOf(m_inputPPQ)

\* The frames of the queues that are flushed, each released.
Flushed == FramesOf(m_ongoingPPQ) \cup FramesOf(m_inputJpegQ) \cup FramesOf(m_inputPPQ)

\* ... then the queues are flushed and stop() returns.
FlushQueues ==
  /\ dpPc = "flush"
  /\ free' = free \cup Flushed
  /\ m_ongoingPPQ' = << >> /\ m_inputJpegQ' = << >> /\ m_inputPPQ' = << >>
  /\ dpPc' = "wait"
  /\ ppSm' = "stopped"
  /\ UNCHANGED <<needReprocess, due, streamHand, reprocHand, m_ongoingJpegQ, jpegEvents, ppCmds,
                 is_active, m_pReprocChannel>>

TailOf(q) == IF q = << >> THEN q ELSE Tail(q)
HeadOf(q) == IF q = << >> THEN {} ELSE {Head(q)}

NewJob(f) == [frame |-> f, jobId |-> FALSE, encoded |-> FALSE]

\* Mutant: a job that cannot be encoded stays in the queue of running ones.
KeepFailedJob(f) == enqueue(m_ongoingJpegQ, NewJob(f))

\* A job that cannot be encoded is taken out again.
DropFailedJob(f) == m_ongoingJpegQ

\* DO_NEXT_JOB while active, first half: one JPEG job is started; if that
\* fails its frame is released.
EncodeNext ==
  /\ PpCommand("JOB") /\ is_active
  /\ m_inputJpegQ' = TailOf(m_inputJpegQ)
  /\ \/ /\ m_inputJpegQ = << >>
        /\ UNCHANGED <<m_ongoingJpegQ, free>>
     \/ /\ m_inputJpegQ # << >>
        /\ m_ongoingJpegQ' = enqueue(m_ongoingJpegQ, NewJob(Head(m_inputJpegQ)))
        /\ UNCHANGED free
     \/ /\ m_inputJpegQ # << >>
        /\ m_ongoingJpegQ' = DropFailedJob(Head(m_inputJpegQ))
        /\ free' = free \cup {Head(m_inputJpegQ)}
  /\ dpPc' = "reprocess"
  /\ UNCHANGED <<needReprocess, due, ppSm, streamHand, reprocHand, m_inputPPQ, m_ongoingPPQ,
                 jpegEvents, is_active, m_pReprocChannel>>

\* Second half: the id of the job just started is stored, which an event may
\* have come before; one frame is sent to reprocessing, or released.
ReprocessNext ==
  /\ dpPc = "reprocess"
  /\ dpPc' = "wait"
  /\ m_ongoingJpegQ' = [i \in DOMAIN m_ongoingJpegQ |-> [m_ongoingJpegQ[i] EXCEPT !.jobId = TRUE]]
  /\ m_inputPPQ' = TailOf(m_inputPPQ)
  /\ \/ /\ m_inputPPQ = << >>
        /\ UNCHANGED <<m_ongoingPPQ, free>>
     \/ /\ m_inputPPQ # << >>
        /\ m_ongoingPPQ' = enqueue(m_ongoingPPQ, Head(m_inputPPQ))
        /\ UNCHANGED free
     \/ /\ m_inputPPQ # << >>
        /\ free' = free \cup {Head(m_inputPPQ)}
        /\ UNCHANGED m_ongoingPPQ
  /\ UNCHANGED <<needReprocess, due, ppSm, streamHand, reprocHand, m_inputJpegQ, jpegEvents,
                 ppCmds, is_active, m_pReprocChannel>>

\* DO_NEXT_JOB while not active: one frame of each queue is released.
ReturnNext ==
  /\ PpCommand("JOB") /\ ~is_active
  /\ free' = free \cup HeadOf(m_inputJpegQ) \cup HeadOf(m_inputPPQ)
  /\ m_inputJpegQ' = TailOf(m_inputJpegQ) /\ m_inputPPQ' = TailOf(m_inputPPQ)
  /\ UNCHANGED <<needReprocess, due, ppSm, streamHand, reprocHand, m_ongoingPPQ, m_ongoingJpegQ,
                 jpegEvents, dpVars>>

DataProcess == DataProcStart \/ DataProcStop \/ StopReprocess \/ FlushQueues
                 \/ EncodeNext \/ ReprocessNext \/ ReturnNext

PostProcNext ==
  \/ PostProcStart \/ RequestFrames \/ PostProcStop \/ CancelFrames \/ processJpegEvt
  \/ \E f \in Frames : processData(f)
  \/ DataPosted \/ processPPData \/ PPDataPosted \/ JpegJobDone
  \/ DataProcess

\* The threads run, and a picture is ended in the end.
PostProcFairness ==
  /\ WF_postProcVars(RequestFrames \/ PostProcStop \/ CancelFrames)
  /\ WF_postProcVars(DataPosted) /\ WF_postProcVars(PPDataPosted)
  /\ WF_postProcVars(DataProcess)
-----------------------------------------------------------------------------
\* The places where a frame may be.
Places ==
  <<free, reprocHand, FramesOf(m_inputPPQ), FramesOf(m_ongoingPPQ), FramesOf(m_inputJpegQ),
    JobFrames(m_ongoingJpegQ)>>

\* Every frame is in one place: it is with the stream, in one queue or in the
\* hands of one thread, so it is neither lost nor given back to the stream
\* while a thread still uses it, although four threads pass frames on and stop()
\* releases what they left.
FrameInOnePlace ==
  /\ \A f \in Frames : Cardinality({k \in DOMAIN Places : f \in Places[k]}) = 1
  /\ Cardinality(JobFrames(m_ongoingJpegQ)) = Len(m_ongoingJpegQ)

\* Every frame comes back to the stream, also one that arrives when the
\* post-processor has been stopped, whose encoding or reprocessing fails, or
\* whose event comes before encodeData has stored the id it is looked up by.
FramesComeBack ==
  \A f \in Frames : f \notin free ~> f \in free
=============================================================================
