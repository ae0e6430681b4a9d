----------------------------- MODULE QCameraApi -----------------------------
(***************************************************************************)
(* How a call into the camera HAL gets its answer (QCamera2HWI.cpp and the *)
(* thread of QCameraStateMachine.cpp).  A caller enqueues a command, posts *)
(* a semaphore and waits on a condition variable until the result list has *)
(* a result of its API; commands of threads that do not wait leave their   *)
(* results in the list.  The callback thread sends SNAPSHOT_DONE and waits *)
(* for it to be handled.  The destructor ends the state machine's thread   *)
(* with a command in the queue of API calls, then joins the callback       *)
(* thread.                                                                 *)
(*                                                                         *)
(* APIs: QUERY stands for all that are answered at once in every state,    *)
(* FACE for REG_FACE_IMAGE.  States: PREVIEWING stands for the states      *)
(* without a picture, PIC_TAKING for those with one.                       *)
(***************************************************************************)
EXTENDS QCameraQueue, FiniteSets

CONSTANTS Callers,       \* threads of the framework
          Uses,          \* the APIs each of them calls
          MaxStrays      \* bound: commands nobody waits for

Apis == {"QUERY", "FACE", "PREPARE", "TAKE", "CANCEL"}

ASSUME ApiAssumption ==
  /\ IsFiniteSet(Callers)
  /\ "worker" \notin Callers
  /\ Uses \in [Callers -> SUBSET (Apis \ {"PREPARE"})]
  /\ MaxStrays \in Nat

VARIABLES api_queue, evt_queue, cmd_sem,    \* of the state machine's thread
          smPc, smResult, m_state,
          m_apiResultList,
          callPc, callApi,                  \* the callers
          workerPc, strays,                 \* the live snapshot thread
          notifyPc, m_evtResult, jpegs,     \* the callback thread
          metaPc,                           \* the thread of the metadata stream
          m_smThreadActive, dtorPc,
          unanswered                        \* history: commands without answer

apiVars == <<api_queue, evt_queue, cmd_sem, smPc, smResult, m_state,
             m_apiResultList, callPc, callApi, workerPc, strays, notifyPc,
             m_evtResult, jpegs, metaPc, m_smThreadActive, dtorPc, unanswered>>

smVars    == <<smPc, smResult, m_state, unanswered>>
callVars  == <<callPc, callApi, m_apiResultList>>
otherVars == <<workerPc, strays, notifyPc, m_evtResult, jpegs, metaPc>>
dtorVars  == <<m_smThreadActive, dtorPc>>

NoResult == [api |-> "none", by |-> "none"]

ApiInit ==
  /\ api_queue = << >> /\ evt_queue = << >> /\ cmd_sem = 0
  /\ smPc = "wait" /\ smResult = NoResult /\ m_state = "PREVIEWING"
  /\ m_apiResultList = << >>
  /\ callPc = [c \in Callers |-> "idle"] /\ callApi = [c \in Callers |-> "none"]
  /\ workerPc = "idle" /\ strays = 0
  /\ notifyPc = "idle" /\ m_evtResult = "none" /\ jpegs = 0
  /\ metaPc = "idle"
  /\ m_smThreadActive = TRUE /\ dtorPc = "open"
  /\ unanswered = 0

\* m_lock is held from processAPI to the wait, m_evtLock likewise.
m_lockFree    == \A c \in Callers : callPc[c] # "called"
m_evtLockFree == notifyPc # "called"
-----------------------------------------------------------------------------
\* lockAPI() and the first half of processAPI().  take_picture prepares the
\* flash first if it is needed.  No call is made on a device being closed.
Call(c, api) ==
  /\ callPc[c] = "idle" /\ m_lockFree /\ dtorPc = "open" /\ m_smThreadActive
  /\ api \in Uses[c] \/ (api = "PREPARE" /\ "TAKE" \in Uses[c])
  /\ api_queue' = enqueue(api_queue, [api |-> api, by |-> c])
  /\ callPc' = [callPc EXCEPT ![c] = "called"]
  /\ callApi' = [callApi EXCEPT ![c] = api]
  /\ UNCHANGED <<evt_queue, cmd_sem, m_apiResultList, smVars, otherVars, dtorVars>>

\* Mutant: the command is announced twice.
PostsTwice == cmd_sem' = cmd_sem + 2

\* cam_sem_post(), the second half of every way to send a command.
Post == cmd_sem' = cmd_sem + 1

\* The caller posts, and gives the lock away as it begins to wait.
PostAndWait(c) ==
  /\ callPc[c] = "called"
  /\ Post
  /\ callPc' = [callPc EXCEPT ![c] = "waiting"]
  /\ UNCHANGED <<api_queue, evt_queue, m_apiResultList, callApi, smVars, otherVars, dtorVars>>

\* Mutant: the first result is taken for the own one.
AnyAnswer(c) == 1 .. Len(m_apiResultList)

\* The places of the list with a result of the API waited for.
Answers(c) == {i \in 1 .. Len(m_apiResultList) : m_apiResultList[i].api = callApi[c]}

FirstAnswer(c, i) == i \in Answers(c) /\ \A j \in Answers(c) : i <= j

Without(list, i) == SubSeq(list, 1, i - 1) \o SubSeq(list, i + 1, Len(list))

\* waitAPIResult() after a wake-up: nothing for this caller, back to sleep.
SleepAgain(c) ==
  /\ callPc[c] = "woken" /\ m_lockFree /\ Answers(c) = {}
  /\ callPc' = [callPc EXCEPT ![c] = "waiting"]
  /\ UNCHANGED <<api_queue, evt_queue, cmd_sem, callApi, m_apiResultList,
                 smVars, otherVars, dtorVars>>

\* The first result of the API is taken; take_picture goes on to its second
\* command without unlocking, every other call returns.
TakeResult(c) ==
  /\ callPc[c] = "woken" /\ m_lockFree
  /\ \E i \in 1 .. Len(m_apiResultList) :
       /\ FirstAnswer(c, i)
       /\ m_apiResultList' = Without(m_apiResultList, i)
  /\ \/ /\ callApi[c] = "PREPARE"
        /\ api_queue' = enqueue(api_queue, [api |-> "TAKE", by |-> c])
        /\ callPc' = [callPc EXCEPT ![c] = "called"]
        /\ callApi' = [callApi EXCEPT ![c] = "TAKE"]
     \/ /\ callApi[c] # "PREPARE"
        /\ callPc' = [callPc EXCEPT ![c] = "idle"]
        /\ callApi' = [callApi EXCEPT ![c] = "none"]
        /\ UNCHANGED api_queue
  /\ UNCHANGED <<evt_queue, cmd_sem, smVars, otherVars, dtorVars>>
-----------------------------------------------------------------------------
\* The live snapshot thread sends CANCEL_PICTURE without the lock and does not
\* wait: it looks at the flag, enqueues and posts in three steps.
StrayCheck ==
  /\ workerPc = "idle" /\ m_smThreadActive /\ strays < MaxStrays
  /\ workerPc' = "checked"
  /\ strays' = strays + 1
  /\ UNCHANGED <<api_queue, evt_queue, cmd_sem, notifyPc, m_evtResult, jpegs, metaPc,
                 callVars, smVars, dtorVars>>

StrayEnqueue ==
  /\ workerPc = "checked"
  /\ api_queue' = enqueue(api_queue, [api |-> "CANCEL", by |-> "worker"])
  /\ workerPc' = "enqueued"
  /\ UNCHANGED <<evt_queue, cmd_sem, strays, notifyPc, m_evtResult, jpegs, metaPc,
                 callVars, smVars, dtorVars>>

StrayPost ==
  /\ workerPc = "enqueued"
  /\ Post
  /\ workerPc' = "idle"
  /\ UNCHANGED <<api_queue, evt_queue, strays, notifyPc, m_evtResult, jpegs, metaPc,
                 callVars, smVars, dtorVars>>

\* The metadata of a preview frame says that the flash is ready.
PrepDoneEnqueue ==
  /\ metaPc = "idle" /\ m_state = "PREPARE_SNAPSHOT"
  /\ \A i \in 1 .. Len(evt_queue) : evt_queue[i] # "PREP_SNAPSHOT_DONE"
  /\ evt_queue' = enqueue(evt_queue, "PREP_SNAPSHOT_DONE")
  /\ metaPc' = "enqueued"
  /\ UNCHANGED <<api_queue, cmd_sem, workerPc, strays, notifyPc, m_evtResult, jpegs,
                 callVars, smVars, dtorVars>>

PrepDonePost ==
  /\ metaPc = "enqueued"
  /\ Post
  /\ metaPc' = "idle"
  /\ UNCHANGED <<api_queue, evt_queue, workerPc, strays, notifyPc, m_evtResult, jpegs,
                 callVars, smVars, dtorVars>>
-----------------------------------------------------------------------------
\* processSyncEvt(SNAPSHOT_DONE) of the callback thread, when it has the last
\* JPEG of a picture; m_evtLock is held up to the wait.
SyncEvtEnqueue ==
  /\ notifyPc = "idle" /\ jpegs > 0 /\ dtorPc # "closed"
  /\ evt_queue' = enqueue(evt_queue, "SNAPSHOT_DONE")
  /\ notifyPc' = "called"
  /\ jpegs' = jpegs - 1
  /\ UNCHANGED <<api_queue, cmd_sem, workerPc, strays, m_evtResult, metaPc,
                 callVars, smVars, dtorVars>>

SyncEvtWait ==
  /\ notifyPc = "called"
  /\ Post
  /\ m_evtResult' = "none"
  /\ notifyPc' = "waiting"
  /\ UNCHANGED <<api_queue, evt_queue, workerPc, strays, jpegs, metaPc,
                 callVars, smVars, dtorVars>>

SyncEvtReturn ==
  /\ notifyPc = "woken"
  /\ notifyPc' = IF m_evtResult = "SNAPSHOT_DONE" THEN "idle" ELSE "waiting"
  /\ UNCHANGED <<api_queue, evt_queue, cmd_sem, workerPc, strays, m_evtResult, jpegs,
                 metaPc, callVars, smVars, dtorVars>>
-----------------------------------------------------------------------------
\* What the state machine makes of a command: no answer for a preparation that
\* began, nor for REG_FACE_IMAGE in PREPARE_SNAPSHOT, which has no case for it.
Handle(cmd) ==
  LET answered == smPc' = "signal" /\ smResult' = cmd /\ UNCHANGED unanswered
      silent   == smPc' = "wait" /\ UNCHANGED smResult
  IN \/ /\ cmd.api = "EXIT"
        /\ smPc' = "exited"
        /\ UNCHANGED <<smResult, m_state, jpegs, unanswered>>
     \/ /\ cmd.api = "PREPARE" /\ m_state = "PREVIEWING"
        /\ m_state' = "PREPARE_SNAPSHOT"
        /\ silent
        /\ UNCHANGED <<jpegs, unanswered>>
     \/ /\ cmd.api = "FACE" /\ m_state = "PREPARE_SNAPSHOT"
        /\ silent
        /\ unanswered' = unanswered + 1
        /\ UNCHANGED <<m_state, jpegs>>
     \/ /\ cmd.api = "TAKE" /\ m_state = "PREVIEWING"
        /\ m_state' = "PIC_TAKING"
        /\ jpegs' = 1
        /\ answered
     \/ /\ cmd.api = "CANCEL" /\ m_state = "PIC_TAKING"
        /\ m_state' = "PREVIEWING"
        /\ jpegs' \in {0, jpegs}
        /\ answered
     \/ /\ cmd.api \notin {"EXIT"}    \* refused, failed or without effect
        /\ \/ cmd.api = "QUERY"
           \/ cmd.api = "FACE" /\ m_state # "PREPARE_SNAPSHOT"
           \/ cmd.api \in {"PREPARE", "TAKE"}
           \/ cmd.api = "CANCEL" /\ m_state # "PIC_TAKING"
        /\ answered
        /\ UNCHANGED <<m_state, jpegs>>

HandleEvt(evt) ==
  \/ /\ evt = "SNAPSHOT_DONE"
     /\ smPc' = "signalEvt"
     /\ m_state' = IF m_state = "PIC_TAKING" THEN "PREVIEWING" ELSE m_state
     /\ UNCHANGED smResult
  \/ /\ evt = "PREP_SNAPSHOT_DONE" /\ m_state = "PREPARE_SNAPSHOT"
     /\ m_state' = "PREVIEWING"
     /\ smPc' = "signal"
     /\ smResult' = [api |-> "PREPARE", by |-> "event"]
  \/ /\ evt = "PREP_SNAPSHOT_DONE" /\ m_state # "PREPARE_SNAPSHOT"
     /\ smPc' = "wait"
     /\ UNCHANGED <<m_state, smResult>>

\* cam_sem_wait()
Wait == cmd_sem > 0 /\ cmd_sem' = cmd_sem - 1

\* smEvtProcRoutine: an API command if there is one, else an event.
SmApi ==
  /\ smPc = "wait" /\ Wait /\ api_queue # << >>
  /\ api_queue' = Tail(api_queue)
  /\ Handle(Head(api_queue))
  /\ UNCHANGED <<evt_queue, callVars, workerPc, strays, notifyPc, m_evtResult, metaPc, dtorVars>>

SmEvt ==
  /\ smPc = "wait" /\ Wait /\ api_queue = << >> /\ evt_queue # << >>
  /\ evt_queue' = Tail(evt_queue)
  /\ HandleEvt(Head(evt_queue))
  /\ UNCHANGED <<api_queue, callVars, otherVars, dtorVars, unanswered>>

\* Mutant: only one of the waiting callers is woken.
WokenOne ==
  IF \E c \in Callers : callPc[c] = "waiting"
  THEN [callPc EXCEPT ![CHOOSE c \in Callers : callPc[c] = "waiting"] = "woken"]
  ELSE callPc

\* pthread_cond_broadcast()
Woken == [c \in Callers |-> IF callPc[c] = "waiting" THEN "woken" ELSE callPc[c]]

signalAPIResult ==
  /\ smPc = "signal" /\ m_lockFree
  /\ m_apiResultList' = enqueue(m_apiResultList, smResult)
  /\ callPc' = Woken
  /\ smPc' = "wait" /\ smResult' = NoResult
  /\ UNCHANGED <<api_queue, evt_queue, cmd_sem, callApi, m_state, unanswered, otherVars, dtorVars>>

\* Mutant: the result is stored without m_evtLock.
SignalEvtUnlocked ==
  /\ smPc = "signalEvt"
  /\ m_evtResult' = "SNAPSHOT_DONE"
  /\ notifyPc' = IF notifyPc = "waiting" THEN "woken" ELSE notifyPc
  /\ smPc' = "wait"
  /\ UNCHANGED <<api_queue, evt_queue, cmd_sem, callVars, smResult, m_state, unanswered,
                 workerPc, strays, jpegs, metaPc, dtorVars>>

signalEvtResult ==
  /\ smPc = "signalEvt" /\ m_evtLockFree
  /\ m_evtResult' = "SNAPSHOT_DONE"
  /\ notifyPc' = IF notifyPc = "waiting" THEN "woken" ELSE notifyPc
  /\ smPc' = "wait"
  /\ UNCHANGED <<api_queue, evt_queue, cmd_sem, callVars, smResult, m_state, unanswered,
                 workerPc, strays, jpegs, metaPc, dtorVars>>
-----------------------------------------------------------------------------
\* The destructor, after the last call has returned: no more commands; ...
Deactivate ==
  /\ dtorPc = "open" /\ \A c \in Callers : callPc[c] = "idle"
  /\ m_smThreadActive' = FALSE
  /\ dtorPc' = "inactive"
  /\ UNCHANGED <<api_queue, evt_queue, cmd_sem, smVars, callVars, otherVars>>

\* ... EXIT goes to the queue of API commands; ...
ExitEnqueue ==
  /\ dtorPc = "inactive"
  /\ api_queue' = enqueue(api_queue, [api |-> "EXIT", by |-> "none"])
  /\ dtorPc' = "enqueued"
  /\ UNCHANGED <<evt_queue, cmd_sem, smVars, callVars, otherVars, m_smThreadActive>>

ExitPost ==
  /\ dtorPc = "enqueued"
  /\ Post
  /\ dtorPc' = "joinSm"
  /\ UNCHANGED <<api_queue, evt_queue, smVars, callVars, otherVars, m_smThreadActive>>

\* ... the thread is joined; then closeCamera() joins the callback thread, ...
JoinSm ==
  /\ dtorPc = "joinSm" /\ smPc = "exited"
  /\ dtorPc' = "joinNotifier"
  /\ UNCHANGED <<api_queue, evt_queue, cmd_sem, smVars, callVars, otherVars, m_smThreadActive>>

\* ... and the results nobody took are freed.
closeCamera ==
  /\ dtorPc = "joinNotifier" /\ notifyPc = "idle"
  /\ dtorPc' = "closed"
  /\ m_apiResultList' = << >>
  /\ UNCHANGED <<api_queue, evt_queue, cmd_sem, smVars, callPc, callApi, otherVars,
                 m_smThreadActive>>

ApiNext ==
  \/ \E c \in Callers :
       \/ \E api \in Apis : Call(c, api)
       \/ PostAndWait(c) \/ SleepAgain(c) \/ TakeResult(c)
  \/ StrayCheck \/ StrayEnqueue \/ StrayPost
  \/ PrepDoneEnqueue \/ PrepDonePost
  \/ SyncEvtEnqueue \/ SyncEvtWait \/ SyncEvtReturn
  \/ SmApi \/ SmEvt \/ signalAPIResult \/ signalEvtResult
  \/ Deactivate \/ ExitEnqueue \/ ExitPost \/ JoinSm \/ closeCamera

\* The HAL's threads run; a caller that was woken gets the mutex in the end
\* although others take it again and again.  Nobody has to call.
ApiFairness ==
  /\ \A c \in Callers : /\ WF_apiVars(PostAndWait(c))
                        /\ SF_apiVars(SleepAgain(c) \/ TakeResult(c))
  /\ WF_apiVars(StrayEnqueue \/ StrayPost)
  /\ WF_apiVars(PrepDoneEnqueue \/ PrepDonePost)
  /\ WF_apiVars(SyncEvtWait \/ SyncEvtReturn)
  /\ WF_apiVars(SmApi \/ SmEvt \/ signalAPIResult \/ signalEvtResult)
  /\ WF_apiVars(ExitEnqueue \/ ExitPost \/ JoinSm \/ closeCamera)
-----------------------------------------------------------------------------
OneIf(b) == IF b THEN 1 ELSE 0

\* Every command in the two queues of the state machine has been announced or
\* is about to be, and no announcement is left over: the thread never sleeps
\* beside a command, and each wake-up of smEvtProcRoutine finds one, although
\* five kinds of thread enqueue and post in two steps without a common lock.
WakesFindWork ==
  Len(api_queue) + Len(evt_queue) =
    cmd_sem + Cardinality({c \in Callers : callPc[c] = "called"})
            + OneIf(workerPc = "enqueued") + OneIf(metaPc = "enqueued")
            + OneIf(notifyPc = "called") + OneIf(dtorPc = "enqueued")

\* Commands, and results, of an API that are on their way.
Commands(api) == Cardinality({i \in 1 .. Len(api_queue) : api_queue[i].api = api})
Results(api) == Cardinality({i \in 1 .. Len(m_apiResultList) : m_apiResultList[i].api = api})
Owed(api) ==
  Commands(api) + Results(api) + OneIf(smPc = "signal" /\ smResult.api = api)
    + OneIf(api = "PREPARE" /\ m_state = "PREPARE_SNAPSHOT")

\* The books balance: for every API the answers on their way are as many as
\* the callers that wait for one, plus what the commands nobody waits for leave
\* behind (those of CANCEL_PICTURE), minus the REG_FACE_IMAGE that got none.
\* With fewer, some call in waitAPIResult would never return; with more, a
\* later call would be answered before it is handled.
AnswersAccounted ==
  dtorPc # "closed" =>
    \A api \in Apis :
      Owed(api)
        + (IF api = "FACE" THEN unanswered ELSE 0) =
      Cardinality({c \in Callers : callPc[c] # "idle" /\ callApi[c] = api})
        + (IF api = "CANCEL" THEN strays - OneIf(workerPc = "checked") ELSE 0)

\* Every call returns, however many others are made, except REG_FACE_IMAGE in
\* PREPARE_SNAPSHOT, for which the handler of that state signals nothing.  (The
\* flash preparation of take_picture ends with an event: EventsGetThrough.)
\* Closing returns too, unless the callback thread sent SNAPSHOT_DONE and EXIT,
\* in the queue of API commands, overtook it: then closeCamera joins a thread
\* that waits for an answer of a thread that has ended.
CallsReturn ==
  /\ \A c \in Callers :
       (callPc[c] # "idle" /\ callApi[c] # "PREPARE")
         ~> (callPc[c] = "idle" \/ (callApi[c] = "FACE" /\ unanswered > 0))
  /\ dtorPc # "open" ~> (dtorPc = "closed" \/ (smPc = "exited" /\ notifyPc = "waiting"))

Pausing(c) ==
  callPc[c] = "idle" \/ callApi[c] = "PREPARE" \/ (callApi[c] = "FACE" /\ unanswered > 0)

\* Once the callers pause and the device is not being closed, the callback
\* thread is released from processSyncEvt and a preparation of the flash ends.
\* Without the pause neither holds: smEvtProcRoutine takes API commands first,
\* so two busy callers may hold the events back for ever.
EventsGetThrough ==
  <>[](dtorPc = "open" /\ \A c \in Callers : Pausing(c))
     => /\ notifyPc = "waiting" ~> notifyPc = "idle"
        /\ (\E c \in Callers : callApi[c] = "PREPARE") ~> (\A c \in Callers : callApi[c] # "PREPARE")
=============================================================================
