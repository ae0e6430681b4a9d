-------------------------- MODULE QCameraApiProofs --------------------------
(***************************************************************************)
(* Proofs about the calls and answers of the camera HAL (QCameraApi) for   *)
(* any finite set of callers, any use they make of the HAL and any number  *)
(* of commands nobody waits for.                                           *)
(***************************************************************************)
EXTENDS CameraServices, QueueFacts

-----------------------------------------------------------------------------
\* Commands of the API queue, which are also the results.
ApiCmd == [api : Apis \cup {"EXIT", "none"}, by : Callers \cup {"worker", "event", "none"}]
Events == {"SNAPSHOT_DONE", "PREP_SNAPSHOT_DONE"}

ApiTypeOK ==
  /\ api_queue \in Seq(ApiCmd) /\ evt_queue \in Seq(Events) /\ cmd_sem \in Nat
  /\ smPc \in {"wait", "signal", "signalEvt", "exited"}
  /\ smResult \in ApiCmd
  /\ m_state \in {"PREVIEWING", "PREPARE_SNAPSHOT", "PIC_TAKING"}
  /\ m_apiResultList \in Seq(ApiCmd)
  /\ callPc \in [Callers -> {"idle", "called", "waiting", "woken"}]
  /\ callApi \in [Callers -> Apis \cup {"none"}]
  /\ workerPc \in {"idle", "checked", "enqueued"} /\ strays \in Nat
  /\ notifyPc \in {"idle", "called", "waiting", "woken"} /\ jpegs \in Nat
  /\ metaPc \in {"idle", "enqueued"}
  /\ dtorPc \in {"open", "inactive", "enqueued", "joinSm", "joinNotifier", "closed"}
  /\ unanswered \in Nat

ApiIndInv == ApiTypeOK /\ WakesFindWork /\ AnswersAccounted

\* The callers between their command and its announcement.
Called == {c \in Callers : callPc[c] = "called"}

\* The callers that wait for an answer of an API.
WaitingFor(api) == {c \in Callers : callPc[c] # "idle" /\ callApi[c] = api}

\* Both can be counted, since there are finitely many callers.
LEMMA CallersCounted ==
  /\ IsFiniteSet(Called) /\ Cardinality(Called) \in Nat
  /\ \A api : IsFiniteSet(WaitingFor(api)) /\ Cardinality(WaitingFor(api)) \in Nat
<1>1. IsFiniteSet(Callers)
  BY ApiAssumption
<1>2. Called \in SUBSET Callers /\ \A api : WaitingFor(api) \in SUBSET Callers
  BY DEF Called, WaitingFor
<1> QED BY <1>1, <1>2, FS_Subset, FS_CardinalityType

\* Commands and results of an API.
Of(api) == {r \in ApiCmd : r.api = api}

\* Commands and Results count the entries of an API in their queues.
LEMMA BooksByCount ==
  ASSUME api_queue \in Seq(ApiCmd), m_apiResultList \in Seq(ApiCmd), NEW api
  PROVE  /\ Commands(api) = CountOf(api_queue, Of(api)) /\ Commands(api) \in Nat
         /\ Results(api) = CountOf(m_apiResultList, Of(api)) /\ Results(api) \in Nat
<1>1. PlacesOf(api_queue, Of(api)) = {i \in 1 .. Len(api_queue) : api_queue[i].api = api}
  BY ElementOfSeq DEF PlacesOf, Of
<1>2. PlacesOf(m_apiResultList, Of(api))
        = {i \in 1 .. Len(m_apiResultList) : m_apiResultList[i].api = api}
  BY ElementOfSeq DEF PlacesOf, Of
<1> QED BY <1>1, <1>2, PlacesFinite DEF Commands, Results, CountOf

\* The invariant holds when the state machine is created.
LEMMA ApiInitInv == ApiInit => ApiIndInv
<1> SUFFICES ASSUME ApiInit PROVE ApiIndInv
  OBVIOUS
<1> USE DEF ApiInit
<1>1. ApiTypeOK
  <2>1. NoResult \in ApiCmd
    BY DEF ApiCmd, NoResult
  <2> QED BY <2>1, EmptySeq DEF ApiTypeOK
<1>2. Called = {} /\ \A api : WaitingFor(api) = {}
  BY DEF Called, WaitingFor
<1>3. WakesFindWork
  <2>1. Cardinality({c \in Callers : callPc[c] = "called"}) = 0
    BY <1>2, FS_EmptySet DEF Called
  <2>2. Len(api_queue) = 0 /\ Len(evt_queue) = 0
    BY EmptySeq
  <2>3. /\ OneIf(workerPc = "enqueued") = 0 /\ OneIf(metaPc = "enqueued") = 0
        /\ OneIf(notifyPc = "called") = 0 /\ OneIf(dtorPc = "enqueued") = 0 /\ cmd_sem = 0
    BY DEF OneIf
  <2> HIDE DEF ApiInit
  <2> QED BY <2>1, <2>2, <2>3 DEF WakesFindWork
<1>4. AnswersAccounted
  <2>1. \A api \in Apis : Commands(api) = 0 /\ Results(api) = 0
    BY <1>1, BooksByCount, CountEmpty DEF ApiTypeOK
  <2>2. \A api \in Apis : Cardinality({c \in Callers : callPc[c] # "idle" /\ callApi[c] = api}) = 0
    BY <1>2, FS_EmptySet DEF WaitingFor
  <2> QED BY <2>1, <2>2 DEF AnswersAccounted, Owed, OneIf
<1> QED BY <1>1, <1>3, <1>4 DEF ApiIndInv

\* What a caller at pc adds to Called, and to WaitingFor when its API is a.
AtCalled(pc) == IF pc = "called" THEN 1 ELSE 0
AtWait(pc, a, api) == IF pc # "idle" /\ a = api THEN 1 ELSE 0

\* A caller goes to another place in processAPI or waitAPIResult.
LEMMA CallerMoves ==
  ASSUME ApiTypeOK, NEW c \in Callers, NEW pc, callPc' = [callPc EXCEPT ![c] = pc]
  PROVE  Cardinality(Called') = Cardinality(Called) + AtCalled(pc) - AtCalled(callPc[c])
<1>1. Called' = IF pc = "called" THEN Called \cup {c} ELSE Called \ {c}
  BY DEF Called, ApiTypeOK
<1>2. c \in Called <=> callPc[c] = "called"
  BY DEF Called
<1>3. IsFiniteSet(Called) /\ Cardinality(Called) \in Nat
  BY CallersCounted
<1>4. CASE pc = "called"
  <2>1. Cardinality(Called \cup {c}) = IF c \in Called THEN Cardinality(Called)
                                       ELSE Cardinality(Called) + 1
    BY <1>3, FS_AddElement
  <2> QED BY <1>1, <1>2, <1>3, <1>4, <2>1 DEF AtCalled
<1>5. CASE pc # "called"
  <2>1. Cardinality(Called \ {c}) = IF c \in Called THEN Cardinality(Called) - 1
                                    ELSE Cardinality(Called)
    BY <1>3, FS_RemoveElement
  <2> QED BY <1>1, <1>2, <1>3, <1>5, <2>1 DEF AtCalled
<1> QED BY <1>4, <1>5

\* The same for what it waits for.
LEMMA WaiterMoves ==
  ASSUME ApiTypeOK, NEW c \in Callers, NEW pc, NEW a,
         callPc' = [callPc EXCEPT ![c] = pc],
         callApi' = [callApi EXCEPT ![c] = a],
         NEW api
  PROVE  Cardinality(WaitingFor(api)') = Cardinality(WaitingFor(api))
           + AtWait(pc, a, api) - AtWait(callPc[c], callApi[c], api)
<1> DEFINE W == WaitingFor(api)
<1>1. W' = IF pc # "idle" /\ a = api THEN W \cup {c} ELSE W \ {c}
  BY DEF WaitingFor, ApiTypeOK
<1>2. c \in W <=> callPc[c] # "idle" /\ callApi[c] = api
  BY DEF WaitingFor
<1>3. IsFiniteSet(W) /\ Cardinality(W) \in Nat
  BY CallersCounted
<1> HIDE DEF W
<1>4. CASE pc # "idle" /\ a = api
  <2>1. Cardinality(W \cup {c}) = IF c \in W THEN Cardinality(W) ELSE Cardinality(W) + 1
    BY <1>3, FS_AddElement
  <2>2. Cardinality(W') = Cardinality(W)
          + AtWait(pc, a, api) - AtWait(callPc[c], callApi[c], api)
    BY <1>1, <1>2, <1>3, <1>4, <2>1 DEF AtWait
  <2> QED BY <2>2 DEF W
<1>5. CASE ~(pc # "idle" /\ a = api)
  <2>1. Cardinality(W \ {c}) = IF c \in W THEN Cardinality(W) - 1 ELSE Cardinality(W)
    BY <1>3, FS_RemoveElement
  <2>2. Cardinality(W') = Cardinality(W)
          + AtWait(pc, a, api) - AtWait(callPc[c], callApi[c], api)
    BY <1>1, <1>2, <1>3, <1>5, <2>1 DEF AtWait
  <2> QED BY <2>2 DEF W
<1> QED BY <1>4, <1>5

\* The books of one API, which AnswersAccounted closes for all.
Balance(api) ==
  Owed(api) + (IF api = "FACE" THEN unanswered ELSE 0) =
  Cardinality(WaitingFor(api))
    + (IF api = "CANCEL" THEN strays - OneIf(workerPc = "checked") ELSE 0)

\* AnswersAccounted is the balance of every API.
LEMMA BooksOfApis == AnswersAccounted <=> (dtorPc # "closed" => \A api \in Apis : Balance(api))
  BY DEF AnswersAccounted, Balance, WaitingFor

\* The books stay balanced when nothing that they count changes.
LEMMA BooksFrame ==
  ASSUME ApiIndInv,
         UNCHANGED <<api_queue, m_apiResultList, smPc, smResult, m_state, unanswered, strays>>,
         (workerPc = "checked") = (workerPc' = "checked"),
         \A api : WaitingFor(api)' = WaitingFor(api),
         dtorPc = "closed" => dtorPc' = "closed"
  PROVE  AnswersAccounted'
<1>1. \A api \in Apis : Owed(api)' = Owed(api)
  BY DEF Owed, Commands, Results
<1>2. \A api \in Apis : Balance(api) => Balance(api)'
  BY <1>1 DEF Balance
<1>3. dtorPc' # "closed" => \A api \in Apis : Balance(api)'
  BY <1>2, BooksOfApis DEF ApiIndInv
<1> QED BY <1>3 DEF AnswersAccounted, Balance, WaitingFor

\* All that is added up is a number.
LEMMA BooksTyped ==
  ASSUME ApiTypeOK
  PROVE  \A api : Owed(api) \in Nat /\ Cardinality(WaitingFor(api)) \in Nat
<1>1. \A api : Commands(api) \in Nat /\ Results(api) \in Nat
  BY BooksByCount DEF ApiTypeOK
<1> QED BY <1>1, CallersCounted DEF Owed, OneIf

\* What the state machine itself still owes.
InSm(api) == OneIf(smPc = "signal" /\ smResult.api = api)
               + OneIf(api = "PREPARE" /\ m_state = "PREPARE_SNAPSHOT")

\* What is owed is what is queued, what is answered and not read, and this.
LEMMA OwedParts ==
  ASSUME ApiTypeOK, NEW api
  PROVE  /\ InSm(api) \in Nat /\ InSm(api)' \in Nat
         /\ Owed(api) = Commands(api) + Results(api) + InSm(api)
         /\ Commands(api)' \in Nat /\ Results(api)' \in Nat
              => Owed(api)' = Commands(api)' + Results(api)' + InSm(api)'
<1>1. Commands(api) \in Nat /\ Results(api) \in Nat
  BY BooksByCount DEF ApiTypeOK
<1> QED BY <1>1 DEF InSm, Owed, OneIf

\* The counts are numbers after a step too.
LEMMA BooksTypedAfter ==
  ASSUME ApiTypeOK'
  PROVE  \A api : Commands(api)' \in Nat /\ Results(api)' \in Nat
<1>1. Len(api_queue') \in Nat /\ Len(m_apiResultList') \in Nat
  BY LenProperties DEF ApiTypeOK
<1>2. IsFiniteSet(1 .. Len(api_queue')) /\ IsFiniteSet(1 .. Len(m_apiResultList'))
  BY <1>1, FS_Interval
<1>3. ASSUME NEW api PROVE Commands(api)' \in Nat
  <2>1. {i \in 1 .. Len(api_queue') : api_queue'[i].api = api} \in SUBSET (1 .. Len(api_queue'))
    OBVIOUS
  <2> QED BY <1>2, <2>1, FS_Subset, FS_CardinalityType DEF Commands
<1>4. ASSUME NEW api PROVE Results(api)' \in Nat
  <2>1. {i \in 1 .. Len(m_apiResultList') : m_apiResultList'[i].api = api}
          \in SUBSET (1 .. Len(m_apiResultList'))
    OBVIOUS
  <2> QED BY <1>2, <2>1, FS_Subset, FS_CardinalityType DEF Results
<1> QED BY <1>3, <1>4

\* The same when the books of each API stay balanced.
LEMMA BooksKept ==
  ASSUME ApiIndInv, dtorPc = "closed" => dtorPc' = "closed",
         \A api \in Apis : Balance(api) => Balance(api)'
  PROVE  AnswersAccounted'
<1>1. dtorPc' # "closed" => \A api \in Apis : Balance(api)'
  BY BooksOfApis DEF ApiIndInv
<1> QED BY <1>1 DEF AnswersAccounted, Balance, WaitingFor

\* What WakesFindWork balances, before and after a step.
LEMMA WakesByCalled ==
  /\ WakesFindWork <=>
       Len(api_queue) + Len(evt_queue) =
         cmd_sem + Cardinality(Called) + OneIf(workerPc = "enqueued")
           + OneIf(metaPc = "enqueued") + OneIf(notifyPc = "called")
           + OneIf(dtorPc = "enqueued")
  /\ WakesFindWork' <=>
       Len(api_queue') + Len(evt_queue') =
         cmd_sem' + Cardinality(Called') + OneIf(workerPc' = "enqueued")
           + OneIf(metaPc' = "enqueued") + OneIf(notifyPc' = "called")
           + OneIf(dtorPc' = "enqueued")
  BY DEF WakesFindWork, Called

\* The threads other than the callers that have enqueued and not yet posted.
Announcing == OneIf(workerPc = "enqueued") + OneIf(metaPc = "enqueued")
                + OneIf(notifyPc = "called") + OneIf(dtorPc = "enqueued")

\* WakesFindWork with the callers and the other threads counted apart.
LEMMA WakesByParts ==
  ASSUME cmd_sem \in Nat, cmd_sem' \in Nat, Cardinality(Called') \in Nat
  PROVE  /\ Announcing \in Nat /\ Announcing' \in Nat
         /\ WakesFindWork <=>
              Len(api_queue) + Len(evt_queue) = cmd_sem + Cardinality(Called) + Announcing
         /\ WakesFindWork' <=>
              Len(api_queue') + Len(evt_queue') = cmd_sem' + Cardinality(Called') + Announcing'
<1> DEFINE w == OneIf(workerPc = "enqueued")
           m == OneIf(metaPc = "enqueued")
           n == OneIf(notifyPc = "called")
           d == OneIf(dtorPc = "enqueued")
           k == Cardinality(Called)
<1>1. /\ w \in Nat /\ m \in Nat /\ n \in Nat /\ d \in Nat
      /\ w' \in Nat /\ m' \in Nat /\ n' \in Nat /\ d' \in Nat
  BY DEF OneIf
<1>2. k \in Nat /\ k' \in Nat
  BY CallersCounted
<1>3. Announcing = w + m + n + d /\ Announcing' = w' + m' + n' + d'
  BY DEF Announcing
<1>4. /\ WakesFindWork <=> Len(api_queue) + Len(evt_queue) = cmd_sem + k + w + m + n + d
      /\ WakesFindWork' <=>
           Len(api_queue') + Len(evt_queue') = cmd_sem' + k' + w' + m' + n' + d'
  BY WakesByCalled
<1>5. (Len(api_queue) + Len(evt_queue) = cmd_sem + k + w + m + n + d)
        <=> (Len(api_queue) + Len(evt_queue) = cmd_sem + k + Announcing)
  <2> HIDE DEF w, m, n, d, k
  <2> QED BY <1>1, <1>2, <1>3
<1>6. (Len(api_queue') + Len(evt_queue') = cmd_sem' + k' + w' + m' + n' + d')
        <=> (Len(api_queue') + Len(evt_queue') = cmd_sem' + k' + Announcing')
  <2>1. ASSUME NEW x \in Nat, NEW y \in Nat, NEW z \in Nat, NEW u \in Nat, NEW v \in Nat,
               NEW t \in Nat
        PROVE  x + y + z + u + v + t = x + y + (z + u + v + t)
    OBVIOUS
  <2>2. cmd_sem' + k' + w' + m' + n' + d' = cmd_sem' + k' + (w' + m' + n' + d')
    BY <1>1, <1>2, <2>1
  <2> QED BY <1>3, <2>2, Zenon
<1>7. Announcing \in Nat /\ Announcing' \in Nat
  BY DEF Announcing, OneIf
<1> QED BY <1>4, <1>5, <1>6, <1>7

\* The lengths of the queues are numbers.
LEMMA LengthsCounted ==
  ASSUME ApiTypeOK
  PROVE  Len(api_queue) \in Nat /\ Len(evt_queue) \in Nat
  BY LenProperties DEF ApiTypeOK

\* A command goes to the queue of the state machine.
LEMMA CommandEnqueued ==
  ASSUME ApiTypeOK, NEW cmd \in ApiCmd, api_queue' = enqueue(api_queue, cmd)
  PROVE  /\ api_queue' \in Seq(ApiCmd)
         /\ Len(api_queue') = Len(api_queue) + 1
         /\ \A api : Commands(api)' = Commands(api) + OneIf(cmd.api = api)
<1>1. api_queue \in Seq(ApiCmd) /\ m_apiResultList \in Seq(ApiCmd)
  BY DEF ApiTypeOK
<1>2. api_queue' \in Seq(ApiCmd) /\ Len(api_queue') = Len(api_queue) + 1
  BY <1>1, CountEnqueue
<1>3. ASSUME NEW api PROVE Commands(api)' = Commands(api) + OneIf(cmd.api = api)
  <2>1. CountOf(api_queue', Of(api)) = CountOf(api_queue, Of(api)) + Counts(cmd, Of(api))
    BY <1>1, CountEnqueue
  <2>2. PlacesOf(api_queue', Of(api)) = {i \in 1 .. Len(api_queue') : api_queue'[i].api = api}
    BY <1>2, ElementOfSeq DEF PlacesOf, Of
  <2>3. Commands(api)' = CountOf(api_queue', Of(api))
    BY <2>2 DEF Commands, CountOf
  <2>4. Counts(cmd, Of(api)) = OneIf(cmd.api = api)
    BY DEF Counts, Of, OneIf
  <2> QED BY <1>1, <2>1, <2>3, <2>4, BooksByCount
<1> QED BY <1>2, <1>3

\* lockAPI() and processAPI() up to the queue.
LEMMA CallStep ==
  ASSUME ApiIndInv, NEW c \in Callers, NEW a \in Apis, Call(c, a)
  PROVE  ApiIndInv'
<1>0. ApiTypeOK
  BY DEF ApiIndInv
<1> DEFINE cmd == [api |-> a, by |-> c]
<1>1. cmd \in ApiCmd /\ cmd.api = a
  BY DEF ApiCmd
<1>2. /\ callPc[c] = "idle" /\ api_queue' = enqueue(api_queue, cmd)
      /\ callPc' = [callPc EXCEPT ![c] = "called"]
      /\ callApi' = [callApi EXCEPT ![c] = a]
      /\ UNCHANGED <<evt_queue, cmd_sem, m_apiResultList, smPc, smResult, m_state, unanswered,
                     workerPc, strays, notifyPc, jpegs, metaPc, dtorPc>>
  BY DEF Call, smVars, otherVars, dtorVars
<1> HIDE DEF cmd
<1>3. /\ api_queue' \in Seq(ApiCmd) /\ Len(api_queue') = Len(api_queue) + 1
      /\ \A api : Commands(api)' = Commands(api) + OneIf(a = api)
  BY <1>0, <1>1, <1>2, CommandEnqueued
<1>4. ApiTypeOK'
  BY <1>0, <1>2, <1>3 DEF ApiTypeOK
<1>5. WakesFindWork'
  <2>1. Cardinality(Called') = Cardinality(Called) + AtCalled("called") - AtCalled("idle")
    BY <1>0, <1>2, CallerMoves
  <2> QED BY <2>1, <1>0, <1>2, <1>3, WakesByCalled, CallersCounted, LengthsCounted
          DEF ApiIndInv, ApiTypeOK, OneIf, AtCalled
<1>6. AnswersAccounted'
  <2>1. ASSUME NEW api \in Apis, Balance(api) PROVE Balance(api)'
    <3>1. Cardinality(WaitingFor(api)') = Cardinality(WaitingFor(api))
            + AtWait("called", a, api) - AtWait("idle", callApi[c], api)
      BY <1>0, <1>2, WaiterMoves
    <3>2. Owed(api)' = Owed(api) + OneIf(a = api)
      BY <1>0, <1>2, <1>3, BooksByCount DEF Owed, Results, OneIf, ApiTypeOK
    <3> QED BY <2>1, <3>1, <3>2, <1>0, <1>2, BooksTyped DEF Balance, AtWait, OneIf, ApiTypeOK
  <2> QED BY <2>1, <1>2, BooksKept
<1> QED BY <1>4, <1>5, <1>6 DEF ApiIndInv

\* A caller that already waits for its API goes to sleep, is woken or posts.
LEMMA SleeperFrame ==
  ASSUME ApiIndInv, NEW c \in Callers, NEW pc \in {"waiting", "woken"}, callPc[c] # "idle",
         callPc' = [callPc EXCEPT ![c] = pc],
         UNCHANGED <<callApi, api_queue, m_apiResultList, smVars, otherVars, dtorVars>>
  PROVE  AnswersAccounted'
<1>1. \A api : WaitingFor(api)' = WaitingFor(api)
  BY DEF WaitingFor, ApiIndInv, ApiTypeOK
<1> QED BY <1>1, BooksFrame DEF smVars, otherVars, dtorVars

\* cam_sem_post() and the wait of processAPI() and waitAPIResult().
LEMMA PostAndWaitStep ==
  ASSUME ApiIndInv, NEW c \in Callers, PostAndWait(c)
  PROVE  ApiIndInv'
<1>0. ApiTypeOK
  BY DEF ApiIndInv
<1>1. ApiTypeOK'
  BY <1>0 DEF PostAndWait, Post, ApiTypeOK, smVars, otherVars, dtorVars
<1>2. WakesFindWork'
  <2>1. Cardinality(Called') = Cardinality(Called) + AtCalled("waiting") - AtCalled("called")
    BY <1>0, CallerMoves DEF PostAndWait
  <2>2. /\ cmd_sem' = cmd_sem + 1
        /\ UNCHANGED <<api_queue, evt_queue, workerPc, metaPc, notifyPc, dtorPc>>
    BY DEF PostAndWait, Post, otherVars, dtorVars
  <2> QED BY <2>1, <2>2, <1>0, WakesByCalled, CallersCounted, LengthsCounted
          DEF ApiIndInv, ApiTypeOK, OneIf, AtCalled
<1>3. AnswersAccounted'
  BY SleeperFrame DEF PostAndWait
<1> QED BY <1>1, <1>2, <1>3 DEF ApiIndInv

\* waitAPIResult() finds nothing for this caller.
LEMMA SleepAgainStep ==
  ASSUME ApiIndInv, NEW c \in Callers, SleepAgain(c)
  PROVE  ApiIndInv'
<1>0. ApiTypeOK
  BY DEF ApiIndInv
<1>1. ApiTypeOK'
  BY <1>0 DEF SleepAgain, ApiTypeOK, smVars, otherVars, dtorVars
<1>2. WakesFindWork'
  <2>1. Cardinality(Called') = Cardinality(Called) + AtCalled("waiting") - AtCalled("woken")
    BY <1>0, CallerMoves DEF SleepAgain
  <2>2. UNCHANGED <<cmd_sem, api_queue, evt_queue, workerPc, metaPc, notifyPc, dtorPc>>
    BY DEF SleepAgain, otherVars, dtorVars
  <2> QED BY <2>1, <2>2, <1>0, WakesByCalled, CallersCounted, LengthsCounted
          DEF ApiIndInv, ApiTypeOK, OneIf, AtCalled
<1>3. AnswersAccounted'
  BY SleeperFrame DEF SleepAgain
<1> QED BY <1>1, <1>2, <1>3 DEF ApiIndInv

\* Taking the result at place k out of the list.
LEMMA ResultTaken ==
  ASSUME ApiTypeOK, NEW k \in 1 .. Len(m_apiResultList),
         m_apiResultList' = Without(m_apiResultList, k)
  PROVE  /\ m_apiResultList' \in Seq(ApiCmd)
         /\ \A api : Results(api) = Results(api)' + OneIf(m_apiResultList[k].api = api)
<1> DEFINE q == m_apiResultList
           s1 == SubSeq(q, 1, k - 1)
           s2 == SubSeq(q, k + 1, Len(q))
<1>0. api_queue \in Seq(ApiCmd) /\ q \in Seq(ApiCmd) /\ Len(q) \in Nat /\ k \in Nat
  BY LenProperties DEF ApiTypeOK
<1>1. /\ s1 \in Seq(ApiCmd) /\ Len(s1) = k - 1
      /\ \A i \in 1 .. k - 1 : s1[i] = q[i]
  <2>1. \A i \in 1 .. k - 1 : q[i] \in ApiCmd
    BY <1>0, ElementOfSeq
  <2> QED BY <2>1, <1>0, SubSeqProperties
<1>2. /\ s2 \in Seq(ApiCmd) /\ Len(s2) = Len(q) - k
      /\ \A i \in 1 .. Len(q) - k : s2[i] = q[k + i]
  <2>1. \A i \in k + 1 .. Len(q) : q[i] \in ApiCmd
    BY <1>0, ElementOfSeq
  <2> QED BY <2>1, <1>0, SubSeqProperties
<1> HIDE DEF s1, s2
<1>3. /\ q' \in Seq(ApiCmd) /\ Len(q') = Len(q) - 1
      /\ \A i \in 1 .. Len(q) - 1 : q'[i] = IF i < k THEN q[i] ELSE q[i + 1]
  <2>1. q' = s1 \o s2
    BY DEF Without, s1, s2
  <2>2. /\ q' \in Seq(ApiCmd) /\ Len(q') = Len(s1) + Len(s2)
        /\ \A i \in 1 .. Len(s1) + Len(s2) :
             q'[i] = IF i <= Len(s1) THEN s1[i] ELSE s2[i - Len(s1)]
    <3>1. /\ s1 \o s2 \in Seq(ApiCmd) /\ Len(s1 \o s2) = Len(s1) + Len(s2)
          /\ \A i \in 1 .. Len(s1) + Len(s2) :
               (s1 \o s2)[i] = IF i <= Len(s1) THEN s1[i] ELSE s2[i - Len(s1)]
      BY <1>1, <1>2, ConcatProperties
    <3> QED BY <2>1, <3>1, Zenon
  <2> HIDE DEF q
  <2>3. Len(q') = Len(q) - 1
    BY <2>2, <1>0, <1>1, <1>2
  <2>4. ASSUME NEW i \in 1 .. Len(q) - 1
        PROVE  q'[i] = IF i < k THEN q[i] ELSE q[i + 1]
    <3>1. CASE i < k
      BY <3>1, <2>2, <1>0, <1>1, <1>2
    <3>2. CASE ~(i < k)
      <4>0. i \in 1 .. Len(s1) + Len(s2) /\ ~(i <= Len(s1)) /\ Len(s1) = k - 1
        BY <3>2, <1>0, <1>1, <1>2
      <4>1. q'[i] = s2[i - (k - 1)]
        BY <4>0, <2>2
      <4>2. i - (k - 1) \in 1 .. Len(q) - k /\ k + (i - (k - 1)) = i + 1
        BY <3>2, <1>0
      <4>3. s2[i - (k - 1)] = q[i + 1]
        BY <4>2, <1>2
      <4> QED BY <3>2, <4>1, <4>3
    <3> QED BY <3>1, <3>2
  <2> QED BY <2>2, <2>3, <2>4
<1>4. RemovedAt(q, q', k)
  BY <1>0, <1>3 DEF RemovedAt
<1>5. ASSUME NEW api PROVE Results(api) = Results(api)' + OneIf(q[k].api = api)
  <2>1. CountOf(q, Of(api)) = CountOf(q', Of(api)) + Counts(q[k], Of(api))
    <3>1. \A r \in Seq(ApiCmd) : RemovedAt(q, r, k)
            => CountOf(q, Of(api)) = CountOf(r, Of(api)) + Counts(q[k], Of(api))
      BY <1>0, CountRemoved
    <3> QED BY <3>1, <1>3, <1>4
  <2>2. PlacesOf(q', Of(api)) = {i \in 1 .. Len(q') : q'[i].api = api}
    BY <1>3, ElementOfSeq DEF PlacesOf, Of
  <2>3. Results(api)' = CountOf(q', Of(api))
    BY <2>2 DEF Results, CountOf
  <2>4. q[k] \in ApiCmd
    BY <1>0, ElementOfSeq
  <2>5. Counts(q[k], Of(api)) = OneIf(q[k].api = api)
    BY <2>4 DEF Counts, Of, OneIf
  <2>6. Results(api) = CountOf(q, Of(api))
    BY <1>0, BooksByCount
  <2> QED BY <2>1, <2>3, <2>5, <2>6
<1> QED BY <1>3, <1>5

\* waitAPIResult() takes its result; take_picture goes on with its second command.
LEMMA TakeResultStep ==
  ASSUME ApiIndInv, NEW c \in Callers, TakeResult(c)
  PROVE  ApiIndInv'
<1>0. ApiTypeOK
  BY DEF ApiIndInv
<1>1. PICK k \in 1 .. Len(m_apiResultList) :
        FirstAnswer(c, k) /\ m_apiResultList' = Without(m_apiResultList, k)
  BY DEF TakeResult
<1>2. m_apiResultList[k].api = callApi[c]
  BY <1>1 DEF FirstAnswer, Answers
<1>3. /\ m_apiResultList' \in Seq(ApiCmd)
      /\ \A api : Results(api) = Results(api)' + OneIf(callApi[c] = api)
  BY <1>0, <1>1, <1>2, ResultTaken
<1>4. /\ callPc[c] = "woken"
      /\ UNCHANGED <<evt_queue, cmd_sem, smPc, smResult, m_state, unanswered,
                     workerPc, strays, notifyPc, jpegs, metaPc, dtorPc>>
  BY DEF TakeResult, smVars, otherVars, dtorVars
<1>5. CASE callApi[c] = "PREPARE"
  <2> DEFINE cmd == [api |-> "TAKE", by |-> c]
  <2>1. /\ api_queue' = enqueue(api_queue, cmd)
        /\ callPc' = [callPc EXCEPT ![c] = "called"]
        /\ callApi' = [callApi EXCEPT ![c] = "TAKE"]
    BY <1>5 DEF TakeResult
  <2>2. cmd \in ApiCmd /\ cmd.api = "TAKE"
    BY DEF ApiCmd, Apis
  <2> HIDE DEF cmd
  <2>3. /\ api_queue' \in Seq(ApiCmd) /\ Len(api_queue') = Len(api_queue) + 1
        /\ \A api : Commands(api)' = Commands(api) + OneIf("TAKE" = api)
    BY <1>0, <2>1, <2>2, CommandEnqueued
  <2>4. ApiTypeOK'
    BY <1>0, <1>3, <1>4, <2>1, <2>3 DEF ApiTypeOK, Apis
  <2>5. WakesFindWork'
    <3>1. Cardinality(Called') = Cardinality(Called) + AtCalled("called") - AtCalled("woken")
      BY <1>0, <1>4, <2>1, CallerMoves
    <3>2. /\ Len(api_queue') = Len(api_queue) + 1 /\ cmd_sem' = cmd_sem /\ cmd_sem \in Nat
          /\ UNCHANGED <<evt_queue, workerPc, metaPc, notifyPc, dtorPc>>
      BY <1>0, <1>4, <2>3 DEF ApiTypeOK
    <3> QED BY <3>1, <3>2, <1>0, WakesByCalled, CallersCounted, LengthsCounted
            DEF ApiIndInv, OneIf, AtCalled
  <2>6. AnswersAccounted'
    <3>1. ASSUME NEW api \in Apis, Balance(api) PROVE Balance(api)'
      <4>1. Cardinality(WaitingFor(api)') = Cardinality(WaitingFor(api))
              + AtWait("called", "TAKE", api) - AtWait("woken", callApi[c], api)
        BY <1>0, <1>4, <2>1, WaiterMoves
      <4>2. Results(api)' \in Nat /\ Commands(api)' \in Nat
        BY <2>4, BooksTypedAfter
      <4>3. Owed(api)' = Owed(api) + OneIf("TAKE" = api) - OneIf(callApi[c] = api)
        <5>1. InSm(api)' = InSm(api)
          BY <1>4 DEF InSm
        <5>2. Commands(api)' = Commands(api) + OneIf("TAKE" = api)
          BY <2>3
        <5>3. Results(api) = Results(api)' + OneIf(callApi[c] = api)
          BY <1>3
        <5>4. Commands(api) \in Nat /\ Results(api) \in Nat
          BY <1>0, BooksByCount DEF ApiTypeOK
        <5> QED BY <5>1, <5>2, <5>3, <5>4, <4>2, <1>0, OwedParts DEF OneIf
      <4> QED BY <3>1, <4>1, <4>3, <1>0, <1>4, BooksTyped DEF Balance, AtWait, OneIf, ApiTypeOK
    <3> QED BY <3>1, <1>4, BooksKept
  <2> QED BY <2>4, <2>5, <2>6 DEF ApiIndInv
<1>6. CASE callApi[c] # "PREPARE"
  <2>1. /\ api_queue' = api_queue
        /\ callPc' = [callPc EXCEPT ![c] = "idle"]
        /\ callApi' = [callApi EXCEPT ![c] = "none"]
    BY <1>6 DEF TakeResult
  <2>2. ApiTypeOK'
    BY <1>0, <1>3, <1>4, <2>1 DEF ApiTypeOK, Apis
  <2>3. WakesFindWork'
    <3>1. Cardinality(Called') = Cardinality(Called) + AtCalled("idle") - AtCalled("woken")
      BY <1>0, <1>4, <2>1, CallerMoves
    <3> QED BY <3>1, <1>0, <1>4, <2>1, WakesByCalled, CallersCounted, LengthsCounted
            DEF ApiIndInv, ApiTypeOK, OneIf, AtCalled
  <2>4. AnswersAccounted'
    <3>1. ASSUME NEW api \in Apis, Balance(api) PROVE Balance(api)'
      <4>1. Cardinality(WaitingFor(api)') = Cardinality(WaitingFor(api))
              + AtWait("idle", "none", api) - AtWait("woken", callApi[c], api)
        BY <1>0, <1>4, <2>1, WaiterMoves
      <4>2. Results(api)' \in Nat
        BY <2>2, BooksTypedAfter
      <4>3. Owed(api)' = Owed(api) - OneIf(callApi[c] = api)
        <5>1. InSm(api)' = InSm(api) /\ Commands(api)' = Commands(api)
          BY <1>4, <2>1 DEF InSm, Commands
        <5>2. Results(api) = Results(api)' + OneIf(callApi[c] = api)
          BY <1>3
        <5>3. Commands(api) \in Nat /\ Results(api) \in Nat
          BY <1>0, BooksByCount DEF ApiTypeOK
        <5> QED BY <5>1, <5>2, <5>3, <4>2, <1>0, OwedParts DEF OneIf
      <4> QED BY <3>1, <4>1, <4>3, <1>0, <1>4, BooksTyped DEF Balance, AtWait, OneIf, ApiTypeOK
    <3> QED BY <3>1, <1>4, BooksKept
  <2> QED BY <2>2, <2>3, <2>4 DEF ApiIndInv
<1> QED BY <1>5, <1>6

\* Steps that leave the callers and the books alone.
LEMMA QuietFrame ==
  ASSUME ApiIndInv, UNCHANGED <<api_queue, callVars, smVars, strays>>,
         (workerPc = "checked") = (workerPc' = "checked"),
         dtorPc = "closed" => dtorPc' = "closed"
  PROVE  Called' = Called /\ AnswersAccounted'
<1>1. Called' = Called /\ \A api : WaitingFor(api)' = WaitingFor(api)
  BY DEF Called, WaitingFor, callVars
<1> QED BY <1>1, BooksFrame DEF callVars, smVars

\* The live snapshot thread looks at m_smThreadActive.
LEMMA StrayCheckStep ==
  ASSUME ApiIndInv, StrayCheck
  PROVE  ApiIndInv'
<1>0. ApiTypeOK
  BY DEF ApiIndInv
<1>1. /\ workerPc = "idle" /\ workerPc' = "checked" /\ strays' = strays + 1
      /\ UNCHANGED <<api_queue, evt_queue, cmd_sem, notifyPc, jpegs, metaPc, callVars, smVars,
                     dtorPc>>
  BY DEF StrayCheck, dtorVars
<1>2. ApiTypeOK'
  BY <1>0, <1>1 DEF ApiTypeOK, callVars, smVars
<1>3. Called' = Called /\ \A api : WaitingFor(api)' = WaitingFor(api)
  BY <1>1 DEF Called, WaitingFor, callVars
<1>4. WakesFindWork'
  BY <1>0, <1>1, <1>3, WakesByCalled DEF ApiIndInv, ApiTypeOK, OneIf
<1>5. AnswersAccounted'
  <2>1. ASSUME NEW api \in Apis, Balance(api) PROVE Balance(api)'
    <3>1. Owed(api)' = Owed(api)
      BY <1>1 DEF Owed, Commands, Results, callVars, smVars
    <3>2. unanswered' = unanswered
      BY <1>1 DEF smVars
    <3> QED BY <2>1, <3>1, <3>2, <1>0, <1>1, <1>3, BooksTyped DEF Balance, OneIf, ApiTypeOK
  <2> QED BY <2>1, <1>1, BooksKept
<1> QED BY <1>2, <1>4, <1>5 DEF ApiIndInv

\* It enqueues CANCEL_PICTURE.
LEMMA StrayEnqueueStep ==
  ASSUME ApiIndInv, StrayEnqueue
  PROVE  ApiIndInv'
<1>0. ApiTypeOK
  BY DEF ApiIndInv
<1> DEFINE cmd == [api |-> "CANCEL", by |-> "worker"]
<1>1. cmd \in ApiCmd /\ cmd.api = "CANCEL"
  BY DEF ApiCmd, Apis
<1>2. /\ workerPc = "checked" /\ workerPc' = "enqueued" /\ api_queue' = enqueue(api_queue, cmd)
      /\ UNCHANGED <<evt_queue, cmd_sem, strays, notifyPc, jpegs, metaPc, callVars, smVars,
                     dtorPc>>
  BY DEF StrayEnqueue, dtorVars
<1> HIDE DEF cmd
<1>3. /\ api_queue' \in Seq(ApiCmd) /\ Len(api_queue') = Len(api_queue) + 1
      /\ \A api : Commands(api)' = Commands(api) + OneIf("CANCEL" = api)
  BY <1>0, <1>1, <1>2, CommandEnqueued
<1>4. ApiTypeOK'
  BY <1>0, <1>2, <1>3 DEF ApiTypeOK, callVars, smVars
<1>5. Called' = Called /\ \A api : WaitingFor(api)' = WaitingFor(api)
  BY <1>2 DEF Called, WaitingFor, callVars
<1>6. WakesFindWork'
  BY <1>0, <1>2, <1>3, <1>5, WakesByCalled, CallersCounted, LengthsCounted
     DEF ApiIndInv, ApiTypeOK, OneIf
<1>7. AnswersAccounted'
  <2>1. ASSUME NEW api \in Apis, Balance(api) PROVE Balance(api)'
    <3>1. InSm(api)' = InSm(api) /\ Results(api)' = Results(api) /\ unanswered' = unanswered
      BY <1>2 DEF InSm, Results, callVars, smVars
    <3>2. Commands(api)' = Commands(api) + OneIf("CANCEL" = api)
      BY <1>3
    <3>3. Commands(api) \in Nat /\ Results(api) \in Nat
      BY <1>0, BooksByCount DEF ApiTypeOK
    <3>4. Owed(api)' = Owed(api) + OneIf("CANCEL" = api)
      BY <3>1, <3>2, <3>3, <1>0, OwedParts DEF OneIf
    <3> QED BY <2>1, <3>1, <3>4, <1>0, <1>2, <1>5, BooksTyped DEF Balance, OneIf, ApiTypeOK
  <2> QED BY <2>1, <1>2, BooksKept
<1> QED BY <1>4, <1>6, <1>7 DEF ApiIndInv

\* An event goes to the queue of the state machine, with the thread that
\* announces it counted at once.
LEMMA EventEnqueued ==
  ASSUME ApiTypeOK, NEW evt \in Events, evt_queue' = enqueue(evt_queue, evt)
  PROVE  evt_queue' \in Seq(Events) /\ Len(evt_queue') = Len(evt_queue) + 1
  BY CountEnqueue DEF ApiTypeOK

\* The metadata thread and the callback thread enqueue their events.
LEMMA EventEnqueueStep ==
  ASSUME ApiIndInv, PrepDoneEnqueue \/ SyncEvtEnqueue
  PROVE  ApiIndInv'
<1>0. ApiTypeOK
  BY DEF ApiIndInv
<1>1. CASE PrepDoneEnqueue
  <2>1. evt_queue' \in Seq(Events) /\ Len(evt_queue') = Len(evt_queue) + 1
    BY <1>0, <1>1, EventEnqueued DEF PrepDoneEnqueue, Events
  <2>2. /\ metaPc = "idle" /\ metaPc' = "enqueued"
        /\ UNCHANGED <<api_queue, cmd_sem, workerPc, strays, notifyPc, jpegs, callVars, smVars,
                       dtorPc>>
    BY <1>1 DEF PrepDoneEnqueue, dtorVars
  <2>3. ApiTypeOK'
    BY <1>0, <2>1, <2>2 DEF ApiTypeOK, callVars, smVars
  <2>4. Called' = Called /\ AnswersAccounted'
    BY <2>2, QuietFrame
  <2>5. WakesFindWork'
    BY <1>0, <2>1, <2>2, <2>4, WakesByCalled, CallersCounted, LengthsCounted
       DEF ApiIndInv, ApiTypeOK, OneIf
  <2> QED BY <2>3, <2>4, <2>5 DEF ApiIndInv
<1>2. CASE SyncEvtEnqueue
  <2>1. evt_queue' \in Seq(Events) /\ Len(evt_queue') = Len(evt_queue) + 1
    BY <1>0, <1>2, EventEnqueued DEF SyncEvtEnqueue, Events
  <2>2. /\ notifyPc = "idle" /\ notifyPc' = "called" /\ jpegs' \in Nat
        /\ UNCHANGED <<api_queue, cmd_sem, workerPc, strays, metaPc, callVars, smVars, dtorPc>>
    BY <1>0, <1>2 DEF SyncEvtEnqueue, dtorVars, ApiTypeOK
  <2>3. ApiTypeOK'
    BY <1>0, <2>1, <2>2 DEF ApiTypeOK, callVars, smVars
  <2>4. Called' = Called /\ AnswersAccounted'
    BY <2>2, QuietFrame
  <2>5. WakesFindWork'
    BY <1>0, <2>1, <2>2, <2>4, WakesByCalled, CallersCounted, LengthsCounted
       DEF ApiIndInv, ApiTypeOK, OneIf
  <2> QED BY <2>3, <2>4, <2>5 DEF ApiIndInv
<1> QED BY <1>1, <1>2

\* cam_sem_post() of the threads without a caller, and the steps of the
\* callback thread and the destructor that touch no queue.
LEMMA PostStep ==
  ASSUME ApiIndInv,
         \/ StrayPost \/ PrepDonePost \/ SyncEvtWait \/ SyncEvtReturn
         \/ Deactivate \/ ExitPost \/ JoinSm
  PROVE  ApiIndInv'
<1>0. ApiTypeOK
  BY DEF ApiIndInv
<1>1. UNCHANGED <<api_queue, evt_queue, callVars, smVars, strays, jpegs>>
  BY DEF StrayPost, PrepDonePost, SyncEvtWait, SyncEvtReturn, Deactivate, ExitPost, JoinSm,
         otherVars
<1>2. /\ (workerPc = "checked") = (workerPc' = "checked")
      /\ dtorPc = "closed" => dtorPc' = "closed"
  BY DEF StrayPost, PrepDonePost, SyncEvtWait, SyncEvtReturn, Deactivate, ExitPost, JoinSm,
         otherVars, dtorVars
<1>3. Called' = Called /\ AnswersAccounted'
  BY <1>1, <1>2, QuietFrame
<1>4. ApiTypeOK'
  BY <1>0, <1>1 DEF ApiTypeOK, callVars, smVars, otherVars, dtorVars, Post,
     StrayPost, PrepDonePost, SyncEvtWait, SyncEvtReturn, Deactivate, ExitPost, JoinSm
<1>5. cmd_sem' + Announcing' = cmd_sem + Announcing
  BY <1>0 DEF ApiTypeOK, otherVars, dtorVars, Post, OneIf, Announcing,
     StrayPost, PrepDonePost, SyncEvtWait, SyncEvtReturn, Deactivate, ExitPost, JoinSm
<1>6. WakesFindWork'
  <2>1. cmd_sem \in Nat /\ cmd_sem' \in Nat
    BY <1>0, <1>4 DEF ApiTypeOK
  <2> QED BY <1>0, <1>1, <1>3, <1>5, <2>1, WakesByParts, CallersCounted, LengthsCounted
          DEF ApiIndInv
<1> QED BY <1>3, <1>4, <1>6 DEF ApiIndInv

\* The destructor enqueues EXIT, which nobody waits for.
LEMMA ExitEnqueueStep ==
  ASSUME ApiIndInv, ExitEnqueue
  PROVE  ApiIndInv'
<1>0. ApiTypeOK
  BY DEF ApiIndInv
<1> DEFINE cmd == [api |-> "EXIT", by |-> "none"]
<1>1. cmd \in ApiCmd /\ cmd.api = "EXIT"
  BY DEF ApiCmd
<1>2. /\ dtorPc = "inactive" /\ dtorPc' = "enqueued" /\ api_queue' = enqueue(api_queue, cmd)
      /\ UNCHANGED <<evt_queue, cmd_sem, workerPc, strays, notifyPc, jpegs, metaPc, callVars,
                     smVars>>
  BY DEF ExitEnqueue, otherVars
<1> HIDE DEF cmd
<1>3. /\ api_queue' \in Seq(ApiCmd) /\ Len(api_queue') = Len(api_queue) + 1
      /\ \A api : Commands(api)' = Commands(api) + OneIf("EXIT" = api)
  BY <1>0, <1>1, <1>2, CommandEnqueued
<1>4. ApiTypeOK'
  BY <1>0, <1>2, <1>3 DEF ApiTypeOK, callVars, smVars
<1>5. Called' = Called /\ \A api : WaitingFor(api)' = WaitingFor(api)
  BY <1>2 DEF Called, WaitingFor, callVars
<1>6. WakesFindWork'
  BY <1>0, <1>2, <1>3, <1>5, WakesByCalled, CallersCounted, LengthsCounted
     DEF ApiIndInv, ApiTypeOK, OneIf
<1>7. AnswersAccounted'
  <2>1. ASSUME NEW api \in Apis, Balance(api) PROVE Balance(api)'
    <3>1. InSm(api)' = InSm(api) /\ Results(api)' = Results(api) /\ unanswered' = unanswered
      BY <1>2 DEF InSm, Results, callVars, smVars
    <3>2. Commands(api)' = Commands(api)
      BY <1>0, <1>3, BooksByCount DEF Apis, OneIf, ApiTypeOK
    <3>3. Commands(api) \in Nat /\ Results(api) \in Nat
      BY <1>0, BooksByCount DEF ApiTypeOK
    <3>4. Owed(api)' = Owed(api)
      BY <3>1, <3>2, <3>3, <1>0, OwedParts
    <3> QED BY <2>1, <3>1, <3>4, <1>2, <1>5 DEF Balance
  <2> QED BY <2>1, <1>2, BooksKept
<1> QED BY <1>4, <1>6, <1>7 DEF ApiIndInv

\* closeCamera() frees the results nobody took.
LEMMA CloseCameraStep ==
  ASSUME ApiIndInv, closeCamera
  PROVE  ApiIndInv'
<1>0. ApiTypeOK
  BY DEF ApiIndInv
<1>1. /\ dtorPc = "joinNotifier" /\ dtorPc' = "closed" /\ m_apiResultList' = << >>
      /\ UNCHANGED <<api_queue, evt_queue, cmd_sem, smVars, callPc, callApi, workerPc, strays,
                     notifyPc, jpegs, metaPc>>
  BY DEF closeCamera, otherVars
<1>2. ApiTypeOK'
  BY <1>0, <1>1, EmptySeq DEF ApiTypeOK, smVars
<1>3. Called' = Called
  BY <1>1 DEF Called
<1>4. WakesFindWork'
  BY <1>0, <1>1, <1>3, WakesByCalled DEF ApiIndInv, OneIf
<1>5. AnswersAccounted'
  BY <1>1 DEF AnswersAccounted
<1> QED BY <1>2, <1>4, <1>5 DEF ApiIndInv

\* signalEvtResult() wakes the callback thread.
LEMMA SignalEvtStep ==
  ASSUME ApiIndInv, signalEvtResult
  PROVE  ApiIndInv'
<1>0. ApiTypeOK
  BY DEF ApiIndInv
<1>1. /\ smPc = "signalEvt" /\ smPc' = "wait" /\ notifyPc # "called" /\ notifyPc' # "called"
      /\ notifyPc' \in {"idle", "called", "waiting", "woken"}
      /\ UNCHANGED <<api_queue, evt_queue, cmd_sem, callVars, smResult, m_state, unanswered,
                     workerPc, strays, jpegs, metaPc, dtorPc>>
  BY <1>0 DEF signalEvtResult, m_evtLockFree, dtorVars, ApiTypeOK
<1>2. ApiTypeOK'
  BY <1>0, <1>1 DEF ApiTypeOK, callVars
<1>3. Called' = Called /\ \A api : WaitingFor(api)' = WaitingFor(api)
  BY <1>1 DEF Called, WaitingFor, callVars
<1>4. WakesFindWork'
  BY <1>0, <1>1, <1>3, WakesByCalled DEF ApiIndInv, OneIf
<1>5. AnswersAccounted'
  <2>1. ASSUME NEW api \in Apis, Balance(api) PROVE Balance(api)'
    <3>1. Owed(api)' = Owed(api)
      BY <1>1 DEF Owed, Commands, Results, OneIf, callVars
    <3> QED BY <2>1, <3>1, <1>1, <1>3 DEF Balance
  <2> QED BY <2>1, <1>1, BooksKept
<1> QED BY <1>2, <1>4, <1>5 DEF ApiIndInv

\* signalAPIResult() puts the result into the list and wakes all that wait.
LEMMA SignalStep ==
  ASSUME ApiIndInv, signalAPIResult
  PROVE  ApiIndInv'
<1>0. ApiTypeOK
  BY DEF ApiIndInv
<1>1. /\ smPc = "signal" /\ smPc' = "wait" /\ smResult' = NoResult
      /\ m_apiResultList' = enqueue(m_apiResultList, smResult)
      /\ callPc' = Woken
      /\ UNCHANGED <<api_queue, evt_queue, cmd_sem, callApi, m_state, unanswered,
                     workerPc, strays, notifyPc, jpegs, metaPc, dtorPc>>
  BY DEF signalAPIResult, otherVars, dtorVars
<1>2. smResult \in ApiCmd /\ m_apiResultList \in Seq(ApiCmd) /\ api_queue \in Seq(ApiCmd)
  BY <1>0 DEF ApiTypeOK
<1>3. m_apiResultList' \in Seq(ApiCmd)
  BY <1>1, <1>2, CountEnqueue
<1>4. ApiTypeOK'
  <2>1. NoResult \in ApiCmd
    BY DEF NoResult, ApiCmd
  <2>2. Woken \in [Callers -> {"idle", "called", "waiting", "woken"}]
    BY <1>0 DEF Woken, ApiTypeOK
  <2> QED BY <2>1, <2>2, <1>0, <1>1, <1>3 DEF ApiTypeOK
<1>5. Called' = Called /\ \A api : WaitingFor(api)' = WaitingFor(api)
  BY <1>0, <1>1 DEF Called, WaitingFor, Woken, ApiTypeOK
<1>6. WakesFindWork'
  BY <1>0, <1>1, <1>5, WakesByCalled DEF ApiIndInv, OneIf
<1>7. AnswersAccounted'
  <2>1. ASSUME NEW api \in Apis, Balance(api) PROVE Balance(api)'
    <3>1. Results(api)' = Results(api) + OneIf(smResult.api = api)
      <4>1. CountOf(m_apiResultList', Of(api))
              = CountOf(m_apiResultList, Of(api)) + Counts(smResult, Of(api))
        BY <1>1, <1>2, CountEnqueue
      <4>2. PlacesOf(m_apiResultList', Of(api))
              = {i \in 1 .. Len(m_apiResultList') : m_apiResultList'[i].api = api}
        BY <1>3, ElementOfSeq DEF PlacesOf, Of
      <4>3. Results(api)' = CountOf(m_apiResultList', Of(api))
        BY <4>2 DEF Results, CountOf
      <4>4. Counts(smResult, Of(api)) = OneIf(smResult.api = api)
        BY <1>2 DEF Counts, Of, OneIf
      <4> QED BY <1>2, <4>1, <4>3, <4>4, BooksByCount
    <3>2. InSm(api) = InSm(api)' + OneIf(smResult.api = api)
      BY <1>1 DEF InSm, OneIf
    <3>3. Commands(api)' = Commands(api) /\ Commands(api) \in Nat /\ Results(api) \in Nat
      BY <1>1, <1>2, BooksByCount DEF Commands
    <3>4. Owed(api)' = Owed(api)
      BY <3>1, <3>2, <3>3, <1>0, OwedParts DEF OneIf
    <3> QED BY <2>1, <3>4, <1>1, <1>5 DEF Balance
  <2> QED BY <2>1, <1>1, BooksKept
<1> QED BY <1>4, <1>6, <1>7 DEF ApiIndInv

\* smEvtProcRoutine takes a command: it is answered, or begins a preparation,
\* or is a REG_FACE_IMAGE without answer, or ends the thread.
LEMMA SmApiStep ==
  ASSUME ApiIndInv, SmApi
  PROVE  ApiIndInv'
<1>0. ApiTypeOK
  BY DEF ApiIndInv
<1> DEFINE cmd == Head(api_queue)
<1>1. /\ smPc = "wait" /\ cmd_sem > 0 /\ cmd_sem' = cmd_sem - 1 /\ api_queue # << >>
      /\ api_queue' = Tail(api_queue) /\ Handle(cmd)
      /\ UNCHANGED <<evt_queue, callVars, workerPc, strays, notifyPc, metaPc, dtorPc>>
  BY DEF SmApi, Wait, dtorVars
<1>2. api_queue \in Seq(ApiCmd) /\ m_apiResultList \in Seq(ApiCmd)
  BY <1>0 DEF ApiTypeOK
<1>3. cmd \in ApiCmd /\ api_queue' \in Seq(ApiCmd) /\ Len(api_queue') = Len(api_queue) - 1
  BY <1>1, <1>2, CountDequeue
<1>4. ASSUME NEW api PROVE Commands(api) = Commands(api)' + OneIf(cmd.api = api)
  <2>1. CountOf(api_queue, Of(api)) = CountOf(api_queue', Of(api)) + Counts(cmd, Of(api))
    BY <1>1, <1>2, CountDequeue
  <2>2. PlacesOf(api_queue', Of(api)) = {i \in 1 .. Len(api_queue') : api_queue'[i].api = api}
    BY <1>3, ElementOfSeq DEF PlacesOf, Of
  <2>3. Commands(api)' = CountOf(api_queue', Of(api))
    BY <2>2 DEF Commands, CountOf
  <2>4. Counts(cmd, Of(api)) = OneIf(cmd.api = api)
    BY <1>3 DEF Counts, Of, OneIf
  <2> QED BY <1>2, <2>1, <2>3, <2>4, BooksByCount
<1> HIDE DEF cmd
<1>5. ApiTypeOK'
  <2>1. /\ smPc' \in {"wait", "signal", "signalEvt", "exited"} /\ smResult' \in ApiCmd
        /\ m_state' \in {"PREVIEWING", "PREPARE_SNAPSHOT", "PIC_TAKING"}
        /\ jpegs' \in Nat /\ unanswered' \in Nat
    BY <1>0, <1>1, <1>3 DEF Handle, ApiTypeOK
  <2> QED BY <2>1, <1>0, <1>1, <1>3 DEF ApiTypeOK, callVars
<1>6. Called' = Called /\ \A api : WaitingFor(api)' = WaitingFor(api)
  BY <1>1 DEF Called, WaitingFor, callVars
<1>7. WakesFindWork'
  BY <1>0, <1>1, <1>3, <1>6, WakesByCalled, CallersCounted, LengthsCounted
     DEF ApiIndInv, ApiTypeOK, OneIf
<1>8. AnswersAccounted'
  <2>1. ASSUME NEW api \in Apis, Balance(api) PROVE Balance(api)'
    <3>1. Results(api)' = Results(api) /\ Results(api) \in Nat /\ Commands(api) \in Nat
      BY <1>1, <1>2, BooksByCount DEF Results, callVars
    <3>2. InSm(api)' + (IF api = "FACE" THEN unanswered' ELSE 0) =
          InSm(api) + (IF api = "FACE" THEN unanswered ELSE 0) + OneIf(cmd.api = api)
      BY <1>0, <1>1 DEF Handle, InSm, OneIf, ApiTypeOK, Apis
    <3>3. Commands(api)' \in Nat /\ unanswered \in Nat /\ unanswered' \in Nat
      BY <1>0, <1>5, BooksTypedAfter DEF ApiTypeOK
    <3>4. Owed(api)' + (IF api = "FACE" THEN unanswered' ELSE 0)
            = Owed(api) + (IF api = "FACE" THEN unanswered ELSE 0)
      BY <3>1, <3>2, <3>3, <1>0, <1>4, OwedParts DEF OneIf
    <3> QED BY <2>1, <3>4, <1>1, <1>6 DEF Balance
  <2> QED BY <2>1, <1>1, BooksKept
<1> QED BY <1>5, <1>7, <1>8 DEF ApiIndInv

\* smEvtProcRoutine takes an event.
LEMMA SmEvtStep ==
  ASSUME ApiIndInv, SmEvt
  PROVE  ApiIndInv'
<1>0. ApiTypeOK
  BY DEF ApiIndInv
<1> DEFINE evt == Head(evt_queue)
<1>1. /\ smPc = "wait" /\ cmd_sem > 0 /\ cmd_sem' = cmd_sem - 1 /\ evt_queue # << >>
      /\ evt_queue' = Tail(evt_queue) /\ HandleEvt(evt)
      /\ UNCHANGED <<api_queue, callVars, workerPc, strays, notifyPc, jpegs, metaPc, dtorPc,
                     unanswered>>
  BY DEF SmEvt, Wait, dtorVars, otherVars
<1>2. evt_queue' \in Seq(Events) /\ Len(evt_queue') = Len(evt_queue) - 1
  BY <1>0, <1>1, CountDequeue DEF ApiTypeOK
<1> HIDE DEF evt
<1>3. ApiTypeOK'
  <2>1. [api |-> "PREPARE", by |-> "event"] \in ApiCmd
    BY DEF ApiCmd, Apis
  <2>2. /\ smPc' \in {"wait", "signal", "signalEvt", "exited"} /\ smResult' \in ApiCmd
        /\ m_state' \in {"PREVIEWING", "PREPARE_SNAPSHOT", "PIC_TAKING"}
    BY <1>0, <1>1, <2>1 DEF HandleEvt, ApiTypeOK
  <2> QED BY <2>2, <1>0, <1>1, <1>2 DEF ApiTypeOK, callVars
<1>4. Called' = Called /\ \A api : WaitingFor(api)' = WaitingFor(api)
  BY <1>1 DEF Called, WaitingFor, callVars
<1>5. WakesFindWork'
  BY <1>0, <1>1, <1>2, <1>4, WakesByCalled, CallersCounted, LengthsCounted
     DEF ApiIndInv, ApiTypeOK, OneIf
<1>6. AnswersAccounted'
  <2>1. ASSUME NEW api \in Apis, Balance(api) PROVE Balance(api)'
    <3>1. /\ Results(api)' = Results(api) /\ Commands(api)' = Commands(api)
          /\ Results(api) \in Nat /\ Commands(api) \in Nat
      BY <1>0, <1>1, BooksByCount DEF Results, Commands, callVars, ApiTypeOK
    <3>2. InSm(api)' = InSm(api)
      BY <1>0, <1>1 DEF HandleEvt, InSm, OneIf, ApiTypeOK
    <3>3. Owed(api)' = Owed(api)
      BY <3>1, <3>2, <1>0, OwedParts
    <3> QED BY <2>1, <3>3, <1>1, <1>4 DEF Balance
  <2> QED BY <2>1, <1>1, BooksKept
<1> QED BY <1>3, <1>5, <1>6 DEF ApiIndInv

\* Every step of every thread keeps the invariant.
LEMMA ApiInductive == ApiIndInv /\ [ApiNext]_apiVars => ApiIndInv'
<1> SUFFICES ASSUME ApiIndInv, [ApiNext]_apiVars PROVE ApiIndInv'
  OBVIOUS
<1>1. CASE UNCHANGED apiVars
  <2>1. ApiTypeOK'
    BY <1>1 DEF ApiIndInv, ApiTypeOK, apiVars
  <2>2. UNCHANGED <<api_queue, callVars, smVars, strays, workerPc, dtorPc, evt_queue, cmd_sem,
                    metaPc, notifyPc>>
    BY <1>1 DEF apiVars, callVars, smVars
  <2>3. Called' = Called /\ AnswersAccounted'
    BY <2>2, QuietFrame
  <2>4. WakesFindWork'
    BY <2>2, <2>3, WakesByCalled DEF ApiIndInv
  <2> QED BY <2>1, <2>3, <2>4 DEF ApiIndInv
<1> QED BY <1>1, CallStep, PostAndWaitStep, SleepAgainStep, TakeResultStep, StrayCheckStep,
           StrayEnqueueStep, EventEnqueueStep, PostStep, ExitEnqueueStep, CloseCameraStep,
           SignalEvtStep, SignalStep, SmApiStep, SmEvtStep DEF ApiNext

\* The invariant of the calls holds in every behaviour of the camera's parts.
THEOREM ApiInvariance == FairSpec => []ApiIndInv
<1>1. Init => ApiIndInv
  BY ApiInitInv DEF Init
<1>2. ApiIndInv /\ [Next]_serviceVars => ApiIndInv'
  BY ApiInductive DEF Next, ApiMoves, NotifierMoves, PostProcMoves, HAL3on1Moves, serviceVars
<1> QED BY <1>1, <1>2, PTL DEF FairSpec

\* Every wake-up of smEvtProcRoutine finds a command and every command is
\* announced, for any number of callers.
THEOREM WakeUpsFindWork == FairSpec => []WakesFindWork
<1>1. ApiIndInv => WakesFindWork
  BY DEF ApiIndInv
<1> QED BY <1>1, ApiInvariance, PTL

\* The answers on their way are the ones that are waited for, for any number
\* of callers and of commands nobody waits for.
THEOREM AnswersMatchCalls == FairSpec => []AnswersAccounted
<1>1. ApiIndInv => AnswersAccounted
  BY DEF ApiIndInv
<1> QED BY <1>1, ApiInvariance, PTL
=============================================================================
