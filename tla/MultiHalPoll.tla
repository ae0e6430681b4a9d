---------------------------- MODULE MultiHalPoll ----------------------------
(***************************************************************************)
(* The event path of the sensors multi-HAL (hidl/sensors/multihal.cpp):    *)
(* one writerTask thread per opened sub-HAL polls its device straight into *)
(* its own SensorEventQueue, and one client thread drains all the queues   *)
(* through sensors_poll_context_t::poll.                                   *)
(*                                                                         *)
(* All queues share queue_mutex.  A writer's two critical sections are     *)
(* short and are one action each; the client's scan is one action per loop *)
(* iteration and holds the mutex throughout, that is while pollPc =        *)
(* "scan".  The device writes into the ring WITHOUT the mutex, one record  *)
(* per step, so it interleaves with the scan.                              *)
(***************************************************************************)
EXTENDS Integers, Sequences, SensorEventQueue

CONSTANTS
  NumQueues,        \* number of sub-HAL devices, queues and writer threads
  EventTypes,       \* kinds of event a sub-HAL reports
  LocalHandles,     \* sensor handles a sub-HAL may put in an event
  full_to_global,   \* map <<module index, local handle>> -> global handle
  MaxReads          \* largest event count a client asks poll() for

ASSUME NumQueuesAssumption == NumQueues \in Nat \ {0}
ASSUME MaxReadsAssumption  == MaxReads \in Nat \ {0}
ASSUME EventTypesAssumption == EventTypes \subseteq {"reading", "meta"}
ASSUME HandleMapAssumption ==
  /\ DOMAIN full_to_global \subseteq (0 .. NumQueues - 1) \X LocalHandles
  /\ \A fh \in DOMAIN full_to_global : full_to_global[fh] \in Nat \ {0}

Queues == 0 .. NumQueues - 1

\* An event: a reading carries its local handle in "sensor", a META_DATA
\* event carries it in the nested meta_data.sensor (its own sensor is 0).
Events == [type : EventTypes, handle : LocalHandles]

\* What the client receives: the handle is now global, or -1.
GlobalHandles   == {full_to_global[fh] : fh \in DOMAIN full_to_global}
DeliveredEvents ==
  [type : EventTypes, handle : GlobalHandles \cup {-1}, from : Queues]

VARIABLES
  mStart, mSize,      \* per queue: the ring's indices
  mData,              \* per queue: the ring's slots
  writerPc,           \* per writer: where the thread is
  first, bufferSize,  \* per writer: region got from getWritableRegion
  written,            \* per writer: records put into the region so far
  pollPc,             \* where the client thread is
  maxReads, empties,  \* poll()'s parameter and loop counter
  data,               \* poll()'s output buffer, up to eventsRead
  nextReadIndex,      \* next queue to read
  waiting_for_data,   \* the flag writers test before broadcasting
  bypassed            \* history: reads of other queues while one had data

queueVars  == <<mStart, mSize, mData>>
writerVars == <<writerPc, first, bufferSize, written>>
pollVars   == <<pollPc, maxReads, empties, data, nextReadIndex,
                waiting_for_data, bypassed>>
vars       == <<queueVars, writerVars, pollVars>>

WriterPcs == {"lock", "waitSpace", "poll", "polled"}
PollPcs   == {"idle", "scan", "waitData", "woken"}

NoEvent == [type |-> "none", handle |-> "none"]   \* slot never written

eventsRead == Len(data)

\* queue_mutex is free for a writer: the scan is the only critical section
\* that spans several steps.
MutexFree == pollPc # "scan"
-----------------------------------------------------------------------------
\* State after open_sensors has called addSubHwDevice for every sub-HAL.
Init ==
  /\ mStart = [m \in Queues |-> 0]
  /\ mSize  = [m \in Queues |-> 0]
  /\ mData  = [m \in Queues |-> [s \in Slots |-> NoEvent]]
  /\ writerPc   = [m \in Queues |-> "lock"]
  /\ first      = [m \in Queues |-> 0]
  /\ bufferSize = [m \in Queues |-> 0]
  /\ written    = [m \in Queues |-> 0]
  /\ pollPc = "idle"
  /\ maxReads = 1
  /\ empties = 0
  /\ data = << >>
  /\ nextReadIndex = 0
  /\ waiting_for_data = FALSE
  /\ bypassed = [m \in Queues |-> 0]
-----------------------------------------------------------------------------
(* The writer thread of sub-HAL m: writerTask.                             *)

\* Lock, find space at once (or after a wait), take a region, unlock.
AcquireRegion(m) ==
  /\ writerPc[m] = "lock"
  /\ MutexFree
  /\ mSize[m] # Capacity
  /\ first' = [first EXCEPT ![m] = FirstWritable(mStart[m], mSize[m])]
  /\ bufferSize' =
       [bufferSize EXCEPT ![m] = WritableLength(mStart[m], mSize[m], Capacity)]
  /\ writerPc' = [writerPc EXCEPT ![m] = "poll"]
  /\ UNCHANGED <<queueVars, written, pollVars>>

\* waitForSpace: the queue is full, so sleep and release the mutex.
WaitForSpace(m) ==
  /\ writerPc[m] = "lock"
  /\ MutexFree
  /\ mSize[m] = Capacity
  /\ writerPc' = [writerPc EXCEPT ![m] = "waitSpace"]
  /\ UNCHANGED <<queueVars, first, bufferSize, written, pollVars>>

\* pthread_cond_wait may return without a broadcast; the loop tests again.
SpuriousSpaceWakeup(m) ==
  /\ writerPc[m] = "waitSpace"
  /\ writerPc' = [writerPc EXCEPT ![m] = "lock"]
  /\ UNCHANGED <<queueVars, first, bufferSize, written, pollVars>>

\* device->poll puts one more record into the region, without the mutex.
DeviceWrite(m) ==
  /\ writerPc[m] = "poll"
  /\ written[m] < bufferSize[m]
  /\ \E e \in Events :
       mData' = [mData EXCEPT ![m][first[m] + written[m]] = e]
  /\ written' = [written EXCEPT ![m] = @ + 1]
  /\ UNCHANGED <<mStart, mSize, writerPc, first, bufferSize, pollVars>>

\* device->poll returns the number of records it wrote.
DevicePolled(m) ==
  /\ writerPc[m] = "poll"
  /\ written[m] > 0
  /\ writerPc' = [writerPc EXCEPT ![m] = "polled"]
  /\ UNCHANGED <<queueVars, first, bufferSize, written, pollVars>>

\* The loop starts over: its locals no longer matter.
ForgetRegion(m) ==
  /\ first' = [first EXCEPT ![m] = 0]
  /\ bufferSize' = [bufferSize EXCEPT ![m] = 0]
  /\ written' = [written EXCEPT ![m] = 0]

\* device->poll returns zero or an error: whatever it wrote is ignored.
DevicePollFailed(m) ==
  /\ writerPc[m] = "poll"
  /\ writerPc' = [writerPc EXCEPT ![m] = "lock"]
  /\ ForgetRegion(m)
  /\ UNCHANGED <<queueVars, pollVars>>

\* Mutant: the whole region is counted, not what poll() returned.
MarkWholeRegion(m) ==
  /\ writerPc[m] = "polled"
  /\ MutexFree
  /\ mSize' = [mSize EXCEPT ![m] = SizeAfterWrite(@, bufferSize[m])]
  /\ pollPc' = IF waiting_for_data /\ pollPc = "waitData"
               THEN "woken" ELSE pollPc
  /\ writerPc' = [writerPc EXCEPT ![m] = "lock"]
  /\ ForgetRegion(m)
  /\ UNCHANGED <<mStart, mData, maxReads, empties, data,
                 nextReadIndex, waiting_for_data, bypassed>>

\* Mutant: the sleeping client is not woken.
MarkWithoutBroadcast(m) ==
  /\ writerPc[m] = "polled"
  /\ MutexFree
  /\ mSize' = [mSize EXCEPT ![m] = SizeAfterWrite(@, written[m])]
  /\ writerPc' = [writerPc EXCEPT ![m] = "lock"]
  /\ ForgetRegion(m)
  /\ UNCHANGED <<mStart, mData, pollVars>>

\* Lock, markAsWritten, wake the client if it waits, unlock.
MarkAsWritten(m) ==
  /\ writerPc[m] = "polled"
  /\ MutexFree
  /\ mSize' = [mSize EXCEPT ![m] = SizeAfterWrite(@, written[m])]
  /\ pollPc' = IF waiting_for_data /\ pollPc = "waitData"
               THEN "woken" ELSE pollPc
  /\ writerPc' = [writerPc EXCEPT ![m] = "lock"]
  /\ ForgetRegion(m)
  /\ UNCHANGED <<mStart, mData, maxReads, empties, data,
                 nextReadIndex, waiting_for_data, bypassed>>
-----------------------------------------------------------------------------
(* The client thread: sensors_poll_context_t::poll.                        *)

\* Mutant: every call starts at the first queue again.
PollEnterAtFirstQueue ==
  /\ pollPc = "idle"
  /\ \E n \in 1 .. MaxReads : maxReads' = n
  /\ empties' = 0
  /\ data' = << >>
  /\ nextReadIndex' = 0
  /\ pollPc' = "scan"
  /\ UNCHANGED <<queueVars, writerVars, waiting_for_data, bypassed>>

\* The client calls poll(data, n) and gets the mutex.
PollEnter ==
  /\ pollPc = "idle"
  /\ \E n \in 1 .. MaxReads : maxReads' = n
  /\ empties' = 0
  /\ data' = << >>
  /\ pollPc' = "scan"
  /\ UNCHANGED <<queueVars, writerVars, nextReadIndex, waiting_for_data,
                 bypassed>>

\* Condition of the inner while loop.
Scanning == pollPc = "scan" /\ empties < NumQueues /\ eventsRead < maxReads

AdvanceReadIndex == (nextReadIndex + 1) % NumQueues

\* The next queue has nothing to read.
ScanEmpty ==
  /\ Scanning
  /\ mSize[nextReadIndex] = 0
  /\ empties' = empties + 1
  /\ nextReadIndex' = AdvanceReadIndex
  /\ UNCHANGED <<queueVars, writerVars, pollPc, maxReads, data,
                 waiting_for_data, bypassed>>

\* get_global_handle
get_global_handle(m, h) ==
  IF <<m, h>> \in DOMAIN full_to_global THEN full_to_global[<<m, h>>] ELSE -1

\* copy_event_remap_handle: the local handle of a reading, or the one inside
\* a META_DATA event, becomes a global handle.
copy_event_remap_handle(e, m) ==
  [type |-> e.type, handle |-> get_global_handle(m, e.handle), from |-> m]

\* Mutant: the handle is not tested at all.
NoHandleTest(d) == FALSE

\* poll() tests data[eventsRead].sensor, which is 0 in a META_DATA event.
BadHandle(d) == d.type = "reading" /\ d.handle = -1

Record(d) == IF BadHandle(d) THEN data ELSE Append(data, d)

\* History: every other queue that has data has been bypassed once more.
CountBypass(m) ==
  [k \in Queues |-> IF k # m /\ mSize[k] > 0 THEN bypassed[k] + 1
                    ELSE IF k = m THEN 0 ELSE bypassed[k]]

\* The next queue has an event: copy it out (or drop it) and dequeue it,
\* which wakes the writer if the queue was full.
ScanTake ==
  /\ Scanning
  /\ mSize[nextReadIndex] > 0
  /\ LET m == nextReadIndex
     IN  /\ data' = Record(copy_event_remap_handle(mData[m][mStart[m]], m))
         /\ mSize'  = [mSize  EXCEPT ![m] = SizeAfterDequeue(@)]
         /\ mStart' = [mStart EXCEPT ![m] = StartAfterDequeue(@)]
         /\ writerPc' =
              IF DequeueBroadcasts(mSize[m]) /\ writerPc[m] = "waitSpace"
              THEN [writerPc EXCEPT ![m] = "lock"] ELSE writerPc
         /\ bypassed' = CountBypass(m)
  /\ empties' = 0
  /\ nextReadIndex' = AdvanceReadIndex
  /\ UNCHANGED <<mData, first, bufferSize, written, pollPc, maxReads,
                 waiting_for_data>>

ScanDone == pollPc = "scan" /\ ~(empties < NumQueues /\ eventsRead < maxReads)

\* Nothing to return: sleep on data_available_cond.
PollWait ==
  /\ ScanDone
  /\ eventsRead = 0
  /\ waiting_for_data' = TRUE
  /\ pollPc' = "waitData"
  /\ UNCHANGED <<queueVars, writerVars, maxReads, empties, data,
                 nextReadIndex, bypassed>>

SpuriousDataWakeup ==
  /\ pollPc = "waitData"
  /\ pollPc' = "woken"
  /\ UNCHANGED <<queueVars, writerVars, maxReads, empties, data,
                 nextReadIndex, waiting_for_data, bypassed>>

\* pthread_cond_wait has the mutex again: start a new scan.
PollResume ==
  /\ pollPc = "woken"
  /\ waiting_for_data' = FALSE
  /\ empties' = 0
  /\ pollPc' = "scan"
  /\ UNCHANGED <<queueVars, writerVars, maxReads, data, nextReadIndex, bypassed>>

\* Unlock and return eventsRead events.
PollReturn ==
  /\ ScanDone
  /\ eventsRead > 0
  /\ pollPc' = "idle"
  /\ UNCHANGED <<queueVars, writerVars, maxReads, empties, data,
                 nextReadIndex, waiting_for_data, bypassed>>
-----------------------------------------------------------------------------
Writer(m) ==
  \/ AcquireRegion(m)
  \/ WaitForSpace(m)
  \/ SpuriousSpaceWakeup(m)
  \/ DeviceWrite(m)
  \/ DevicePolled(m)
  \/ DevicePollFailed(m)
  \/ MarkAsWritten(m)

Poller ==
  \/ PollEnter
  \/ ScanEmpty
  \/ ScanTake
  \/ PollWait
  \/ SpuriousDataWakeup
  \/ PollResume
  \/ PollReturn

Next == Poller \/ \E m \in Queues : Writer(m)

Spec == Init /\ [][Next]_vars

(***************************************************************************)
(* Fairness.  The client polls for ever (SensorService's loop over         *)
(* Sensors::poll) and its thread keeps running.  A writer contends for     *)
(* queue_mutex, which is free again and again, so it is granted strongly.  *)
(* Nothing is assumed of the devices, nor of spurious wakeups.             *)
(***************************************************************************)
Fairness ==
  /\ WF_vars(PollEnter \/ ScanEmpty \/ ScanTake \/ PollWait \/ PollResume
             \/ PollReturn)
  /\ \A m \in Queues : SF_vars(AcquireRegion(m)) /\ SF_vars(MarkAsWritten(m))

FairSpec == Spec /\ Fairness
-----------------------------------------------------------------------------
(* Properties.                                                             *)

\* Type invariant of the two kinds of thread and of the rings.
TypeOK ==
  /\ mStart \in [Queues -> Slots]
  /\ mSize  \in [Queues -> 0 .. Capacity]
  /\ mData  \in [Queues -> [Slots -> Events \cup {NoEvent}]]
  /\ writerPc   \in [Queues -> WriterPcs]
  /\ first      \in [Queues -> Slots]
  /\ bufferSize \in [Queues -> 0 .. Capacity]
  /\ written    \in [Queues -> 0 .. Capacity]
  /\ pollPc \in PollPcs
  /\ maxReads \in 1 .. MaxReads
  /\ empties \in 0 .. NumQueues
  /\ data \in Seq(DeliveredEvents)
  /\ nextReadIndex \in Queues
  /\ waiting_for_data \in BOOLEAN
  /\ bypassed \in [Queues -> Nat]

\* The slots a writer's device may store into at this moment.
Region(m) == first[m] .. first[m] + bufferSize[m] - 1

\* The header's thread-safety claim: while poll() writes without the mutex,
\* the slots it owns lie inside the array and are never slots the client may
\* read, whatever the client dequeues meanwhile.
WriterRegionPrivate ==
  \A m \in Queues :
    writerPc[m] \in {"poll", "polled"} =>
      /\ Region(m) \subseteq Slots
      /\ Region(m) \cap Readable(mStart[m], mSize[m]) = {}

\* getWritableRegion never hands poll() an empty buffer (a zero count makes
\* a sub-HAL return at once and the writer spin), and what poll() wrote
\* always still fits when it is counted, possibly much later.
RegionFitsQueue ==
  \A m \in Queues :
    writerPc[m] \in {"poll", "polled"} =>
      /\ bufferSize[m] > 0
      /\ mSize[m] + bufferSize[m] <= Capacity

\* No lost wakeup: a writer sleeps only while its queue is full, and the
\* client only while waiting_for_data is up and every queue is empty.
NoLostWakeup ==
  /\ \A m \in Queues : writerPc[m] = "waitSpace" => mSize[m] = Capacity
  /\ pollPc = "waitData" =>
       waiting_for_data /\ \A m \in Queues : mSize[m] = 0

\* Round robin: nextReadIndex survives from one poll() call to the next, so
\* a queue with data is passed over at most once for each other queue, even
\* when the client asks for one event at a time.
BoundedBypass == \A m \in Queues : bypassed[m] <= NumQueues - 1

\* copy_event_remap_handle and the test behind it keep a reading of an
\* unregistered sensor away from the client, and the client never learns a
\* handle that belongs to a sensor of another sub-HAL.
ReadingsHaveOwnHandle ==
  \A i \in 1 .. Len(data) :
    data[i].type = "reading" =>
      \E h \in LocalHandles :
        /\ <<data[i].from, h>> \in DOMAIN full_to_global
        /\ data[i].handle = full_to_global[<<data[i].from, h>>]

\* "Bad handle, do not pass corrupted event upstream !": no event at all
\* reaches the client with the handle -1.
NoCorruptedEventUpstream == \A i \in 1 .. Len(data) : data[i].handle # -1

\* A writer blocked on a full queue gets to poll its device again.
BlockedWriterProceeds ==
  \A m \in Queues : writerPc[m] = "waitSpace" ~> writerPc[m] = "poll"

\* Every event counted into a queue is read by the client in the end: the
\* head of a non-empty queue does not stay where it is.
EventsAreConsumed ==
  \A m \in Queues : \A s \in Slots :
    (mSize[m] > 0 /\ mStart[m] = s) ~> (mStart[m] # s)
-----------------------------------------------------------------------------
(* The inductive invariant behind the safety properties.                   *)

\* A writer's region starts right behind the readable records and stays
\* there while the client dequeues; it neither wraps nor exceeds the space.
RegionInv ==
  \A m \in Queues :
    writerPc[m] \in {"poll", "polled"} =>
      /\ first[m] = Wrap(mStart[m] + mSize[m])
      /\ bufferSize[m] > 0
      /\ first[m] + bufferSize[m] <= Capacity
      /\ mSize[m] + bufferSize[m] <= Capacity
      /\ written[m] <= bufferSize[m]

\* Readable slots, and slots the device has filled, hold real events.
SlotsInv ==
  \A m \in Queues :
    /\ \A i \in 0 .. mSize[m] - 1 :
         mData[m][Wrap(mStart[m] + i)] \in Events
    /\ writerPc[m] \in {"poll", "polled"} =>
         \A j \in 0 .. written[m] - 1 : mData[m][first[m] + j] \in Events
    /\ writerPc[m] \in {"lock", "waitSpace"} => written[m] = 0

\* How many queues ago, and in how many queues' time, nextReadIndex is m.
Behind(m) == IF m < nextReadIndex THEN nextReadIndex - m
             ELSE nextReadIndex + NumQueues - m
Ahead(m)  == IF m >= nextReadIndex THEN m - nextReadIndex
             ELSE m + NumQueues - nextReadIndex

\* The queues counted in "empties" are still empty: the mutex is held.
ScanInv ==
  /\ pollPc = "scan" =>
       \A m \in Queues : Behind(m) <= empties => mSize[m] = 0
  /\ pollPc \in {"waitData", "woken"} => waiting_for_data

\* A queue's turn is the nearer the more often it was passed over.
BypassInv ==
  \A m \in Queues :
    /\ bypassed[m] <= NumQueues - 1 - Ahead(m)
    /\ mSize[m] = 0 => bypassed[m] = 0

IndInv ==
  /\ TypeOK
  /\ RegionInv
  /\ SlotsInv
  /\ ScanInv
  /\ NoLostWakeup
  /\ BypassInv
  /\ ReadingsHaveOwnHandle
-----------------------------------------------------------------------------
(* Refinement: the rings implement bounded FIFO channels.                  *)

Contents(m) == [i \in 1 .. mSize[m] |-> mData[m][Wrap(mStart[m] + i - 1)]]

Channel == INSTANCE SensorChannel WITH
  Sources   <- Queues,
  Items     <- Events,
  Bound     <- Capacity,
  Translate <- copy_event_remap_handle,
  Dropped   <- BadHandle,
  chan      <- [m \in Queues |-> Contents(m)],
  batch     <- data,
  polling   <- pollPc # "idle"

\* The threads and rings together behave as SensorChannel: nothing lost,
\* duplicated, reordered or overwritten between poll() calls of sub-HALs and
\* the client's poll().
ImplementsChannel == Channel!AbsSpec
=============================================================================
