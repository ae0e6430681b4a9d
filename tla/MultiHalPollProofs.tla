------------------------- MODULE MultiHalPollProofs -------------------------
(***************************************************************************)
(* Proofs about MultiHalPoll for every queue capacity, every number of     *)
(* sub-HALs, every set of handles and every handle map.                    *)
(***************************************************************************)
EXTENDS MultiHalPoll, SequenceTheorems, TLAPS

\* An index inside the array does not wrap.
LEMMA ModBelow ==
  ASSUME NEW n \in Nat \ {0}, NEW a \in 0 .. n - 1
  PROVE  a % n = a
  OBVIOUS

\* An index at most one array length beyond the end wraps once.
LEMMA ModOnce ==
  ASSUME NEW n \in Nat \ {0}, NEW a \in n .. 2 * n - 1
  PROVE  a % n = a - n
  OBVIOUS

\* Wrap on the indices the code forms, by linear arithmetic only.
LEMMA WrapValue ==
  ASSUME NEW a \in 0 .. 2 * Capacity - 1
  PROVE  Wrap(a) = IF a < Capacity THEN a ELSE a - Capacity
  BY CapacityAssumption, ModBelow, ModOnce DEF Wrap

\* The same on a sum of a slot and an offset.
LEMMA WrapSum ==
  ASSUME NEW a \in Slots, NEW b \in 0 .. Capacity
  PROVE  Wrap(a + b) = IF a + b < Capacity THEN a + b ELSE a + b - Capacity
<1>1. a + b \in 0 .. 2 * Capacity - 1
  BY CapacityAssumption DEF Slots
<1> QED BY <1>1, WrapValue, CapacityAssumption DEF Slots

\* nextReadIndex advances cyclically.
LEMMA AdvanceValue ==
  ASSUME nextReadIndex \in Queues
  PROVE  /\ AdvanceReadIndex \in Queues
         /\ AdvanceReadIndex = IF nextReadIndex = NumQueues - 1 THEN 0
                               ELSE nextReadIndex + 1
<1>1. CASE nextReadIndex = NumQueues - 1
  <2>1. (nextReadIndex + 1) % NumQueues = 0
    BY <1>1, NumQueuesAssumption, ModOnce DEF Queues
  <2> QED BY <1>1, <2>1, NumQueuesAssumption DEF AdvanceReadIndex, Queues
<1>2. CASE nextReadIndex # NumQueues - 1
  <2>1. (nextReadIndex + 1) % NumQueues = nextReadIndex + 1
    BY <1>2, NumQueuesAssumption, ModBelow DEF Queues
  <2> QED BY <1>2, <2>1, NumQueuesAssumption DEF AdvanceReadIndex, Queues
<1> QED BY <1>1, <1>2

\* getWritableRegion on a queue with room: the region starts behind the
\* readable records, is not empty, does not run past the end of the array
\* and does not exceed the free space.
LEMMA RegionOfQueue ==
  ASSUME NEW start \in Slots, NEW size \in 0 .. Capacity, size # Capacity
  PROVE  LET f == FirstWritable(start, size)
             n == WritableLength(start, size, Capacity)
         IN  /\ f \in Slots
             /\ f = Wrap(start + size)
             /\ n \in 1 .. Capacity
             /\ f + n <= Capacity
             /\ size + n <= Capacity
<1>1. start + size \in 0 .. 2 * Capacity - 1
  BY CapacityAssumption DEF Slots
<1>2. FirstWritable(start, size) =
        IF start + size < Capacity THEN start + size ELSE start + size - Capacity
  BY <1>1, WrapValue, CapacityAssumption DEF FirstWritable, Slots
<1>3. WritableLength(start, size, Capacity) =
        IF start + size < Capacity THEN Capacity - (start + size)
        ELSE Capacity - size
  BY <1>2, CapacityAssumption DEF WritableLength, LastWritable, Slots
<1> QED BY <1>2, <1>3, CapacityAssumption DEF FirstWritable, Slots

\* The initial state satisfies the inductive invariant.
LEMMA InitIndInv == Init => IndInv
<1> SUFFICES ASSUME Init PROVE IndInv
  OBVIOUS
<1> USE DEF Init
<1>0. Capacity \in Nat \ {0} /\ NumQueues \in Nat \ {0} /\ MaxReads \in Nat \ {0}
  BY CapacityAssumption, NumQueuesAssumption, MaxReadsAssumption
<1>1. TypeOK
  <2>1. /\ mStart \in [Queues -> Slots]
        /\ mSize  \in [Queues -> 0 .. Capacity]
        /\ first  \in [Queues -> Slots]
        /\ bufferSize \in [Queues -> 0 .. Capacity]
        /\ written    \in [Queues -> 0 .. Capacity]
    BY <1>0 DEF Slots
  <2>2. mData \in [Queues -> [Slots -> Events \cup {NoEvent}]]
    OBVIOUS
  <2>3. writerPc \in [Queues -> WriterPcs] /\ pollPc \in PollPcs
    BY DEF WriterPcs, PollPcs
  <2>4. /\ maxReads \in 1 .. MaxReads
        /\ empties \in 0 .. NumQueues
        /\ nextReadIndex \in Queues
        /\ bypassed \in [Queues -> Nat]
    BY <1>0 DEF Queues
  <2>5. data \in Seq(DeliveredEvents)
    OBVIOUS
  <2>6. waiting_for_data \in BOOLEAN
    BY Zenon
  <2> QED BY <2>1, <2>2, <2>3, <2>4, <2>5, <2>6 DEF TypeOK
<1>2. RegionInv /\ SlotsInv
  BY <1>0 DEF RegionInv, SlotsInv, Queues
<1>3. ScanInv /\ NoLostWakeup
  BY <1>0 DEF ScanInv, NoLostWakeup, Queues
<1>4. BypassInv
  BY <1>0 DEF BypassInv, Ahead, Queues
<1>5. ReadingsHaveOwnHandle
  BY DEF ReadingsHaveOwnHandle
<1> QED BY <1>1, <1>2, <1>3, <1>4, <1>5 DEF IndInv

\* The constants are positive; used throughout.
LEMMA Constants ==
  /\ Capacity \in Nat /\ Capacity > 0
  /\ NumQueues \in Nat /\ NumQueues > 0
  /\ MaxReads \in Nat /\ MaxReads > 0
  BY CapacityAssumption, NumQueuesAssumption, MaxReadsAssumption

\* Parts of the invariant that only speak of the client are kept by every
\* step that leaves the client's variables and the sizes alone.
LEMMA ClientFrame ==
  ASSUME IndInv, UNCHANGED <<mSize, pollVars>>
  PROVE  ScanInv' /\ BypassInv' /\ ReadingsHaveOwnHandle'
  BY DEF IndInv, ScanInv, BypassInv, ReadingsHaveOwnHandle, Behind, Ahead,
         pollVars

\* Parts that only speak of rings and writers are kept by every step that
\* leaves those alone.
LEMMA RingFrame ==
  ASSUME IndInv, UNCHANGED <<queueVars, writerVars>>
  PROVE  RegionInv' /\ SlotsInv'
  BY DEF IndInv, RegionInv, SlotsInv, queueVars, writerVars

\* writerTask takes a region of a queue that has room.
LEMMA AcquireRegionStep ==
  ASSUME IndInv, NEW m \in Queues, AcquireRegion(m)
  PROVE  IndInv'
<1> USE DEF AcquireRegion, queueVars, pollVars
<1>0. /\ mStart[m] \in Slots /\ mSize[m] \in 0 .. Capacity
      /\ mSize[m] # Capacity /\ written[m] = 0
  BY DEF IndInv, TypeOK, SlotsInv
<1>1. /\ FirstWritable(mStart[m], mSize[m]) \in Slots
      /\ FirstWritable(mStart[m], mSize[m]) = Wrap(mStart[m] + mSize[m])
      /\ WritableLength(mStart[m], mSize[m], Capacity) \in 1 .. Capacity
      /\ FirstWritable(mStart[m], mSize[m])
           + WritableLength(mStart[m], mSize[m], Capacity) <= Capacity
      /\ mSize[m] + WritableLength(mStart[m], mSize[m], Capacity) <= Capacity
  BY <1>0, RegionOfQueue
<1>2. TypeOK'
  BY <1>1, Constants DEF IndInv, TypeOK, WriterPcs
<1>3. RegionInv'
  BY <1>0, <1>1, Constants DEF IndInv, TypeOK, RegionInv
<1>4. SlotsInv'
  BY <1>0, Constants DEF IndInv, TypeOK, SlotsInv
<1>5. NoLostWakeup'
  BY DEF IndInv, TypeOK, NoLostWakeup
<1> QED BY <1>2, <1>3, <1>4, <1>5, ClientFrame DEF IndInv

\* writerTask goes to sleep, or wakes for no reason.
LEMMA WaitForSpaceStep ==
  ASSUME IndInv, NEW m \in Queues, WaitForSpace(m) \/ SpuriousSpaceWakeup(m)
  PROVE  IndInv'
<1> USE DEF WaitForSpace, SpuriousSpaceWakeup, queueVars, pollVars
<1>1. TypeOK'
  BY DEF IndInv, TypeOK, WriterPcs
<1>2. RegionInv'
  BY DEF IndInv, TypeOK, RegionInv
<1>3. SlotsInv'
  BY DEF IndInv, TypeOK, SlotsInv
<1>4. NoLostWakeup'
  BY DEF IndInv, TypeOK, NoLostWakeup
<1> QED BY <1>1, <1>2, <1>3, <1>4, ClientFrame DEF IndInv

\* The device stores a record into the region, whatever the client does.
LEMMA DeviceWriteStep ==
  ASSUME IndInv, NEW m \in Queues, DeviceWrite(m)
  PROVE  IndInv'
<1> USE DEF DeviceWrite, pollVars
<1>0. PICK e \in Events :
        mData' = [mData EXCEPT ![m][first[m] + written[m]] = e]
  OBVIOUS
<1>1. /\ first[m] \in Slots /\ bufferSize[m] \in 0 .. Capacity
      /\ written[m] \in 0 .. Capacity /\ written[m] < bufferSize[m]
      /\ first[m] + bufferSize[m] <= Capacity
  BY DEF IndInv, TypeOK, RegionInv
<1>2. first[m] + written[m] \in Slots
  BY <1>1, Constants DEF Slots
<1>3. mData' \in [Queues -> [Slots -> Events \cup {NoEvent}]]
  BY <1>0, <1>2 DEF IndInv, TypeOK
<1>4. TypeOK'
  <2>1. written' \in [Queues -> 0 .. Capacity]
    BY <1>1, Constants DEF IndInv, TypeOK
  <2> QED BY <1>3, <2>1 DEF IndInv, TypeOK
<1>5. RegionInv'
  BY <1>1, Constants DEF IndInv, TypeOK, RegionInv
<1>6. SlotsInv'
  <2>1. \A k \in Queues, s \in Slots :
          mData'[k][s] = IF k = m /\ s = first[m] + written[m]
                         THEN e ELSE mData[k][s]
    BY <1>0, <1>2 DEF IndInv, TypeOK
  <2>2. ASSUME NEW k \in Queues, NEW i \in 0 .. mSize[k] - 1
        PROVE  Wrap(mStart[k] + i) \in Slots
    <3>1. mStart[k] \in Slots /\ mSize[k] \in 0 .. Capacity
      BY DEF IndInv, TypeOK
    <3>2. mStart[k] + i \in 0 .. 2 * Capacity - 1
      BY <3>1, Constants DEF Slots
    <3> QED BY <3>2, WrapValue, Constants DEF Slots
  <2>3. ASSUME NEW k \in Queues, NEW i \in 0 .. mSize[k] - 1
        PROVE  mData'[k][Wrap(mStart[k] + i)] \in Events
    BY <2>1, <2>2 DEF IndInv, SlotsInv
  <2>4. ASSUME NEW k \in Queues, writerPc[k] \in {"poll", "polled"},
               NEW j \in 0 .. written'[k] - 1
        PROVE  mData'[k][first[k] + j] \in Events
    <3>0. /\ first[k] \in Slots /\ bufferSize[k] \in 0 .. Capacity
          /\ written'[k] \in 0 .. Capacity /\ written'[k] <= bufferSize[k]
          /\ first[k] + bufferSize[k] <= Capacity
      BY <2>4, <1>4, <1>5 DEF TypeOK, RegionInv
    <3>1. first[k] + j \in Slots
      BY <3>0, Constants DEF Slots
    <3>2. CASE k = m /\ j = written[m]
      BY <2>1, <3>1, <3>2
    <3>3. CASE ~(k = m /\ j = written[m])
      <4>1. j \in 0 .. written[k] - 1
        BY <3>3, <1>1, Constants DEF IndInv, TypeOK
      <4>2. mData[k][first[k] + j] \in Events
        BY <2>4, <4>1 DEF IndInv, SlotsInv
      <4> QED BY <2>1, <3>1, <4>2
    <3> QED BY <3>2, <3>3
  <2>5. ASSUME NEW k \in Queues, writerPc[k] \in {"lock", "waitSpace"}
        PROVE  written'[k] = 0
    BY <2>5 DEF IndInv, TypeOK, SlotsInv
  <2> QED BY <2>3, <2>4, <2>5 DEF SlotsInv
<1>7. NoLostWakeup'
  BY DEF IndInv, NoLostWakeup
<1> QED BY <1>4, <1>5, <1>6, <1>7, ClientFrame DEF IndInv

\* device->poll returns with records or without any.
LEMMA DeviceReturnStep ==
  ASSUME IndInv, NEW m \in Queues, DevicePolled(m) \/ DevicePollFailed(m)
  PROVE  IndInv'
<1> USE DEF DevicePolled, DevicePollFailed, ForgetRegion, queueVars, pollVars
<1>1. TypeOK'
  <2>1. 0 \in Slots /\ 0 \in 0 .. Capacity
    BY Constants DEF Slots
  <2>2. writerPc' \in [Queues -> WriterPcs]
    BY DEF IndInv, TypeOK, WriterPcs
  <2>3. /\ first' \in [Queues -> Slots]
        /\ bufferSize' \in [Queues -> 0 .. Capacity]
        /\ written' \in [Queues -> 0 .. Capacity]
    <3>1. CASE DevicePolled(m)
      BY <3>1 DEF IndInv, TypeOK
    <3>2. CASE DevicePollFailed(m)
      BY <3>2, <2>1 DEF IndInv, TypeOK
    <3> QED BY <3>1, <3>2
  <2> QED BY <2>2, <2>3 DEF IndInv, TypeOK
<1>2. RegionInv'
  BY DEF IndInv, TypeOK, RegionInv
<1>3. SlotsInv'
  BY DEF IndInv, TypeOK, SlotsInv
<1>4. NoLostWakeup'
  BY DEF IndInv, TypeOK, NoLostWakeup
<1> QED BY <1>1, <1>2, <1>3, <1>4, ClientFrame DEF IndInv

\* Parts that MarkAsWritten and the scan share: how Wrap sees the records
\* behind the readable ones.
LEMMA NewRecordsAreRegion ==
  ASSUME NEW start \in Slots, NEW size \in 0 .. Capacity,
         NEW n \in 0 .. Capacity, NEW i \in size .. size + n - 1,
         size + n <= Capacity, Wrap(start + size) + n <= Capacity
  PROVE  Wrap(start + i) = Wrap(start + size) + (i - size)
<1>1. /\ start + size \in 0 .. 2 * Capacity - 1
      /\ start + i \in 0 .. 2 * Capacity - 1
  BY Constants DEF Slots
<1>2. /\ Wrap(start + size) = IF start + size < Capacity THEN start + size
                              ELSE start + size - Capacity
      /\ Wrap(start + i) = IF start + i < Capacity THEN start + i
                           ELSE start + i - Capacity
  BY <1>1, WrapValue, Constants DEF Slots
<1> QED BY <1>2, Constants DEF Slots

\* writerTask counts the batch and wakes the client.
LEMMA MarkAsWrittenStep ==
  ASSUME IndInv, NEW m \in Queues, MarkAsWritten(m)
  PROVE  IndInv'
<1> USE DEF MarkAsWritten, ForgetRegion, SizeAfterWrite, MutexFree
<1>1. /\ mStart[m] \in Slots /\ mSize[m] \in 0 .. Capacity
      /\ written[m] \in 0 .. Capacity /\ bufferSize[m] \in 0 .. Capacity
      /\ first[m] \in Slots
      /\ first[m] = Wrap(mStart[m] + mSize[m])
      /\ written[m] <= bufferSize[m]
      /\ first[m] + bufferSize[m] <= Capacity
      /\ mSize[m] + bufferSize[m] <= Capacity
  BY DEF IndInv, TypeOK, RegionInv
<1>2. mSize[m] + written[m] \in 0 .. Capacity
  BY <1>1, Constants
<1>3. TypeOK'
  <2>1. 0 \in Slots /\ 0 \in 0 .. Capacity
    BY Constants DEF Slots
  <2> QED BY <1>2, <2>1 DEF IndInv, TypeOK, WriterPcs, PollPcs
<1>4. RegionInv'
  BY DEF IndInv, TypeOK, RegionInv
<1>5. SlotsInv'
  <2>1. ASSUME NEW i \in 0 .. mSize[m] + written[m] - 1
        PROVE  mData[m][Wrap(mStart[m] + i)] \in Events
    <3>1. CASE i < mSize[m]
      BY <1>1, <3>1 DEF IndInv, SlotsInv
    <3>2. CASE i >= mSize[m]
      <4>1. i \in mSize[m] .. mSize[m] + written[m] - 1
        BY <1>1, <3>2, Constants
      <4>2. /\ mSize[m] + written[m] <= Capacity
            /\ Wrap(mStart[m] + mSize[m]) + written[m] <= Capacity
        BY <1>1, Constants DEF Slots
      <4>3. Wrap(mStart[m] + i) = first[m] + (i - mSize[m])
        BY <1>1, <4>1, <4>2, NewRecordsAreRegion
      <4>4. i - mSize[m] \in 0 .. written[m] - 1
        BY <1>1, <4>1, Constants
      <4> QED BY <4>3, <4>4 DEF IndInv, SlotsInv
    <3> QED BY <1>1, <3>1, <3>2
  <2> QED BY <2>1 DEF IndInv, TypeOK, SlotsInv
<1>6. NoLostWakeup'
  <2>1. pollPc' # "waitData"
    BY DEF IndInv, NoLostWakeup
  <2> QED BY <2>1 DEF IndInv, TypeOK, NoLostWakeup
<1>7. ScanInv'
  BY DEF IndInv, TypeOK, ScanInv
<1>8. BypassInv'
  <2>1. \A k \in Queues : mSize'[k] = 0 => mSize[k] = 0
    BY <1>1, Constants DEF IndInv, TypeOK
  <2> QED BY <2>1 DEF IndInv, BypassInv, Ahead
<1>9. ReadingsHaveOwnHandle'
  BY DEF IndInv, ReadingsHaveOwnHandle
<1> QED BY <1>3, <1>4, <1>5, <1>6, <1>7, <1>8, <1>9 DEF IndInv

\* Steps of the client that neither read a queue nor sleep.
LEMMA ClientControlStep ==
  ASSUME IndInv, PollEnter \/ SpuriousDataWakeup \/ PollResume \/ PollReturn
  PROVE  IndInv'
<1> USE DEF PollEnter, SpuriousDataWakeup, PollResume, PollReturn, queueVars,
            writerVars
<1>1. TypeOK'
  <2>1. 0 \in 0 .. NumQueues
    BY Constants
  <2>2. maxReads' \in 1 .. MaxReads /\ empties' \in 0 .. NumQueues
    BY <2>1 DEF IndInv, TypeOK
  <2>3. data' \in Seq(DeliveredEvents)
    <3>1. << >> \in Seq(DeliveredEvents) /\ data \in Seq(DeliveredEvents)
      BY DEF IndInv, TypeOK
    <3> QED BY <3>1
  <2>4. waiting_for_data' \in BOOLEAN
    BY DEF IndInv, TypeOK
  <2>5. pollPc' \in PollPcs
    BY DEF IndInv, TypeOK, PollPcs
  <2> QED BY <2>2, <2>3, <2>4, <2>5 DEF IndInv, TypeOK
<1>2. ScanInv'
  <2>1. nextReadIndex \in Queues /\ nextReadIndex' = nextReadIndex
    BY DEF IndInv, TypeOK
  <2>2. \A k \in Queues : Behind(k)' \in Int /\ Behind(k)' >= 1
    BY <2>1, Constants DEF Behind, Queues
  <2>3. pollPc' = "scan" => empties' = 0
    BY DEF ScanDone
  <2>4. pollPc' = "scan" =>
          \A k \in Queues : Behind(k)' <= empties' => mSize'[k] = 0
    BY <2>2, <2>3
  <2>5. pollPc' \in {"waitData", "woken"} => waiting_for_data'
    BY DEF IndInv, ScanInv, ScanDone
  <2> QED BY <2>4, <2>5 DEF ScanInv
<1>3. NoLostWakeup'
  BY DEF IndInv, NoLostWakeup, ScanDone
<1>4. BypassInv'
  BY DEF IndInv, BypassInv, Ahead
<1>5. ReadingsHaveOwnHandle'
  <2>1. CASE data' = << >>
    BY <2>1 DEF ReadingsHaveOwnHandle
  <2>2. CASE data' = data
    BY <2>2 DEF IndInv, ReadingsHaveOwnHandle
  <2> QED BY <2>1, <2>2
<1> QED BY <1>1, <1>2, <1>3, <1>4, <1>5, RingFrame DEF IndInv

\* The client sleeps only after it has found every queue empty.
LEMMA PollWaitStep ==
  ASSUME IndInv, PollWait
  PROVE  IndInv'
<1> USE DEF PollWait, queueVars, writerVars
<1>1. TypeOK'
  BY DEF IndInv, TypeOK, PollPcs
<1>2. \A k \in Queues : mSize[k] = 0
  <2>1. empties >= NumQueues
    BY Constants DEF IndInv, TypeOK, ScanDone, eventsRead
  <2>2. \A k \in Queues : Behind(k) <= NumQueues
    BY Constants DEF IndInv, TypeOK, Behind, Queues
  <2>3. \A k \in Queues : Behind(k) \in Int
    BY Constants DEF IndInv, TypeOK, Behind, Queues
  <2> QED BY <2>1, <2>2, <2>3, Constants DEF IndInv, TypeOK, ScanInv, ScanDone
<1>3. ScanInv' /\ NoLostWakeup'
  BY <1>2 DEF IndInv, ScanInv, NoLostWakeup
<1>4. BypassInv' /\ ReadingsHaveOwnHandle'
  BY DEF IndInv, BypassInv, Ahead, ReadingsHaveOwnHandle
<1> QED BY <1>1, <1>3, <1>4, RingFrame DEF IndInv

\* Moving nextReadIndex on by one queue: the queue just visited is now one
\* behind, and every other one a step further behind and a step nearer.
LEMMA IndexStep ==
  ASSUME NEW q \in Queues, q = nextReadIndex,
         nextReadIndex' = AdvanceReadIndex
  PROVE  /\ nextReadIndex' \in Queues
         /\ Ahead(q)' = NumQueues - 1
         /\ \A k \in Queues \ {q} :
              /\ Behind(k) \in Int /\ Behind(k)' = Behind(k) + 1
              /\ Ahead(k) \in Int /\ Ahead(k)' = Ahead(k) - 1
<1>1. /\ nextReadIndex' \in Queues
      /\ nextReadIndex' = IF q = NumQueues - 1 THEN 0 ELSE q + 1
  BY AdvanceValue
<1> QED BY <1>1, Constants DEF Behind, Ahead, Queues

\* The scan passes over an empty queue.
LEMMA ScanEmptyStep ==
  ASSUME IndInv, ScanEmpty
  PROVE  IndInv'
<1> USE DEF ScanEmpty, Scanning, queueVars, writerVars
<1>0. /\ nextReadIndex \in Queues /\ mSize \in [Queues -> 0 .. Capacity]
      /\ empties \in 0 .. NumQueues /\ bypassed \in [Queues -> Nat]
  BY DEF IndInv, TypeOK
<1>1. PICK p \in Queues : p = nextReadIndex
  BY <1>0
<1>2. /\ nextReadIndex' \in Queues
      /\ Ahead(p)' = NumQueues - 1
      /\ \A k \in Queues \ {p} :
           /\ Behind(k) \in Int /\ Behind(k)' = Behind(k) + 1
           /\ Ahead(k) \in Int /\ Ahead(k)' = Ahead(k) - 1
  BY <1>1, IndexStep
<1>3. TypeOK'
  <2>1. empties' \in 0 .. NumQueues
    BY <1>0, Constants
  <2> QED BY <1>2, <2>1 DEF IndInv, TypeOK
<1>4. ScanInv'
  <2>1. ASSUME NEW k \in Queues, Behind(k)' <= empties'
        PROVE  mSize'[k] = 0
    <3>1. CASE k = p
      BY <1>1, <3>1
    <3>2. CASE k # p
      BY <1>0, <1>2, <2>1, <3>2, Constants DEF IndInv, ScanInv
    <3> QED BY <3>1, <3>2
  <2> QED BY <2>1 DEF IndInv, ScanInv
<1>5. NoLostWakeup'
  BY DEF IndInv, NoLostWakeup
<1>6. BypassInv'
  <2>1. ASSUME NEW k \in Queues
        PROVE  bypassed'[k] <= NumQueues - 1 - Ahead(k)'
    <3>1. CASE k = p
      BY <1>0, <1>1, <1>2, <3>1, Constants DEF IndInv, BypassInv
    <3>2. CASE k # p
      BY <1>0, <1>2, <3>2, Constants DEF IndInv, BypassInv
    <3> QED BY <3>1, <3>2
  <2> QED BY <2>1 DEF IndInv, BypassInv
<1>7. ReadingsHaveOwnHandle'
  BY DEF IndInv, ReadingsHaveOwnHandle
<1> QED BY <1>3, <1>4, <1>5, <1>6, <1>7, RingFrame DEF IndInv

\* The event the scan takes is a real one and its translation is well typed.
LEMMA TakenEvent ==
  ASSUME NEW m \in Queues, NEW e \in Events
  PROVE  /\ copy_event_remap_handle(e, m) \in DeliveredEvents
         /\ ~BadHandle(copy_event_remap_handle(e, m)) =>
              LET d == copy_event_remap_handle(e, m)
              IN  d.type = "reading" =>
                    \E h \in LocalHandles :
                      /\ <<d.from, h>> \in DOMAIN full_to_global
                      /\ d.handle = full_to_global[<<d.from, h>>]
<1>1. get_global_handle(m, e.handle) \in GlobalHandles \cup {-1}
  BY DEF get_global_handle, GlobalHandles
<1>2. copy_event_remap_handle(e, m) \in DeliveredEvents
  BY <1>1 DEF copy_event_remap_handle, DeliveredEvents, Events
<1>3. ASSUME get_global_handle(m, e.handle) # -1
      PROVE  /\ <<m, e.handle>> \in DOMAIN full_to_global
             /\ get_global_handle(m, e.handle) = full_to_global[<<m, e.handle>>]
  BY <1>3 DEF get_global_handle
<1> QED BY <1>2, <1>3 DEF copy_event_remap_handle, BadHandle, Events

\* A dequeue leaves the end of the readable records, hence every writer's
\* region, where it was.
LEMMA DequeueKeepsEnd ==
  ASSUME NEW start \in Slots, NEW size \in 1 .. Capacity
  PROVE  /\ StartAfterDequeue(start) \in Slots
         /\ SizeAfterDequeue(size) \in 0 .. Capacity
         /\ \A i \in 0 .. size - 1 :
              Wrap(StartAfterDequeue(start) + i) = Wrap(start + i + 1)
<1>1. start + 1 \in 0 .. 2 * Capacity - 1
  BY Constants DEF Slots
<1>2. StartAfterDequeue(start) =
        IF start + 1 < Capacity THEN start + 1 ELSE start + 1 - Capacity
  BY <1>1, WrapValue, Constants DEF StartAfterDequeue, Slots
<1>3. StartAfterDequeue(start) \in Slots
  BY <1>2, Constants DEF Slots
<1>4. ASSUME NEW i \in 0 .. size - 1
      PROVE  Wrap(StartAfterDequeue(start) + i) = Wrap(start + i + 1)
  <2>1. i \in 0 .. Capacity /\ i + 1 \in 0 .. Capacity
    BY Constants
  <2>2. PICK t \in Slots : t = StartAfterDequeue(start)
    BY <1>3
  <2>3. Wrap(t + i) = IF t + i < Capacity THEN t + i ELSE t + i - Capacity
    BY <2>1, WrapSum
  <2>4. Wrap(start + (i + 1)) =
          IF start + (i + 1) < Capacity THEN start + (i + 1)
          ELSE start + (i + 1) - Capacity
    BY <2>1, WrapSum
  <2>5. start + i + 1 = start + (i + 1)
    BY Constants DEF Slots
  <2> QED BY <1>2, <2>1, <2>2, <2>3, <2>4, <2>5, Constants DEF Slots
<1> QED BY <1>3, <1>4, Constants DEF SizeAfterDequeue

\* The scan takes an event out of a queue.
LEMMA ScanTakeStep ==
  ASSUME IndInv, ScanTake
  PROVE  IndInv'
<1> USE DEF ScanTake, Scanning
<1>0. /\ nextReadIndex \in Queues /\ mSize \in [Queues -> 0 .. Capacity]
      /\ mStart \in [Queues -> Slots] /\ empties \in 0 .. NumQueues
      /\ bypassed \in [Queues -> Nat] /\ data \in Seq(DeliveredEvents)
      /\ writerPc \in [Queues -> WriterPcs]
  BY DEF IndInv, TypeOK
<1>1. PICK p \in Queues : p = nextReadIndex
  BY <1>0
<1>2. /\ nextReadIndex' \in Queues
      /\ Ahead(p)' = NumQueues - 1
      /\ \A k \in Queues \ {p} :
           /\ Behind(k) \in Int /\ Behind(k)' = Behind(k) + 1
           /\ Ahead(k) \in Int /\ Ahead(k)' = Ahead(k) - 1
  BY <1>1, IndexStep
<1>3. /\ mStart[p] \in Slots /\ mSize[p] \in 1 .. Capacity
      /\ mSize'  = [mSize  EXCEPT ![p] = SizeAfterDequeue(mSize[p])]
      /\ mStart' = [mStart EXCEPT ![p] = StartAfterDequeue(mStart[p])]
      /\ data' = Record(copy_event_remap_handle(mData[p][mStart[p]], p))
      /\ bypassed' = CountBypass(p)
      /\ writerPc' =
           IF DequeueBroadcasts(mSize[p]) /\ writerPc[p] = "waitSpace"
           THEN [writerPc EXCEPT ![p] = "lock"] ELSE writerPc
  BY <1>0, <1>1, Constants
<1>4. /\ StartAfterDequeue(mStart[p]) \in Slots
      /\ SizeAfterDequeue(mSize[p]) \in 0 .. Capacity
      /\ \A i \in 0 .. mSize[p] - 1 :
           Wrap(StartAfterDequeue(mStart[p]) + i) = Wrap(mStart[p] + i + 1)
  BY <1>3, DequeueKeepsEnd
<1>5. mData[p][mStart[p]] \in Events
  <2>1. mData[p][Wrap(mStart[p] + 0)] \in Events
    BY <1>3, Constants DEF IndInv, SlotsInv
  <2>2. Wrap(mStart[p] + 0) = mStart[p]
    BY <1>3, WrapValue, Constants DEF Slots
  <2> QED BY <2>1, <2>2
<1>6. TypeOK' /\ ReadingsHaveOwnHandle'
  <2> DEFINE d == copy_event_remap_handle(mData[p][mStart[p]], p)
  <2>1. data' = IF BadHandle(d) THEN data ELSE Append(data, d)
    BY <1>3 DEF Record
  <2>2. d \in DeliveredEvents
    BY <1>5, TakenEvent
  <2>3. ~BadHandle(d) /\ d.type = "reading" =>
          \E h \in LocalHandles :
            /\ <<d.from, h>> \in DOMAIN full_to_global
            /\ d.handle = full_to_global[<<d.from, h>>]
    BY <1>5, TakenEvent
  <2> HIDE DEF d
  <2>4. data' \in Seq(DeliveredEvents)
    BY <1>0, <2>1, <2>2
  <2>5. bypassed' \in [Queues -> Nat]
    BY <1>0, <1>3 DEF CountBypass
  <2>6. writerPc' \in [Queues -> WriterPcs]
    BY <1>0, <1>3 DEF WriterPcs
  <2>7. mSize' \in [Queues -> 0 .. Capacity] /\ mStart' \in [Queues -> Slots]
    BY <1>0, <1>3, <1>4
  <2>8. empties' \in 0 .. NumQueues
    BY Constants
  <2>9. TypeOK'
    BY <1>2, <2>4, <2>5, <2>6, <2>7, <2>8 DEF IndInv, TypeOK
  <2>10. ReadingsHaveOwnHandle'
    <3>1. CASE BadHandle(d)
      BY <2>1, <3>1 DEF IndInv, ReadingsHaveOwnHandle
    <3>2. CASE ~BadHandle(d)
      <4>1. /\ data' = Append(data, d)
            /\ Len(data') = Len(data) + 1
            /\ \A i \in 1 .. Len(data) : data'[i] = data[i]
            /\ data'[Len(data) + 1] = d
        BY <1>0, <2>1, <2>2, <3>2
      <4>2. \A i \in 1 .. Len(data') : i \in 1 .. Len(data) \/ i = Len(data) + 1
        BY <1>0, <4>1
      <4> QED BY <2>3, <3>2, <4>1, <4>2 DEF IndInv, ReadingsHaveOwnHandle
    <3> QED BY <3>1, <3>2
  <2> QED BY <2>9, <2>10
<1>7. RegionInv'
  <2>1. ASSUME NEW k \in Queues, writerPc'[k] \in {"poll", "polled"}
        PROVE  /\ writerPc[k] = writerPc'[k]
               /\ mSize'[k] <= mSize[k] /\ mSize'[k] \in Int
               /\ Wrap(mStart'[k] + mSize'[k]) = Wrap(mStart[k] + mSize[k])
    <3>1. writerPc[k] = writerPc'[k]
      BY <1>0, <1>3, <2>1
    <3>2. CASE k = p
      <4>1. mSize[p] - 1 \in 0 .. mSize[p] - 1
        BY <1>3
      <4>2. Wrap(StartAfterDequeue(mStart[p]) + (mSize[p] - 1)) =
              Wrap(mStart[p] + (mSize[p] - 1) + 1)
        BY <1>4, <4>1
      <4>3. mStart[p] + (mSize[p] - 1) + 1 = mStart[p] + mSize[p]
        BY <1>3, Constants DEF Slots
      <4> QED BY <1>0, <1>3, <3>1, <3>2, <4>2, <4>3, Constants
              DEF SizeAfterDequeue
    <3>3. CASE k # p
      BY <1>0, <1>3, <3>1, <3>3, Constants
    <3> QED BY <3>2, <3>3
  <2> QED BY <1>0, <2>1, Constants DEF IndInv, TypeOK, RegionInv
<1>8. SlotsInv'
  <2>1. ASSUME NEW k \in Queues, NEW i \in 0 .. mSize'[k] - 1
        PROVE  mData[k][Wrap(mStart'[k] + i)] \in Events
    <3>1. CASE k = p
      <4>1. /\ mSize'[k] = mSize[p] - 1
            /\ i \in 0 .. mSize[p] - 1 /\ i + 1 \in 0 .. mSize[p] - 1
        BY <1>0, <1>3, <3>1, Constants DEF SizeAfterDequeue
      <4>2. Wrap(mStart'[k] + i) = Wrap(mStart[p] + i + 1)
        BY <1>0, <1>3, <1>4, <3>1, <4>1
      <4>3. mStart[p] + i + 1 = mStart[p] + (i + 1)
        BY <1>3, <4>1, Constants DEF Slots
      <4> QED BY <3>1, <4>1, <4>2, <4>3 DEF IndInv, SlotsInv
    <3>2. CASE k # p
      BY <1>0, <1>3, <3>2 DEF IndInv, SlotsInv
    <3> QED BY <3>1, <3>2
  <2>2. ASSUME NEW k \in Queues
        PROVE  /\ writerPc'[k] \in {"poll", "polled"} => writerPc[k] = writerPc'[k]
               /\ writerPc'[k] \in {"lock", "waitSpace"} =>
                    writerPc[k] \in {"lock", "waitSpace"}
    BY <1>0, <1>3
  <2> QED BY <2>1, <2>2 DEF IndInv, SlotsInv
<1>9. ScanInv'
  <2>1. \A k \in Queues : Behind(k)' \in Int /\ Behind(k)' >= 1
    BY <1>2, Constants DEF Behind, Queues
  <2>2. \A k \in Queues : ~(Behind(k)' <= empties')
    BY <2>1
  <2> QED BY <2>2 DEF IndInv, ScanInv
<1>10. NoLostWakeup'
  <2>1. ASSUME NEW k \in Queues, writerPc'[k] = "waitSpace"
        PROVE  mSize'[k] = Capacity
    <3>1. writerPc[k] = "waitSpace"
      BY <1>0, <1>3, <2>1
    <3>2. mSize[k] = Capacity
      BY <3>1 DEF IndInv, NoLostWakeup
    <3>3. k # p
      BY <1>0, <1>3, <2>1, <3>1, <3>2 DEF DequeueBroadcasts
    <3> QED BY <1>0, <1>3, <3>2, <3>3
  <2> QED BY <2>1 DEF NoLostWakeup
<1>11. BypassInv'
  <2>1. ASSUME NEW k \in Queues
        PROVE  /\ bypassed'[k] <= NumQueues - 1 - Ahead(k)'
               /\ mSize'[k] = 0 => bypassed'[k] = 0
    <3>1. CASE k = p
      BY <1>0, <1>2, <1>3, <3>1, Constants DEF CountBypass
    <3>2. CASE k # p
      <4>1. bypassed'[k] = IF mSize[k] > 0 THEN bypassed[k] + 1 ELSE bypassed[k]
        BY <1>3, <3>2 DEF CountBypass
      <4>2. mSize'[k] = mSize[k] /\ mSize[k] \in 0 .. Capacity
        BY <1>0, <1>3, <3>2
      <4>3. /\ bypassed[k] <= NumQueues - 1 - Ahead(k)
            /\ mSize[k] = 0 => bypassed[k] = 0
        BY DEF IndInv, BypassInv
      <4> QED BY <1>0, <1>2, <3>2, <4>1, <4>2, <4>3, Constants
    <3> QED BY <3>1, <3>2
  <2> QED BY <2>1 DEF BypassInv
<1> QED BY <1>6, <1>7, <1>8, <1>9, <1>10, <1>11 DEF IndInv

\* Every step of the specification keeps the inductive invariant.
LEMMA NextIndInv == IndInv /\ [Next]_vars => IndInv'
<1> SUFFICES ASSUME IndInv, [Next]_vars PROVE IndInv'
  OBVIOUS
<1>1. CASE UNCHANGED vars
  <2>1. UNCHANGED <<queueVars, writerVars, pollVars, mSize>>
    BY <1>1 DEF vars, queueVars
  <2>2. TypeOK' /\ NoLostWakeup'
    BY <2>1 DEF IndInv, TypeOK, NoLostWakeup, queueVars, writerVars, pollVars
  <2> QED BY <2>1, <2>2, RingFrame, ClientFrame DEF IndInv
<1>2. CASE Poller
  BY <1>2, ClientControlStep, ScanEmptyStep, ScanTakeStep, PollWaitStep
     DEF Poller
<1>3. ASSUME NEW m \in Queues, Writer(m) PROVE IndInv'
  BY <1>3, AcquireRegionStep, WaitForSpaceStep, DeviceWriteStep,
     DeviceReturnStep, MarkAsWrittenStep DEF Writer
<1> QED BY <1>1, <1>2, <1>3 DEF Next

\* The inductive invariant holds of every behaviour.
THEOREM Invariance == Spec => []IndInv
<1>1. Init => IndInv
  BY InitIndInv
<1>2. IndInv /\ [Next]_vars => IndInv'
  BY NextIndInv
<1> QED BY <1>1, <1>2, PTL DEF Spec

\* Type correctness of rings and threads, for every capacity and any number
\* of sub-HALs: in particular markAsWritten never lets mSize exceed the
\* capacity and the client never reads a slot nobody has written.
THEOREM TypeCorrect == Spec => []TypeOK
<1>1. IndInv => TypeOK
  BY DEF IndInv
<1> QED BY <1>1, Invariance, PTL

\* What getWritableRegion lends to a device never overlaps what the client
\* may read.
LEMMA PrivateRegion == IndInv => WriterRegionPrivate
<1> SUFFICES ASSUME IndInv, NEW m \in Queues,
                    writerPc[m] \in {"poll", "polled"}
             PROVE  /\ Region(m) \subseteq Slots
                    /\ Region(m) \cap Readable(mStart[m], mSize[m]) = {}
  BY DEF WriterRegionPrivate
<1>1. /\ mStart[m] \in Slots /\ mSize[m] \in 0 .. Capacity
      /\ bufferSize[m] \in 0 .. Capacity /\ first[m] \in Slots
      /\ first[m] = Wrap(mStart[m] + mSize[m])
      /\ bufferSize[m] > 0
      /\ first[m] + bufferSize[m] <= Capacity
      /\ mSize[m] + bufferSize[m] <= Capacity
  BY DEF IndInv, TypeOK, RegionInv
<1>2. Region(m) \subseteq Slots
  BY <1>1, Constants DEF Region, Slots
<1>3. ASSUME NEW i \in 0 .. mSize[m] - 1,
             Wrap(mStart[m] + i) \in first[m] .. first[m] + bufferSize[m] - 1
      PROVE  FALSE
  <2>1. i \in 0 .. Capacity
    BY <1>1, Constants
  <2>2. first[m] = IF mStart[m] + mSize[m] < Capacity
                   THEN mStart[m] + mSize[m]
                   ELSE mStart[m] + mSize[m] - Capacity
    BY <1>1, WrapSum
  <2>3. Wrap(mStart[m] + i) = IF mStart[m] + i < Capacity THEN mStart[m] + i
                              ELSE mStart[m] + i - Capacity
    BY <1>1, <2>1, WrapSum
  <2> QED BY <1>1, <1>3, <2>2, <2>3, Constants DEF Slots
<1> QED BY <1>2, <1>3 DEF Region, Readable

\* The header's claim that poll() may write without the mutex while the
\* client reads: the two never touch the same slot.
THEOREM NoRace == Spec => []WriterRegionPrivate
BY Invariance, PrivateRegion, PTL

\* The region is never empty and its records always still fit.
THEOREM RegionFits == Spec => []RegionFitsQueue
<1>1. IndInv => RegionFitsQueue
  BY DEF IndInv, RegionInv, RegionFitsQueue
<1> QED BY <1>1, Invariance, PTL

\* Neither the client nor a writer sleeps on a condition that holds.
THEOREM NoWakeupLost == Spec => []NoLostWakeup
<1>1. IndInv => NoLostWakeup
  BY DEF IndInv
<1> QED BY <1>1, Invariance, PTL

\* Round robin: no queue with data is passed over more than NumQueues - 1
\* times before it is read.
THEOREM RoundRobin == Spec => []BoundedBypass
<1>1. IndInv => BoundedBypass
  <2> SUFFICES ASSUME IndInv, NEW m \in Queues
               PROVE  bypassed[m] <= NumQueues - 1
    BY DEF BoundedBypass
  <2>1. Ahead(m) \in Nat
    BY Constants DEF IndInv, TypeOK, Ahead, Queues
  <2>2. bypassed[m] <= NumQueues - 1 - Ahead(m) /\ bypassed[m] \in Nat
    BY DEF IndInv, TypeOK, BypassInv
  <2> QED BY <2>1, <2>2, Constants
<1> QED BY <1>1, Invariance, PTL

\* A reading the client receives carries a global handle of a sensor of the
\* sub-HAL it came from.
THEOREM HandlesAreOwn == Spec => []ReadingsHaveOwnHandle
<1>1. IndInv => ReadingsHaveOwnHandle
  BY DEF IndInv
<1> QED BY <1>1, Invariance, PTL
-----------------------------------------------------------------------------
(* The rings implement the channels of SensorChannel.                      *)

\* The readable records of a ring in their order.
Ring(start, size, slots) == [i \in 1 .. size |-> slots[Wrap(start + i - 1)]]

\* Contents is the ring of its queue, before and after a step.
LEMMA ContentsAreRing ==
  /\ \A m : Contents(m) = Ring(mStart[m], mSize[m], mData[m])
  /\ \A m : Contents(m)' = Ring(mStart'[m], mSize'[m], mData'[m])
  BY DEF Contents, Ring

\* They form a sequence of events.
LEMMA RingIsSeq ==
  ASSUME NEW start \in Slots, NEW size \in 0 .. Capacity, NEW slots,
         \A i \in 0 .. size - 1 : slots[Wrap(start + i)] \in Events
  PROVE  Ring(start, size, slots) \in Seq(Events) /\ Len(Ring(start, size, slots)) = size
<1>0. start \in Int /\ size \in Nat
  BY Constants DEF Slots
<1>1. ASSUME NEW i \in 1 .. size PROVE slots[Wrap(start + i - 1)] \in Events
  <2>1. i - 1 \in 0 .. size - 1 /\ start + (i - 1) = start + i - 1
    BY <1>0
  <2> QED BY <2>1
<1> DEFINE r == Ring(start, size, slots)
<1>2. r \in [1 .. size -> Events]
  BY <1>1 DEF Ring
<1> HIDE DEF r
<1>3. r \in Seq(Events)
  BY <1>0, <1>2, SeqDef
<1>4. DOMAIN r = 1 .. size /\ DOMAIN r = 1 .. Len(r) /\ Len(r) \in Nat
  BY <1>2, <1>3, LenProperties
<1> QED BY <1>0, <1>3, <1>4 DEF r

\* A ring is seen through its readable slots only.
LEMMA RingSeen ==
  ASSUME NEW start \in Slots, NEW size \in 0 .. Capacity, NEW slots, NEW slots2,
         \A i \in 0 .. size - 1 : slots2[Wrap(start + i)] = slots[Wrap(start + i)]
  PROVE  Ring(start, size, slots2) = Ring(start, size, slots)
<1>0. start \in Int /\ size \in Nat
  BY Constants DEF Slots
<1>1. ASSUME NEW i \in 1 .. size
      PROVE  slots2[Wrap(start + i - 1)] = slots[Wrap(start + i - 1)]
  <2>1. i - 1 \in 0 .. size - 1 /\ start + (i - 1) = start + i - 1
    BY <1>0
  <2> QED BY <2>1
<1> QED BY <1>1 DEF Ring

\* dequeue takes the head of the sequence away.
LEMMA RingTaken ==
  ASSUME NEW start \in Slots, NEW size \in 1 .. Capacity, NEW slots,
         \A i \in 0 .. size - 1 : slots[Wrap(start + i)] \in Events
  PROVE  LET r == Ring(start, size, slots) IN
         /\ r # << >> /\ Head(r) = slots[start]
         /\ Tail(r) = Ring(StartAfterDequeue(start), SizeAfterDequeue(size), slots)
<1> DEFINE r == Ring(start, size, slots)
           t == StartAfterDequeue(start)
           n == SizeAfterDequeue(size)
           u == Ring(t, n, slots)
<1>0. start \in Int /\ size \in Nat /\ size > 0 /\ start \in 0 .. 2 * Capacity - 1
  BY Constants DEF Slots
<1>1. /\ t \in Slots /\ n \in 0 .. Capacity /\ n = size - 1
      /\ \A i \in 0 .. size - 1 : Wrap(t + i) = Wrap(start + i + 1)
  <2>1. n = size - 1
    BY DEF SizeAfterDequeue
  <2> HIDE DEF t, n
  <2> QED BY <2>1, DequeueKeepsEnd DEF t, n
<1>2. r \in Seq(Events) /\ Len(r) = size
  BY RingIsSeq, Constants
<1>3. \A i \in 0 .. n - 1 : slots[Wrap(t + i)] \in Events
  <2> HIDE DEF t, n
  <2>1. ASSUME NEW i \in 0 .. n - 1 PROVE slots[Wrap(t + i)] \in Events
    <3>1. i \in 0 .. size - 1 /\ i + 1 \in 0 .. size - 1 /\ start + i + 1 = start + (i + 1)
      BY <1>0, <1>1
    <3> QED BY <1>1, <3>1
  <2> QED BY <2>1
<1>4. u \in Seq(Events) /\ Len(u) = n
  <2> HIDE DEF t, n
  <2> QED BY <1>1, <1>3, RingIsSeq
<1>5. r[1] = slots[start]
  <2>1. Wrap(start + 1 - 1) = start
    BY <1>0, WrapValue, Constants DEF Slots
  <2> QED BY <1>0, <2>1 DEF Ring
<1>6. \A i \in 1 .. n : u[i] = r[i + 1]
  <2> HIDE DEF t, n
  <2>1. ASSUME NEW i \in 1 .. n PROVE u[i] = r[i + 1]
    <3>1. /\ i - 1 \in 0 .. size - 1 /\ i + 1 \in 1 .. size /\ t + i - 1 = t + (i - 1)
          /\ start + (i - 1) + 1 = start + (i + 1) - 1
      BY <1>0, <1>1, Constants DEF Slots
    <3>2. Wrap(t + i - 1) = Wrap(start + (i + 1) - 1)
      BY <1>1, <3>1
    <3> QED BY <3>1, <3>2 DEF Ring
  <2> QED BY <2>1
<1> HIDE DEF r, u, t, n
<1>7. r # << >>
  BY <1>0, <1>2, EmptySeq
<1>8. Head(r) = r[1] /\ Tail(r) \in Seq(Events) /\ Len(Tail(r)) = size - 1
      /\ \A i \in 1 .. Len(Tail(r)) : Tail(r)[i] = r[i + 1]
  BY <1>2, <1>7, HeadTailProperties
<1>9. Tail(r) = u
  <2> DEFINE v == Tail(r)
  <2>1. v \in Seq(Events) /\ Len(v) = Len(u) /\ \A i \in 1 .. Len(v) : v[i] = u[i]
    BY <1>1, <1>4, <1>6, <1>8
  <2> HIDE DEF v
  <2>2. v = u
    BY <1>4, <2>1, SeqEqual
  <2> QED BY <2>2 DEF v
<1> QED BY <1>5, <1>7, <1>8, <1>9 DEF r, u, t, n

\* markAsWritten leaves the sequence a prefix of the new one.
LEMMA RingExtended ==
  ASSUME NEW start \in Slots, NEW size \in 0 .. Capacity, NEW n \in 0 .. Capacity,
         size + n <= Capacity, NEW slots,
         \A i \in 0 .. size + n - 1 : slots[Wrap(start + i)] \in Events
  PROVE  SubSeq(Ring(start, size + n, slots), 1, size) = Ring(start, size, slots)
<1> DEFINE r == Ring(start, size, slots)
           u == Ring(start, size + n, slots)
           v == SubSeq(u, 1, size)
<1>0. size \in Nat /\ n \in Nat /\ size + n \in 0 .. Capacity
  BY Constants
<1>1. /\ r \in Seq(Events) /\ Len(r) = size
      /\ u \in Seq(Events) /\ Len(u) = size + n
  <2>1. \A i \in 0 .. size - 1 : slots[Wrap(start + i)] \in Events
    BY <1>0
  <2> QED BY <1>0, <2>1, RingIsSeq
<1>2. \A i \in 1 .. size : u[i] = r[i]
  BY <1>0 DEF Ring
<1> HIDE DEF r, u
<1>3. v \in Seq(Events) /\ Len(v) = size /\ \A i \in 1 .. Len(v) : v[i] = r[i]
  <2>1. \A i \in 1 .. size : i \in 1 .. Len(u)
    BY <1>0, <1>1
  <2>2. /\ v \in Seq(Events)
        /\ Len(v) = IF 1 <= size THEN size - 1 + 1 ELSE 0
        /\ \A i \in 1 .. size - 1 + 1 : v[i] = u[1 + i - 1]
    BY <1>0, <1>1, <2>1, SubSeqProperties
  <2> HIDE DEF v
  <2> QED BY <1>0, <1>2, <2>2
<1> HIDE DEF v
<1> QED BY <1>1, <1>3, SeqEqual DEF r, u, v

\* The rings' contents as one function, before and after a step.
Chan == [m \in Queues |-> Contents(m)]

\* What the invariant says of the records of a queue.
LEMMA QueueIsRing ==
  ASSUME IndInv, NEW m \in Queues
  PROVE  /\ mStart[m] \in Slots /\ mSize[m] \in 0 .. Capacity
         /\ \A i \in 0 .. mSize[m] - 1 : mData[m][Wrap(mStart[m] + i)] \in Events
         /\ Contents(m) \in Seq(Events) /\ Len(Contents(m)) = mSize[m]
<1>1. /\ mStart[m] \in Slots /\ mSize[m] \in 0 .. Capacity
      /\ \A i \in 0 .. mSize[m] - 1 : mData[m][Wrap(mStart[m] + i)] \in Events
  BY DEF IndInv, TypeOK, SlotsInv
<1> QED BY <1>1, RingIsSeq, ContentsAreRing

\* All rings are empty at first.
LEMMA ChannelInit == Init => Channel!AbsInit
<1> SUFFICES ASSUME Init PROVE Channel!AbsInit
  OBVIOUS
<1>1. ASSUME NEW m \in Queues PROVE Contents(m) = << >>
  <2>1. IndInv
    BY InitIndInv
  <2>2. mSize[m] = 0
    BY DEF Init
  <2> QED BY <2>1, <2>2, QueueIsRing, EmptySeq
<1>2. [m \in Queues |-> Contents(m)] = [m \in Queues |-> << >>]
  BY <1>1
<1> QED BY <1>2 DEF Init, Channel!AbsInit

\* A step that moves no record, nor enters or leaves poll(), is not seen.
LEMMA Unseen ==
  ASSUME Chan' = Chan, data' = data, (pollPc' # "idle") = (pollPc # "idle")
  PROVE  UNCHANGED Channel!absVars
  BY DEF Chan, Channel!absVars

\* Steps that leave the queues alone leave the channels alone.
LEMMA ChanKept == UNCHANGED queueVars => Chan' = Chan
  BY DEF queueVars, Chan, Contents

\* The device writes where the client does not read.
LEMMA DeviceWriteUnseen ==
  ASSUME IndInv, NEW m \in Queues, DeviceWrite(m)
  PROVE  Chan' = Chan
<1>1. /\ writerPc[m] = "poll" /\ written[m] < bufferSize[m]
      /\ UNCHANGED <<mStart, mSize>>
  BY DEF DeviceWrite
<1>2. PICK e \in Events : mData' = [mData EXCEPT ![m][first[m] + written[m]] = e]
  BY DEF DeviceWrite
<1> DEFINE s == first[m] + written[m]
<1>3. s \in Region(m)
  BY <1>1, Constants DEF IndInv, TypeOK, RegionInv, Region, Slots
<1>4. s \notin Readable(mStart[m], mSize[m])
  BY <1>1, <1>3, PrivateRegion DEF WriterRegionPrivate
<1> HIDE DEF s
<1>5. mData \in [Queues -> [Slots -> Events \cup {NoEvent}]] /\ mData' = [mData EXCEPT ![m][s] = e]
  BY <1>2 DEF IndInv, TypeOK, s
<1>6. ASSUME NEW k \in Queues PROVE Contents(k)' = Contents(k)
  <2>1. /\ mStart[k] \in Slots /\ mSize[k] \in 0 .. Capacity
    BY QueueIsRing
  <2>2. \A i \in 0 .. mSize[k] - 1 :
          mData'[k][Wrap(mStart[k] + i)] = mData[k][Wrap(mStart[k] + i)]
    <3>1. CASE k # m
      BY <1>5, <3>1
    <3>2. CASE k = m
      <4>1. \A i \in 0 .. mSize[m] - 1 : Wrap(mStart[m] + i) # s
        BY <1>4 DEF Readable
      <4>2. mData'[m] = [mData[m] EXCEPT ![s] = e]
        BY <1>5
      <4>3. \A x : x # s => mData'[m][x] = mData[m][x]
        BY <1>5, <4>2
      <4> QED BY <3>2, <4>1, <4>3
    <3> QED BY <3>1, <3>2
  <2>3. Ring(mStart[k], mSize[k], mData'[k]) = Ring(mStart[k], mSize[k], mData[k])
    BY <2>1, <2>2, RingSeen
  <2> QED BY <1>1, <2>3, ContentsAreRing
<1> QED BY <1>6 DEF Chan

\* A batch that is counted is published; an empty one is not seen.
LEMMA MarkPublishes ==
  ASSUME IndInv, IndInv', NEW m \in Queues, MarkAsWritten(m)
  PROVE  [Channel!AbsNext]_(Channel!absVars)
<1>1. /\ mSize' = [mSize EXCEPT ![m] = mSize[m] + written[m]]
      /\ UNCHANGED <<mStart, mData, data>>
      /\ (pollPc' # "idle") = (pollPc # "idle")
  BY DEF MarkAsWritten, SizeAfterWrite
<1>2. /\ mStart[m] \in Slots /\ mSize[m] \in 0 .. Capacity /\ written[m] \in 0 .. Capacity
      /\ mSize \in [Queues -> 0 .. Capacity] /\ mSize'[m] = mSize[m] + written[m]
      /\ mSize[m] + written[m] \in 0 .. Capacity
  <2>1. mSize \in [Queues -> 0 .. Capacity]
    BY DEF IndInv, TypeOK
  <2>2. mSize'[m] = mSize[m] + written[m] /\ mSize'[m] \in 0 .. Capacity
    BY <1>1, <2>1, QueueIsRing DEF IndInv, TypeOK
  <2> QED BY <2>1, <2>2 DEF IndInv, TypeOK
<1>3. ASSUME NEW k \in Queues, k # m PROVE Contents(k)' = Contents(k)
  BY <1>1, <1>2, <1>3 DEF Contents
<1>4. CASE written[m] = 0
  <2>1. mSize' = mSize
    BY <1>1, <1>2, <1>4
  <2>2. Chan' = Chan
    BY <1>1, <2>1 DEF Chan, Contents
  <2> QED BY <1>1, <2>2, Unseen
<1>5. CASE written[m] # 0
  <2> DEFINE old == Contents(m)
             new == Contents(m)'
  <2>1. /\ old \in Seq(Events) /\ Len(old) = mSize[m]
        /\ new \in Seq(Events) /\ Len(new) = mSize[m] + written[m]
        /\ SubSeq(new, 1, Len(old)) = old
    <3>1. \A i \in 0 .. mSize[m] + written[m] - 1 : mData[m][Wrap(mStart[m] + i)] \in Events
      BY <1>1, <1>2 DEF IndInv, SlotsInv
    <3>2. old = Ring(mStart[m], mSize[m], mData[m])
          /\ new = Ring(mStart[m], mSize[m] + written[m], mData[m])
      BY <1>1, <1>2, ContentsAreRing
    <3>3. old \in Seq(Events) /\ Len(old) = mSize[m]
      BY QueueIsRing
    <3> HIDE DEF old, new
    <3>4. new \in Seq(Events) /\ Len(new) = mSize[m] + written[m]
      BY <1>2, <3>1, <3>2, RingIsSeq
    <3>5. SubSeq(new, 1, mSize[m]) = old
      <4>1. mSize[m] + written[m] <= Capacity
        BY <1>2, Constants
      <4> QED BY <1>2, <3>1, <3>2, <4>1, RingExtended, Zenon
    <3> QED BY <3>3, <3>4, <3>5
  <2>2. Channel!Published(old, new)
    <3> HIDE DEF old, new
    <3>1. Len(new) > Len(old) /\ Len(new) <= Capacity
      BY <1>2, <1>5, <2>1, Constants
    <3>2. \A i \in 1 .. Len(new) : new[i] \in Events
      BY <2>1, ElementOfSeq
    <3> QED BY <2>1, <3>1, <3>2 DEF Channel!Published
  <2>3. Chan' = [Chan EXCEPT ![m] = new]
    BY <1>3 DEF Chan
  <2>4. Chan[m] = old /\ Chan'[m] = new
    BY DEF Chan
  <2>5. Channel!Publish(m, Chan'[m])
    BY <1>1, <2>2, <2>3, <2>4 DEF Channel!Publish, Chan
  <2> QED BY <2>5 DEF Channel!AbsNext, Chan
<1> QED BY <1>4, <1>5

\* The scan takes the head of a channel.
LEMMA ScanTakes ==
  ASSUME IndInv, ScanTake
  PROVE  Channel!AbsNext
<1>1. PICK m \in Queues : m = nextReadIndex
  BY DEF IndInv, TypeOK
<1>2. /\ pollPc = "scan" /\ pollPc' = pollPc /\ mSize[m] > 0
      /\ mSize'  = [mSize  EXCEPT ![m] = SizeAfterDequeue(mSize[m])]
      /\ mStart' = [mStart EXCEPT ![m] = StartAfterDequeue(mStart[m])]
      /\ data' = Record(copy_event_remap_handle(mData[m][mStart[m]], m))
      /\ UNCHANGED mData
  BY <1>1 DEF ScanTake, Scanning
<1>3. /\ mStart \in [Queues -> Slots] /\ mSize \in [Queues -> 0 .. Capacity]
      /\ mStart[m] \in Slots /\ mSize[m] \in 1 .. Capacity
      /\ \A i \in 0 .. mSize[m] - 1 : mData[m][Wrap(mStart[m] + i)] \in Events
  <2>1. mStart \in [Queues -> Slots] /\ mSize \in [Queues -> 0 .. Capacity]
    BY DEF IndInv, TypeOK
  <2> QED BY <1>2, <2>1, QueueIsRing, Constants
<1> DEFINE old == Contents(m)
           new == Contents(m)'
<1>4. old # << >> /\ Head(old) = mData[m][mStart[m]] /\ new = Tail(old)
  <2>1. old = Ring(mStart[m], mSize[m], mData[m])
        /\ new = Ring(StartAfterDequeue(mStart[m]), SizeAfterDequeue(mSize[m]), mData[m])
    BY <1>2, <1>3, ContentsAreRing
  <2> HIDE DEF old, new
  <2> QED BY <1>3, <2>1, RingTaken
<1>5. ASSUME NEW k \in Queues, k # m PROVE Contents(k)' = Contents(k)
  BY <1>2, <1>3, <1>5 DEF Contents
<1>6. Chan[m] = old /\ Chan' = [Chan EXCEPT ![m] = new]
  BY <1>5 DEF Chan
<1> HIDE DEF old, new
<1>7. Chan' = [Chan EXCEPT ![m] = Tail(Chan[m])] /\ Chan[m] # << >>
  BY <1>4, <1>6
<1>8. data' = IF BadHandle(copy_event_remap_handle(Head(Chan[m]), m)) THEN data
              ELSE Append(data, copy_event_remap_handle(Head(Chan[m]), m))
  BY <1>2, <1>4, <1>6 DEF Record
<1>9. (pollPc # "idle") /\ (pollPc' # "idle") = (pollPc # "idle")
  BY <1>2
<1>10. Channel!Take(m)
  BY <1>7, <1>8, <1>9 DEF Channel!Take, Chan
<1> QED BY <1>10 DEF Channel!AbsNext

\* Every step is a step of the channels, or is not seen.
LEMMA StepsImplement ==
  IndInv /\ IndInv' /\ [Next]_vars => [Channel!AbsNext]_(Channel!absVars)
<1> SUFFICES ASSUME IndInv, IndInv', [Next]_vars
             PROVE  [Channel!AbsNext]_(Channel!absVars)
  OBVIOUS
<1>0. ASSUME UNCHANGED <<queueVars, data>>, (pollPc' # "idle") = (pollPc # "idle")
      PROVE  [Channel!AbsNext]_(Channel!absVars)
  BY <1>0, ChanKept, Unseen
<1>1. CASE UNCHANGED vars
  BY <1>0, <1>1 DEF vars, queueVars, pollVars
<1>2. ASSUME NEW m \in Queues, Writer(m) PROVE [Channel!AbsNext]_(Channel!absVars)
  <2>1. CASE DeviceWrite(m)
    <3>1. Chan' = Chan
      BY <2>1, DeviceWriteUnseen
    <3>2. data' = data /\ pollPc' = pollPc
      BY <2>1 DEF DeviceWrite, pollVars
    <3> QED BY <3>1, <3>2, Unseen
  <2>2. CASE MarkAsWritten(m)
    BY <2>2, MarkPublishes
  <2>3. CASE AcquireRegion(m)
    BY <1>0, <2>3 DEF AcquireRegion, pollVars
  <2>4. CASE WaitForSpace(m) \/ SpuriousSpaceWakeup(m)
    BY <1>0, <2>4 DEF WaitForSpace, SpuriousSpaceWakeup, pollVars
  <2>5. CASE DevicePolled(m) \/ DevicePollFailed(m)
    BY <1>0, <2>5 DEF DevicePolled, DevicePollFailed, pollVars
  <2> QED BY <1>2, <2>1, <2>2, <2>3, <2>4, <2>5 DEF Writer
<1>3. CASE ScanTake
  BY <1>3, ScanTakes
<1>4. CASE ScanEmpty \/ PollWait \/ SpuriousDataWakeup \/ PollResume
  BY <1>0, <1>4 DEF ScanEmpty, Scanning, PollWait, ScanDone, SpuriousDataWakeup, PollResume
<1>5. CASE PollEnter
  <2>1. Chan' = Chan
    BY <1>5, ChanKept DEF PollEnter
  <2>2. ~(pollPc # "idle") /\ (pollPc' # "idle") = TRUE /\ data' = << >>
    BY <1>5 DEF PollEnter
  <2>3. Channel!StartPoll
    BY <2>1, <2>2 DEF Channel!StartPoll, Chan
  <2> QED BY <2>3 DEF Channel!AbsNext
<1>6. CASE PollReturn
  <2>1. Chan' = Chan
    BY <1>6, ChanKept DEF PollReturn
  <2>2. (pollPc # "idle") /\ (pollPc' # "idle") = FALSE /\ data' = data
    BY <1>6 DEF PollReturn, ScanDone
  <2>3. data # << >>
    BY <1>6, EmptySeq DEF PollReturn, eventsRead
  <2>4. Channel!EndPoll
    BY <2>1, <2>2, <2>3 DEF Channel!EndPoll, Chan
  <2> QED BY <2>4 DEF Channel!AbsNext
<1> QED BY <1>1, <1>2, <1>3, <1>4, <1>5, <1>6 DEF Next, Poller

\* The threads, the rings and their regions together behave as first-in
\* first-out channels, one for each sub-HAL: for every capacity and any number
\* of sub-HALs no event is lost, duplicated, reordered or overwritten on its
\* way to the client, however the device, the writers and the client interleave.
THEOREM Refinement == Spec => ImplementsChannel
<1>1. Init => Channel!AbsInit
  BY ChannelInit
<1>2. IndInv /\ IndInv' /\ [Next]_vars => [Channel!AbsNext]_(Channel!absVars)
  BY StepsImplement
<1> QED BY <1>1, <1>2, Invariance, PTL DEF Spec, ImplementsChannel, Channel!AbsSpec
=============================================================================
