-------------------------- MODULE SensorEventQueue --------------------------
(***************************************************************************)
(* The fixed-size circular queue of hidl/sensors/SensorEventQueue.cpp, as  *)
(* operators on its two indices mStart and mSize.  The class keeps no      *)
(* other mutable state besides the slots of mData, which the sub-HAL's     *)
(* poll() fills in place, outside the lock, and which are therefore a      *)
(* variable of the module that has the threads (MultiHalPoll).             *)
(***************************************************************************)
EXTENDS Naturals

CONSTANT Capacity   \* mCapacity (SENSOR_EVENT_QUEUE_CAPACITY)

ASSUME CapacityAssumption == Capacity \in Nat \ {0}

Slots == 0 .. Capacity - 1

\* Indices into mData wrap around at the end of the array.
Wrap(i) == i % Capacity

\* The slots that hold readable records.
Readable(mStart, mSize) == {Wrap(mStart + i) : i \in 0 .. mSize - 1}

\* getWritableRegion: index of the first slot handed to the writer.
FirstWritable(mStart, mSize) == Wrap(mStart + mSize)

\* Mutant: the request is not stopped in front of the readable region.
LastWritableIntoReadable(mStart, mSize, requestedLength) ==
  LET asked == FirstWritable(mStart, mSize) + requestedLength - 1
  IN  IF asked > Capacity - 1 THEN Capacity - 1 ELSE asked

\* Mutant: the readable region's first slot is handed out as well.
LastWritableOffByOne(mStart, mSize, requestedLength) ==
  LET first == FirstWritable(mStart, mSize)
      asked == LastWritableIntoReadable(mStart, mSize, requestedLength)
  IN  IF first < mStart /\ asked >= mStart THEN mStart ELSE asked

\* getWritableRegion: index of the last one.  The request is clipped at the
\* end of the array and in front of the readable region.
LastWritable(mStart, mSize, requestedLength) ==
  LET first   == FirstWritable(mStart, mSize)
      asked   == first + requestedLength - 1
      clipped == IF asked > Capacity - 1 THEN Capacity - 1 ELSE asked
  IN  IF first < mStart /\ clipped >= mStart THEN mStart - 1 ELSE clipped

\* getWritableRegion: length of the region it returns.
WritableLength(mStart, mSize, requestedLength) ==
  IF mSize = Capacity \/ requestedLength = 0
  THEN 0
  ELSE LastWritable(mStart, mSize, requestedLength)
         - FirstWritable(mStart, mSize) + 1

\* markAsWritten
SizeAfterWrite(mSize, count) == mSize + count

\* Mutant: mStart runs past the end of the array.
StartWithoutWrap(mStart) == mStart + 1

\* dequeue of a non-empty queue
StartAfterDequeue(mStart) == Wrap(mStart + 1)
SizeAfterDequeue(mSize)   == mSize - 1

\* Mutant: the full queue is recognised only after mSize was decremented.
BroadcastTestTooLate(mSize) == mSize - 1 = Capacity

\* dequeue signals mSpaceAvailableCondition only when it ends a full queue.
DequeueBroadcasts(mSize) == mSize = Capacity
=============================================================================
