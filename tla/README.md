# Verification of the Lenovo A6010 device HALs

The repository is the device tree of the Lenovo A6000/A6010 phones: build files,
configuration, and the hardware abstraction layers (HALs) that run on the device. This
directory holds TLA+ models of the HALs with logic of their own, the TLC runs that
check them on small instances, and TLAPS proofs of the safety properties for every value
of the constants.
`PROJECT.json` maps every definition to the source lines it stands for.

To repeat a run: `tlc -config MultiHalRing.cfg MCMultiHalPoll`; to repeat the proofs, `tlapm`
on each of the modules of section 4, for example `tlapm MultiHalPollProofs.tla`.

## 1. Inventory

### Sensors multi-HAL (`hidl/sensors`)

* **State.** One `SensorEventQueue` per sub-HAL (ring indices `mStart`, `mSize`, slots
  `mData`, condition variable `mSpaceAvailableCondition`); the global `queue_mutex`,
  `data_available_cond`, `waiting_for_data`; the client's `nextReadIndex`; the vectors
  of modules and devices and the two handle maps `full_to_global`, `global_to_full`.
* **Operations.** `open_sensors`, `get_sensors_list` (lazily builds the handle maps),
  `activate`, `setDelay`, `batch`, `flush`, `inject_sensor_data`, `poll`, `close`; one
  `writerTask` thread per device.
* **Interaction.** `Sensors.cpp` (HIDL) calls the operations from Binder threads. Each
  writer lets its device store events straight into the ring **without** the mutex and
  then counts them under it; the client drains all rings round robin.
* **Hard behaviour.** Unlocked stores beside locked reads, two condition variables with
  conditional broadcasts, wrap-around, starvation between queues, partial start-up.
* **Correct means.** No slot is both written and read; nothing is lost, duplicated,
  reordered or overwritten; no wakeup is lost; no queue starves; handles name the right
  sub-HAL.

### Thermal HAL (`hidl/thermal`)

* **State.** `sensor_status_map_` (reported, previous hot and previous cold severity of
  each sensor), `thermal_triggered_`, `last_update_time_`, the uevent socket, the list
  `callbacks_`.
* **Operations.** The watcher's `threadLoop`, `parseUevent` and
  `thermalWatcherCallbackFunc`; registration and removal of callbacks; getters;
  `ParseSensorInfo` at start.
* **Interaction.** The kernel heats sensors and sends uevents, which may be lost; Binder
  clients register, leave and die at any time; `thermal_callback_mutex_` guards the list
  while changes are sent.
* **Hard behaviour.** Hysteresis with exact hits of thresholds, the choice of the polling
  interval, partial callbacks (only the sensors named by uevents), clients that change
  during a round.
* **Correct means.** A severity is never below what the temperature demands, does not
  flap, is eventually reported, and registered clients know it.

### QCamera2 HAL (`camera/QCamera2/HAL`, `camera/QCamera2/util`)

* **State.** `m_state` of the state machine, the channels in `m_channels`, current and
  pending mode parameters, the post-processor, the live snapshot thread, command and
  event queues, API results.
* **Operations.** Commands of the application (preview, recording, pictures, parameters,
  longshot), events of the callback threads, thermal notifications.
* **Interaction.** API threads queue a command and wait for its result; the state machine
  thread takes commands **before** events; the live snapshot thread queues commands too.
* **Hard behaviour.** Events that meet another state than the one that caused them,
  several fallible steps in one handler, parameters that become current through an
  unrelated commit, a thread that must be joined by the handler of its own command.
* **Correct means.** What streams agrees with the state; nothing survives the state it
  belongs to; pictures and preparations come to an end.

### mm-camera-interface (`camera/QCamera2/stack/mm-camera-interface`)

* **State.** Per stream a reference count for each buffer; per channel a command queue, the
  queue of superbuffers with `match_cnt` and `expected_frame_id`, `pending_cnt`, and a
  queue for the callback thread.
* **Operations.** Frames from the kernel (poll threads), requests and cancellations,
  flushes, linking and unlinking of a metadata stream, stop.
* **Interaction.** The HAL requests superbuffers and gives their frames back from any of
  its threads, without the channel's lock; a channel for live snapshots borrows the
  metadata stream of the preview channel, which runs on when it is stopped.
* **Hard behaviour.** Streams that run ahead of each other, lost frames, a sensor that
  numbers its frames anew, loops that end only if a count is right, frames that come back
  while the channel is being stopped.
* **Correct means.** A superbuffer holds frames of one exposure, every loop ends, a buffer
  returns to the kernel when its last user is done with it, and only then.

### HAL3on1 adapter (`camera/hal3on1`)

Presents the HAL1 camera as HAL3: request threads and HAL1 callbacks hand frames over by
spinning on shared fields (`jpeg_size`, `video_buffer_size`, `preview_really_started`). Hard: a
BLOB request that is not a still capture waits for a picture nobody takes; an unconsumed
frame at close; `flush` beside a request. Correct means that a request copies memory its
owner has not given back, and returns.

### Small HALs and services

* **Light** (`hidl/light`, `hidl/light-a6000`): `green_status`, `red_status`,
  `init_status`, two LEDs; NOTIFICATIONS and ATTENTION share one remembered state.
* **Vibrator** (`aidl/vibrator`): a detached thread reports completion after the timeout,
  whatever happened meanwhile.
* **Radio, radio config** (`hidl/radio*`): forwarders with conversions.
* **msm_irqbalance**: a single-threaded heuristic over `/proc/interrupts`.

### Left aside

`hardware/` (audio, display, media) is vendored; `mm-jpeg-interface` and
`camera/mm-image-codec` are Code Aurora libraries that drive a closed OMX component;
`camera/chromatix`, `camera/sensor`, `configs`, `overlay`, `sepolicy` are data.

## 2. Modules and how they correspond to the code

| Module | Stands for |
|---|---|
| `SensorEventQueue` | the ring's index arithmetic (`SensorEventQueue.cpp`) |
| `MultiHalPoll` | `writerTask` threads, rings, mutex, `poll` (`multihal.cpp`) |
| `SensorChannel` | abstract specification: bounded FIFO channels and `poll` |
| `MultiHalPollProofs` | theorems about `MultiHalPoll` |
| `MultiHalOpen` | loading, opening, handle assignment, call routing |
| `ThermalSeverity` | `getSeverityFromThresholds`, `ParseSensorInfo`'s order checks |
| `ThermalSensor` | one sensor read again and again, for every configuration |
| `ThermalWatch` | watcher thread, callback list, clients, kernel |
| `QCamera2HWI` | the HAL object's operations as sets of outcomes |
| `QCameraStateMachine` | the eight `procEvt...State` handlers and the other threads |
| `QCameraApi` | calls into the camera HAL and their answers, `closeCamera` |
| `QCameraQueue` | the HAL's queue (`QCameraQueue.cpp`) |
| `QCameraCbNotifier` | the callback thread (`QCamera2HWICallbacks.cpp`) |
| `QCameraPostProc` | the frames of a picture in the post-processor |
| `MmChannel` | a channel of mm-camera-interface and the buffers of its streams |
| `HAL3on1` | the HAL3 adapter |
| `Light`, `Vibrator` | the two services |
| `CameraServices` | `QCameraApi`, `QCameraCbNotifier`, `QCameraPostProc`, `HAL3on1` side by side |
| `DeviceServices` | `MultiHalOpen`, `Light`, `Vibrator`, `MmChannel` side by side |
| `QueueFacts` | lemmas on `QCameraQueue`: places, counts and entries of a queue |
| `QCameraApiProofs`, `CameraServicesProofs` | theorems about the parts of `CameraServices` |
| `DeviceServicesProofs` | theorems about `MultiHalOpen` and `Light` |
| `MmChannelProofs` | theorems about `MmChannel` |
| `ThermalProofs` | theorems about `ThermalSensor` and `ThermalWatch` |
| `QCameraStateMachineProofs` | theorems about the state machine and the HAL's operations |
| `MC...` | constants for TLC |

Definitions whose comment begins with `Mutant:` are wrong variants of the definition
below them. They are used by no specification; each shows that a property notices a
plausible slip in the code.

**MultiHalPoll.** The writer's two critical sections are one action each
(`AcquireRegion`/`WaitForSpace`, `MarkAsWritten`). Between them `DeviceWrite` stores one
record at a time without the mutex. The client holds the mutex from `PollEnter` or
`PollResume` to `PollWait` or `PollReturn` and takes one step per loop iteration, so
device writes interleave with its scan. `Scan...` includes the dequeue with its
broadcast and the remapping of the handle. Both condition variables may wake for no
reason. An event is its type and its local handle. `bypassed` is a history variable.

**MultiHalOpen.** Which libraries load, open and accept injected data, and their sensor
lists, are chosen once in `OpenInit`; `open_sensors` and `get_sensors_list` then are
deterministic. The loops over libraries, modules and sensors are given by what they build:
the n-th entry is the one up to which n have been visited. A call is recorded with the device it reached and the result.

**ThermalSeverity, ThermalSensor.** A threshold array is a function on the severities
that have one (NAN elsewhere). Temperatures are integers; the loop from SHUTDOWN down is
the maximum of a set. `SensorInit` takes only configurations the parser accepts.

**ThermalWatch.** `pc` is the watcher's place: top of `threadLoop`, in `pollOnce`, in the
loop over sensors, in the round of notifications. One step per sensor and per
notification, so that clients and the kernel interleave. Time is counted in ticks of the
sleep. `view` and `base` are history variables: what a client was told, and what held
when it registered.

**QCamera2HWI, QCameraStateMachine.** The HAL is a record; an operation is the set of its
outcomes, each with a status, so a handler that calls several fallible operations
composes them in the code's order, early returns and clean-up included (`Then`,
`OnFail`, `IgnoreStatus`). A handler is one action per state, a disjunct per command or
event that changes the HAL. Commands may always come; events wait in `evt_queue`, which
is how commands overtake events. `cancels` counts the CANCEL_PICTURE commands of failed
live snapshots. A parameter commit makes all pending modes current, whoever asked for it.
`setup` fixes what may fail and which features are built in.

**QCameraQueue.** The queue is a sequence. `flushNodes` keeps the nodes that are not matched,
the n-th of them in place n.

**QCameraApi.** Threads: two callers, the live snapshot thread, whose CANCEL_PICTURE nobody
waits for, the metadata thread with PREP_SNAPSHOT_DONE, the callback thread inside
`processSyncEvt`, the destructor, and the thread of the state machine. Enqueueing a
command and posting the semaphore are two steps; waking from a condition variable and
getting its mutex are too. QUERY stands for all APIs that every state answers at once.

**QCameraCbNotifier.** `mDataQ` and the command queue with its commands at the head; the
callback thread and the state machine's thread wait for each other at SNAPSHOT_DONE.
A JPEG carries the picture it was encoded for from the encoder's event to the callback, as
the event carries the buffer in the code: an event that is handled in the next picture
delivers the old JPEG. `stragglers` are the pictures of such events, `overtaken` and `lost`
record the two ways in which the code loses a picture.

**QCameraPostProc.** One variable per queue, and the frames in the hands of the encoder and
of the reprocessing channel. Both may fail. `free` are the frames the stream may use.

**MmChannel.** A frame is its stream and a running number, its `frame_idx` a function of
it. The superbuffer queue belongs to the command thread, so a command is one action; its
parts (`handle_metadata`, `Join`, `Insert`, `Trim`, `Flush`) are operators that give the
queue, the frames released and the frames dropped. `matched` is derived: all slots full.
What the metadata says is chosen freely (the flags of flash, zoom and bracketing only
restrict that choice). A loop that would not end sets `stuck`. `forgotten` and `leaked`
record the frames that were dropped without being given back.

**HAL3on1.** The request's thread goes through the buffers one by one and spins as the code
does; HAL1's only callback thread spins until a frame is taken. `flush` and the calls into
HAL1 that wait for its callback thread are one step per assignment the other threads can
see. HAL1 is external.

**Light, Vibrator.** A call is one step under the lock (Light), or one step per stream
write (Vibrator); the LEDs and the motor are the kernel's and survive a restart.
NOTIFICATIONS and ATTENTION are one function with one state in the code, and one action
here. The vibrator has no property: see section 5.

**CameraServices, DeviceServices.** Parts that have no variable in common. Steps of two
parts commute and no property mentions two of them, so `Init` chooses one part that moves
in the behaviour and the others stay in their initial states, where none of their fair
actions is enabled. This is the interleaving of all parts up to commuting steps.

## 3. Runs

| Run | Question | Result |
|---|---|---|
| `multihal_ring` | Is the ring sound over wrap-arounds while the device writes unlocked, and does it implement `SensorChannel`? | holds |
| `multihal_shared` | With two sub-HALs: wakeups, round robin, progress of writers and of events | holds |
| `multihal_corrupted_meta` | "Bad handle, do not pass corrupted event upstream !" | violated |
| `thermal_severity` | Is the severity never too low, stable, monotone, for every accepted array and positive hysteresis? | holds |
| `thermal_clients` | Are clients informed, and only of news, while others come, go and die and a sensor fails? | holds |
| `thermal_uevents` | Lost and noisy uevents: polling flag, eventual report | holds |
| `camera_safety` | Do channels, post-processor and live thread agree with the state? | holds |
| `camera_live_snapshot` | Do live snapshots and PREPARE_SNAPSHOT end? | holds |
| `camera_services` | Is every call answered once and does it return; do pictures end, with the right JPEGs; is a frame of the post-processor in one place, and does it come back; do HAL3 requests copy live frames and return? | holds, see section 5 |
| `device_services` | Do sensor handles, devices and calls agree when libraries fail? Do the LEDs show what was asked for? Are superbuffers matched and buffers counted correctly? | holds, see section 5 |
| `multihal_partial_open` | "Remember their devices in a vector parallel to sub_hw_modules" | violated |
| `camera_refused_params` | "cannot set parameters that requires restart during recording" | violated |

The three violations:

* **META_DATA events.** `poll` tests `data[eventsRead].sensor`, but the remapping of a
  META_DATA event writes the -1 into `meta_data.sensor`: the event goes upstream.
* **Partial open.** A module whose `open` fails gets no entry in `sub_hw_devices`
  (`multihal.cpp` 779), while handles keep the module's index. If the library that failed has
  no sensors, the process survives the first `get_sensors_list` and a call for a sensor of the
  next library goes to the device of the one after it.
* **Refused parameters.** During recording a parameter string that needs a restart is
  refused after `updateParameters` has stored it as pending; the next commit, a thermal
  notification for one, makes it current while the recording runs.

### Bounds

* Ring: four slots with one sub-HAL, so regions start and end in every position, wrap,
  and are clipped at either side; two slots and two sub-HALs where threads matter.
  `MaxReads` 1 or 2 tells a full output buffer from empty queues; one registered and one
  unregistered handle. More sub-HALs and slots are covered by the proofs.
* Services (`DeviceServices`): three libraries (one may fail before, between and after
  others), each without sensors or with two, whose local handles coincide with those of the
  others. The proofs cover all lists.
* Severity: three severities, thresholds and temperatures over a few degrees, hysteresis
  1 and 2: two bands can touch, overlap and be skipped in one reading. Hot and cold are
  computed independently, so one of them is empty at a time.
* Watch: two or three sensors (two thresholds; hot and cold; unmonitored), intervals of 1
  and 2 ticks, two clients with different filters. `elapsed` is bounded because it grows
  only in sleep and sleep is bounded by the timeout. At most one uevent per sensor is in
  the socket: the code makes a set of names from them.
* Camera: `MaxEvents` 2 (the done event of the callback thread, which waits for it to be
  handled, and one more), `MaxCancels` 1. Setups: no failures; failures of channels,
  captures and threads; failures of commits and parameters; longshot with early restart;
  three kinds of video.

* Channel: two buffers and three frames per stream, any of which may be lost, numbers that
  start anew with the second frame or never, one command of the HAL (a request, a
  cancellation or a flush). One superbuffer within the water mark and one unmatched within
  the limit, so that both overflow. The proofs cover any number of each.
* Lights: three levels. Vibrator: two vibrations, timeouts of 0, 1 and 4 in a word of 8,
  so that the conversion to microseconds overflows for the longest; its state only shows
  that the actions are possible.
* API: two callers of which one takes and cancels pictures and one asks and registers
  faces, one command nobody waits for. They call again and again.
* Notifier and post-processor: two pictures of two JPEGs; two frames, with and without
  reprocessing. HAL3: preview, video, a photo, and the two forms of request the adapter
  does not expect, again and again.

`CHECK_DEADLOCK FALSE` is set where the system may stop: after `close` or a crash of the
multi-HAL, when the bounded inputs of the services are used up, and after the camera process has crashed (`m_state` "CRASHED", see section 5).

### Fairness

* `MultiHalPoll!FairSpec`: the client thread keeps running and polls for ever (the
  framework's sensor loop); a writer that again and again finds the mutex free gets it
  (strong fairness on its two critical sections: `pthread_mutex` has no order, but the
  client releases it whenever it sleeps or returns). Nothing is assumed of devices or of
  spurious wakeups.
* `ThermalWatch!FairSpec`: the watcher thread is scheduled, and time goes on however often
  uevents interrupt the sleep (strong fairness on `Tick`). Nothing of clients or uevents.
* `QCameraStateMachine!LiveSpec`: the live snapshot thread runs, frames arrive for a
  running channel, and the state machine gets to its event queue, that is, commands pause.
  No command of the application is assumed.

* `QCameraApi`: the HAL's threads run; a woken caller gets the mutex in the end although
  others take it again and again (strong fairness). Nobody has to call.
* `QCameraCbNotifier`: its threads run, the encoder finishes, the framework's callbacks
  return. `QCameraPostProc`: its threads run, and a picture is ended or cancelled in the
  end. `HAL3on1`: the threads of requests, callbacks and `flush` run and HAL1 has frames. Weak fairness throughout.

## 4. Proofs

Every safety property and every action property that a run checks is also a theorem.
A theorem holds for all values of the constants that satisfy
the named assumptions (`ASSUME`) of the component's module. These say that bounds are
natural numbers, that sets are finite where they are counted, and what the environment
keeps to: a sub-HAL gives its own sensors different handles (`SensorListsAssumption`),
thresholds belong to severities (`SensorAssumption`, `WatchAssumption`). The state
machine needs none.

| Module | Theorem | States |
|---|---|---|
| `MultiHalPollProofs` | `Invariance` | `Spec => []IndInv` |
| | `TypeCorrect` | `[]TypeOK` |
| | `NoRace` | `[]WriterRegionPrivate` |
| | `RegionFits` | `[]RegionFitsQueue` |
| | `NoWakeupLost` | `[]NoLostWakeup` |
| | `RoundRobin` | `[]BoundedBypass` |
| | `HandlesAreOwn` | `[]ReadingsHaveOwnHandle` |
| | `Refinement` | `Spec => ImplementsChannel` |
| `DeviceServicesProofs` | `HandlesLeadToOwners` | `[]HandlesMatchDevices` |
| | `SurvivorsHaveDevices` | `[]SurvivorsAreOpen` |
| | `LightsShowStatus` | `[]LedsShowStatus` |
| `ThermalProofs` | `ReadingsAreStable` | `[]StableReading`, if the hysteresis is positive |
| | `SeverityNeverUnderReported` | `NeverUnderReported`, if the hysteresis is positive |
| | `SeverityClearedOutsideBand` | `ClearedOnlyOutsideBand` |
| | `SeverityFallsWithTemperature` | `NoRiseOnFall`, if the hysteresis is positive |
| | `ClientsAreInformed` | `[]ClientsInformed` |
| | `CallbacksBringNews` | `[]OnlyNews` |
| | `TriggeredFlagIsExact` | `TriggeredIsExact`, if monitored sensors can be read |
| `QCameraStateMachineProofs` | `CameraInvariance` | `Spec => []CameraInv` |
| | `RecordingIsSeen` | `[]RecordingMatchesState` |
| | `LiveThreadsAreJoined` | `[]LiveThreadIsJoined` |
| | `PreviewIsStopped` | `[]PreviewStopsWithState` |
| | `PreviewIsRunning` | `[]PreviewRunsInState` |
| | `PostProcStops` | `[]PostProcEnds` |
| `QCameraApiProofs` | `ApiInvariance` | `FairSpec => []ApiIndInv` |
| | `WakeUpsFindWork` | `[]WakesFindWork` |
| | `AnswersMatchCalls` | `[]AnswersAccounted` |
| `CameraServicesProofs` | `FramesInOnePlace` | `[]FrameInOnePlace` |
| | `RequestsCopyLiveFrames` | `[]CopiesLiveFrame` |
| | `CurrentJpegDelivered` | `[]DeliversCurrent` |
| | `JpegsAreCounted` | `[]NoSurplusJpeg` |
| `MmChannelProofs` | `MmInvariance` | `Spec => []MmIndInv` |
| | `BundlesAreMatched` | `[]BundlesLead` |
| | `ReferencesAreCounted` | `[]RefsCounted` |

`QueueFacts` has only lemmas. There is one lemma per action (or per group of actions with
the same frame) that it keeps the inductive invariant of its component. The parts of
`DeviceServices` and `CameraServices` share no variable, so an invariant of one part is
kept by the steps of the others.

**The event path.** `WriterRegionPrivate` is not inductive: it says nothing about where the
region lies. `IndInv` adds

* `RegionInv`: a region starts exactly behind the readable records, does not wrap and
  fits the free space. The client's dequeues keep the sum `mStart + mSize` and so the
  start of the region; the writer's own count makes the region readable and ends it.
* `SlotsInv`: readable slots and slots already filled hold real events. Without it the
  type of what the client receives is unknown.
* `ScanInv`: the queues passed since the last hit are still empty, because writers count
  under the mutex. It gives the client's half of `NoLostWakeup` when the scan ends.
* `BypassInv`: a queue passed over k times has its turn in at most N - 1 - k queues. It
  turns the bound of `BoundedBypass` into an invariant of single steps.

`WrapValue` and `WrapSum` replace `%` by a case distinction once, since every index the code
forms is below twice the capacity. For the refinement a ring is the sequence of its readable
records: a dequeue takes its head, a count appends the records of the region, and an
unlocked store changes nothing, because the region is behind the readable part.

**Start-up of the multi-HAL.** The libraries do not change, so modules, devices, list and maps
are functions of them; `OpenIndInv` says which, and that a call has gone where its handle
leads. The lemmas below it say that the visiting order numbers the sensors 1, 2, 3 without
gaps (an injection into an interval of the same size is onto), that an index and a local
handle name one sensor, and that the devices are the modules if all of them open.

**Lights.** `LedsShowStatus` is about the last requests, the code decides by its flags:
`LightIndInv` adds what the flags remember of the requests.

**Throttling.** Of one sensor the invariant says that what is stored is one of the two
candidates of the decision, the highest severity reached or the highest severity held, at
the stored temperature. With a positive hysteresis what is reached is also held, so the
decision taken again is the same. (With
hysteresis 0 both may fail, see section 5.)

**Thermal clients.** `ClientsInformed` says nothing about a round of notifications that is
going on. `WatchIndInv` adds that the pending changes are of different sensors, already
checked, with the stored severities, and that a client holds the stored severity exactly of
those sensors for which no change is pending. `OnlyNews` is the other half. For
`thermal_triggered_` the invariant is extended by what the loop has found so far.

**State machine.** An operation of the HAL is a set of outcomes. A lemma for each says what its
outcomes keep and change; a handler is followed through its operations, early returns and
clean-up. `CameraInv` has three layers: for all setups the video channel runs exactly in the
recording states and the live thread exists only in VIDEO_PIC_TAKING; where commits and
parameter strings do not fail, no preview runs in states without one, which needs that a
running ZSL channel is in the mode, present and pending, that the code consults to stop it;
where nothing fails, preview runs in the states that stand for it and the post-processor has
stopped, which needs which channels exist at all in each state, and that a recording begun
in PREVIEW_PIC_TAKING finds its video channel. The case distinctions are those that
`PreviewStopsWithState`, `PreviewRunsInState` and `PostProcEnds` make themselves.

**Calls and answers.** `WakesFindWork` and `AnswersAccounted` together with types are
inductive. Both are equations between numbers of queue entries and numbers of threads; a
lemma for each queue operation and for each change of a caller says by how much each side
changes.

**Post-processor.** `FrameInOnePlace` says that every frame is counted once. The inductive form
is that the six places have no frame in common, hold all frames together, and that no queue
has a frame twice.

**Notifier and HAL3 adapter.** `NotifierIndInv` adds the order of the queue (mode commands
before jobs) and that a JPEG waits, or is in the thread's hands, for the last picture that
began; if that picture has ended, or the JPEG is of another one, only while a STOP is still
to be handled. `EventInv` says the same of the events before it: those of other pictures are
`stragglers`. `CountInv` is why `==` is enough to notice the last JPEG: when all are
counted, the thread waits for SNAPSHOT_DONE or a mode command, which resets the count, is in
front of all jobs. `HAL3on1IndInv` adds that a size that
is set belongs to a callback that has not returned, and where the request's thread is.

**Channel.** Neither `BundlesLead` nor `RefsCounted` is inductive. The invariant `MmIndInv` has
nine parts; the ones that carry the argument are

* `QueueInv`: the first `match_cnt` superbuffers are the matched ones, and the others stand in
  the strict order of their frame numbers. The order is why the older unmatched
  superbuffers that `Join` gives up are exactly those between the matched ones and the
  new match, so that the match becomes the next of the prefix, and why the superbuffer
  `Insert` gives up is the first unmatched one. It also says that no frame is in two
  superbuffers and that each holds frames of its own number unless the numbering starts anew.
* `OnePlace`: a frame is in one place only: a command, the queue, a superbuffer on its way to
  the HAL or with it, or among the lost ones. `CountInv` then says that the channel has one
  reference to a frame exactly when the frame is in one of them, which turns the six
  cardinalities of `RefsCounted` into one bit.
* `SeenInv`: every frame in a place has been counted by the sensor, so the next one is new.
* `PhaseInv` and `MetaGone`: which phases a channel goes through, that at most one flush is on
  its way, only while its sender waits, and that behind the flush of an unlinked
  metadata stream no frame of it follows. So nothing of that stream is in the channel
  when it can no longer be reached. Without it the counts of a borrowed stream, which goes on
  running, would not survive the end of the channel.

The operations on the queue are dealt with one by one, before any action: a lemma for each of
`DropFirst`, `Trim`, `Flush`, `handle_metadata`, `Join`, `Insert` and `comp_and_enqueue` says that
a queue in order (`WorkOK`) stays so and that the frames it held and got (`Held`) are afterwards
in the queue, released or dropped, each in one of these. `TrimKeeps` is the proof that the
loops of overflow and skip end. `DispatchStep` puts the end of every command together, and
there is one lemma for each action of the other threads.

Only model-checked:

* the liveness properties (`BlockedWriterProceeds`, `EventsAreConsumed`, `Settles`,
  `LiveSnapshotEnds`, `PrepareEnds`, `CallsReturn`, `EventsGetThrough`, `PictureEnds`,
  `FramesComeBack`, `RequestEnds`): they need fairness and ENABLED, which the prover does not
  support.

## 5. Known limits and deviations

Behaviour the models contain and about which no property claims the contrary:

* After one library fails to open, the devices are no longer parallel to the modules
  (`multihal.cpp` 773-779). If the failing library has sensors, the first
  `get_sensors_list` ends the process; if it has none, calls go one device too far, which
  `multihal_partial_open` shows.
  `HandlesMatchDevices` and the last part of `SurvivorsAreOpen` therefore assume that
  whatever loads also opens.
* With hysteresis 0, the default, `value > threshold - hysteresis` is strict while
  `value >= threshold` is not: a severity is cleared at its own threshold, as the schema
  says, and a sensor that cools to exactly a lower threshold has that threshold's severity
  only from the next reading on. The properties of the severity are stated for positive
  hysteresis.
* The severity a client asks for (`readTemperature`) is computed at the moment of the
  question, from the stored previous severity, and is not stored: in the middle of a round it
  may be ahead of what the callbacks say.
* A throttled sensor that cannot be read clears `thermal_triggered_`
  (`thermal-helper.cpp` 583): `TriggeredIsExact` is checked with readable sensors.
* Every callback restarts the polling interval, also one for a single sensor
  (`thermal_watcher.cpp` 153): a sensor whose uevent got lost waits while another one's
  keep coming. `Settles` assumes that they pause.
* Camera: with a failing channel `startRecording` leaves PREVIEWING without a preview;
  LONGSHOT_OFF in PIC_TAKING leads to PREVIEWING although that picture gave the preview
  up; `cancelPicture` picks the channel by the parameters of the moment; the
  SNAPSHOT_DONE of a cancelled picture may end the next one. `PreviewRunsInState` and
  `PostProcEnds` are stated for a camera without failures, longshot and early restart.
* In low power mode `startRecording` uses the video channel without a NULL check
  (`QCamera2HWI.cpp` 2234); the model goes to "CRASHED".

* Calls: PREPARE_SNAPSHOT never answers REG_FACE_IMAGE; API commands overtake events, so
  busy callers hold SNAPSHOT_DONE back, and EXIT overtakes it: `closeCamera` then joins a
  callback thread that waits for a thread that has ended (`CallsReturn`,
  `EventsGetThrough` name these cases).
* Notifier: START and STOP go to the head of the queue, so the START of a picture may pass
  the STOP of the one before, which then ends the new one; a JPEG lost to an error ends
  no picture. `PictureEnds` excludes both. TAKE_PICTURE also overtakes the events of the
  encoder: the JPEGs of a cancelled picture whose events still wait are delivered in the
  next picture and counted there, so that it may end early. `DeliversCurrent` says that
  nothing else brings an old JPEG up, and `NoSurplusJpeg` that the count survives it.
* Post-processor: the encoder's event may come before the job's id is stored; the frame
  then stays until the picture is stopped.
* Channel: when a live snapshot's channel is stopped, the metadata frames that are on
  their way to the HAL, or with it, are never given back to the preview's metadata
  stream (`QCameraChannel.cpp` 366-389 and `mm_camera_channel.c` 1352), although
  `mm_camera.c` 498 assumes "qbuf will be done before channel/stream is fully stopped".
  After a renumbering an old frame may share a superbuffer with a new one of its number,
  or be overwritten by it and its buffer be lost. `RefsCounted` and `BundlesLead` show
  that nothing else does this. `match_cnt` survives a stop; the HAL creates a burst
  channel anew each time, so a channel that is started twice is not modelled.
* HAL3on1: a BLOB without a still capture, a still capture without a BLOB or during the
  restart of the preview, a photo beside video, and a `flush` that meets a request make
  the adapter spin for ever; after video, `close` usually does. `RequestEnds` is about
  the other uses.
* Vibrator: every `on` starts a thread that sleeps for the time asked for and reports, also
  when a later call has stopped the motor or started it again, and the conversion of the time to
  microseconds wraps around. What is left to say of the last call alone restates one
  assignment, so the module has no property.
* Lights: an ATTENTION request to switch off also hides a notification, as both share one
  state. A restarted service has forgotten what was shown until it is asked again.

Left out of single definitions:

* `proc` has no STOP_CAPTURE_CHANNEL (`QCameraStateMachine.cpp` 1817-1832): its only sender
  asks `isRegularCapture`, whose body is compiled out (`QCamera2HWI.cpp` 7273-7286).
* `takePicture` and `cancelPicture` leave out the commits of advanced capture and of the halved
  frame rate (`QCamera2HWI.cpp` 2926, 3203). They too would make a refused parameter
  string current, in the model this happens before or after the handler only.
* `MmChannel` has no bracketing: the flash bracketing branch of `Join`
  (`mm_camera_channel.c` 2205-2208) chooses another expected frame, and the GENERAL command
  (257-273) flushes like the flush that is modelled.
* In `MmChannel` a channel with a linked stream is the live snapshot's, which is CONTINUOUS. The
  video channel of low power mode (`QCamera2HWI.cpp` 4797-4805) is BURST and linked.

Not in the models: contents of events beyond type and handle, `fix_sensor_flags`, direct
channels and conversions of `Sensors.cpp` (HIDL types); cooling devices, CPU usage and other JSON
fields of the thermal HAL; auto focus, the backend's internal picture
(`m_bIntEvtPending`) of the camera, longshot in the notifier and the
post-processor, raw formats, memory and its mapping; in mm-camera-interface the set-up of
streams, failing allocations, `configure_notify_mode`, which the HAL does not call, and
the ZSL channel's preview stream, which is matched like the pictures. The lookup of `full_to_global` by an early `poll` while the list is being built is
guarded by different mutexes; the framework asks for the list first, and the models take
the maps as complete when polling starts.

**Components not modelled**, and why: buffer allocation (`QCameraStream`, `QCameraMem`) is
ioctl calls whose effects are in the kernel; the factory and wrapper are tables of
function pointers; `mm-jpeg-interface` and the OMX core depend on a closed component; the
radio wrappers forward and convert; `msm_irqbalance` is a single-threaded numeric
heuristic without a stated specification; the audio, display and media trees are vendored
with hardly a change for this device; the rest is data, tests and build files.

## 6. Plan

Done: the multi-HAL (ring, threads, refinement, start-up), the thermal HAL, the camera's
state machine, its calls, callback thread and post-processor, the channels below it, the
HAL3 adapter, lights and vibrator, and proofs of all safety and action properties that the
runs find to hold.

Next: a third stream in `MmChannel` (the preview of the ZSL channel) and a channel that is
started more than once; a refinement of `MmChannel` to the abstract stream that
`QCameraPostProc` has for it; longshot in the notifier and the post-processor.
