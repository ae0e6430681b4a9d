---------------------------- MODULE ThermalWatch ----------------------------
(***************************************************************************)
(* The thermal HAL at run time: the watcher thread (ThermalWatcher and     *)
(* ThermalHelper::thermalWatcherCallbackFunc), the callback list of        *)
(* Thermal, the Binder clients and the kernel that heats sensors and sends *)
(* uevents.                                                                *)
(*                                                                         *)
(* Time passes in ticks while the watcher sleeps in Looper::pollOnce; the  *)
(* work between two sleeps takes none.  Sensors are numbered in the order  *)
(* of the std::map that holds them.                                        *)
(***************************************************************************)
EXTENDS ThermalSeverity, Sequences

CONSTANTS Sensors,      \* 1 .. n, the keys of sensor_info_map_
          Monitored,    \* the ones with is_monitor
          MayFail,      \* sensors whose temp file may read as empty
          Temps,        \* [Sensors -> temperatures]
          Hot, Cold, Hyst,  \* thresholds and hysteresis of every sensor
          Polling,      \* is_polling_: no uevent support
          Short, Long,  \* kMinPollIntervalMs, kUeventPollTimeoutMs, in ticks
          Clients,      \* callbacks
          Wants         \* [Clients -> SUBSET Sensors]: the type filter

ASSUME WatchAssumption ==
  /\ Sensors \subseteq Nat /\ IsFiniteSet(Sensors)
  /\ Monitored \subseteq Sensors /\ MayFail \subseteq Sensors
  /\ \A s \in Monitored : DOMAIN Hot[s] \cup DOMAIN Cold[s] \subseteq Severities
  /\ Polling \in BOOLEAN
  /\ Short \in Nat \ {0} /\ Long \in Nat /\ Short < Long
  /\ Wants \in [Clients -> SUBSET Sensors]

VARIABLES
  temp,        \* what each temp file holds
  uevents,     \* names in the uevent socket
  status,      \* sensor_status_map_
  pc,          \* watcher: "top", "wait", "check", "send"
  triggered,   \* thermal_triggered_
  elapsed,     \* ticks since last_update_time_
  slept,       \* ticks in the current pollOnce
  scope,       \* uevent_sensors of the current callback, {} for all
  todo,        \* sensors the callback has still to look at
  found,       \* the callback's thermal_triggered
  temps,       \* the callback's temps: severity changes to send
  callbacks,   \* callbacks_
  alive,       \* clients whose process runs
  view,        \* what each client was last told of each sensor
  base         \* severities when the client registered

watcher == <<pc, triggered, elapsed, slept, scope, todo, found, temps>>
clients == <<callbacks, alive, view, base>>
vars    == <<temp, uevents, status, watcher, clients>>

Temperatures == {f \in [Sensors -> UNION {Temps[s] : s \in Sensors}] :
                   \A s \in Sensors : f[s] \in Temps[s]}

Untold == -1

NoStatus == [severity |-> NONE, hot |-> NONE, cold |-> NONE]

\* ThermalHelper's constructor and registerFilesToWatch.  In polling mode
\* last_update_time_ is still the clock's epoch: the first check is at once.
Init ==
  /\ temp \in Temperatures
  /\ uevents = {}
  /\ status = [s \in Sensors |-> NoStatus]
  /\ pc = "top" /\ triggered = TRUE
  /\ elapsed = IF Polling THEN Long ELSE 0
  /\ slept = 0 /\ scope = {} /\ todo = {} /\ found = FALSE /\ temps = << >>
  /\ callbacks = {} /\ alive = Clients
  /\ view = [c \in Clients |-> [s \in Sensors |-> Untold]]
  /\ base = [c \in Clients |-> [s \in Sensors |-> NONE]]
-----------------------------------------------------------------------------
(* threadLoop                                                              *)

Timeout == IF triggered \/ Polling THEN Short ELSE Long

StartCallback(names) ==
  /\ pc' = "check" /\ scope' = names /\ todo' = Sensors
  /\ found' = FALSE /\ temps' = << >> /\ slept' = 0
  /\ UNCHANGED <<triggered, elapsed>>

\* The interval is over already, or the thread goes to sleep.
ThreadLoop ==
  /\ pc = "top"
  /\ IF elapsed < Timeout
     THEN /\ pc' = "wait" /\ slept' = 0
          /\ UNCHANGED <<triggered, elapsed, scope, todo, found, temps>>
     ELSE StartCallback({})
  /\ UNCHANGED <<temp, uevents, status, clients>>

\* pollOnce times out: every sensor is checked.
PollTimeout ==
  /\ pc = "wait" /\ slept >= Timeout
  /\ StartCallback({})
  /\ UNCHANGED <<temp, uevents, status, clients>>

\* pollOnce returns the uevent socket; parseUevent drains it.  Events of
\* sensors that are not monitored lead back to the top of the loop.
ParseUevent ==
  /\ pc = "wait" /\ uevents # {}
  /\ uevents' = {}
  /\ LET names == uevents \cap Monitored
     IN  IF names = {}
         THEN /\ pc' = "top"
              /\ UNCHANGED <<triggered, elapsed, slept, scope, todo, found, temps>>
         ELSE StartCallback(names)
  /\ UNCHANGED <<temp, status, clients>>
-----------------------------------------------------------------------------
(* thermalWatcherCallbackFunc                                              *)

\* readTemperature: hot and cold severity for the current temperature.
ReadStatus(s) ==
  LET h == HotSeverity(Hot[s], Hyst[s], status[s].hot, temp[s])
      c == ColdSeverity(Cold[s], Hyst[s], status[s].cold, temp[s])
  IN  IF s \in Monitored
      THEN [severity |-> ThrottlingStatus(h, c), hot |-> h, cold |-> c]
      ELSE NoStatus

\* The loop body without a reading.
Pass(s, flag) ==
  /\ found' = (found \/ flag)
  /\ UNCHANGED <<status, temps>>

Unmonitored(s) == s \notin Monitored /\ Pass(s, FALSE)

OutOfScope(s) ==
  /\ s \in Monitored /\ scope # {} /\ s \notin scope
  /\ Pass(s, status[s].severity # NONE)

InScope(s) == s \in Monitored /\ (scope = {} \/ s \in scope)

ReadFails(s) ==
  /\ InScope(s) /\ s \in MayFail
  /\ Pass(s, FALSE)

\* Mutant: the previous severities are not stored.
ReadSucceedsForgetful(s) ==
  LET new == ReadStatus(s)
  IN  /\ InScope(s)
      /\ status' = [status EXCEPT ![s].severity = new.severity]
      /\ temps' = IF new.severity # status[s].severity
                  THEN Append(temps, [sensor |-> s, severity |-> new.severity])
                  ELSE temps
      /\ found' = (found \/ new.severity # NONE)

\* Mutant: every reading is reported, changed or not.
ReadSucceedsChatty(s) ==
  LET new == ReadStatus(s)
  IN  /\ InScope(s)
      /\ status' = [status EXCEPT ![s] = new]
      /\ temps' = Append(temps, [sensor |-> s, severity |-> new.severity])
      /\ found' = (found \/ new.severity # NONE)

\* Mutant: only a change of severity counts as triggered.
ReadSucceedsOnChange(s) ==
  LET new == ReadStatus(s)
  IN  /\ InScope(s)
      /\ status' = [status EXCEPT ![s] = new]
      /\ temps' = IF new.severity # status[s].severity
                  THEN Append(temps, [sensor |-> s, severity |-> new.severity])
                  ELSE temps
      /\ found' = (found \/ new.severity > status[s].severity)

ReadSucceeds(s) ==
  LET new == ReadStatus(s)
  IN  /\ InScope(s)
      /\ status' = [status EXCEPT ![s] = new]
      /\ temps' = IF new.severity # status[s].severity
                  THEN Append(temps, [sensor |-> s, severity |-> new.severity])
                  ELSE temps
      /\ found' = (found \/ new.severity # NONE)

CheckSensor ==
  /\ pc = "check" /\ todo # {}
  /\ LET s == Min(todo)
     IN  /\ \/ Unmonitored(s)
            \/ OutOfScope(s)
            \/ ReadFails(s)
            \/ ReadSucceeds(s)
         /\ todo' = todo \ {s}
  /\ UNCHANGED <<temp, uevents, pc, triggered, elapsed, slept, scope, clients>>

\* The loop is over; cb_(temps) takes thermal_callback_mutex_.
LockCallbacks ==
  /\ pc = "check" /\ todo = {} /\ temps # << >>
  /\ pc' = "send"
  /\ UNCHANGED <<temp, uevents, status, triggered, elapsed, slept, scope, todo,
                 found, temps, clients>>

Addressed(t) == {c \in callbacks : t.sensor \in Wants[c]}

\* Mutant: a callback that fails stops the round for the others.
SendOneFragile ==
  /\ pc = "send" /\ temps # << >>
  /\ LET t == Head(temps)
         told == IF Addressed(t) \subseteq alive THEN Addressed(t) ELSE {}
     IN  /\ view' = [c \in Clients |->
              IF c \in told THEN [view[c] EXCEPT ![t.sensor] = t.severity]
              ELSE view[c]]
         /\ callbacks' = callbacks \ (Addressed(t) \ alive)
  /\ temps' = Tail(temps)
  /\ UNCHANGED <<temp, uevents, status, pc, triggered, elapsed, slept, scope,
                 todo, found, alive, base>>

\* sendThermalChangedCallback, one temperature: callbacks that fail are
\* erased from the list.
SendOne ==
  /\ pc = "send" /\ temps # << >>
  /\ LET t == Head(temps)
     IN  /\ view' = [c \in Clients |->
              IF c \in Addressed(t) \cap alive
              THEN [view[c] EXCEPT ![t.sensor] = t.severity]
              ELSE view[c]]
         /\ callbacks' = callbacks \ (Addressed(t) \ alive)
  /\ temps' = Tail(temps)
  /\ UNCHANGED <<temp, uevents, status, pc, triggered, elapsed, slept, scope,
                 todo, found, alive, base>>

\* The callback returns to threadLoop.
Finish ==
  /\ pc \in {"check", "send"} /\ todo = {} /\ temps = << >>
  /\ pc' = "top" /\ triggered' = found /\ elapsed' = 0 /\ scope' = {}
  /\ found' = FALSE
  /\ UNCHANGED <<temp, uevents, status, slept, todo, temps, clients>>
-----------------------------------------------------------------------------
(* Binder clients.  The list is guarded by thermal_callback_mutex_, which  *)
(* the watcher holds while it sends.                                       *)

ListFree == pc # "send"

\* Observation only: view and base follow registered, living clients.
Forget(c) ==
  /\ view' = [view EXCEPT ![c] = [s \in Sensors |-> Untold]]
  /\ base' = [base EXCEPT ![c] = [s \in Sensors |-> NONE]]

registerThermalChangedCallback(c) ==
  /\ ListFree /\ c \in alive /\ c \notin callbacks
  /\ callbacks' = callbacks \cup {c}
  /\ view' = [view EXCEPT ![c] = [s \in Sensors |-> Untold]]
  /\ base' = [base EXCEPT ![c] = [s \in Sensors |-> status[s].severity]]
  /\ UNCHANGED <<temp, uevents, status, watcher, alive>>

unregisterThermalChangedCallback(c) ==
  /\ ListFree /\ c \in alive /\ c \in callbacks
  /\ callbacks' = callbacks \ {c}
  /\ Forget(c)
  /\ UNCHANGED <<temp, uevents, status, watcher, alive>>

Die(c) ==
  /\ c \in alive
  /\ alive' = alive \ {c}
  /\ Forget(c)
  /\ UNCHANGED <<temp, uevents, status, watcher, callbacks>>
-----------------------------------------------------------------------------
(* The kernel.  A uevent may follow a change of temperature or come on its *)
(* own; it may also be lost.                                               *)

Heat(s, t, told) ==
  /\ t # temp[s]
  /\ temp' = [temp EXCEPT ![s] = t]
  /\ uevents' = IF told /\ ~Polling THEN uevents \cup {s} ELSE uevents
  /\ UNCHANGED <<status, watcher, clients>>

Uevent(s) ==
  /\ ~Polling /\ s \notin uevents
  /\ uevents' = uevents \cup {s}
  /\ UNCHANGED <<temp, status, watcher, clients>>

Asleep == pc = "wait" /\ slept < Timeout

Tick ==
  /\ Asleep
  /\ slept' = slept + 1
  /\ elapsed' = elapsed + 1
  /\ UNCHANGED <<temp, uevents, status, pc, triggered, scope, todo, found,
                 temps, clients>>
-----------------------------------------------------------------------------
Watcher == \/ ThreadLoop \/ PollTimeout \/ ParseUevent
           \/ CheckSensor \/ LockCallbacks \/ SendOne \/ Finish

Next ==
  \/ Watcher
  \/ Tick
  \/ \E c \in Clients : \/ registerThermalChangedCallback(c)
                        \/ unregisterThermalChangedCallback(c)
                        \/ Die(c)
  \/ \E s \in Sensors, told \in BOOLEAN : \E t \in Temps[s] : Heat(s, t, told)
  \/ \E s \in Sensors : Uevent(s)

Spec == Init /\ [][Next]_vars

\* The thread is scheduled, and uevents, however many, do not stop time.
FairSpec == Spec /\ WF_vars(Watcher) /\ SF_vars(Tick)
-----------------------------------------------------------------------------
Severity(s) == status[s].severity
Idle        == pc \in {"top", "wait"}

\* While the watcher sleeps, a registered client knows the stored severity of
\* every sensor it asked for: it was told the last change, or nothing has
\* changed since it registered.  Clients that come, go or die in the middle
\* of a round do not make another one miss a change.
ClientsInformed ==
  Idle => \A c \in callbacks \cap alive : \A s \in Wants[c] :
            Severity(s) = IF view[c][s] = Untold THEN base[c][s] ELSE view[c][s]

\* No client is told what it was told last.
OnlyNews ==
  \A i \in DOMAIN temps : \A c \in Addressed(temps[i]) \cap alive :
    temps[i].severity # view[c][temps[i].sensor]

\* After every callback thermal_triggered_ says whether a sensor is past its
\* first threshold ("Flag to point out if any sensor across the first
\* threshold"): it selects the polling interval, and the kernel's trip point
\* is the first threshold only.
TriggeredIsExact ==
  [][~Idle /\ Idle' =>
       (triggered' <=> \E s \in Monitored : Severity(s) # NONE)]_vars

\* A temperature that stays is eventually, and from then on, reported with a
\* severity between the highest threshold reached and the highest one whose
\* hysteresis band it is in, although its uevents may get lost and those of
\* unmonitored sensors never stop.  The uevents of other monitored sensors
\* have to pause: each of them restarts the polling interval for all.
Settles ==
  \A s \in Monitored : \A t \in Temps[s] :
    <>[](temp[s] = t /\ uevents \cap Monitored \subseteq {s}) =>
    <>[](status[s].hot \in HighestOf(HotReached(Hot[s], t)) ..
                           HighestOf(HotHeld(Hot[s], Hyst[s], t)))
=============================================================================
