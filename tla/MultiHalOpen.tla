---------------------------- MODULE MultiHalOpen ----------------------------
(***************************************************************************)
(* How the sensors multi-HAL comes up and routes calls                     *)
(* (hidl/sensors/multihal.cpp): the sub-HAL libraries of the config file   *)
(* are loaded once, open_sensors opens a device for each, the first        *)
(* get_sensors_list numbers all sensors with global handles, and activate, *)
(* setDelay, batch, flush and inject_sensor_data are forwarded to the      *)
(* device found through the handle.                                        *)
(***************************************************************************)
EXTENDS Integers, FiniteSets, Sequences, SequencesExt

CONSTANTS
  NumLibs,        \* lines of the config file
  SensorLists     \* handle lists a sub-HAL may report

ASSUME NumLibsAssumption == NumLibs \in Nat

\* A sub-HAL tells its own sensors apart by their handles.
ASSUME SensorListsAssumption ==
  \A list \in SensorLists :
    /\ list \in Seq(Nat)
    /\ \A j, k \in 1 .. Len(list) : list[j] = list[k] => j = k

Libs == 1 .. NumLibs

VARIABLES
  lib,              \* per library: does it load, does open() work, sensors
  sub_hw_modules,   \* loaded libraries in file order
  opened,           \* open_sensors has run / the device was closed
  sub_hw_devices,   \* devices opened, in order (named by their library)
  sub_hw_versions,  \* libraries with a known version; {} once deleted
  list_built,       \* global_sensors_list is not null
  global_list,      \* the sensors in it
  next_global_handle,
  full_to_global,   \* <<module index, local handle>> -> global handle
  global_to_full,   \* global handle -> <<module index, local handle>>
  crashed,          \* the process died
  call              \* last call into a sub-HAL device

openVars == <<lib, sub_hw_modules, opened, sub_hw_devices, sub_hw_versions,
              list_built, global_list, next_global_handle, full_to_global,
              global_to_full, crashed, call>>

NoCall == [op |-> "none", handle |-> 0, device |-> 0, local |-> 0, result |-> 0]
EINVAL == -22

OpenInit ==
  /\ lib \in [Libs -> [loads : BOOLEAN, opens : BOOLEAN,
                       injects : BOOLEAN, sensors : SensorLists]]
  /\ sub_hw_modules = << >>
  /\ opened = "no"
  /\ sub_hw_devices = << >>
  /\ sub_hw_versions = {}
  /\ list_built = FALSE
  /\ global_list = << >>
  /\ next_global_handle = 1
  /\ full_to_global = << >>
  /\ global_to_full = << >>
  /\ crashed = FALSE
  /\ call = NoCall
-----------------------------------------------------------------------------
\* The members of a finite set of numbers, the smallest first.
InOrder(S) ==
  [n \in 1 .. Cardinality(S) |->
     CHOOSE x \in S : Cardinality({y \in S : y <= x}) = n]

\* lazy_init_modules: libraries that load, in the order of the file.
LoadedModules == InOrder({l \in Libs : lib[l].loads})

\* open_sensors: a device for every module whose open() succeeds.
OpenedDevices(modules) == InOrder({l \in ToSet(modules) : lib[l].opens})

open_sensors ==
  /\ opened = "no"
  /\ sub_hw_modules' = LoadedModules
  /\ sub_hw_devices' = OpenedDevices(LoadedModules)
  /\ sub_hw_versions' = ToSet(OpenedDevices(LoadedModules))
  /\ opened' = "yes"
  /\ UNCHANGED <<lib, list_built, global_list, next_global_handle, full_to_global,
                 global_to_full, crashed, call>>

\* Mutant: the index counts lines of the config file.
SensorByLine(modules, i, k) ==
  [owner |-> modules[i], index |-> modules[i] - 1,
   local |-> lib[modules[i]].sensors[k]]

\* The k-th sensor of the i-th module, with the index of the module.
SensorOf(modules, i, k) ==
  [owner |-> modules[i], index |-> i - 1,
   local |-> lib[modules[i]].sensors[k]]

\* The two loops of lazy_init_sensors_list visit the sensors module by module
\* and each module's in their order.
Places(modules) ==
  UNION {{i} \X (1 .. Len(lib[modules[i]].sensors)) : i \in 1 .. Len(modules)}

\* How many have been visited when the one at p has been.
Visited(modules, p) ==
  Cardinality({q \in Places(modules) : q[1] < p[1] \/ (q[1] = p[1] /\ q[2] <= p[2])})

AllSensors(modules) ==
  LET nth(n) == CHOOSE p \in Places(modules) : Visited(modules, p) = n
  IN  [n \in 1 .. Cardinality(Places(modules)) |->
         SensorOf(modules, nth(n)[1], nth(n)[2])]

\* Mutant: an unknown module is taken to have some version.
VersionDefaulted(sensors) == FALSE

\* sub_hw_versions->at throws for a module that was not opened, and the
\* pointer is null before open_sensors.
VersionMissing(sensors) ==
  \E k \in 1 .. Len(sensors) :
    sensors[k].owner \notin sub_hw_versions

AlreadyInitialized == list_built

\* A map after assignments to the keys of new.
Assigned(new, map) ==
  [x \in DOMAIN new \cup DOMAIN map |-> IF x \in DOMAIN new THEN new[x] ELSE map[x]]

\* lazy_init_sensors_list, first call: assign_global_handle for every sensor.
lazy_init_sensors_list ==
  LET sensors == AllSensors(LoadedModules)
      n == Len(sensors)
      Full(k) == <<sensors[k].index, sensors[k].local>>
  IN  /\ ~AlreadyInitialized
      /\ sub_hw_modules' = LoadedModules
      /\ IF VersionMissing(sensors)
         THEN /\ crashed' = TRUE
              /\ UNCHANGED <<list_built, global_list, next_global_handle,
                             full_to_global, global_to_full, sub_hw_versions>>
         ELSE /\ list_built' = TRUE
              /\ global_list' = [k \in 1 .. n |->
                   [owner |-> sensors[k].owner, local |-> sensors[k].local,
                    handle |-> next_global_handle + k - 1]]
              /\ global_to_full' = Assigned(
                   [g \in next_global_handle .. next_global_handle + n - 1 |->
                      Full(g - next_global_handle + 1)], global_to_full)
              /\ full_to_global' = Assigned(
                   [fh \in {Full(k) : k \in 1 .. n} |->
                      next_global_handle - 1 +
                        (CHOOSE k \in 1 .. n : Full(k) = fh /\
                           \A j \in k + 1 .. n : Full(j) # fh)], full_to_global)
              /\ next_global_handle' = next_global_handle + n
              /\ sub_hw_versions' = {}
              /\ UNCHANGED crashed
      /\ UNCHANGED <<lib, opened, sub_hw_devices, call>>

get_sensors_list == opened = "yes" /\ lazy_init_sensors_list
-----------------------------------------------------------------------------
Known(h) == h \in DOMAIN global_to_full

\* get_v0_device_by_handle / get_v1_device_by_handle: 0 stands for NULL.
DeviceOf(h) ==
  IF Known(h) /\ global_to_full[h][1] < Len(sub_hw_devices)
  THEN sub_hw_devices[global_to_full[h][1] + 1] ELSE 0

\* get_local_handle
LocalOf(h) == IF Known(h) THEN global_to_full[h][2] ELSE -1

\* A call that reaches a sub-HAL, or is ignored with -EINVAL.
Forward(op, h, local, result) ==
  call' = IF LocalOf(h) >= 0 /\ DeviceOf(h) # 0
          THEN [op |-> op, handle |-> h, device |-> DeviceOf(h),
                local |-> local, result |-> result]
          ELSE [NoCall EXCEPT !.op = op, !.handle = h, !.result = EINVAL]

Ready == opened = "yes" /\ list_built

CallUnchanged ==
  UNCHANGED <<lib, sub_hw_modules, opened, sub_hw_devices, sub_hw_versions,
              list_built, global_list, next_global_handle, full_to_global, global_to_full,
              crashed>>

\* The sub-HAL accepts the call or fails it.
activate(h) ==
  /\ Ready
  /\ \E result \in {0, EINVAL} : Forward("activate", h, LocalOf(h), result)
  /\ CallUnchanged

setDelay(h) ==
  /\ Ready
  /\ \E result \in {0, EINVAL} : Forward("setDelay", h, LocalOf(h), result)
  /\ CallUnchanged

\* device__batch: setDelay with its result thrown away.
batch(h) ==
  /\ Ready
  /\ call' = IF LocalOf(h) >= 0 /\ DeviceOf(h) # 0
             THEN [op |-> "batch", handle |-> h, device |-> DeviceOf(h),
                   local |-> LocalOf(h), result |-> 0]
             ELSE [NoCall EXCEPT !.op = "batch", !.handle = h]
  /\ CallUnchanged

\* device__flush: never supported.
flush(h) ==
  /\ Ready
  /\ call' = [NoCall EXCEPT !.op = "flush", !.handle = h, !.result = EINVAL]
  /\ CallUnchanged

\* inject_sensor_data: only a version 1.4 device gets the event, unchanged,
\* that is with the global handle in it.
inject_sensor_data(h) ==
  /\ Ready
  /\ IF DeviceOf(h) # 0 /\ lib[DeviceOf(h)].injects
     THEN \E result \in {0, EINVAL} : Forward("inject", h, h, result)
     ELSE call' = [NoCall EXCEPT !.op = "inject", !.handle = h,
                                 !.result = EINVAL]
  /\ CallUnchanged

\* sensors_poll_context_t::close and device__close
close ==
  /\ opened = "yes"
  /\ opened' = "closed"
  /\ UNCHANGED <<lib, sub_hw_modules, sub_hw_devices, sub_hw_versions,
                 list_built, global_list, next_global_handle, full_to_global,
                 global_to_full, crashed, call>>

\* Handles clients try: known ones, and one beyond.
Handles == 0 .. next_global_handle

OpenNext ==
  /\ ~crashed
  /\ \/ open_sensors
     \/ get_sensors_list
     \/ close
     \/ \E h \in Handles : \/ activate(h) \/ setDelay(h) \/ batch(h)
                           \/ flush(h) \/ inject_sensor_data(h)

-----------------------------------------------------------------------------
\* Every library that loads can also be opened.
AllOpen == \A l \in Libs : lib[l].loads => lib[l].opens

\* If all sub-HALs opened, every sensor of the global list has a handle of its
\* own, the same one in both maps and in the list, and it names the device
\* whose sub-HAL reported the sensor, so that events and calls translate back
\* and forth; a call reaches the sub-HAL that owns the sensor.  (open_sensors
\* leaves out a device that fails, and the devices are then no longer "parallel
\* to sub_hw_modules".)
HandlesMatchDevices ==
  AllOpen /\ list_built /\ opened = "yes" =>
    \A k \in 1 .. Len(global_list) :
      LET s == global_list[k]
      IN  /\ \A j \in 1 .. Len(global_list) :
               global_list[j].handle = s.handle => j = k
          /\ DeviceOf(s.handle) = s.owner
          /\ LocalOf(s.handle) = s.local
          /\ full_to_global[global_to_full[s.handle]] = s.handle
          /\ call.handle = s.handle /\ call.device # 0 => call.device = s.owner

\* A call reaches the sub-HAL that owns the sensor it names, whichever libraries
\* opened: "Remember their devices in a vector parallel to sub_hw_modules", which
\* is what get_device_by_handle's use of the module index relies on.
CallsReachOwner ==
  \A k \in 1 .. Len(global_list) :
    LET s == global_list[k]
    IN  call.handle = s.handle /\ call.device # 0 => call.device = s.owner

\* A library whose open() failed but whose sensor list is not empty brings
\* the process down at the first get_sensors_list; whoever survives it has a
\* device for every module with sensors.  While every open() works nothing of
\* the kind happens, although sub_hw_versions is deleted with the first list.
SurvivorsAreOpen ==
  /\ list_built =>
       \A k \in 1 .. Len(global_list) :
         Contains(sub_hw_devices, global_list[k].owner)
  /\ AllOpen => ~crashed
=============================================================================
