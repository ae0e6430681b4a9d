-------------------------- MODULE MCDeviceServices --------------------------
(* Three sub-HAL libraries, each without sensors or with two, whose local  *)
(* handles coincide with those of other libraries.                         *)
EXTENDS DeviceServices

MCSensorLists == {<< >>, <<1, 0>>}
=============================================================================
