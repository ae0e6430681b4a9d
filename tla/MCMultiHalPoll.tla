--------------------------- MODULE MCMultiHalPoll ---------------------------
(* "acc" is a registered sensor of every sub-HAL and "ghost" a handle that *)
(* no sub-HAL registered.                                                  *)
EXTENDS MultiHalPoll

MCLocalHandles  == {"acc", "ghost"}
MCFullToGlobal  == [fh \in (0 .. NumQueues - 1) \X {"acc"} |-> fh[1] + 1]
=============================================================================
