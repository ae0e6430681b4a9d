-------------------------- MODULE MCCameraServices --------------------------
(* One caller takes and cancels pictures, the other asks questions and      *)
(* registers faces.  Requests of the HAL3 device: preview, video, a photo   *)
(* in the usual form, and the two forms that the adapter does not expect.   *)
EXTENDS CameraServices

MCUses == [c \in Callers |-> IF c = "app" THEN {"TAKE", "CANCEL"} ELSE {"QUERY", "FACE"}]

MCRequests ==
  {[still |-> FALSE, bufs |-> <<"YUV">>],
   [still |-> FALSE, bufs |-> <<"YUV", "VIDEO">>],
   [still |-> TRUE,  bufs |-> <<"YUV", "BLOB">>],
   [still |-> FALSE, bufs |-> <<"BLOB">>],
   [still |-> TRUE,  bufs |-> <<"YUV">>]}
=============================================================================
