--------------------------- MODULE SensorChannel ----------------------------
(***************************************************************************)
(* What the multi-HAL promises SensorService, without rings, regions,      *)
(* locks or threads: every sub-HAL has a bounded first-in first-out        *)
(* channel; batches are appended to it whole; poll() takes events from the *)
(* heads of channels, drops the ones the handle map does not know, keeps   *)
(* the others in the order taken, and does not return empty-handed.        *)
(***************************************************************************)
EXTENDS Integers, Sequences

CONSTANTS Sources,        \* the sub-HALs
          Items,          \* events as a sub-HAL writes them
          Bound,          \* room in a channel
          Translate(_, _),\* event and source to what the client receives
          Dropped(_)      \* the translated event must not be passed on

VARIABLES chan,           \* per source: events waiting
          batch,          \* events collected by the current or last poll()
          polling         \* a poll() is under way

absVars == <<chan, batch, polling>>

AbsInit ==
  /\ chan = [s \in Sources |-> << >>]
  /\ batch = << >>
  /\ polling = FALSE

Published(old, new) ==
  /\ Len(new) > Len(old)
  /\ Len(new) <= Bound
  /\ SubSeq(new, 1, Len(old)) = old
  /\ \A i \in 1 .. Len(new) : new[i] \in Items

\* A sub-HAL's batch arrives behind what is already waiting.  The channel
\* after the step is a parameter so that a refinement can name it.
Publish(s, new) ==
  /\ Published(chan[s], new)
  /\ chan' = [chan EXCEPT ![s] = new]
  /\ UNCHANGED <<batch, polling>>

StartPoll ==
  /\ ~polling
  /\ polling' = TRUE
  /\ batch' = << >>
  /\ UNCHANGED chan

Take(s) ==
  /\ polling
  /\ chan[s] # << >>
  /\ chan' = [chan EXCEPT ![s] = Tail(@)]
  /\ LET d == Translate(Head(chan[s]), s)
     IN  batch' = IF Dropped(d) THEN batch ELSE Append(batch, d)
  /\ UNCHANGED polling

EndPoll ==
  /\ polling
  /\ batch # << >>
  /\ polling' = FALSE
  /\ UNCHANGED <<chan, batch>>

AbsNext ==
  \/ StartPoll
  \/ EndPoll
  \/ \E s \in Sources : Take(s) \/ Publish(s, chan'[s])

AbsSpec == AbsInit /\ [][AbsNext]_absVars
=============================================================================
