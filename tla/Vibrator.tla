------------------------------ MODULE Vibrator ------------------------------
(***************************************************************************)
(* The vibrator service (aidl/vibrator/Vibrator.cpp).  The kernel runs the *)
(* motor for the time written to "enable"; completion is reported by a     *)
(* detached thread per call, which sleeps for the same time and never      *)
(* looks at the motor.  A write that fails leaves the stream in its failed *)
(* state: the code never clears it, so later writes fail too.              *)
(***************************************************************************)
EXTENDS Naturals

CONSTANTS Timeouts,      \* the durations asked for, in ms
          MsToUs,        \* 1000: ticks of the clock per ms
          Word,          \* 2^32: usleep's argument is taken modulo this
          Levels,        \* amplitudes asked for
          MaxOns         \* bound: calls of on() with a callback

ASSUME VibratorAssumption ==
  /\ Timeouts \subseteq Nat
  /\ {MsToUs, Word} \subseteq Nat \ {0}
  /\ Levels \subseteq Nat
  /\ MaxOns \in Nat

VARIABLES mEnable,     \* "good", or "failed" for ever
          mVtgLevel,   \* "closed" (no such node), "good" or "failed"
          vtg_level,   \* the amplitude in the kernel
          motor,       \* ticks until the kernel stops the motor
          thread,      \* the detached threads: "none", "sleeping", "done"
          left         \* ticks until a thread's usleep is over

vibratorVars == <<mEnable, mVtgLevel, vtg_level, motor, thread, left>>

VibratorThreads == 1 .. MaxOns

VibratorInit ==
  /\ mEnable = "good"
  /\ mVtgLevel \in {"closed", "good"}
  /\ vtg_level = 0
  /\ motor = 0
  /\ thread = [k \in VibratorThreads |-> "none"]
  /\ left = [k \in VibratorThreads |-> 0]

\* Writing to a stream: it may fail, and a failed one stays failed.
Written(stream) == IF stream = "good" THEN {"good", "failed"} ELSE {stream}

\* usleep(timeoutMs * 1000), in 32 bits.
SleepTicks(timeoutMs) == (timeoutMs * MsToUs) % Word

\* Without a callback, or without a thread left in the bound, there is no report.
Started(timeoutMs) ==
  \/ UNCHANGED <<thread, left>>
  \/ \E k \in VibratorThreads :
       /\ thread[k] = "none" /\ \A j \in 1 .. k - 1 : thread[j] # "none"
       /\ thread' = [thread EXCEPT ![k] = "sleeping"]
       /\ left' = [left EXCEPT ![k] = SleepTicks(timeoutMs)]

\* The body of on(): a failed write starts no thread.
TurnOn(timeoutMs) ==
  \E s \in Written(mEnable) :
    /\ mEnable' = s
    /\ \/ /\ s = "good"
          /\ motor' = timeoutMs * MsToUs
          /\ Started(timeoutMs)
       \/ s = "failed" /\ UNCHANGED <<motor, thread, left>>

on(timeoutMs) == TurnOn(timeoutMs) /\ UNCHANGED <<mVtgLevel, vtg_level>>

off ==
  /\ \E s \in Written(mEnable) :
       /\ mEnable' = s
       /\ motor' = IF s = "good" THEN 0 ELSE motor
  /\ UNCHANGED <<mVtgLevel, vtg_level, thread, left>>

\* The body of setAmplitude(): no node, out of range, failed or written.
WriteAmplitude(amplitude) ==
  \/ /\ mVtgLevel # "closed" /\ amplitude \in 12 .. 31
     /\ \E s \in Written(mVtgLevel) :
          /\ mVtgLevel' = s
          /\ vtg_level' = IF s = "good" THEN amplitude ELSE vtg_level
  \/ /\ mVtgLevel = "closed" \/ amplitude \notin 12 .. 31
     /\ UNCHANGED <<mVtgLevel, vtg_level>>

setAmplitude(amplitude) ==
  WriteAmplitude(amplitude) /\ UNCHANGED <<mEnable, motor, thread, left>>

\* CLICK and TICK: the result of setAmplitude is not looked at.
perform(timeoutMs) ==
  \E amplitude \in {18, 25, 31} : WriteAmplitude(amplitude) /\ TurnOn(timeoutMs)

Slept(k) == thread[k] = "sleeping" /\ left[k] = 0

\* The thread wakes up, at some time after its sleep, and reports.
onComplete(k) ==
  /\ Slept(k)
  /\ thread' = [thread EXCEPT ![k] = "done"]
  /\ UNCHANGED <<mEnable, mVtgLevel, vtg_level, motor, left>>

\* The kernel's clock, which the motor and the sleeping threads share.
Tick ==
  LET less(n) == IF n = 0 THEN 0 ELSE n - 1 IN
  /\ motor > 0 \/ \E k \in VibratorThreads : left[k] > 0
  /\ motor' = less(motor)
  /\ left' = [k \in VibratorThreads |-> less(left[k])]
  /\ UNCHANGED <<mEnable, mVtgLevel, vtg_level, thread>>

VibratorNext ==
  \/ \E t \in Timeouts : on(t) \/ perform(t)
  \/ off
  \/ \E a \in Levels : setAmplitude(a)
  \/ \E k \in VibratorThreads : onComplete(k)
  \/ Tick
=============================================================================
