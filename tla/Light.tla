------------------------------- MODULE Light -------------------------------
(***************************************************************************)
(* The light service (hidl/light/Light.cpp).  A red LED shows charging and *)
(* a green one notifications; green has precedence.  Three static flags    *)
(* remember what was asked for, the kernel keeps what was written.  The    *)
(* service may die and be restarted by init: the flags start from zero,    *)
(* the LEDs stay as they are.  mLock makes every call one step.            *)
(***************************************************************************)
EXTENDS Naturals

CONSTANTS LightLevels,     \* grey levels of the requests, 0 is "off"
          LcdMax           \* max_brightness of the panel

ASSUME LightAssumption == LightLevels \subseteq 0 .. 255 /\ LcdMax \in Nat

VARIABLES green_status, red_status, init_status,   \* flags of the process
          mChargingLed, mNotificationLed,          \* triggers in the kernel
          mLcdBacklight,                           \* brightness in the kernel
          want,      \* history: what this process was last asked of each LED
          settled    \* history: the LEDs written since start-up was over

lightVars == <<green_status, red_status, init_status, mChargingLed,
               mNotificationLed, mLcdBacklight, want, settled>>

LightColours == {"red", "green"}

\* init.qcom.rc has switched red off and made green blink.
LightInit ==
  /\ green_status = 0 /\ red_status = 0 /\ init_status = 0
  /\ mChargingLed = "none" /\ mNotificationLed = "blinking"
  /\ mLcdBacklight = 0
  /\ want = [c \in LightColours |-> FALSE]
  /\ settled = {}

isLit(level) == level # 0

\* BACKLIGHT: a grey of level g has brightness (77 + 150 + 29) * g >> 8 = g.
setLcdBacklight(level) ==
  /\ mLcdBacklight' = (level * LcdMax) \div 255
  /\ UNCHANGED <<green_status, red_status, init_status, mChargingLed,
                 mNotificationLed, want, settled>>

\* BATTERY.  While green is lit only green is written again.
setBatteryLight(level) ==
  /\ want' = [want EXCEPT !["red"] = isLit(level)]
  /\ red_status' = IF isLit(level) THEN 1 ELSE 0
  /\ \/ /\ green_status = 1
        /\ mNotificationLed' = "default-on"
        /\ settled' = settled \cup {"green"}
        /\ UNCHANGED mChargingLed
     \/ /\ green_status # 1
        /\ mChargingLed' = IF isLit(level) THEN "default-on" ELSE "none"
        /\ settled' = settled \cup {"red"}
        /\ UNCHANGED mNotificationLed
  /\ UNCHANGED <<green_status, init_status, mLcdBacklight>>

\* Mutant: green is lit beside red.
BesideRed == mChargingLed' = mChargingLed

\* The red LED gives way.
RedOff == mChargingLed' = IF red_status = 1 THEN "none" ELSE mChargingLed

\* The red LED comes back.
RedBack == mChargingLed' = IF red_status = 1 THEN "default-on" ELSE mChargingLed

RedWritten == IF red_status = 1 THEN {"red"} ELSE {}

\* NOTIFICATIONS and ATTENTION: both are bound to this function and share one
\* state, so a request of one kind replaces the last one of the other.  The
\* first request to switch off only marks the end of the boot stage.
setNotificationLight(level) ==
  /\ want' = [want EXCEPT !["green"] = isLit(level)]
  /\ \/ /\ isLit(level)
        /\ RedOff
        /\ mNotificationLed' = "default-on"
        /\ green_status' = 1
        /\ settled' = settled \cup {"green"} \cup RedWritten
        /\ UNCHANGED init_status
     \/ /\ ~isLit(level) /\ init_status < 1
        /\ mNotificationLed' = "default-on"
        /\ green_status' = 0
        /\ init_status' = 1
        /\ settled' = {}
        /\ UNCHANGED mChargingLed
     \/ /\ ~isLit(level) /\ init_status >= 1
        /\ mNotificationLed' = "none"
        /\ RedBack
        /\ green_status' = 0
        /\ settled' = settled \cup {"green"} \cup RedWritten
        /\ UNCHANGED init_status
  /\ UNCHANGED <<red_status, mLcdBacklight>>

\* The process dies and init starts it again.
LightRestart ==
  /\ green_status' = 0 /\ red_status' = 0 /\ init_status' = 0
  /\ want' = [c \in LightColours |-> FALSE]
  /\ settled' = {}
  /\ UNCHANGED <<mChargingLed, mNotificationLed, mLcdBacklight>>

LightNext ==
  \/ \E level \in LightLevels :
       \/ setLcdBacklight(level)
       \/ setBatteryLight(level)
       \/ setNotificationLight(level)
  \/ LightRestart
-----------------------------------------------------------------------------
\* The LEDs show the last requests to this process, although each of
\* setSpeakerLightLocked and setSpeakerNLightLocked writes only some of them,
\* depending on flags that the other one sets.  While green is asked for it is
\* lit, and while only charging is to be shown some LED is lit, also in the boot
\* stage and after a restart.  An LED that was written since the boot stage was
\* over is lit exactly as asked: green if the last request of either of its
\* kinds was to light it, red if charging is to be shown and green is not asked
\* for.  (A notification is not visible any more when a later ATTENTION request
\* has switched the light off: the code keeps one state for the two.)
LedsShowStatus ==
  /\ want["green"] => mNotificationLed = "default-on"
  /\ want["red"] /\ ~want["green"] => "default-on" \in {mChargingLed, mNotificationLed}
  /\ "green" \in settled => (mNotificationLed = "default-on" <=> want["green"])
  /\ "red" \in settled =>
       (mChargingLed = "default-on" <=> want["red"] /\ ~want["green"])

=============================================================================
