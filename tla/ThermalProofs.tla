--------------------------- MODULE ThermalProofs ----------------------------
(***************************************************************************)
(* Theorems about the thermal HAL: the throttling decision of one sensor   *)
(* (ThermalSensor), and the watcher thread with its clients (ThermalWatch).*)
(***************************************************************************)
EXTENDS ThermalSensor, ThermalWatch, WellFoundedInduction,
        SequenceTheorems, TLAPS

(***************************************************************************)
(* Extrema of the sets the decision and the watcher's loop choose from.    *)
(***************************************************************************)

\* A set of natural numbers that is not empty has a least member.
LEMMA LeastNatural ==
  ASSUME NEW S, S \subseteq Nat, S # {}
  PROVE  \E x \in S : \A y \in S : x <= y
<1>1. PICK x \in S : \A y \in S : ~(<<y, x>> \in OpToRel(<, Nat))
  BY WFMin, NatLessThanWellFounded
<1>2. ASSUME NEW y \in S
      PROVE  x <= y
  <2>1. ~(<<y, x>> \in OpToRel(<, Nat))
    BY <1>1
  <2> QED
    BY <2>1 DEF OpToRel
<1> QED
  BY <1>2

\* Min finds it.
LEMMA MinIsLeast ==
  ASSUME NEW S, S \subseteq Nat, S # {}
  PROVE  Min(S) \in S /\ \A y \in S : Min(S) <= y
BY LeastNatural DEF Min

\* Max finds the greatest member of a set of severities.
LEMMA MaxIsGreatest ==
  ASSUME NEW S, S \subseteq Severities, S # {}
  PROVE  Max(S) \in S /\ \A y \in S : Max(S) >= y
<1> DEFINE Co == {Shutdown - x : x \in S}
<1>1. \A x \in S : x \in 0 .. Shutdown
  BY DEF Severities, NONE
<1>2. \A x \in S : Shutdown - x \in Nat
  BY <1>1, ShutdownAssumption
<1>3. Co \subseteq Nat /\ Co # {}
  BY <1>2, Zenon
<1>4. PICK m \in Co : \A y \in Co : m <= y
  BY <1>3, LeastNatural
<1>5. PICK x \in S : m = Shutdown - x
  BY <1>4
<1>6. \A y \in S : Shutdown - x <= Shutdown - y
  BY <1>4, <1>5
<1>7. \A y \in S : x >= y
  BY <1>1, <1>6, ShutdownAssumption
<1> QED
  BY <1>7 DEF Max

\* What the loop from SHUTDOWN down returns: NONE, or the greatest hit.
LEMMA HighestBounds ==
  ASSUME NEW S, S \subseteq Severities
  PROVE  /\ HighestOf(S) \in Severities
         /\ \A i \in S : HighestOf(S) >= i
         /\ HighestOf(S) # NONE => HighestOf(S) \in S
<1>1. CASE S = {}
  BY <1>1, ShutdownAssumption DEF HighestOf, Severities, NONE
<1>2. CASE S # {}
  BY <1>2, MaxIsGreatest DEF HighestOf
<1> QED
  BY <1>1, <1>2

\* More hits give no lower severity.
LEMMA HighestMonotone ==
  ASSUME NEW S, NEW T, S \subseteq T, T \subseteq Severities
  PROVE  HighestOf(S) <= HighestOf(T)
<1>1. /\ HighestOf(S) \in Severities /\ HighestOf(T) \in Severities
      /\ \A i \in T : HighestOf(T) >= i
      /\ HighestOf(S) # NONE => HighestOf(S) \in S
  BY HighestBounds
<1> QED
  BY <1>1, ShutdownAssumption DEF Severities, NONE
-----------------------------------------------------------------------------
(***************************************************************************)
(* The decision.  Both halves of getSeverityFromThresholds take the        *)
(* severities reached, R, the ones held by their hysteresis band, B, and   *)
(* the severity before; only the sets differ.                              *)
(***************************************************************************)

Decide(R, B, prev) == IF HighestOf(R) < prev THEN HighestOf(B) ELSE HighestOf(R)

\* The decision is no lower than what is reached, and a severity it gives up
\* is not held.
LEMMA DecisionBounds ==
  ASSUME NEW R, NEW B, B \subseteq Severities, R \subseteq Severities,
         NEW prev \in Severities
  PROVE  /\ Decide(R, B, prev) \in Severities
         /\ R \subseteq B => \A i \in R : Decide(R, B, prev) >= i
         /\ Decide(R, B, prev) < prev =>
              \A i \in Severities : i > Decide(R, B, prev) => i \notin B
<1>1. /\ HighestOf(R) \in Severities /\ HighestOf(B) \in Severities
      /\ \A i \in R : HighestOf(R) >= i
      /\ \A i \in B : HighestOf(B) >= i
  BY HighestBounds
<1>2. \A i \in Severities : i \in Int
  BY ShutdownAssumption DEF Severities, NONE
<1>3. CASE HighestOf(R) < prev
  BY <1>1, <1>2, <1>3 DEF Decide
<1>4. CASE ~(HighestOf(R) < prev)
  BY <1>1, <1>2, <1>4 DEF Decide
<1> QED
  BY <1>3, <1>4

\* Deciding again with the same sets changes nothing.
LEMMA DecisionStable ==
  ASSUME NEW R, NEW B, R \subseteq B, B \subseteq Severities,
         NEW prev \in {HighestOf(R), HighestOf(B)}
  PROVE  Decide(R, B, prev) = prev
<1>1. HighestOf(R) \in Severities /\ HighestOf(B) \in Severities
  BY HighestBounds
<1>2. HighestOf(R) <= HighestOf(B)
  BY HighestMonotone
<1> QED
  BY <1>1, <1>2, ShutdownAssumption DEF Decide, Severities, NONE

\* Smaller sets do not raise the severity, if no severity is held beyond one
\* that is no longer reached.
LEMMA DecisionFalls ==
  ASSUME NEW R, NEW B, R \subseteq B, B \subseteq Severities,
         NEW R2, NEW B2, R2 \subseteq R, B2 \subseteq B,
         NEW prev \in {HighestOf(R), HighestOf(B)},
         \A i \in R \ R2, j \in B2 : j <= i
  PROVE  Decide(R2, B2, prev) <= prev
<1>1. /\ HighestOf(R) \in Severities /\ HighestOf(B) \in Severities
      /\ HighestOf(R2) \in Severities /\ HighestOf(B2) \in Severities
      /\ HighestOf(R) # NONE => HighestOf(R) \in R
      /\ HighestOf(B2) # NONE => HighestOf(B2) \in B2
      /\ \A i \in R2 : HighestOf(R2) >= i
  BY HighestBounds
<1>2. /\ HighestOf(R) <= HighestOf(B) /\ HighestOf(R2) <= HighestOf(R)
      /\ HighestOf(B2) <= HighestOf(B)
  BY HighestMonotone
<1>3. \A i \in Severities : i \in Int /\ i >= NONE
  BY ShutdownAssumption DEF Severities, NONE
<1>4. CASE ~(HighestOf(R2) < prev)
  BY <1>1, <1>2, <1>3, <1>4 DEF Decide, NONE
<1>5. CASE HighestOf(R2) < prev /\ prev = HighestOf(B)
  BY <1>2, <1>5 DEF Decide
<1>6. CASE HighestOf(R2) < prev /\ prev = HighestOf(R)
  <2>1. prev \in R \ R2
    BY <1>1, <1>3, <1>6 DEF NONE
  <2>2. HighestOf(B2) <= prev
    BY <1>1, <1>3, <1>6, <2>1 DEF NONE
  <2> QED
    BY <1>6, <2>2 DEF Decide
<1> QED
  BY <1>4, <1>5, <1>6

\* The two halves.
LEMMA HalvesDecide ==
  ASSUME NEW thr, NEW band, NEW prev, NEW v
  PROVE  /\ HotSeverity(thr, band, prev, v) =
              Decide(HotReached(thr, v), HotHeld(thr, band, v), prev)
         /\ ColdSeverity(thr, band, prev, v) =
              Decide(ColdReached(thr, v), ColdHeld(thr, band, v), prev)
BY DEF HotSeverity, ColdSeverity, Decide

\* Every set the decision is made from is one of severities.
LEMMA LevelsAreSeverities ==
  ASSUME NEW thr, DOMAIN thr \subseteq Severities, NEW band, NEW v
  PROVE  /\ HotReached(thr, v) \subseteq Severities
         /\ HotHeld(thr, band, v) \subseteq Severities
         /\ ColdReached(thr, v) \subseteq Severities
         /\ ColdHeld(thr, band, v) \subseteq Severities
BY DEF HotReached, HotHeld, ColdReached, ColdHeld, Throttling

\* With a band of positive width a threshold that is reached is held.
LEMMA ReachedIsHeld ==
  ASSUME NEW thr, DOMAIN thr \subseteq Severities, thr \in [DOMAIN thr -> Int],
         NEW band \in [Severities -> Int], \A i \in Severities : band[i] > 0,
         NEW v \in Int
  PROVE  /\ HotReached(thr, v) \subseteq HotHeld(thr, band, v)
         /\ ColdReached(thr, v) \subseteq ColdHeld(thr, band, v)
<1>1. \A i \in Throttling(thr) : thr[i] \in Int /\ band[i] \in Int /\ band[i] > 0
  BY DEF Throttling
<1> QED
  BY <1>1 DEF HotReached, HotHeld, ColdReached, ColdHeld
-----------------------------------------------------------------------------
(***************************************************************************)
(* One sensor.                                                             *)
(***************************************************************************)

SensorTypeOK ==
  /\ DOMAIN hot \subseteq Severities /\ hot \in [DOMAIN hot -> Int]
  /\ DOMAIN cold \subseteq Severities /\ cold \in [DOMAIN cold -> Int]
  /\ hyst \in [Severities -> Hysteresis]
  /\ value \in Readings

\* What is stored is one of the two candidates at the stored temperature.
StoredIsCandidate ==
  /\ prevHot \in {HighestOf(HotReached(hot, value)),
                  HighestOf(HotHeld(hot, hyst, value))}
  /\ prevCold \in {HighestOf(ColdReached(cold, value)),
                   HighestOf(ColdHeld(cold, hyst, value))}

SensorIndInv == SensorTypeOK /\ StoredIsCandidate

\* A stored severity is a severity.
LEMMA StoredSeverities ==
  SensorIndInv => prevHot \in Severities /\ prevCold \in Severities
BY LevelsAreSeverities, HighestBounds
   DEF SensorIndInv, SensorTypeOK, StoredIsCandidate

\* The first reading and every later one store a candidate.
LEMMA SensorInitInv == SensorInit => SensorIndInv
<1> SUFFICES ASSUME SensorInit PROVE SensorIndInv
  OBVIOUS
<1>1. SensorTypeOK
  BY SensorAssumption DEF SensorInit, SensorTypeOK
<1>2. StoredIsCandidate
  BY HalvesDecide DEF SensorInit, StoredIsCandidate, Decide
<1> QED
  BY <1>1, <1>2 DEF SensorIndInv

\* Every reading keeps the invariant of the sensor.
LEMMA SensorInductive ==
  SensorIndInv /\ [SensorNext]_sensorVars => SensorIndInv'
<1> SUFFICES ASSUME SensorIndInv, [SensorNext]_sensorVars PROVE SensorIndInv'
  OBVIOUS
<1>1. CASE UNCHANGED sensorVars
  BY <1>1 DEF sensorVars, SensorIndInv, SensorTypeOK, StoredIsCandidate
<1>2. ASSUME NEW v \in Readings, Read(v)
      PROVE  SensorIndInv'
  <2>1. SensorTypeOK'
    BY <1>2 DEF Read, SensorIndInv, SensorTypeOK
  <2>2. StoredIsCandidate'
    BY <1>2, HalvesDecide DEF Read, StoredIsCandidate, Decide
  <2> QED
    BY <2>1, <2>2 DEF SensorIndInv
<1> QED
  BY <1>1, <1>2 DEF SensorNext

\* What positive hysteresis gives in a state: the sets of both halves are
\* nested.
LEMMA BandsNested ==
  ASSUME \A h \in Hysteresis : h > 0, SensorTypeOK, NEW v \in Readings
  PROVE  /\ HotReached(hot, v) \subseteq HotHeld(hot, hyst, v)
         /\ ColdReached(cold, v) \subseteq ColdHeld(cold, hyst, v)
         /\ HotHeld(hot, hyst, v) \subseteq Severities
         /\ ColdHeld(cold, hyst, v) \subseteq Severities
<1>1. /\ hyst \in [Severities -> Int] /\ \A i \in Severities : hyst[i] > 0
      /\ v \in Int
  BY SensorAssumption DEF SensorTypeOK
<1> QED
  BY <1>1, ReachedIsHeld, LevelsAreSeverities DEF SensorTypeOK

\* Reading an unchanged temperature again gives the severities already
\* stored, for every configuration whose hysteresis values are positive: no
\* second notification from getSeverityFromThresholds.  (With a hysteresis of
\* zero, the parser's default, it does not hold.)
THEOREM ReadingsAreStable ==
  ASSUME \A h \in Hysteresis : h > 0
  PROVE  SensorSpec => []StableReading
<1>1. SensorIndInv => StableReading
  BY BandsNested, HalvesDecide, DecisionStable
     DEF SensorIndInv, SensorTypeOK, StoredIsCandidate, StableReading
<1> QED
  BY <1>1, SensorInitInv, SensorInductive, PTL DEF SensorSpec

\* A threshold that is reached is reported, whatever was reported before, for
\* every configuration whose hysteresis values are positive.
THEOREM SeverityNeverUnderReported ==
  ASSUME \A h \in Hysteresis : h > 0
  PROVE  SensorSpec => NeverUnderReported
<1> DEFINE Reported == /\ \A i \in HotReached(hot, value') : prevHot' >= i
                       /\ \A i \in ColdReached(cold, value') : prevCold' >= i
<1>1. ASSUME SensorIndInv, NEW v \in Readings, Read(v)
      PROVE  Reported
  <2>1. prevHot \in Severities /\ prevCold \in Severities
    BY <1>1, StoredSeverities
  <2>2. /\ HotReached(hot, v) \subseteq HotHeld(hot, hyst, v)
        /\ ColdReached(cold, v) \subseteq ColdHeld(cold, hyst, v)
        /\ HotHeld(hot, hyst, v) \subseteq Severities
        /\ ColdHeld(cold, hyst, v) \subseteq Severities
    BY <1>1, BandsNested DEF SensorIndInv
  <2>3. /\ prevHot' = Decide(HotReached(hot, v), HotHeld(hot, hyst, v), prevHot)
        /\ prevCold' = Decide(ColdReached(cold, v), ColdHeld(cold, hyst, v), prevCold)
        /\ value' = v
    BY <1>1, HalvesDecide DEF Read
  <2>4. \A i \in HotReached(hot, v) : prevHot' >= i
    BY <2>1, <2>2, <2>3, DecisionBounds
  <2>5. \A i \in ColdReached(cold, v) : prevCold' >= i
    BY <2>1, <2>2, <2>3, DecisionBounds
  <2> QED
    BY <2>3, <2>4, <2>5
<1>2. SensorIndInv /\ [SensorNext]_sensorVars => [Reported]_sensorVars
  BY <1>1 DEF SensorNext
<1> QED
  BY <1>2, SensorInitInv, SensorInductive, PTL DEF SensorSpec, NeverUnderReported

\* A severity is given up only outside its hysteresis band, whatever the
\* hysteresis values are.
THEOREM SeverityClearedOutsideBand ==
  SensorSpec => ClearedOnlyOutsideBand
<1> DEFINE Cleared ==
      /\ prevHot' < prevHot =>
          \A i \in Throttling(hot) :
            i > prevHot' /\ i <= prevHot => value' <= hot[i] - hyst[i]
      /\ prevCold' < prevCold =>
          \A i \in Throttling(cold) :
            i > prevCold' /\ i <= prevCold => value' >= cold[i] + hyst[i]
<1>1. ASSUME SensorIndInv, NEW v \in Readings, Read(v)
      PROVE  Cleared
  <2>1. prevHot \in Severities /\ prevCold \in Severities
    BY <1>1, StoredSeverities
  <2>2. /\ HotReached(hot, v) \subseteq Severities
        /\ HotHeld(hot, hyst, v) \subseteq Severities
        /\ ColdReached(cold, v) \subseteq Severities
        /\ ColdHeld(cold, hyst, v) \subseteq Severities
    BY <1>1, LevelsAreSeverities DEF SensorIndInv, SensorTypeOK
  <2>3. /\ prevHot' = Decide(HotReached(hot, v), HotHeld(hot, hyst, v), prevHot)
        /\ prevCold' = Decide(ColdReached(cold, v), ColdHeld(cold, hyst, v), prevCold)
        /\ value' = v
    BY <1>1, HalvesDecide DEF Read
  <2>4. prevHot' < prevHot =>
          \A i \in Severities : i > prevHot' => i \notin HotHeld(hot, hyst, v)
    BY <2>1, <2>2, <2>3, DecisionBounds
  <2>5. prevCold' < prevCold =>
          \A i \in Severities : i > prevCold' => i \notin ColdHeld(cold, hyst, v)
    BY <2>1, <2>2, <2>3, DecisionBounds
  <2>6. /\ \A i \in Throttling(hot) : i \in Severities /\ hot[i] \in Int /\ hyst[i] \in Int
        /\ \A i \in Throttling(cold) : i \in Severities /\ cold[i] \in Int /\ hyst[i] \in Int
        /\ v \in Int
    BY <1>1, SensorAssumption DEF SensorIndInv, SensorTypeOK, Throttling
  <2>7. /\ \A i \in Throttling(hot) : i \notin HotHeld(hot, hyst, v) => v <= hot[i] - hyst[i]
        /\ \A i \in Throttling(cold) : i \notin ColdHeld(cold, hyst, v) => v >= cold[i] + hyst[i]
    BY <2>6 DEF HotHeld, ColdHeld
  <2> QED
    BY <2>3, <2>4, <2>5, <2>6, <2>7
<1>2. SensorIndInv /\ [SensorNext]_sensorVars => [Cleared]_sensorVars
  BY <1>1 DEF SensorNext
<1> QED
  BY <1>2, SensorInitInv, SensorInductive, PTL DEF SensorSpec, ClearedOnlyOutsideBand

\* A falling temperature does not raise the hot severity, nor a rising one
\* the cold severity, when the hysteresis values are positive and the bands
\* do not overlap.
THEOREM SeverityFallsWithTemperature ==
  ASSUME \A h \in Hysteresis : h > 0
  PROVE  SensorSpec => NoRiseOnFall
<1> DEFINE Falls ==
      /\ HotBandsApart /\ value' <= value => prevHot' <= prevHot
      /\ ColdBandsApart /\ value' >= value => prevCold' <= prevCold
<1>1. ASSUME SensorIndInv, NEW v \in Readings, Read(v)
      PROVE  Falls
  <2>1. /\ HotReached(hot, value) \subseteq HotHeld(hot, hyst, value)
        /\ ColdReached(cold, value) \subseteq ColdHeld(cold, hyst, value)
        /\ HotHeld(hot, hyst, value) \subseteq Severities
        /\ ColdHeld(cold, hyst, value) \subseteq Severities
    BY <1>1, BandsNested DEF SensorIndInv, SensorTypeOK
  <2>2. /\ prevHot' = Decide(HotReached(hot, v), HotHeld(hot, hyst, v), prevHot)
        /\ prevCold' = Decide(ColdReached(cold, v), ColdHeld(cold, hyst, v), prevCold)
        /\ value' = v
    BY <1>1, HalvesDecide DEF Read
  <2>3. /\ \A i \in Throttling(hot) : i \in Int /\ hot[i] \in Int /\ hyst[i] \in Int
        /\ \A i \in Throttling(cold) : i \in Int /\ cold[i] \in Int /\ hyst[i] \in Int
        /\ v \in Int /\ value \in Int
    BY <1>1, SensorAssumption, ShutdownAssumption
       DEF SensorIndInv, SensorTypeOK, Throttling, Severities, NONE
  <2>4. ASSUME HotBandsApart, v <= value
        PROVE  prevHot' <= prevHot
    <3>1. /\ HotReached(hot, v) \subseteq HotReached(hot, value)
          /\ HotHeld(hot, hyst, v) \subseteq HotHeld(hot, hyst, value)
      BY <2>3, <2>4 DEF HotReached, HotHeld
    <3>2. \A i \in HotReached(hot, value) \ HotReached(hot, v),
             j \in HotHeld(hot, hyst, v) : j <= i
      BY <2>3, <2>4 DEF HotReached, HotHeld, HotBandsApart
    <3> QED
      BY <1>1, <2>1, <2>2, <3>1, <3>2, DecisionFalls DEF SensorIndInv, StoredIsCandidate
  <2>5. ASSUME ColdBandsApart, v >= value
        PROVE  prevCold' <= prevCold
    <3>1. /\ ColdReached(cold, v) \subseteq ColdReached(cold, value)
          /\ ColdHeld(cold, hyst, v) \subseteq ColdHeld(cold, hyst, value)
      BY <2>3, <2>5 DEF ColdReached, ColdHeld
    <3>2. \A i \in ColdReached(cold, value) \ ColdReached(cold, v),
             j \in ColdHeld(cold, hyst, v) : j <= i
      BY <2>3, <2>5 DEF ColdReached, ColdHeld, ColdBandsApart
    <3> QED
      BY <1>1, <2>1, <2>2, <3>1, <3>2, DecisionFalls DEF SensorIndInv, StoredIsCandidate
  <2> QED
    BY <2>2, <2>4, <2>5
<1>2. SensorIndInv /\ [SensorNext]_sensorVars => [Falls]_sensorVars
  BY <1>1 DEF SensorNext
<1> QED
  BY <1>2, SensorInitInv, SensorInductive, PTL DEF SensorSpec, NoRiseOnFall
-----------------------------------------------------------------------------
(***************************************************************************)
(* The watcher and its clients.                                            *)
(***************************************************************************)

Change == [sensor : Sensors, severity : Severities]
Status == [severity : Severities, hot : Severities, cold : Severities]

WatchTypeOK ==
  /\ status \in [Sensors -> Status]
  /\ pc \in {"top", "wait", "check", "send"}
  /\ todo \subseteq Sensors /\ found \in BOOLEAN /\ temps \in Seq(Change)
  /\ callbacks \subseteq Clients /\ alive \subseteq Clients
  /\ view \in [Clients -> [Sensors -> Severities \cup {Untold}]]
  /\ base \in [Clients -> [Sensors -> Severities]]

\* The callback's variables are at rest between two callbacks, and the loop
\* over the sensors is over when the watcher holds the list of callbacks.
Rests == /\ Idle => temps = << >>
         /\ pc # "check" => todo = {}

\* A list of changes has one for each sensor at most, only for sensors that
\* are not to be looked at any more, and each with the severity stored.
Stored(q, st, left) ==
  /\ \A i, j \in DOMAIN q : q[i].sensor = q[j].sensor => i = j
  /\ \A i \in DOMAIN q : /\ q[i].sensor \notin left
                         /\ q[i].severity = st[q[i].sensor].severity

ChangesStored == Stored(temps, status, todo)

Pending(q, s) == \E i \in DOMAIN q : q[i].sensor = s

\* The severity a client takes a sensor to have.
Known(c, s) == IF view[c][s] = Untold THEN base[c][s] ELSE view[c][s]

\* A client that still has to be told of a change holds another severity for
\* the sensor; where no change is pending it holds the stored one.
KnownUnlessPending ==
  \A c \in callbacks \cap alive : \A s \in Wants[c] :
    IF Pending(temps, s) THEN status[s].severity # view[c][s]
    ELSE status[s].severity = Known(c, s)

WatchIndInv == WatchTypeOK /\ Rests /\ ChangesStored /\ KnownUnlessPending

\* The invariant gives both properties.
LEMMA WatchInvImplies == WatchIndInv => ClientsInformed /\ OnlyNews
<1> SUFFICES ASSUME WatchIndInv PROVE ClientsInformed /\ OnlyNews
  OBVIOUS
<1>1. ClientsInformed
  BY DEF ClientsInformed, WatchIndInv, Rests, KnownUnlessPending, Known, Pending,
         Severity
<1>2. OnlyNews
  <2> SUFFICES ASSUME NEW i \in DOMAIN temps, NEW c \in Addressed(temps[i]) \cap alive
               PROVE  temps[i].severity # view[c][temps[i].sensor]
    BY DEF OnlyNews
  <2>1. c \in callbacks \cap alive /\ temps[i].sensor \in Wants[c]
    BY DEF Addressed
  <2>2. Pending(temps, temps[i].sensor)
    BY DEF Pending
  <2>3. status[temps[i].sensor].severity # view[c][temps[i].sensor]
    BY <2>1, <2>2 DEF WatchIndInv, KnownUnlessPending
  <2> QED
    BY <2>3 DEF WatchIndInv, ChangesStored, Stored
<1> QED
  BY <1>1, <1>2

\* Before the first callback nothing is pending and nobody is registered.
LEMMA WatchInitInv == Init => WatchIndInv
<1> SUFFICES ASSUME Init PROVE WatchIndInv
  OBVIOUS
<1>1. NONE \in Severities
  BY ShutdownAssumption DEF Severities, NONE
<1>2. temps \in Seq(Change)
  BY EmptySeq DEF Init
<1>3. status \in [Sensors -> Status]
  BY <1>1 DEF Init, NoStatus, Status
<1>4. WatchTypeOK
  BY <1>1, <1>2, <1>3 DEF Init, WatchTypeOK
<1>5. Rests /\ ChangesStored /\ KnownUnlessPending
  BY DEF Init, Rests, ChangesStored, Stored, KnownUnlessPending
<1> QED
  BY <1>4, <1>5 DEF WatchIndInv

\* A step that leaves the stored severities, the changes and the clients
\* alone, and looks at no sensor a second time.
LEMMA QuietStep ==
  ASSUME WatchIndInv, UNCHANGED <<status, temps, clients>>,
         pc' \in {"top", "wait", "check", "send"}, found' \in BOOLEAN,
         todo' \subseteq Sensors, Rests',
         temps = << >> \/ todo' \subseteq todo
  PROVE  WatchIndInv'
<1>1. WatchTypeOK'
  BY DEF WatchIndInv, WatchTypeOK, clients
<1>2. ChangesStored'
  BY DEF WatchIndInv, ChangesStored, Stored
<1>3. KnownUnlessPending'
  BY DEF WatchIndInv, KnownUnlessPending, Known, clients
<1> QED
  BY <1>1, <1>2, <1>3 DEF WatchIndInv

\* threadLoop between two callbacks, the way into one and out of it.
LEMMA LoopStep ==
  ASSUME WatchIndInv,
         ThreadLoop \/ PollTimeout \/ ParseUevent \/ LockCallbacks \/ Finish \/ Tick
  PROVE  WatchIndInv'
<1>1. WatchTypeOK /\ Rests
  BY DEF WatchIndInv
<1>2. ASSUME NEW names, StartCallback(names), Idle, UNCHANGED <<status, clients>>
      PROVE  WatchIndInv'
  <2>1. temps = << >> /\ temps' = temps
    BY <1>1, <1>2 DEF Rests, StartCallback
  <2>2. Rests'
    BY <1>2 DEF Rests, StartCallback, Idle
  <2> QED
    BY <1>2, <2>1, <2>2, QuietStep DEF StartCallback
<1>3. CASE ThreadLoop
  <2>1. CASE elapsed < Timeout
    <3>1. Rests'
      BY <1>1, <1>3, <2>1 DEF ThreadLoop, Rests, Idle
    <3> QED
      BY <1>1, <1>3, <2>1, <3>1, QuietStep DEF ThreadLoop, WatchTypeOK
  <2>2. CASE ~(elapsed < Timeout)
    BY <1>2, <1>3, <2>2 DEF ThreadLoop, Idle
  <2> QED
    BY <2>1, <2>2
<1>4. CASE PollTimeout
  BY <1>2, <1>4 DEF PollTimeout, Idle
<1>5. CASE ParseUevent
  <2> DEFINE names == uevents \cap Monitored
  <2>1. CASE names = {}
    <3>1. Rests'
      BY <1>1, <1>5, <2>1 DEF ParseUevent, Rests, Idle
    <3> QED
      BY <1>1, <1>5, <2>1, <3>1, QuietStep DEF ParseUevent, WatchTypeOK
  <2>2. CASE names # {}
    BY <1>2, <1>5, <2>2 DEF ParseUevent, Idle
  <2> QED
    BY <2>1, <2>2
<1>6. CASE LockCallbacks
  <2>1. Rests'
    BY <1>1, <1>6 DEF LockCallbacks, Rests, Idle
  <2> QED
    BY <1>1, <1>6, <2>1, QuietStep DEF LockCallbacks, WatchTypeOK
<1>7. CASE Finish
  <2>1. Rests'
    BY <1>1, <1>7 DEF Finish, Rests, Idle
  <2> QED
    BY <1>1, <1>7, <2>1, QuietStep DEF Finish, WatchTypeOK
<1>8. CASE Tick
  <2>1. Rests'
    BY <1>1, <1>8 DEF Tick, Rests, Idle
  <2> QED
    BY <1>1, <1>8, <2>1, QuietStep DEF Tick, WatchTypeOK
<1> QED
  BY <1>3, <1>4, <1>5, <1>6, <1>7, <1>8

\* readTemperature yields severities.
LEMMA StatusRead ==
  ASSUME NEW s \in Monitored
  PROVE  ReadStatus(s) \in Status
<1> DEFINE h == HotSeverity(Hot[s], Hyst[s], status[s].hot, temp[s])
           c == ColdSeverity(Cold[s], Hyst[s], status[s].cold, temp[s])
<1>1. DOMAIN Hot[s] \subseteq Severities /\ DOMAIN Cold[s] \subseteq Severities
  BY WatchAssumption
<1>2. h \in Severities
  BY <1>1, LevelsAreSeverities, HighestBounds DEF HotSeverity
<1>3. c \in Severities
  BY <1>1, LevelsAreSeverities, HighestBounds DEF ColdSeverity
<1>4. ReadStatus(s) = [severity |-> ThrottlingStatus(h, c), hot |-> h, cold |-> c]
  BY DEF ReadStatus
<1>5. ThrottlingStatus(h, c) \in Severities
  BY <1>2, <1>3 DEF ThrottlingStatus
<1> HIDE DEF h, c
<1> QED
  BY <1>2, <1>3, <1>4, <1>5 DEF Status

\* Two maps of states that differ in the severity of one sensor at most.
SameBut(x, st, st2) ==
  \A w \in Sensors : w # x => st2[w].severity = st[w].severity

\* A change of a sensor that was to be looked at is added.
LEMMA ChangeAdded ==
  ASSUME NEW q \in Seq(Change), NEW e \in Change, NEW r, r = Append(q, e),
         NEW st, NEW st2, NEW left, Stored(q, st, left), e.sensor \in left,
         st2[e.sensor].severity = e.severity, SameBut(e.sensor, st, st2)
  PROVE  /\ r \in Seq(Change)
         /\ Stored(r, st2, left \ {e.sensor})
         /\ \A w : Pending(r, w) <=> Pending(q, w) \/ w = e.sensor
<1> DEFINE n == Len(q)
<1>1. /\ n \in Nat /\ DOMAIN q = 1 .. n
      /\ r \in Seq(Change) /\ DOMAIN r = 1 .. n + 1
      /\ \A i \in 1 .. n : r[i] = q[i]
      /\ r[n + 1] = e
  BY LenProperties, AppendProperties
<1>2. \A i \in 1 .. n : q[i].sensor \in Sensors
  <2>1. \A i \in 1 .. n : q[i] \in Change
    BY ElementOfSeq
  <2> QED
    BY <2>1 DEF Change
<1> HIDE DEF n
<1>3. /\ \A i \in 1 .. n + 1 : i \in 1 .. n \/ i = n + 1
      /\ \A i \in 1 .. n : i \in 1 .. n + 1
      /\ n + 1 \in 1 .. n + 1
  BY <1>1
<1>4. \A i \in 1 .. n : q[i].sensor # e.sensor
  BY <1>1 DEF Stored
<1>5. \A i, j \in 1 .. n + 1 : r[i].sensor = r[j].sensor => i = j
  BY <1>1, <1>3, <1>4 DEF Stored
<1>6. ASSUME NEW i \in 1 .. n + 1
      PROVE  /\ r[i].sensor \notin left \ {e.sensor}
             /\ r[i].severity = st2[r[i].sensor].severity
  <2>1. CASE i = n + 1
    BY <1>1, <2>1
  <2>2. CASE i \in 1 .. n
    BY <1>1, <1>2, <1>4, <2>2 DEF Stored, SameBut
  <2> QED
    BY <1>3, <2>1, <2>2
<1>7. \A w : Pending(r, w) <=> Pending(q, w) \/ w = e.sensor
  BY <1>1, <1>3 DEF Pending
<1> QED
  BY <1>1, <1>5, <1>6, <1>7 DEF Stored

\* The first change is taken off.
LEMMA ChangeTaken ==
  ASSUME NEW q \in Seq(Change), q # << >>, NEW r, r = Tail(q), NEW e, e = Head(q),
         NEW st, NEW left, Stored(q, st, left)
  PROVE  /\ r \in Seq(Change) /\ Stored(r, st, left)
         /\ e \in Change /\ e.severity = st[e.sensor].severity
         /\ \A w : Pending(r, w) <=> Pending(q, w) /\ w # e.sensor
<1> DEFINE n == Len(q)
<1>1. n \in Nat \ {0} /\ DOMAIN q = 1 .. n /\ e = q[1]
  BY EmptySeq, LenProperties
<1>2. /\ r \in Seq(Change) /\ DOMAIN r = 1 .. n - 1 /\ e \in Change
      /\ \A i \in 1 .. n - 1 : r[i] = q[i + 1]
  BY LenProperties, HeadTailProperties
<1> HIDE DEF n
<1>3. /\ \A i \in 1 .. n - 1 : i + 1 \in 1 .. n /\ i + 1 # 1
      /\ \A i, j \in 1 .. n - 1 : i + 1 = j + 1 => i = j
      /\ \A i \in 1 .. n : i = 1 \/ (i - 1 \in 1 .. n - 1 /\ (i - 1) + 1 = i)
      /\ 1 \in 1 .. n
  BY <1>1
<1>4. Stored(r, st, left)
  BY <1>1, <1>2, <1>3 DEF Stored
<1>5. e.severity = st[e.sensor].severity
  BY <1>1, <1>3 DEF Stored
<1>6. ASSUME NEW w
      PROVE  Pending(r, w) <=> Pending(q, w) /\ w # e.sensor
  <2>1. ASSUME NEW i \in 1 .. n - 1, r[i].sensor = w
        PROVE  Pending(q, w) /\ w # e.sensor
    <3>1. i + 1 \in 1 .. n /\ i + 1 # 1 /\ q[i + 1].sensor = w
      BY <1>2, <1>3, <2>1
    <3> QED
      BY <1>1, <1>3, <3>1 DEF Pending, Stored
  <2>2. ASSUME NEW i \in 1 .. n, q[i].sensor = w, w # e.sensor
        PROVE  Pending(r, w)
    <3>1. i - 1 \in 1 .. n - 1 /\ (i - 1) + 1 = i
      BY <1>1, <1>3, <2>2
    <3>2. r[i - 1].sensor = w
      BY <1>2, <2>2, <3>1
    <3> QED
      BY <1>2, <3>1, <3>2 DEF Pending
  <2> QED
    BY <1>1, <1>2, <2>1, <2>2 DEF Pending
<1> QED
  BY <1>2, <1>4, <1>5, <1>6


\* The loop over the sensors passes one without a reading, or reads it.
LEMMA CheckStep ==
  ASSUME WatchIndInv, CheckSensor
  PROVE  WatchIndInv'
<1>1. WatchTypeOK /\ Rests /\ ChangesStored /\ KnownUnlessPending
  BY DEF WatchIndInv
<1>2. PICK s \in todo : s = Min(todo)
  <2>1. todo \subseteq Nat /\ todo # {}
    BY <1>1, WatchAssumption DEF WatchTypeOK, CheckSensor
  <2> QED
    BY <2>1, MinIsLeast
<1>3. /\ Unmonitored(s) \/ OutOfScope(s) \/ ReadFails(s) \/ ReadSucceeds(s)
      /\ todo' = todo \ {s} /\ pc = "check" /\ pc' = "check" /\ UNCHANGED clients
  BY <1>2 DEF CheckSensor
<1>4. Rests'
  BY <1>3 DEF Rests, Idle
<1>5. CASE Unmonitored(s) \/ OutOfScope(s) \/ ReadFails(s)
  <2>1. UNCHANGED <<status, temps>> /\ found' \in BOOLEAN
    BY <1>5 DEF Unmonitored, OutOfScope, ReadFails, Pass
  <2> QED
    BY <1>1, <1>3, <1>4, <2>1, QuietStep DEF WatchTypeOK
<1>6. CASE ReadSucceeds(s)
  <2>1. s \in Monitored /\ s \in Sensors
    BY <1>1, <1>6 DEF ReadSucceeds, InScope, WatchTypeOK
  <2>2. PICK new \in Status : new = ReadStatus(s)
    BY <2>1, StatusRead
  <2>3. status' = [status EXCEPT ![s] = new] /\ found' \in BOOLEAN
    BY <1>6, <2>2 DEF ReadSucceeds
  <2>4. temps' = IF new.severity # status[s].severity
                 THEN Append(temps, [sensor |-> s, severity |-> new.severity])
                 ELSE temps
    BY <1>6, <2>2 DEF ReadSucceeds
  <2>5. /\ status' \in [Sensors -> Status]
        /\ status'[s].severity = new.severity /\ new.severity \in Severities
        /\ \A w \in Sensors : w # s => status'[w].severity = status[w].severity
    BY <1>1, <2>1, <2>2, <2>3 DEF WatchTypeOK, Status
  <2>6. ~Pending(temps, s)
    BY <1>1, <1>2 DEF ChangesStored, Stored, Pending
  <2>7. \A c \in callbacks : c \in Clients /\ Wants[c] \subseteq Sensors
    BY <1>1, WatchAssumption DEF WatchTypeOK
  <2>8. CASE new.severity = status[s].severity
    <3>1. /\ \A w \in Sensors : status'[w].severity = status[w].severity
          /\ temps' = temps
      BY <2>4, <2>5, <2>8
    <3>2. WatchTypeOK'
      BY <1>1, <1>3, <2>3, <2>5, <3>1 DEF WatchTypeOK, clients
    <3>3. ChangesStored'
      <4>1. \A i \in DOMAIN temps : temps[i].sensor \in Sensors
        <5>1. \A i \in DOMAIN temps : temps[i] \in Change
          BY <1>1, ElementOfSeq, LenProperties DEF WatchTypeOK
        <5> QED
          BY <5>1 DEF Change
      <4> QED
        BY <1>1, <1>3, <3>1, <4>1 DEF ChangesStored, Stored
    <3>4. KnownUnlessPending'
      BY <1>1, <1>3, <2>7, <3>1 DEF KnownUnlessPending, Known, clients
    <3> QED
      BY <1>4, <3>2, <3>3, <3>4 DEF WatchIndInv
  <2>9. CASE new.severity # status[s].severity
    <3>1. PICK e \in Change : e = [sensor |-> s, severity |-> new.severity]
      BY <2>1, <2>5 DEF Change
    <3>2. temps' = Append(temps, e) /\ e.sensor = s /\ e.severity = new.severity
      BY <2>4, <2>9, <3>1
    <3>3. /\ temps' \in Seq(Change)
          /\ Stored(temps', status', todo')
          /\ \A w : Pending(temps', w) <=> Pending(temps, w) \/ w = s
      <4>1. temps \in Seq(Change) /\ Stored(temps, status, todo)
        BY <1>1 DEF WatchTypeOK, ChangesStored
      <4>2. /\ e.sensor \in todo /\ status'[e.sensor].severity = e.severity
            /\ SameBut(e.sensor, status, status')
        BY <1>2, <2>5, <3>2 DEF SameBut
      <4>3. /\ temps' \in Seq(Change)
            /\ Stored(temps', status', todo \ {e.sensor})
            /\ \A w : Pending(temps', w) <=> Pending(temps, w) \/ w = e.sensor
        BY <3>2, <4>1, <4>2, ChangeAdded, ZenonT(60)
      <4> QED
        BY <1>3, <3>2, <4>3, Zenon
    <3>4. WatchTypeOK'
      BY <1>1, <1>3, <2>3, <2>5, <3>3 DEF WatchTypeOK, clients
    <3>5. KnownUnlessPending'
      <4> SUFFICES ASSUME NEW c \in callbacks \cap alive, NEW w \in Wants[c]
                   PROVE  IF Pending(temps', w) THEN status'[w].severity # view[c][w]
                          ELSE status'[w].severity = Known(c, w)
        BY <1>3 DEF KnownUnlessPending, Known, clients
      <4>1. w \in Sensors /\ c \in Clients
        BY <2>7
      <4>2. IF Pending(temps, w) THEN status[w].severity # view[c][w]
            ELSE status[w].severity = Known(c, w)
        BY <1>1 DEF KnownUnlessPending
      <4>3. CASE w = s
        <5>1. status[s].severity = Known(c, s)
          BY <2>6, <4>2, <4>3
        <5>2. new.severity # Untold
          BY <2>5, ShutdownAssumption DEF Severities, NONE, Untold
        <5>3. new.severity # view[c][s]
          BY <2>9, <5>1, <5>2 DEF Known
        <5> QED
          BY <2>5, <3>3, <4>3, <5>3
      <4>4. CASE w # s
        BY <2>5, <3>3, <4>1, <4>2, <4>4
      <4> QED
        BY <4>3, <4>4
    <3> QED
      BY <1>4, <3>3, <3>4, <3>5 DEF WatchIndInv, ChangesStored
  <2> QED
    BY <2>8, <2>9
<1> QED
  BY <1>3, <1>5, <1>6

\* sendThermalChangedCallback for one temperature.
LEMMA SendStep ==
  ASSUME WatchIndInv, SendOne
  PROVE  WatchIndInv'
<1>1. WatchTypeOK /\ Rests /\ ChangesStored /\ KnownUnlessPending
  BY DEF WatchIndInv
<1>2. PICK t : t = Head(temps)
  OBVIOUS
<1>3. /\ temps' \in Seq(Change) /\ Stored(temps', status, todo)
      /\ t \in Change /\ t.severity = status[t.sensor].severity
      /\ \A w : Pending(temps', w) <=> Pending(temps, w) /\ w # t.sensor
  <2>1. /\ temps \in Seq(Change) /\ Stored(temps, status, todo)
        /\ temps # << >> /\ temps' = Tail(temps)
    BY <1>1 DEF SendOne, WatchTypeOK, ChangesStored
  <2> QED
    BY <1>2, <2>1, ChangeTaken, ZenonT(60)
<1>4. /\ pc = "send" /\ UNCHANGED <<status, pc, todo, found, alive, base>>
      /\ callbacks' = callbacks \ (Addressed(t) \ alive)
      /\ view' = [c \in Clients |->
              IF c \in Addressed(t) \cap alive
              THEN [view[c] EXCEPT ![t.sensor] = t.severity]
              ELSE view[c]]
  BY <1>2 DEF SendOne
<1>5. t.sensor \in Sensors /\ t.severity \in Severities
  BY <1>3 DEF Change
<1>6. WatchTypeOK'
  <2>1. view' \in [Clients -> [Sensors -> Severities \cup {Untold}]]
    BY <1>1, <1>4, <1>5 DEF WatchTypeOK
  <2> QED
    BY <1>1, <1>3, <1>4, <2>1 DEF WatchTypeOK
<1>7. Rests'
  BY <1>1, <1>4 DEF Rests, Idle
<1>8. ChangesStored'
  BY <1>3, <1>4 DEF ChangesStored
<1>9. KnownUnlessPending'
  <2> SUFFICES ASSUME NEW c \in callbacks' \cap alive, NEW w \in Wants[c]
               PROVE  IF Pending(temps', w) THEN status[w].severity # view'[c][w]
                      ELSE status[w].severity = Known(c, w)'
    BY <1>4 DEF KnownUnlessPending
  <2>1. w \in Sensors /\ c \in Clients /\ c \in callbacks \cap alive
    BY <1>1, <1>4, WatchAssumption DEF WatchTypeOK
  <2>2. IF Pending(temps, w) THEN status[w].severity # view[c][w]
        ELSE status[w].severity = Known(c, w)
    BY <1>1, <2>1 DEF KnownUnlessPending
  <2>3. view[c] \in [Sensors -> Severities \cup {Untold}]
    BY <1>1, <2>1 DEF WatchTypeOK
  <2>4. CASE w = t.sensor
    <3>1. c \in Addressed(t) \cap alive
      BY <2>1, <2>4 DEF Addressed
    <3>2. view'[c][w] = t.severity
      BY <1>4, <2>1, <2>3, <2>4, <3>1
    <3>3. t.severity # Untold
      BY <1>5, ShutdownAssumption DEF Severities, NONE, Untold
    <3> QED
      BY <1>3, <2>4, <3>2, <3>3 DEF Known
  <2>5. CASE w # t.sensor
    <3>1. view'[c][w] = view[c][w]
      BY <1>4, <2>1, <2>3, <2>5
    <3> QED
      BY <1>3, <1>4, <2>1, <2>2, <2>5, <3>1 DEF Known
  <2> QED
    BY <2>4, <2>5
<1> QED
  BY <1>6, <1>7, <1>8, <1>9 DEF WatchIndInv

\* A client that registers, leaves or dies changes what is known of itself
\* only; one that registers knows what is stored, and is not in the middle of
\* a round.
LEMMA ClientStep ==
  ASSUME WatchIndInv, NEW d \in Clients,
         \/ registerThermalChangedCallback(d)
         \/ unregisterThermalChangedCallback(d)
         \/ Die(d)
  PROVE  WatchIndInv'
<1>1. WatchTypeOK /\ Rests /\ ChangesStored /\ KnownUnlessPending
  BY DEF WatchIndInv
<1>2. UNCHANGED <<status, watcher>>
  BY DEF registerThermalChangedCallback, unregisterThermalChangedCallback, Die
<1>3. NONE \in Severities
  BY ShutdownAssumption DEF Severities, NONE
<1>4. /\ callbacks' \subseteq Clients /\ alive' \subseteq Clients
      /\ view' = [view EXCEPT ![d] = [s \in Sensors |-> Untold]]
  BY <1>1 DEF registerThermalChangedCallback, unregisterThermalChangedCallback,
              Die, Forget, WatchTypeOK
<1>5. PICK b \in [Sensors -> Severities] : base' = [base EXCEPT ![d] = b]
  <2>1. [s \in Sensors |-> NONE] \in [Sensors -> Severities]
    BY <1>3
  <2>2. [s \in Sensors |-> status[s].severity] \in [Sensors -> Severities]
    BY <1>1 DEF WatchTypeOK, Status
  <2> QED
    BY <2>1, <2>2 DEF registerThermalChangedCallback,
       unregisterThermalChangedCallback, Die, Forget
<1>6. WatchTypeOK'
  <2>1. view' \in [Clients -> [Sensors -> Severities \cup {Untold}]]
    BY <1>1, <1>4 DEF WatchTypeOK
  <2>2. base' \in [Clients -> [Sensors -> Severities]]
    BY <1>1, <1>5 DEF WatchTypeOK
  <2> QED
    BY <1>1, <1>2, <1>4, <2>1, <2>2 DEF WatchTypeOK, watcher
<1>7. Rests' /\ ChangesStored'
  BY <1>1, <1>2 DEF Rests, ChangesStored, watcher, Idle
<1>8. KnownUnlessPending'
  <2> SUFFICES ASSUME NEW c \in callbacks' \cap alive', NEW w \in Wants[c]
               PROVE  IF Pending(temps, w) THEN status[w].severity # view'[c][w]
                      ELSE status[w].severity = Known(c, w)'
    BY <1>2 DEF KnownUnlessPending, watcher
  <2>1. w \in Sensors /\ c \in Clients
    BY <1>4, WatchAssumption
  <2>2. CASE c # d
    <3>1. c \in callbacks \cap alive
      BY <2>2 DEF registerThermalChangedCallback, unregisterThermalChangedCallback, Die
    <3>2. view'[c] = view[c] /\ base'[c] = base[c]
      BY <1>1, <1>4, <1>5, <2>1, <2>2 DEF WatchTypeOK
    <3> QED
      BY <1>1, <3>1, <3>2 DEF KnownUnlessPending, Known
  <2>3. CASE c = d
    <3>1. registerThermalChangedCallback(d)
      BY <2>3 DEF registerThermalChangedCallback, unregisterThermalChangedCallback, Die
    <3>2. view'[c][w] = Untold /\ base'[c][w] = status[w].severity
      BY <1>1, <2>1, <2>3, <3>1 DEF registerThermalChangedCallback, WatchTypeOK
    <3>3. status[w].severity # Untold
      BY <1>1, <2>1, ShutdownAssumption DEF WatchTypeOK, Status, Severities, NONE, Untold
    <3> QED
      BY <3>2, <3>3 DEF Known
  <2> QED
    BY <2>2, <2>3
<1> QED
  BY <1>6, <1>7, <1>8 DEF WatchIndInv

\* Every step of every thread keeps the invariant of the watcher.
LEMMA WatchInductive == WatchIndInv /\ [Next]_vars => WatchIndInv'
<1> SUFFICES ASSUME WatchIndInv, [Next]_vars PROVE WatchIndInv'
  OBVIOUS
<1>1. WatchTypeOK /\ Rests
  BY DEF WatchIndInv
<1>2. ASSUME UNCHANGED <<status, watcher, clients>>
      PROVE  WatchIndInv'
  <2>1. Rests'
    BY <1>1, <1>2 DEF Rests, Idle, watcher
  <2> QED
    BY <1>1, <1>2, <2>1, QuietStep DEF WatchTypeOK, watcher
<1>3. CASE UNCHANGED vars
  BY <1>2, <1>3 DEF vars
<1>4. CASE Watcher \/ Tick
  BY <1>4, LoopStep, CheckStep, SendStep DEF Watcher
<1>5. ASSUME NEW c \in Clients,
             \/ registerThermalChangedCallback(c)
             \/ unregisterThermalChangedCallback(c)
             \/ Die(c)
      PROVE  WatchIndInv'
  BY <1>5, ClientStep
<1>6. ASSUME NEW s, NEW t, NEW told, Heat(s, t, told)
      PROVE  WatchIndInv'
  BY <1>2, <1>6 DEF Heat
<1>7. ASSUME NEW s, Uevent(s)
      PROVE  WatchIndInv'
  BY <1>2, <1>7 DEF Uevent
<1> QED
  BY <1>3, <1>4, <1>5, <1>6, <1>7 DEF Next

\* While the watcher sleeps every registered, living client knows the stored
\* severity of every sensor it asked for, whatever registered, left or died
\* while a round of sendThermalChangedCallback went on.
THEOREM ClientsAreInformed == Spec => []ClientsInformed
BY WatchInitInv, WatchInductive, WatchInvImplies, PTL DEF Spec

\* Every callback brings a client something it was not told last.
THEOREM CallbacksBringNews == Spec => []OnlyNews
BY WatchInitInv, WatchInductive, WatchInvImplies, PTL DEF Spec
-----------------------------------------------------------------------------
(***************************************************************************)
(* The polling flag.                                                       *)
(***************************************************************************)

\* The flag of the callback speaks of the sensors its loop has passed.
FoundExact ==
  ~Idle => (found <=> \E s \in Monitored \ todo : status[s].severity # NONE)

\* A sensor whose reading fails is passed without a look at its severity, so
\* this needs sensors that can always be read.
LEMMA FoundInductive ==
  ASSUME MayFail \cap Monitored = {}, WatchIndInv, FoundExact, [Next]_vars
  PROVE  FoundExact'
<1>1. WatchTypeOK /\ Rests
  BY DEF WatchIndInv
<1>2. ASSUME UNCHANGED <<status, pc, found, todo>>
      PROVE  FoundExact'
  BY <1>2 DEF FoundExact, Idle
<1>3. ASSUME Idle'
      PROVE  FoundExact'
  BY <1>3 DEF FoundExact
<1>4. ASSUME NEW names, StartCallback(names)
      PROVE  FoundExact'
  BY <1>4, WatchAssumption DEF StartCallback, FoundExact
<1>5. CASE ThreadLoop
  BY <1>3, <1>4, <1>5 DEF ThreadLoop, Idle
<1>6. CASE PollTimeout
  BY <1>4, <1>6 DEF PollTimeout
<1>7. CASE ParseUevent
  BY <1>3, <1>4, <1>7 DEF ParseUevent, Idle
<1>8. CASE CheckSensor
  <2>1. PICK s \in todo : s = Min(todo)
    <3>1. todo \subseteq Nat /\ todo # {}
      BY <1>1, <1>8, WatchAssumption DEF WatchTypeOK, CheckSensor
    <3> QED
      BY <3>1, MinIsLeast
  <2>2. /\ Unmonitored(s) \/ OutOfScope(s) \/ ReadFails(s) \/ ReadSucceeds(s)
        /\ todo' = todo \ {s} /\ pc = "check" /\ pc' = "check"
    BY <1>8, <2>1 DEF CheckSensor
  <2>3. found <=> \E w \in Monitored \ todo : status[w].severity # NONE
    BY <2>2 DEF FoundExact, Idle
  <2>4. CASE Unmonitored(s)
    BY <1>1, <2>2, <2>3, <2>4 DEF Unmonitored, Pass, FoundExact, WatchTypeOK
  <2>5. CASE OutOfScope(s)
    BY <1>1, <2>1, <2>2, <2>3, <2>5 DEF OutOfScope, Pass, FoundExact, WatchTypeOK
  <2>6. CASE ReadFails(s)
    BY <2>6 DEF ReadFails, InScope
  <2>7. CASE ReadSucceeds(s)
    <3>1. s \in Monitored /\ s \in Sensors
      BY <1>1, <2>7 DEF ReadSucceeds, InScope, WatchTypeOK
    <3>2. PICK new \in Status : new = ReadStatus(s)
      BY <3>1, StatusRead
    <3>3. /\ status' = [status EXCEPT ![s] = new]
          /\ found' = (found \/ new.severity # NONE)
      BY <2>7, <3>2 DEF ReadSucceeds
    <3>4. /\ status'[s].severity = new.severity
          /\ \A w \in Monitored : w # s => status'[w].severity = status[w].severity
      BY <1>1, <3>1, <3>3, WatchAssumption DEF WatchTypeOK
    <3> QED
      BY <1>1, <2>1, <2>2, <2>3, <3>1, <3>3, <3>4 DEF FoundExact, WatchTypeOK
  <2> QED
    BY <2>2, <2>4, <2>5, <2>6, <2>7
<1>9. CASE LockCallbacks
  BY <1>9 DEF LockCallbacks, FoundExact, Idle
<1>10. CASE SendOne
  BY <1>2, <1>10 DEF SendOne
<1>11. CASE Finish
  BY <1>3, <1>11 DEF Finish, Idle
<1>12. CASE Tick
  BY <1>2, <1>12 DEF Tick
<1>13. ASSUME NEW c \in Clients,
              \/ registerThermalChangedCallback(c)
              \/ unregisterThermalChangedCallback(c)
              \/ Die(c)
       PROVE  FoundExact'
  BY <1>2, <1>13 DEF registerThermalChangedCallback,
     unregisterThermalChangedCallback, Die, watcher
<1>14. ASSUME NEW s, NEW t, NEW told, Heat(s, t, told) \/ Uevent(s)
       PROVE  FoundExact'
  BY <1>2, <1>14 DEF Heat, Uevent, watcher
<1>15. CASE UNCHANGED vars
  BY <1>2, <1>15 DEF vars, watcher
<1> QED
  BY <1>5, <1>6, <1>7, <1>8, <1>9, <1>10, <1>11, <1>12, <1>13, <1>14, <1>15
     DEF Next, Watcher

\* thermal_triggered_ is exact after every callback, partial ones included,
\* when no monitored sensor's file reads as empty.
THEOREM TriggeredFlagIsExact ==
  ASSUME MayFail \cap Monitored = {}
  PROVE  Spec => TriggeredIsExact
<1> DEFINE Exact ==
      ~Idle /\ Idle' => (triggered' <=> \E s \in Monitored : Severity(s) # NONE)
<1>1. Init => FoundExact
  BY DEF Init, FoundExact, Idle
<1>2. WatchIndInv /\ FoundExact /\ [Next]_vars => [Exact]_vars
  <2> SUFFICES ASSUME WatchIndInv, FoundExact, [Next]_vars, ~Idle, Idle'
               PROVE  triggered' <=> \E s \in Monitored : Severity(s) # NONE
    OBVIOUS
  <2>1. Finish
    BY DEF Next, Watcher, vars, watcher, Idle, WatchIndInv, WatchTypeOK,
       ThreadLoop, PollTimeout, ParseUevent, CheckSensor, LockCallbacks, SendOne,
       Tick, registerThermalChangedCallback, unregisterThermalChangedCallback,
       Die, Heat, Uevent
  <2>2. todo = {} /\ triggered' = found
    BY <2>1 DEF Finish
  <2> QED
    BY <2>2 DEF FoundExact, Severity
<1> QED
  BY <1>1, <1>2, WatchInitInv, WatchInductive, FoundInductive, PTL
     DEF Spec, TriggeredIsExact
=============================================================================
