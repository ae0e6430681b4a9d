------------------------ MODULE DeviceServicesProofs ------------------------
(***************************************************************************)
(* Proofs about the parts of DeviceServices, for every value of their      *)
(* constants.  A part's inductive invariant is kept by the part's own      *)
(* steps and, as no variable is shared, by the steps of all others.        *)
(***************************************************************************)
EXTENDS DeviceServices, QueueFacts

-----------------------------------------------------------------------------
\* The flags of the light service and the requests they remember.
LightTypeOK ==
  /\ green_status \in {0, 1} /\ red_status \in {0, 1} /\ init_status \in {0, 1}
  /\ want \in [LightColours -> BOOLEAN]

\* The flags are the last requests, which the code does not keep apart from them.
FlagsRemember ==
  /\ red_status = 1 <=> want["red"]
  /\ green_status = 1 <=> want["green"]

LightIndInv == LightTypeOK /\ FlagsRemember /\ LedsShowStatus

\* It holds when the service starts.
LEMMA LightInitInv == LightInit => LightIndInv
  BY DEF LightInit, LightIndInv, LightTypeOK, FlagsRemember, LedsShowStatus, LightColours

\* A request for one LED is remembered for that LED only.
LEMMA Remembered ==
  ASSUME want \in [LightColours -> BOOLEAN], NEW c \in LightColours, NEW level,
         want' = [want EXCEPT ![c] = isLit(level)]
  PROVE  /\ want' \in [LightColours -> BOOLEAN]
         /\ want'[c] <=> isLit(level)
         /\ \A d \in LightColours \ {c} : want'[d] = want[d]
<1>1. isLit(level) \in BOOLEAN
  BY Zenon DEF isLit
<1> QED BY <1>1, Zenon

\* setSpeakerLightLocked.
LEMMA BatteryStep ==
  ASSUME LightIndInv, NEW level \in LightLevels, setBatteryLight(level)
  PROVE  LightIndInv'
<1> USE DEF LightIndInv, setBatteryLight
<1>0. /\ want' \in [LightColours -> BOOLEAN]
      /\ want'["red"] <=> isLit(level)
      /\ want'["green"] = want["green"]
  BY Remembered DEF LightTypeOK, LightColours
<1>1. LightTypeOK'
  BY <1>0 DEF LightTypeOK
<1>2. FlagsRemember'
  BY <1>0 DEF FlagsRemember, LightTypeOK
<1>3. LedsShowStatus'
  BY <1>0, <1>1, <1>2 DEF LedsShowStatus, FlagsRemember, LightTypeOK
<1> QED BY <1>1, <1>2, <1>3

\* setSpeakerNLightLocked: green on, the end of the boot stage, green off.
LEMMA NotificationStep ==
  ASSUME LightIndInv, NEW level \in LightLevels, setNotificationLight(level)
  PROVE  LightIndInv'
<1> USE DEF LightIndInv, setNotificationLight
<1>0. /\ want' \in [LightColours -> BOOLEAN]
      /\ want'["green"] <=> isLit(level)
      /\ want'["red"] = want["red"]
  BY Remembered DEF LightTypeOK, LightColours
<1>1. LightTypeOK'
  BY <1>0 DEF LightTypeOK
<1>2. FlagsRemember'
  BY <1>0 DEF FlagsRemember, LightTypeOK
<1>3. LedsShowStatus'
  <2> USE DEF LightTypeOK
  <2>1. (want["green"] => mNotificationLed = "default-on")'
    BY <1>0
  <2>2. (want["red"] /\ ~want["green"] => "default-on" \in {mChargingLed, mNotificationLed})'
    BY <1>0 DEF FlagsRemember, RedBack
  <2>3. ("green" \in settled => (mNotificationLed = "default-on" <=> want["green"]))'
    BY <1>0
  <2>4. ("red" \in settled =>
          (mChargingLed = "default-on" <=> want["red"] /\ ~want["green"]))'
    BY <1>0 DEF LedsShowStatus, FlagsRemember, RedOff, RedBack, RedWritten
  <2> QED BY <2>1, <2>2, <2>3, <2>4 DEF LedsShowStatus
<1> QED BY <1>1, <1>2, <1>3

\* Every step of the light service, its restart included.
LEMMA LightInductive == LightIndInv /\ [LightNext]_lightVars => LightIndInv'
<1> SUFFICES ASSUME LightIndInv, [LightNext]_lightVars PROVE LightIndInv'
  OBVIOUS
<1>1. ASSUME NEW level \in LightLevels, setLcdBacklight(level) PROVE LightIndInv'
  BY <1>1 DEF setLcdBacklight, LightIndInv, LightTypeOK, FlagsRemember,
              LedsShowStatus
<1>2. CASE LightRestart
  BY <1>2 DEF LightRestart, LightIndInv, LightTypeOK, FlagsRemember,
              LedsShowStatus, LightColours
<1>3. CASE UNCHANGED lightVars
  BY <1>3 DEF lightVars, LightIndInv, LightTypeOK, FlagsRemember,
              LedsShowStatus
<1> QED BY <1>1, <1>2, <1>3, BatteryStep, NotificationStep DEF LightNext

\* After any sequence of setLight calls and restarts of the light service the
\* green LED is lit while the last request for it was to light it, some LED is
\* lit while charging is to be shown, and an LED written since the boot stage
\* was over shows exactly what was last asked.
THEOREM LightsShowStatus == Spec => []LedsShowStatus
<1>1. Init => LightIndInv
  BY LightInitInv DEF Init
<1>2. LightIndInv /\ [Next]_serviceVars => LightIndInv'
  BY LightInductive DEF Next, SensorsMove, LightMoves, VibratorMoves, ChannelMoves,
                        serviceVars
<1>3. LightIndInv => LedsShowStatus
  BY DEF LightIndInv
<1> QED BY <1>1, <1>2, <1>3, PTL DEF Spec
-----------------------------------------------------------------------------
(***************************************************************************)
(* The start of the sensors multi-HAL.  What open_sensors and              *)
(* lazy_init_sensors_list store is determined by the libraries, which do   *)
(* not change; the invariant says how, from the order of the modules and   *)
(* of their sensors.                                                       *)
(***************************************************************************)

\* The sequence has each member of the set in one place, and no others.
Lists(q, S) ==
  /\ q \in Seq(S)
  /\ \A x \in S : \E i \in 1 .. Len(q) : q[i] = x
  /\ \A i, j \in 1 .. Len(q) : q[i] = q[j] => i = j

\* A set in order has each of its members in one place.
LEMMA OrderLists ==
  ASSUME NEW m \in Nat, NEW S \in SUBSET (1 .. m), NEW q, q = InOrder(S)
  PROVE  Lists(q, S)
<1>1. /\ Cardinality(S) \in Nat
      /\ \A i \in S : Rank(S, i) \in 1 .. Cardinality(S)
      /\ \A n \in 1 .. Cardinality(S) : \E i \in S : Rank(S, i) = n
      /\ \A i, j \in S : i < j => Rank(S, i) < Rank(S, j)
  BY Ranks
<1> DEFINE nth(n) == CHOOSE x \in S : Rank(S, x) = n
           N == Cardinality(S)
<1>2. \A n \in 1 .. N : nth(n) \in S /\ Rank(S, nth(n)) = n
  BY <1>1
<1>3. q = [n \in 1 .. N |-> nth(n)]
  BY DEF InOrder, Rank
<1> HIDE DEF nth
<1>4. q \in Seq(S) /\ Len(q) = N
  BY <1>1, <1>2, <1>3
<1>5. \A i, j \in 1 .. N : q[i] = q[j] => i = j
  BY <1>2, <1>3
<1>6. ASSUME NEW x \in S PROVE \E i \in 1 .. N : q[i] = x
  <2>1. PICK r : r = Rank(S, x) /\ r \in 1 .. N
    BY <1>1
  <2>2. PICK y : y = nth(r)
    OBVIOUS
  <2>3. y \in S /\ Rank(S, y) = r
    BY <1>2, <2>1, <2>2
  <2>4. x \in Int /\ y \in Int /\ r \in Int
    BY <2>1, <2>3
  <2>5. ~(y < x) /\ ~(x < y)
    BY <1>1, <2>1, <2>3, <2>4
  <2>6. y = x
    BY <2>4, <2>5
  <2> QED BY <1>3, <2>1, <2>2, <2>6
<1> QED BY <1>4, <1>5, <1>6 DEF Lists

LibsTyped == lib \in [Libs -> [loads : BOOLEAN, opens : BOOLEAN,
                               injects : BOOLEAN, sensors : SensorLists]]

\* Pairs in the order of the loops: p is not after q.
NotAfter(p, q) == p[1] < q[1] \/ (p[1] = q[1] /\ p[2] <= q[2])

\* The places are pairs of numbers, and there are finitely many.
LEMMA PlacesAreFinite ==
  ASSUME LibsTyped, NEW modules \in Seq(Libs)
  PROVE  /\ \A p \in Places(modules) :
              /\ p = <<p[1], p[2]>> /\ p[1] \in 1 .. Len(modules)
              /\ p[2] \in 1 .. Len(lib[modules[p[1]]].sensors)
         /\ IsFiniteSet(Places(modules)) /\ Cardinality(Places(modules)) \in Nat
<1> DEFINE n == Len(modules)
           Of(i) == {i} \X (1 .. Len(lib[modules[i]].sensors))
           T == {Of(i) : i \in 1 .. n}
           f == [i \in 1 .. n |-> Of(i)]
<1>1. n \in Nat /\ \A i \in 1 .. n : modules[i] \in Libs
  BY LenProperties
<1>2. \A i \in 1 .. n : lib[modules[i]].sensors \in Seq(Nat)
  BY <1>1, SensorListsAssumption DEF LibsTyped
<1>3. \A i \in 1 .. n : Len(lib[modules[i]].sensors) \in Nat
  BY <1>2, LenProperties
<1>4. \A i \in 1 .. n : IsFiniteSet(Of(i))
  <2>1. \A k \in Nat : IsFiniteSet(1 .. k)
    BY FS_Interval
  <2>2. \A i \in 1 .. n : IsFiniteSet(1 .. Len(lib[modules[i]].sensors))
    BY <1>3, <2>1
  <2>3. \A i : IsFiniteSet({i})
    BY FS_Singleton
  <2> QED BY <2>2, <2>3, FS_Product
<1>5. Places(modules) = UNION T
  BY DEF Places
<1>6. \A p \in Places(modules) : \E i \in 1 .. n : p \in Of(i)
  BY <1>5
<1>7. IsFiniteSet(T)
  <2> HIDE DEF Of
  <2>1. f \in Surjection(1 .. n, T)
    BY DEF Surjection
  <2>2. IsFiniteSet(1 .. n)
    BY <1>1, FS_Interval
  <2> QED BY <2>1, <2>2, FS_Surjection
<1>8. \A U \in T : IsFiniteSet(U)
  BY <1>4
<1>9. IsFiniteSet(Places(modules))
  <2> HIDE DEF T
  <2> QED BY <1>5, <1>7, <1>8, FS_UNION
<1> QED BY <1>6, <1>9, FS_CardinalityType

\* The number of sensors visited is 1, 2, 3 and so on, a different one at
\* each place.
LEMMA VisitsCount ==
  ASSUME LibsTyped, NEW modules \in Seq(Libs), NEW P, P = Places(modules)
  PROVE  /\ \A p \in P : Visited(modules, p) \in 1 .. Cardinality(P)
         /\ \A p, q \in P : Visited(modules, p) = Visited(modules, q) => p = q
         /\ \A n \in 1 .. Cardinality(P) : \E p \in P : Visited(modules, p) = n
<1>1. /\ \A p \in P : p = <<p[1], p[2]>> /\ p[1] \in Int /\ p[2] \in Int
      /\ IsFiniteSet(P) /\ Cardinality(P) \in Nat
  BY PlacesAreFinite
<1> DEFINE Before(p) == {q \in P : NotAfter(q, p)}
<1>2. \A p \in P : Visited(modules, p) = Cardinality(Before(p))
  BY DEF Visited, NotAfter
<1>3. \A p \in P : Before(p) \in SUBSET P /\ p \in Before(p)
  BY <1>1 DEF NotAfter
<1>4. \A p, q \in P : NotAfter(p, q) \/ NotAfter(q, p)
  BY <1>1 DEF NotAfter
<1>5. \A p, q \in P : NotAfter(p, q) /\ NotAfter(q, p) => p = q
  <2> SUFFICES ASSUME NEW p \in P, NEW q \in P, NotAfter(p, q), NotAfter(q, p)
               PROVE  p = q
    OBVIOUS
  <2>1. p[1] = q[1] /\ p[2] = q[2]
    BY <1>1 DEF NotAfter
  <2> QED BY <1>1, <2>1
<1>6. \A p, q \in P : NotAfter(p, q) => Before(p) \in SUBSET Before(q)
  <2>1. \A p, q, r \in P : NotAfter(r, p) /\ NotAfter(p, q) => NotAfter(r, q)
    BY <1>1 DEF NotAfter
  <2> QED BY <2>1
<1>7. \A p, q \in P : NotAfter(p, q) /\ p # q => q \notin Before(p)
  BY <1>5
<1> HIDE DEF Before
<1>8. \A p \in P : /\ IsFiniteSet(Before(p)) /\ Cardinality(Before(p)) \in Nat
                   /\ Cardinality(Before(p)) <= Cardinality(P)
                   /\ Cardinality(Before(p)) # 0
  BY <1>1, <1>3, FS_Subset, FS_CardinalityType, FS_EmptySet
<1>9. \A p \in P : Visited(modules, p) \in 1 .. Cardinality(P)
  BY <1>1, <1>2, <1>8
<1>10. ASSUME NEW p \in P, NEW q \in P, NotAfter(p, q),
              Cardinality(Before(p)) = Cardinality(Before(q))
       PROVE  p = q
  <2>1. Before(p) = Before(q)
    BY <1>6, <1>8, <1>10, FS_Subset
  <2> QED BY <1>3, <1>7, <1>10, <2>1
<1>11. \A p, q \in P : Visited(modules, p) = Visited(modules, q) => p = q
  BY <1>2, <1>4, <1>10
<1>12. \A n \in 1 .. Cardinality(P) : \E p \in P : Visited(modules, p) = n
  <2> DEFINE f == [p \in P |-> Visited(modules, p)]
             N == 1 .. Cardinality(P)
  <2>1. f \in Injection(P, N)
    BY <1>9, <1>11 DEF Injection, IsInjective
  <2>2. IsFiniteSet(N) /\ Cardinality(N) = Cardinality(P)
    BY <1>1, FS_Interval
  <2>3. f \in Surjection(P, N)
    <3> HIDE DEF f, N
    <3> QED BY <2>1, <2>2, FS_Injection
  <2> QED BY <2>3 DEF Surjection
<1> QED BY <1>9, <1>11, <1>12

\* The handle of a sensor in its module and the index of the module.
FullHandle(s) == <<s.index, s.local>>

\* The list has every sensor with the module that owns it and the module's
\* index, and the pair of index and local handle names one sensor only.
LEMMA SensorsAreListed ==
  ASSUME LibsTyped, NEW modules \in Seq(Libs), NEW q, q = AllSensors(modules)
  PROVE  /\ Len(q) \in Nat
         /\ \A n \in 1 .. Len(q) :
              /\ q[n].index + 1 \in 1 .. Len(modules)
              /\ q[n].index \in Nat /\ q[n].local \in Nat
              /\ q[n].owner = modules[q[n].index + 1]
         /\ \A m, n \in 1 .. Len(q) : FullHandle(q[m]) = FullHandle(q[n]) => m = n
<1> DEFINE P == Places(modules)
           N == Cardinality(P)
           nth(n) == CHOOSE p \in P : Visited(modules, p) = n
<1>1. /\ \A n \in 1 .. N : \E p \in P : Visited(modules, p) = n
      /\ N \in Nat
  BY VisitsCount, PlacesAreFinite
<1>2. \A n \in 1 .. N : nth(n) \in P /\ Visited(modules, nth(n)) = n
  BY <1>1
<1>3. \A p \in P : /\ p = <<p[1], p[2]>> /\ p[1] \in 1 .. Len(modules)
                   /\ p[2] \in 1 .. Len(lib[modules[p[1]]].sensors)
  BY PlacesAreFinite
<1>4. q = [n \in 1 .. N |-> SensorOf(modules, nth(n)[1], nth(n)[2])]
  BY DEF AllSensors
<1> HIDE DEF nth, P, N
<1>5. Len(q) = N
  BY <1>1, <1>4
<1>6. Len(modules) \in Nat /\ \A i \in 1 .. Len(modules) : modules[i] \in Libs
  BY LenProperties
<1>7. \A i \in 1 .. Len(modules) : lib[modules[i]].sensors \in SensorLists
  BY <1>6 DEF LibsTyped
<1>8. ASSUME NEW n \in 1 .. N
      PROVE  \E i \in 1 .. Len(modules) : \E k \in 1 .. Len(lib[modules[i]].sensors) :
               nth(n) = <<i, k>> /\ q[n] = SensorOf(modules, i, k)
  <2>1. PICK p : p = nth(n) /\ p \in P
    BY <1>2
  <2>2. q[n] = SensorOf(modules, p[1], p[2])
    BY <1>4, <2>1
  <2> QED BY <1>3, <2>1, <2>2
<1>9. ASSUME NEW i \in 1 .. Len(modules), NEW k \in 1 .. Len(lib[modules[i]].sensors),
             NEW s, s = SensorOf(modules, i, k)
      PROVE  /\ s.index = i - 1 /\ s.owner = modules[i]
             /\ s.local = lib[modules[i]].sensors[k] /\ s.local \in Nat
  BY <1>7, <1>9, SensorListsAssumption DEF SensorOf
<1>10. ASSUME NEW n \in 1 .. N
       PROVE  /\ q[n].index + 1 \in 1 .. Len(modules)
              /\ q[n].index \in Nat /\ q[n].local \in Nat
              /\ q[n].owner = modules[q[n].index + 1]
  <2>1. PICK i \in 1 .. Len(modules) : \E k \in 1 .. Len(lib[modules[i]].sensors) :
          q[n] = SensorOf(modules, i, k)
    BY <1>8
  <2>2. PICK k \in 1 .. Len(lib[modules[i]].sensors) : q[n] = SensorOf(modules, i, k)
    BY <2>1
  <2>3. PICK s : s = q[n]
    OBVIOUS
  <2>4. s.index = i - 1 /\ s.owner = modules[i] /\ s.local \in Nat
    BY <1>9, <2>2, <2>3
  <2> QED BY <1>6, <2>3, <2>4
<1>11. ASSUME NEW m \in 1 .. N, NEW n \in 1 .. N, FullHandle(q[m]) = FullHandle(q[n])
       PROVE  m = n
  <2>1. PICK i \in 1 .. Len(modules) : \E k \in 1 .. Len(lib[modules[i]].sensors) :
          nth(m) = <<i, k>> /\ q[m] = SensorOf(modules, i, k)
    BY <1>8
  <2>2. PICK j \in 1 .. Len(modules) : \E l \in 1 .. Len(lib[modules[j]].sensors) :
          nth(n) = <<j, l>> /\ q[n] = SensorOf(modules, j, l)
    BY <1>8
  <2>3. PICK k \in 1 .. Len(lib[modules[i]].sensors) :
          nth(m) = <<i, k>> /\ q[m] = SensorOf(modules, i, k)
    BY <2>1
  <2>4. PICK l \in 1 .. Len(lib[modules[j]].sensors) :
          nth(n) = <<j, l>> /\ q[n] = SensorOf(modules, j, l)
    BY <2>2
  <2>5. q[m].index = i - 1 /\ q[m].local = lib[modules[i]].sensors[k]
    BY <1>9, <2>3
  <2>6. q[n].index = j - 1 /\ q[n].local = lib[modules[j]].sensors[l]
    BY <1>9, <2>4
  <2>7. q[m].index = q[n].index /\ q[m].local = q[n].local
    BY <1>11 DEF FullHandle
  <2>8. i = j
    BY <1>6, <2>5, <2>6, <2>7
  <2>9. k = l
    BY <1>7, <2>5, <2>6, <2>7, <2>8, SensorListsAssumption
  <2>10. nth(m) = nth(n)
    BY <2>3, <2>4, <2>8, <2>9
  <2>11. Visited(modules, nth(m)) = m /\ Visited(modules, nth(n)) = n
    BY <1>2
  <2> QED BY <2>10, <2>11
<1> QED BY <1>1, <1>5, <1>10, <1>11

\* What is computed from the libraries stays, as they do.
LEMMA LibsFrame ==
  ASSUME lib' = lib
  PROVE  /\ LibsTyped' = LibsTyped /\ AllOpen' = AllOpen
         /\ LoadedModules' = LoadedModules
         /\ OpenedDevices(LoadedModules)' = OpenedDevices(LoadedModules)
         /\ AllSensors(LoadedModules)' = AllSensors(LoadedModules)
<1>1. LibsTyped' = LibsTyped /\ AllOpen' = AllOpen
  BY DEF LibsTyped, AllOpen
<1>2. LoadedModules' = LoadedModules
  BY DEF LoadedModules, InOrder
<1>3. OpenedDevices(LoadedModules)' = OpenedDevices(LoadedModules)
  BY <1>2 DEF OpenedDevices
<1>4. ASSUME NEW modules PROVE AllSensors(modules)' = AllSensors(modules)
  BY DEF AllSensors, Visited, Places, SensorOf
<1> QED BY <1>1, <1>2, <1>3, <1>4

\* The modules are the libraries that load, and the devices those of them
\* that open.
LEMMA ModulesAndDevices ==
  ASSUME LibsTyped, NEW M, M = LoadedModules, NEW D, D = OpenedDevices(M)
  PROVE  /\ M \in Seq(Libs) /\ D \in Seq(Libs)
         /\ AllOpen => D = M
<1> DEFINE L == {l \in Libs : lib[l].loads}
           O == {l \in ToSet(M) : lib[l].opens}
<1>1. L \in SUBSET (1 .. NumLibs) /\ M = InOrder(L)
  BY DEF Libs, LoadedModules
<1>2. Lists(M, L)
  <2> HIDE DEF L
  <2> QED BY <1>1, NumLibsAssumption, OrderLists
<1>3. ToSet(M) = L
  <2> HIDE DEF L
  <2>1. DOMAIN M = 1 .. Len(M) /\ \A i \in 1 .. Len(M) : M[i] \in L
    BY <1>2 DEF Lists
  <2> QED BY <1>2, <2>1 DEF ToSet, Lists
<1>4. O \in SUBSET (1 .. NumLibs) /\ D = InOrder(O)
  BY <1>3 DEF Libs, OpenedDevices
<1>5. Lists(D, O)
  <2> HIDE DEF O
  <2> QED BY <1>4, NumLibsAssumption, OrderLists
<1>6. M \in Seq(Libs) /\ D \in Seq(Libs)
  <2>1. L \subseteq Libs /\ O \subseteq Libs
    BY <1>3
  <2> HIDE DEF L, O
  <2> QED BY <1>2, <1>5, <2>1 DEF Lists
<1>7. ASSUME AllOpen PROVE D = M
  <2>1. O = L
    BY <1>3, <1>7 DEF AllOpen
  <2> HIDE DEF L, O
  <2> QED BY <1>1, <1>4, <2>1
<1> QED BY <1>6, <1>7

\* The list, and both maps, number the sensors 1, 2, 3 and so on.
Numbered(q) ==
  /\ Len(global_list) = Len(q)
  /\ \A k \in 1 .. Len(q) :
       /\ global_list[k].owner = q[k].owner /\ global_list[k].local = q[k].local
       /\ global_list[k].handle = k
       /\ k \in DOMAIN global_to_full /\ global_to_full[k] = FullHandle(q[k])
       /\ full_to_global[FullHandle(q[k])] = k

\* Until the list is built there are no handles, and no call has been made.
NothingYet ==
  /\ call.device = 0 /\ next_global_handle = 1
  /\ global_to_full = << >> /\ full_to_global = << >>
  /\ opened # "no" => sub_hw_versions = ToSet(OpenedDevices(LoadedModules))

\* A call has reached the device its handle leads to.
CallFollowsHandle == call.device # 0 => call.device = DeviceOf(call.handle)

OpenIndInv ==
  /\ LibsTyped
  /\ opened # "no" => sub_hw_devices = OpenedDevices(LoadedModules)
  /\ IF list_built THEN opened # "no" /\ Numbered(AllSensors(LoadedModules)) ELSE NothingYet
  /\ SurvivorsAreOpen /\ CallFollowsHandle

\* It holds before open_sensors.
LEMMA OpenInitInv == OpenInit => OpenIndInv
BY DEF OpenInit, OpenIndInv, LibsTyped, NothingYet, SurvivorsAreOpen, CallFollowsHandle, NoCall

\* open_sensors: the devices are those of the modules that open.
LEMMA OpenSensorsStep == OpenIndInv /\ open_sensors => OpenIndInv'
<1> SUFFICES ASSUME OpenIndInv, open_sensors PROVE OpenIndInv'
  OBVIOUS
<1>1. /\ ~list_built /\ NothingYet /\ LibsTyped /\ SurvivorsAreOpen
      /\ lib' = lib /\ ~list_built' /\ crashed' = crashed /\ call' = call
  BY DEF OpenIndInv, open_sensors
<1>2. NothingYet'
  BY <1>1, LibsFrame DEF NothingYet, open_sensors
<1>3. SurvivorsAreOpen' /\ CallFollowsHandle'
  BY <1>1, LibsFrame DEF SurvivorsAreOpen, CallFollowsHandle, NothingYet
<1>4. opened' # "no" => sub_hw_devices' = OpenedDevices(LoadedModules)'
  BY <1>1, LibsFrame DEF open_sensors
<1> QED BY <1>1, <1>2, <1>3, <1>4, LibsFrame DEF OpenIndInv

\* What has been decided stays when neither lists nor maps change.
LEMMA OpenFrame ==
  ASSUME OpenIndInv, CallUnchanged \/ (close /\ call' = call),
         list_built \/ call' = call, CallFollowsHandle'
  PROVE  OpenIndInv'
<1>1. /\ lib' = lib /\ list_built' = list_built /\ crashed' = crashed
      /\ UNCHANGED <<sub_hw_devices, sub_hw_versions, global_list, next_global_handle,
                     full_to_global, global_to_full>>
      /\ opened' = opened \/ (opened # "no" /\ opened' # "no")
  BY DEF CallUnchanged, close
<1>2. LibsTyped' /\ SurvivorsAreOpen'
  BY <1>1, LibsFrame DEF OpenIndInv, SurvivorsAreOpen, Contains
<1>3. opened' # "no" => sub_hw_devices' = OpenedDevices(LoadedModules)'
  BY <1>1, LibsFrame DEF OpenIndInv
<1>4. CASE list_built
  <2>1. PICK q : q = AllSensors(LoadedModules)
    OBVIOUS
  <2>2. Numbered(q) => Numbered(q)'
    BY <1>1 DEF Numbered
  <2>3. Numbered(AllSensors(LoadedModules))'
    BY <1>1, <1>4, <2>1, <2>2, LibsFrame DEF OpenIndInv
  <2> QED BY <1>1, <1>2, <1>3, <1>4, <2>3 DEF OpenIndInv
<1>5. CASE ~list_built
  <2>1. NothingYet'
    BY <1>1, <1>5, LibsFrame DEF OpenIndInv, NothingYet
  <2> QED BY <1>1, <1>2, <1>3, <1>5, <2>1 DEF OpenIndInv
<1> QED BY <1>4, <1>5

\* The calls that are forwarded go where their handle leads.
LEMMA CallStep ==
  ASSUME OpenIndInv, NEW h,
         activate(h) \/ setDelay(h) \/ batch(h) \/ flush(h) \/ inject_sensor_data(h)
  PROVE  OpenIndInv'
<1>1. CallUnchanged /\ list_built
  BY DEF activate, setDelay, batch, flush, inject_sensor_data, Ready
<1>2. DeviceOf(h)' = DeviceOf(h)
  BY <1>1 DEF CallUnchanged, DeviceOf, Known
<1>3. PICK d : d = DeviceOf(h)
  OBVIOUS
<1>4. \/ call'.device = 0
      \/ call'.handle = h /\ call'.device = d
  <2>1. ASSUME NEW op, NEW local, NEW result, Forward(op, h, local, result)
        PROVE  \/ call'.device = 0
               \/ call'.handle = h /\ call'.device = d
    BY <1>3, <2>1 DEF Forward, NoCall
  <2>2. CASE activate(h) \/ setDelay(h)
    BY <2>1, <2>2 DEF activate, setDelay
  <2>3. CASE batch(h)
    BY <1>3, <2>3 DEF batch, NoCall
  <2>4. CASE flush(h)
    BY <2>4 DEF flush, NoCall
  <2>5. CASE inject_sensor_data(h)
    BY <2>1, <2>5 DEF inject_sensor_data, NoCall
  <2> QED BY <2>2, <2>3, <2>4, <2>5
<1>5. CallFollowsHandle'
  BY <1>2, <1>3, <1>4 DEF CallFollowsHandle
<1> QED BY <1>1, <1>5, OpenFrame

\* close leaves handles and devices alone.
LEMMA CloseStep == ASSUME OpenIndInv, close PROVE OpenIndInv'
<1>1. CallFollowsHandle'
  BY DEF close, OpenIndInv, CallFollowsHandle, DeviceOf, Known
<1> QED BY <1>1, OpenFrame DEF close

\* Whoever owns a listed sensor has a device if all that loads also opens.
LEMMA OwnersHaveDevices ==
  ASSUME LibsTyped, NEW M, M = LoadedModules, NEW D, D = OpenedDevices(M),
         NEW q, q = AllSensors(M), NEW k \in 1 .. Len(q), AllOpen
  PROVE  q[k].index < Len(D) /\ D[q[k].index + 1] = q[k].owner /\ q[k].owner \in ToSet(D)
<1>1. D = M /\ M \in Seq(Libs)
  BY ModulesAndDevices
<1>2. /\ q[k].index + 1 \in 1 .. Len(M) /\ q[k].index \in Nat
      /\ q[k].owner = M[q[k].index + 1]
  BY <1>1, SensorsAreListed
<1>3. DOMAIN M = 1 .. Len(M) /\ Len(M) \in Nat
  BY <1>1, LenProperties
<1>4. M[q[k].index + 1] \in ToSet(M)
  BY <1>2, <1>3 DEF ToSet
<1> QED BY <1>1, <1>2, <1>3, <1>4

\* An assigned key has its new value.
LEMMA KeysAssigned ==
  ASSUME NEW f, NEW g, NEW x \in DOMAIN f
  PROVE  x \in DOMAIN Assigned(f, g) /\ Assigned(f, g)[x] = f[x]
BY DEF Assigned

\* The first get_sensors_list numbers the sensors, or ends the process.
LEMMA ListStep == ASSUME OpenIndInv, get_sensors_list PROVE OpenIndInv'
<1>1. PICK M, D, q : M = LoadedModules /\ D = OpenedDevices(M) /\ q = AllSensors(M)
  OBVIOUS
<1>2. /\ LibsTyped /\ ~list_built /\ NothingYet /\ SurvivorsAreOpen
      /\ opened = "yes" /\ sub_hw_devices = D /\ sub_hw_versions = ToSet(D)
      /\ lib' = lib /\ opened' = opened /\ sub_hw_devices' = sub_hw_devices /\ call' = call
  BY <1>1 DEF OpenIndInv, NothingYet, get_sensors_list, lazy_init_sensors_list,
              AlreadyInitialized
<1>3. /\ M' = M /\ LibsTyped' /\ AllOpen' = AllOpen
      /\ LoadedModules' = M /\ OpenedDevices(LoadedModules)' = D
      /\ AllSensors(LoadedModules)' = q
  BY <1>1, <1>2, LibsFrame
<1>4. CallFollowsHandle'
  BY <1>2 DEF CallFollowsHandle, NothingYet
<1>5. /\ M \in Seq(Libs) /\ D \in Seq(Libs)
      /\ Len(q) \in Nat
      /\ \A m, n \in 1 .. Len(q) : FullHandle(q[m]) = FullHandle(q[n]) => m = n
  BY <1>1, <1>2, ModulesAndDevices, SensorsAreListed
<1>6. AllOpen => ~VersionMissing(q)
  BY <1>1, <1>2, OwnersHaveDevices DEF VersionMissing
<1>7. CASE VersionMissing(q)
  <2>1. UNCHANGED <<list_built, global_list, next_global_handle, full_to_global,
                    global_to_full, sub_hw_versions>>
    BY <1>1, <1>7 DEF get_sensors_list, lazy_init_sensors_list
  <2>2. NothingYet'
    BY <1>1, <1>2, <1>3, <2>1 DEF NothingYet
  <2>3. SurvivorsAreOpen'
    BY <1>2, <1>3, <1>6, <1>7, <2>1 DEF SurvivorsAreOpen
  <2> QED BY <1>2, <1>3, <1>4, <2>1, <2>2, <2>3 DEF OpenIndInv
<1>8. CASE ~VersionMissing(q)
  <2> DEFINE n == Len(q)
             Full(k) == <<q[k].index, q[k].local>>
  <2>1. /\ list_built' = TRUE /\ crashed' = crashed
        /\ global_list' = [k \in 1 .. n |->
             [owner |-> q[k].owner, local |-> q[k].local, handle |-> 1 + k - 1]]
        /\ global_to_full' = Assigned([g \in 1 .. 1 + n - 1 |-> Full(g - 1 + 1)], << >>)
        /\ full_to_global' = Assigned(
             [fh \in {Full(k) : k \in 1 .. n} |->
                1 - 1 + (CHOOSE k \in 1 .. n : Full(k) = fh /\
                           \A j \in k + 1 .. n : Full(j) # fh)], << >>)
    BY <1>1, <1>2, <1>8 DEF get_sensors_list, lazy_init_sensors_list, NothingYet
  <2>2. \A k \in 1 .. n : Full(k) = FullHandle(q[k])
    BY DEF FullHandle
  <2>3. \A k, j \in 1 .. n : Full(k) = Full(j) => k = j
    BY <1>5, <2>2
  <2>4. n \in Nat
    BY <1>5
  <2>5. ASSUME NEW k \in 1 .. n
        PROVE  /\ k \in DOMAIN global_to_full' /\ global_to_full'[k] = Full(k)
               /\ full_to_global'[Full(k)] = k
    <3> HIDE DEF Full, n
    <3>1. k \in 1 .. 1 + n - 1 /\ k - 1 + 1 = k
      BY <2>4
    <3>2. k \in DOMAIN global_to_full' /\ global_to_full'[k] = Full(k)
      <4>1. PICK f : f = [g \in 1 .. 1 + n - 1 |-> Full(g - 1 + 1)]
        OBVIOUS
      <4>2. k \in DOMAIN f /\ f[k] = Full(k) /\ global_to_full' = Assigned(f, << >>)
        BY <2>1, <3>1, <4>1
      <4> QED BY <4>2, KeysAssigned
    <3>3. (CHOOSE j \in 1 .. n : Full(j) = Full(k) /\
             \A l \in j + 1 .. n : Full(l) # Full(k)) = k
      <4>1. \A l \in k + 1 .. n : Full(l) # Full(k)
        BY <2>3, <2>4
      <4>2. \A j \in 1 .. n : Full(j) = Full(k) => j = k
        BY <2>3
      <4> QED BY <4>1, <4>2
    <3>4. Full(k) \in {Full(j) : j \in 1 .. n}
      OBVIOUS
    <3>5. full_to_global'[Full(k)] = 1 - 1 + k
      <4>1. PICK f : f = [fh \in {Full(j) : j \in 1 .. n} |->
                            1 - 1 + (CHOOSE j \in 1 .. n : Full(j) = fh /\
                                       \A l \in j + 1 .. n : Full(l) # fh)]
        OBVIOUS
      <4>2. Full(k) \in DOMAIN f /\ f[Full(k)] = 1 - 1 + k
        BY <3>3, <3>4, <4>1
      <4>3. full_to_global' = Assigned(f, << >>)
        BY <2>1, <4>1
      <4> QED BY <4>2, <4>3, KeysAssigned
    <3> QED BY <3>2, <3>5
  <2>6. Numbered(q)'
    <3>1. Len(global_list') = n
      BY <2>1, <2>4
    <3>2. ASSUME NEW k \in 1 .. n
          PROVE  /\ global_list'[k].owner = q[k].owner /\ global_list'[k].local = q[k].local
                 /\ global_list'[k].handle = k
      BY <2>1, <2>4
    <3> QED BY <2>2, <2>5, <3>1, <3>2 DEF Numbered
  <2>7. SurvivorsAreOpen'
    <3>1. ASSUME NEW k \in 1 .. n PROVE Contains(D, q[k].owner)
      <4>1. q[k].owner \in ToSet(D)
        BY <1>2, <1>8 DEF VersionMissing
      <4> QED BY <1>5, <4>1 DEF ToSet, Contains
    <3>2. Len(global_list') = n /\ \A k \in 1 .. n : global_list'[k].owner = q[k].owner
      BY <2>6 DEF Numbered
    <3> QED BY <1>2, <1>3, <2>1, <3>1, <3>2 DEF SurvivorsAreOpen
  <2>8. Numbered(AllSensors(LoadedModules))'
    BY <1>3, <2>6
  <2> QED BY <1>2, <1>3, <1>4, <2>1, <2>7, <2>8 DEF OpenIndInv
<1> QED BY <1>7, <1>8

\* Every step of the multi-HAL keeps the invariant.
LEMMA OpenInductive == OpenIndInv /\ [OpenNext]_openVars => OpenIndInv'
<1> SUFFICES ASSUME OpenIndInv, [OpenNext]_openVars PROVE OpenIndInv'
  OBVIOUS
<1>1. CASE UNCHANGED openVars
  <2>1. CallUnchanged /\ call' = call
    BY <1>1 DEF openVars, CallUnchanged
  <2>2. CallFollowsHandle'
    BY <2>1 DEF OpenIndInv, CallFollowsHandle, DeviceOf, Known, CallUnchanged
  <2> QED BY <2>1, <2>2, OpenFrame
<1> QED BY <1>1, OpenSensorsStep, ListStep, CloseStep, CallStep DEF OpenNext

\* A numbered sensor's handle leads to its device and its local handle.
LEMMA HandlesLead == OpenIndInv => HandlesMatchDevices
<1> SUFFICES ASSUME OpenIndInv, AllOpen, list_built, opened = "yes",
                    NEW k \in 1 .. Len(global_list)
             PROVE  LET s == global_list[k]
                    IN  /\ \A j \in 1 .. Len(global_list) :
                             global_list[j].handle = s.handle => j = k
                        /\ DeviceOf(s.handle) = s.owner
                        /\ LocalOf(s.handle) = s.local
                        /\ full_to_global[global_to_full[s.handle]] = s.handle
                        /\ call.handle = s.handle /\ call.device # 0 => call.device = s.owner
  BY DEF HandlesMatchDevices
<1>1. PICK M, D, q : M = LoadedModules /\ D = OpenedDevices(M) /\ q = AllSensors(M)
  OBVIOUS
<1>2. LibsTyped /\ sub_hw_devices = D /\ Numbered(q)
  BY <1>1 DEF OpenIndInv
<1>3. /\ Len(global_list) = Len(q)
      /\ \A j \in 1 .. Len(q) :
           /\ global_list[j].owner = q[j].owner /\ global_list[j].local = q[j].local
           /\ global_list[j].handle = j
      /\ k \in DOMAIN global_to_full /\ global_to_full[k] = FullHandle(q[k])
      /\ full_to_global[FullHandle(q[k])] = k
  BY <1>2 DEF Numbered
<1>4. q[k].index < Len(D) /\ D[q[k].index + 1] = q[k].owner
  BY <1>1, <1>2, <1>3, OwnersHaveDevices
<1>5. global_to_full[k][1] = q[k].index /\ global_to_full[k][2] = q[k].local
  BY <1>3 DEF FullHandle
<1>6. DeviceOf(k) = q[k].owner /\ LocalOf(k) = q[k].local
  BY <1>2, <1>3, <1>4, <1>5 DEF DeviceOf, LocalOf, Known
<1>7. call.device # 0 => call.device = DeviceOf(call.handle)
  BY DEF OpenIndInv, CallFollowsHandle
<1>8. /\ global_list[k].handle = k /\ global_list[k].owner = q[k].owner
      /\ global_list[k].local = q[k].local
      /\ \A j \in 1 .. Len(q) : global_list[j].handle = j
  BY <1>3
<1> QED BY <1>3, <1>6, <1>7, <1>8

\* The invariant of the multi-HAL holds in every behaviour of the device.
LEMMA OpenInvariance == Spec => []OpenIndInv
<1>1. Init => OpenIndInv
  BY OpenInitInv DEF Init
<1>2. OpenIndInv /\ [Next]_serviceVars => OpenIndInv'
  BY OpenInductive DEF Next, SensorsMove, LightMoves, VibratorMoves, ChannelMoves,
                       serviceVars
<1> QED BY <1>1, <1>2, PTL DEF Spec

\* If all sub-HALs open, every handle of the list leads to the device and the
\* sensor it was assigned for, calls reach the sub-HAL that owns the sensor,
\* and both maps agree: for any number of libraries, of which any may fail to
\* load, and any lists of sensors.
THEOREM HandlesLeadToOwners == Spec => []HandlesMatchDevices
BY OpenInvariance, HandlesLead, PTL

\* Whoever survives the first get_sensors_list has a device for every module
\* with sensors, and nothing crashes while every open() works, for any number
\* of libraries.
THEOREM SurvivorsHaveDevices == Spec => []SurvivorsAreOpen
<1>1. OpenIndInv => SurvivorsAreOpen
  BY DEF OpenIndInv
<1> QED BY <1>1, OpenInvariance, PTL
=============================================================================
