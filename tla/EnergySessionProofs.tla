------------------------ MODULE EnergySessionProofs ------------------------
(***************************************************************************)
(* Proofs about the charge of a session and about the lab that computes    *)
(* it, for every tariff, meter reading and set of inputs.                  *)
(***************************************************************************)
EXTENDS SmartPodDemo, TLAPS

Divisors == {PerMinute, PerWhole, PerKwh}

(* Math.round of a quotient is the nearest integer, and keeps the order.   *)
LEMMA RoundingIsNearest ==
  ASSUME NEW a \in Nat, NEW b \in Divisors
  PROVE  RoundDiv(a, b) \in Nat /\ Nearest(RoundDiv(a, b), a, b)
<1>1. CASE b = PerMinute
  BY <1>1, SMT DEF RoundDiv, Nearest, PerMinute
<1>2. CASE b = PerWhole
  BY <1>2, SMT DEF RoundDiv, Nearest, PerWhole
<1>3. CASE b = PerKwh
  BY <1>3, SMT DEF RoundDiv, Nearest, PerKwh
<1>4. QED
  BY <1>1, <1>2, <1>3 DEF Divisors

LEMMA RoundingIsMonotone ==
  ASSUME NEW a \in Nat, NEW c \in Nat, a <= c, NEW b \in Divisors
  PROVE  RoundDiv(a, b) <= RoundDiv(c, b)
<1>1. CASE b = PerMinute
  BY <1>1, SMT DEF RoundDiv, PerMinute
<1>2. CASE b = PerWhole
  BY <1>2, SMT DEF RoundDiv, PerWhole
<1>3. CASE b = PerKwh
  BY <1>3, SMT DEF RoundDiv, PerKwh
<1>4. QED
  BY <1>1, <1>2, <1>3 DEF Divisors

LEMMA ProductIsMonotone ==
  ASSUME NEW a \in Nat, NEW c \in Nat, a <= c, NEW r \in Nat
  PROVE  a * r \in Nat /\ c * r \in Nat /\ a * r <= c * r
  OBVIOUS

(* The line of a metered quantity. *)
LEMMA LineIsMonotone ==
  ASSUME NEW a \in Nat, NEW c \in Nat, a <= c, NEW r \in Nat, NEW b \in Divisors
  PROVE  /\ RoundDiv(a * r, b) \in Nat /\ RoundDiv(c * r, b) \in Nat
         /\ RoundDiv(a * r, b) <= RoundDiv(c * r, b)
  BY ProductIsMonotone, RoundingIsNearest, RoundingIsMonotone

(* calculateCharge: more energy and more time never cost less.             *)
THEOREM ChargeIsMonotone ==
  ASSUME NEW e \in Nat, NEW f \in Nat, e <= f, NEW s \in Nat, NEW t \in Nat, s <= t,
         NEW tariff \in Tariffs, NEW started \in BOOLEAN
  PROVE  /\ Charge(e, s, tariff, started) \in Nat
         /\ Charge(e, s, tariff, started) <= Charge(f, t, tariff, started)
<1> DEFINE sub1 == Subtotal(e, s, tariff)
           sub2 == Subtotal(f, t, tariff)
<1>1. \A field \in TariffFields : tariff[field] \in Nat
  BY DEF Tariffs
<1>2. sub1 \in Nat /\ sub2 \in Nat /\ sub1 <= sub2
  <2>1. /\ RoundDiv(e * tariff["energyPerKwh"], PerKwh) \in Nat
        /\ RoundDiv(f * tariff["energyPerKwh"], PerKwh) \in Nat
        /\ RoundDiv(e * tariff["energyPerKwh"], PerKwh)
             <= RoundDiv(f * tariff["energyPerKwh"], PerKwh)
    BY <1>1, LineIsMonotone DEF TariffFields, Divisors
  <2>2. /\ RoundDiv(s * tariff["timePerMinute"], PerMinute) \in Nat
        /\ RoundDiv(t * tariff["timePerMinute"], PerMinute) \in Nat
        /\ RoundDiv(s * tariff["timePerMinute"], PerMinute)
             <= RoundDiv(t * tariff["timePerMinute"], PerMinute)
    BY <1>1, LineIsMonotone DEF TariffFields, Divisors
  <2>3. tariff["fixed"] \in Nat
    BY <1>1 DEF TariffFields
  <2>4. QED
    BY <2>1, <2>2, <2>3 DEF Subtotal
<1>3. /\ RoundDiv(sub1 * tariff["taxBasisPoints"], PerWhole) \in Nat
      /\ RoundDiv(sub2 * tariff["taxBasisPoints"], PerWhole) \in Nat
      /\ RoundDiv(sub1 * tariff["taxBasisPoints"], PerWhole)
           <= RoundDiv(sub2 * tariff["taxBasisPoints"], PerWhole)
  <2> HIDE DEF sub1, sub2
  <2>1. tariff["taxBasisPoints"] \in Nat
    BY <1>1 DEF TariffFields
  <2>2. QED
    BY <1>2, <2>1, LineIsMonotone DEF Divisors
<1>4. CASE started
  BY <1>2, <1>3, <1>4 DEF Charge, Taxed
<1>5. CASE ~started
  BY <1>5 DEF Charge
<1>6. QED
  BY <1>4, <1>5
-----------------------------------------------------------------------------
(* The lab. *)
LEMMA PowerType ==
  ASSUME NEW limit \in Nat, NEW v \in Nat, NEW load \in Nat
  PROVE  Power(limit, v, load) \in Nat /\ TickEnergy(Power(limit, v, load)) \in Nat
<1>1. RoundDiv(v, 10) \in Nat
  BY DEF RoundDiv
<1> DEFINE product == RoundDiv(v, 10) * limit * load * 96
<1>2. product \in Nat
  <2>1. RoundDiv(v, 10) * limit \in Nat
    BY <1>1
  <2>2. RoundDiv(v, 10) * limit * load \in Nat
    BY <2>1
  <2>3. QED
    BY <2>2
<1>3. ASSUME NEW n \in Nat PROVE RoundDiv(n, 10000) \in Nat
  BY DEF RoundDiv
<1>4. ASSUME NEW n \in Nat PROVE TickEnergy(n) \in Nat
  BY DEF TickEnergy, RoundDiv
<1>5. QED
  BY <1>2, <1>3, <1>4 DEF Power

LEMMA DefaultTariffType == DefaultTariff \in Tariffs
  BY DEF DefaultTariff, Tariffs, TariffFields

LEMMA TypeInductive ==
  ASSUME TypeOK, [Next]_vars
  PROVE  TypeOK'
<1> USE DEF meterVars, settingVars, billVars, timerVars
<1>0. 0 \in Nat /\ 16 \in Nat /\ 2300 \in Nat
  OBVIOUS
<1>1. CASE tick
  <2>1. PICK load \in Loads : power' = Power(currentLimit, voltage, load)
    BY <1>1 DEF tick
  <2>2. power' \in Nat /\ energy' \in Nat /\ elapsed' \in Nat
    <3>1. load \in Nat
      BY DemoAssumption
    <3>2. power' \in Nat /\ TickEnergy(power') \in Nat
      BY <2>1, <3>1, PowerType DEF TypeOK
    <3>3. QED
      BY <1>1, <3>2 DEF tick, TypeOK
  <2>3. QED
    BY <1>1, <2>2 DEF tick, TypeOK
<1>2. CASE startSession
  <2>1. timers' \subseteq TimerTypes /\ transitionTimer' \in TimerIds
    BY <1>2 DEF startSession, Rearm, Without, TypeOK, TimerTypes
  <2>2. session' \in States
    BY <1>2 DEF startSession, Moves
  <2>3. power' \in Nat /\ energy' \in Nat /\ elapsed' \in Nat /\ activeTariff' \in Tariffs
    BY <1>0, <1>2 DEF startSession, TypeOK
  <2>4. sessionStarted' \in BOOLEAN /\ fault' \in BOOLEAN
    BY <1>2 DEF startSession
  <2>5. QED
    BY <1>2, <2>1, <2>2, <2>3, <2>4 DEF startSession, TypeOK
<1>3. CASE stopSession
  BY <1>3 DEF stopSession, Moves, Rearm, Without, TypeOK, TimerTypes
<1>4. CASE Timeout
  BY <1>4 DEF Timeout, TimerFires, Moves, TypeOK
<1>5. CASE simulateFault
  BY <1>5 DEF simulateFault, Moves, Disarm, Without, TypeOK
<1>6. CASE resetSimulator
  BY <1>6, DefaultTariffType DEF resetSimulator, ClearSession, Disarm, Without, TypeOK, States
<1>7. ASSUME NEW field \in TariffFields, NEW entry \in Entries, updateTariff(field, entry)
      PROVE  TypeOK'
  <2>1. NonNegative(RoundDiv(entry, 10)) \in Nat
    BY DemoAssumption DEF NonNegative, RoundDiv
  <2>2. draftTariff' \in Tariffs
    BY <1>7, <2>1 DEF updateTariff, TypeOK, Tariffs
  <2>3. QED
    BY <1>7, <2>2 DEF updateTariff, TypeOK
<1>8. CASE setCurrentLimit
  BY <1>8, DemoAssumption DEF setCurrentLimit, TypeOK
<1>9. ASSUME NEW entry \in Entries, setVoltage(entry) PROVE TypeOK'
  <2>1. voltage' \in Nat
    BY <1>9, DemoAssumption DEF setVoltage
  <2>2. QED
    BY <1>9, <2>1 DEF setVoltage, TypeOK
<1>10. CASE toggleNetwork
  BY <1>10 DEF toggleNetwork, TypeOK
<1>11. CASE componentWillUnmount
  BY <1>11 DEF componentWillUnmount, Disarm, Without, TypeOK
<1>12. CASE componentDidMount
  <2>1. session' \in States /\ draftTariff' \in Tariffs /\ activeTariff' \in Tariffs
    BY <1>12, DefaultTariffType DEF componentDidMount, ClearSession, States
  <2>2. /\ currentLimit' \in Nat /\ voltage' \in Nat
        /\ power' \in Nat /\ energy' \in Nat /\ elapsed' \in Nat
    BY <1>0, <1>12 DEF componentDidMount, ClearSession
  <2>3. QED
    BY <1>12, <2>1, <2>2 DEF componentDidMount, ClearSession, TypeOK
<1>13. CASE UNCHANGED vars
  BY <1>13 DEF vars, TypeOK
<1>14. QED
  BY <1>1, <1>2, <1>3, <1>4, <1>5, <1>6, <1>7, <1>8, <1>9, <1>10, <1>11, <1>12, <1>13
     DEF Next, Settings

(* SmartPodDemo.js: every variable of the lab keeps its type.              *)
THEOREM LabTypeCorrect == Spec => []TypeOK
<1>1. ASSUME Init PROVE TypeOK
  <2>1. /\ currentLimit \in Nat /\ voltage \in Nat
        /\ power \in Nat /\ energy \in Nat /\ elapsed \in Nat
    BY <1>1, SMT DEF Init
  <2>2. session \in States /\ draftTariff \in Tariffs /\ activeTariff \in Tariffs
    BY <1>1, DefaultTariffType DEF Init, States
  <2>3. QED
    BY <1>1, <2>1, <2>2 DEF Init, TypeOK
<1>2. TypeOK /\ [Next]_vars => TypeOK'
  BY TypeInductive
<1>3. QED
  BY <1>1, <1>2, PTL DEF Spec

LEMMA OneTimerInductive ==
  ASSUME TypeOK, OneTimer, [Next]_vars
  PROVE  OneTimer'
<1> USE DEF meterVars, settingVars, billVars, timerVars, active, transitioning
<1>1. CASE startSession
  <2>1. timers = {}
    BY <1>1 DEF startSession, canStart, OneTimer
  <2>2. session' = "starting"
    BY <1>1 DEF startSession, canStart, Moves, Transitions
  <2>3. QED
    BY <1>1, <2>1, <2>2 DEF startSession, Rearm, Without, OneTimer
<1>2. CASE stopSession
  <2>1. timers = {}
    BY <1>2 DEF stopSession, OneTimer
  <2>2. session' = "stopping"
    BY <1>2 DEF stopSession, Moves, Transitions
  <2>3. QED
    BY <1>2, <2>1, <2>2 DEF stopSession, Rearm, Without, OneTimer
<1>3. ASSUME NEW t \in timers, TimerFires(t) PROVE OneTimer'
  <2>1. mounted /\ transitioning /\ timers' = {} /\ session = Awaited(t.event)
    BY <1>3 DEF TimerFires, OneTimer, Awaited
  <2>2. session' \in {"active", "completed"}
    BY <1>3, <2>1 DEF TimerFires, Moves, Transitions, OneTimer
  <2>3. QED
    BY <2>1, <2>2 DEF OneTimer
<1>4. CASE simulateFault
  <2>1. session' = "faulted"
    BY <1>4 DEF simulateFault, canFault, Moves, Transitions
  <2>2. timers' = {}
    BY <1>4 DEF simulateFault, Disarm, Without, OneTimer
  <2>3. QED
    BY <2>1, <2>2 DEF OneTimer
<1>5. CASE resetSimulator \/ componentWillUnmount
  <2>1. timers' = {}
    BY <1>5 DEF resetSimulator, componentWillUnmount, Disarm, Without, OneTimer
  <2>2. session' = "available" \/ ~mounted'
    BY <1>5 DEF resetSimulator, componentWillUnmount
  <2>3. QED
    BY <2>1, <2>2 DEF OneTimer
<1>6. CASE componentDidMount
  BY <1>6 DEF componentDidMount, OneTimer
<1>7. CASE Settings \/ tick \/ UNCHANGED vars
  BY <1>7 DEF Settings, updateTariff, setCurrentLimit, setVoltage, toggleNetwork, tick, vars,
     OneTimer
<1>8. QED
  BY <1>1, <1>2, <1>3, <1>4, <1>5, <1>6, <1>7 DEF Next, Timeout

(* SmartPodDemo.js: a timeout of an earlier session never acts on a later  *)
(* one, and a session that starts or stops always has its own.             *)
THEOREM OneTimerOnly == Spec => []OneTimer
<1>1. Init => OneTimer
  BY DEF Init, OneTimer, transitioning
<1>2. TypeOK /\ OneTimer /\ [Next]_vars => OneTimer'
  BY OneTimerInductive
<1>3. QED
  BY <1>1, <1>2, LabTypeCorrect, PTL DEF Spec

LEMMA IdleMeterInductive ==
  ASSUME TypeOK, IdleMeter, [Next]_vars
  PROVE  IdleMeter'
<1> USE DEF meterVars, settingVars, billVars, timerVars, active, transitioning, IdleMeter
<1>1. CASE startSession
  BY <1>1 DEF startSession, canStart, Moves, Transitions
<1>2. CASE stopSession
  BY <1>2 DEF stopSession, Moves, Transitions
<1>3. ASSUME NEW t \in timers, TimerFires(t) PROVE IdleMeter'
  <2>1. UNCHANGED <<power, fault, session>> \/ session \in {"starting", "stopping"}
    BY <1>3 DEF TimerFires, Awaited
  <2>2. session \in {"starting", "stopping"} =>
          session' \in {"starting", "stopping", "active", "completed"}
    <3>1. t.event \in {"output_confirmed", "output_opened"}
      BY <1>3 DEF TypeOK, TimerTypes
    <3>2. QED
      BY <1>3, <3>1 DEF TimerFires, Awaited, Moves, Transitions
  <2>3. QED
    BY <1>3, <2>1, <2>2 DEF TimerFires, Awaited, Moves, Transitions
<1>4. CASE simulateFault
  BY <1>4 DEF simulateFault, canFault, Moves, Transitions
<1>5. CASE resetSimulator \/ componentWillUnmount \/ componentDidMount
  BY <1>5 DEF resetSimulator, ClearSession, componentWillUnmount, componentDidMount
<1>6. CASE Settings \/ tick \/ UNCHANGED vars
  BY <1>6 DEF Settings, updateTariff, setCurrentLimit, setVoltage, toggleNetwork, tick, vars
<1>7. QED
  BY <1>1, <1>2, <1>3, <1>4, <1>5, <1>6 DEF Next, Timeout

(* SmartPodDemo.js: no reading outlives the flow of energy, and a fault is *)
(* shown exactly in the faulted state.                                     *)
THEOREM MeterIdles == Spec => []IdleMeter
<1>1. Init => IdleMeter
  BY DEF Init, IdleMeter, active
<1>2. TypeOK /\ IdleMeter /\ [Next]_vars => IdleMeter'
  BY IdleMeterInductive
<1>3. QED
  BY <1>1, <1>2, LabTypeCorrect, PTL DEF Spec

(* SmartPodDemo.js: the total shown to the user keeps the tariff of its    *)
(* session, never decreases, and grows only while energy is delivered.     *)
THEOREM TotalStaysHonest == Spec => TotalKeepsSnapshot
<1>1. TypeOK /\ TypeOK' /\ IdleMeter /\ [Next]_vars =>
        [NewBill \/ (Total' >= Total /\ (Total' # Total => active))]_vars
  <2> SUFFICES ASSUME TypeOK, TypeOK', IdleMeter, Next
               PROVE  NewBill \/ (Total' >= Total /\ (Total' # Total => active))
    OBVIOUS
  <2> USE DEF meterVars, settingVars, billVars, timerVars, active, transitioning
  <2>t. /\ energy \in Nat /\ energy <= energy /\ elapsed \in Nat /\ elapsed <= elapsed
        /\ activeTariff \in Tariffs /\ sessionStarted \in BOOLEAN
    BY DEF TypeOK
  <2>1. CASE UNCHANGED <<energy, elapsed, activeTariff, sessionStarted>>
    <3>1. Total' = Total
      BY <2>1 DEF Total
    <3>2. Total \in Nat
      BY <2>t, ChargeIsMonotone DEF Total
    <3>3. QED
      BY <3>1, <3>2
  <2>2. CASE tick
    <3>1. energy' \in Nat /\ elapsed' \in Nat /\ energy <= energy' /\ elapsed <= elapsed'
      <4>1. PICK load \in Loads : power' = Power(currentLimit, voltage, load)
        BY <2>2 DEF tick
      <4>2. TickEnergy(power') \in Nat
        BY <4>1, PowerType, DemoAssumption DEF TypeOK
      <4>3. QED
        BY <2>2, <4>2 DEF tick, TypeOK
    <3>2. UNCHANGED <<activeTariff, sessionStarted>> /\ active
      BY <2>2 DEF tick
    <3>3. Total \in Nat /\ Total' \in Nat /\ Total <= Total'
      BY <2>t, <3>1, <3>2, ChargeIsMonotone DEF Total
    <3>4. QED
      BY <3>2, <3>3
  <2>3. CASE startSession
    BY <2>3 DEF startSession, canStart, Moves, Transitions, NewBill
  <2>4. CASE resetSimulator /\ session = "available"
    <3>1. ~sessionStarted /\ ~sessionStarted'
      BY <2>4 DEF resetSimulator, ClearSession, IdleMeter
    <3>2. Total = 0 /\ Total' = 0
      BY <3>1 DEF Total, Charge
    <3>3. QED
      BY <3>2
  <2>5. CASE resetSimulator /\ session # "available"
    BY <2>5 DEF resetSimulator, NewBill
  <2>6. CASE componentWillUnmount \/ componentDidMount
    BY <2>6 DEF componentWillUnmount, componentDidMount, NewBill
  <2>7. QED
    BY <2>1, <2>2, <2>3, <2>4, <2>5, <2>6 DEF Next, Timeout, TimerFires, stopSession,
       simulateFault, Settings, updateTariff, setCurrentLimit, setVoltage, toggleNetwork
<1>2. QED
  BY <1>1, LabTypeCorrect, MeterIdles, PTL DEF Spec, TotalKeepsSnapshot

(* SmartPodDemo.js: a button that is enabled asks transitionSession for a   *)
(* transition that TRANSITIONS has, so no click throws in an updater.       *)
THEOREM ButtonsNeverThrow == Spec => []ButtonsHaveTransitions
<1>1. TypeOK => ButtonsHaveTransitions
  <2>1. /\ \A s \in {"available", "completed"} : Defined(s, "start_requested")
        /\ Defined("active", "stop_requested")
        /\ \A s \in {"starting", "active"} : Defined(s, "fault_detected")
    BY DEF Defined, Transitions, States
  <2>2. QED
    BY <2>1, Zenon DEF ButtonsHaveTransitions, canStart, active, canFault
<1>2. QED
  BY <1>1, LabTypeCorrect, PTL
=============================================================================
