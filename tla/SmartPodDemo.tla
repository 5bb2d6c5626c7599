---------------------------- MODULE SmartPodDemo ----------------------------
(***************************************************************************)
(* The browser lab (interface/src/containers/SmartPodDemo.js): a component *)
(* whose buttons, fields, one-second tick and transition timers change one *)
(* session.  A click runs to its end before any timer, and setState's      *)
(* updaters run in order, so each handler is one step; what interleaves is *)
(* the order of clicks and timers.                                         *)
(***************************************************************************)
EXTENDS EnergySession

CONSTANTS
  TimerIds,     \* handles that setTimeout returns
  NoTimer,      \* transitionTimer before the first setTimeout
  Limits,       \* positions of the current slider
  Entries,      \* numbers typed into a field, in tenths of its unit
  Loads,        \* load factors of the simulated vehicle, in percent
  MaxElapsed    \* bound on the ticks of one session

ASSUME DemoAssumption ==
  /\ Limits \subseteq Nat /\ 16 \in Limits
  /\ Entries \subseteq Int
  /\ Loads \subseteq Nat
  /\ MaxElapsed \in Nat
  /\ NoTimer \notin TimerIds

VARIABLES
  mounted,          \* the component is on the page
  session,          \* state.sessionState
  sessionStarted, currentLimit, voltage, power, energy, elapsed,
  networkOnline, fault, draftTariff, activeTariff,
  timers,           \* timeouts that have neither fired nor been cleared
  transitionTimer   \* handle of the last setTimeout

meterVars    == <<power, energy, elapsed>>
settingVars  == <<currentLimit, voltage, networkOnline, draftTariff>>
billVars     == <<sessionStarted, activeTariff, fault>>
timerVars    == <<timers, transitionTimer>>
vars == <<mounted, session, meterVars, settingVars, billVars, timerVars>>

active        == session = "active"
transitioning == session \in {"starting", "stopping"}
(* Mutant: a fault does not keep the start button disabled. *)
canStartUnlessActive == networkOnline /\ ~active /\ ~transitioning
canStart      == networkOnline /\ session \in {"available", "completed"}
canFault      == active \/ session = "starting"
tariffLocked  == active \/ transitioning

Total == Charge(energy, elapsed, activeTariff, sessionStarted)

(* setState with transitionSession. *)
Moves(event) ==
  \E next \in States : <<session, event, next>> \in Transitions /\ session' = next

Without(handle) == {t \in timers : t.id # handle}

(* The state in which a timeout's event is raised. *)
Awaited(event) == IF event = "output_confirmed" THEN "starting" ELSE "stopping"

(* clearTimeout(this.transitionTimer), then a new timeout. *)
Rearm(event) ==
  \E id \in TimerIds \ {t.id : t \in timers} :
    /\ timers' = Without(transitionTimer) \cup {[id |-> id, event |-> event]}
    /\ transitionTimer' = id

Disarm ==
  /\ timers' = Without(transitionTimer)
  /\ UNCHANGED transitionTimer

(* createInitialState, without what the user has set. *)
ClearSession ==
  /\ sessionStarted' = FALSE
  /\ power' = 0 /\ energy' = 0 /\ elapsed' = 0
  /\ fault' = FALSE
  /\ activeTariff' = DefaultTariff

Init ==
  /\ mounted = TRUE
  /\ session = "available" /\ sessionStarted = FALSE
  /\ currentLimit = 16 /\ voltage = 2300 /\ networkOnline = TRUE
  /\ power = 0 /\ energy = 0 /\ elapsed = 0
  /\ fault = FALSE
  /\ draftTariff = DefaultTariff /\ activeTariff = DefaultTariff
  /\ timers = {} /\ transitionTimer = NoTimer

(* The tick of a session that is not active changes nothing. *)
tick ==
  /\ mounted /\ active /\ elapsed < MaxElapsed
  /\ \E load \in Loads : power' = Power(currentLimit, voltage, load)
  /\ energy' = energy + TickEnergy(power')
  /\ elapsed' = elapsed + 1
  /\ UNCHANGED <<mounted, session, settingVars, billVars, timerVars>>

startSession ==
  /\ mounted /\ canStart
  /\ Moves("start_requested")
  /\ sessionStarted' = TRUE
  /\ power' = 0 /\ energy' = 0 /\ elapsed' = 0
  /\ fault' = FALSE
  /\ activeTariff' = draftTariff
  /\ Rearm("output_confirmed")
  /\ UNCHANGED <<mounted, settingVars>>

(* Mutant: clearTimeout comes after setTimeout. *)
stopSessionClearsLast ==
  /\ mounted /\ active
  /\ Moves("stop_requested")
  /\ power' = 0
  /\ timers' = {}
  /\ UNCHANGED <<mounted, energy, elapsed, settingVars, billVars, transitionTimer>>

(* Mutant: the last reading stays on the display. *)
stopSessionKeepsReading ==
  /\ mounted /\ active
  /\ Moves("stop_requested")
  /\ Rearm("output_opened")
  /\ UNCHANGED <<mounted, meterVars, settingVars, billVars>>

stopSession ==
  /\ mounted /\ active
  /\ Moves("stop_requested")
  /\ power' = 0
  /\ Rearm("output_opened")
  /\ UNCHANGED <<mounted, energy, elapsed, settingVars, billVars>>

(* The callback looks at the state again before it raises its event. *)
TimerFires(t) ==
  /\ timers' = timers \ {t}
  /\ IF session = Awaited(t.event) THEN Moves(t.event) ELSE UNCHANGED session
  /\ UNCHANGED <<mounted, meterVars, settingVars, billVars, transitionTimer>>

simulateFault ==
  /\ mounted /\ canFault
  /\ Disarm
  /\ Moves("fault_detected")
  /\ power' = 0
  /\ fault' = TRUE
  /\ UNCHANGED <<mounted, energy, elapsed, settingVars, sessionStarted, activeTariff>>

(* Mutant: clearTimeout is missing. *)
resetSimulatorKeepsTimer ==
  /\ mounted
  /\ ClearSession
  /\ session' = "available"
  /\ UNCHANGED <<mounted, settingVars, timerVars>>

resetSimulator ==
  /\ mounted
  /\ Disarm
  /\ ClearSession
  /\ session' = "available"
  /\ UNCHANGED <<mounted, settingVars>>

(* Mutant: the running session's tariff is the draft object itself. *)
updateTariffShared(field, entry) ==
  /\ mounted /\ ~tariffLocked
  /\ draftTariff' = [draftTariff EXCEPT ![field] = NonNegative(RoundDiv(entry, 10))]
  /\ activeTariff' = draftTariff'
  /\ UNCHANGED <<mounted, session, meterVars, sessionStarted, fault, timerVars,
                 currentLimit, voltage, networkOnline>>

(* Mutant: a negative amount is kept. *)
updateTariffSigned(field, entry) ==
  /\ mounted /\ ~tariffLocked
  /\ draftTariff' = [draftTariff EXCEPT ![field] = RoundDiv(entry, 10)]
  /\ UNCHANGED <<mounted, session, meterVars, billVars, timerVars, currentLimit, voltage, networkOnline>>

(* Number(entry) || 0, in minor units. *)
updateTariff(field, entry) ==
  /\ mounted /\ ~tariffLocked
  /\ draftTariff' = [draftTariff EXCEPT ![field] = NonNegative(RoundDiv(entry, 10))]
  /\ UNCHANGED <<mounted, session, meterVars, billVars, timerVars, currentLimit, voltage, networkOnline>>

setCurrentLimit ==
  /\ mounted /\ ~transitioning
  /\ currentLimit' \in Limits
  /\ UNCHANGED <<mounted, session, meterVars, billVars, timerVars, voltage, networkOnline, draftTariff>>

(* Math.max(100, Number(entry) || 230), in tenths of a volt. *)
setVoltage(entry) ==
  /\ mounted /\ ~active /\ ~transitioning
  /\ voltage' = IF entry = 0 THEN 2300 ELSE IF entry < 1000 THEN 1000 ELSE entry
  /\ UNCHANGED <<mounted, session, meterVars, billVars, timerVars, currentLimit, networkOnline, draftTariff>>

toggleNetwork ==
  /\ mounted
  /\ networkOnline' = ~networkOnline
  /\ UNCHANGED <<mounted, session, meterVars, billVars, timerVars, currentLimit, voltage, draftTariff>>

componentWillUnmount ==
  /\ mounted
  /\ mounted' = FALSE
  /\ Disarm
  /\ UNCHANGED <<session, meterVars, settingVars, billVars>>

(* A new instance of the component. *)
componentDidMount ==
  /\ ~mounted
  /\ mounted' = TRUE
  /\ ClearSession
  /\ session' = "available"
  /\ currentLimit' = 16 /\ voltage' = 2300 /\ networkOnline' = TRUE
  /\ draftTariff' = DefaultTariff
  /\ transitionTimer' = NoTimer
  /\ UNCHANGED timers

Settings ==
  \/ \E field \in TariffFields, entry \in Entries : updateTariff(field, entry)
  \/ setCurrentLimit
  \/ \E entry \in Entries : setVoltage(entry)
  \/ toggleNetwork

Timeout == \E t \in timers : TimerFires(t)

Next ==
  \/ tick \/ startSession \/ stopSession \/ Timeout \/ simulateFault \/ resetSimulator
  \/ Settings \/ componentWillUnmount \/ componentDidMount

(* The browser fires the timeouts that are not cleared. *)
Spec == Init /\ [][Next]_vars /\ WF_vars(Timeout)
-----------------------------------------------------------------------------
TimerTypes == [id : TimerIds, event : {"output_confirmed", "output_opened"}]

(* Every variable keeps its type. *)
TypeOK ==
  /\ mounted \in BOOLEAN /\ session \in States /\ sessionStarted \in BOOLEAN
  /\ currentLimit \in Nat /\ voltage \in Nat /\ networkOnline \in BOOLEAN
  /\ power \in Nat /\ energy \in Nat /\ elapsed \in Nat
  /\ fault \in BOOLEAN
  /\ draftTariff \in Tariffs /\ activeTariff \in Tariffs
  /\ timers \subseteq TimerTypes /\ transitionTimer \in TimerIds \cup {NoTimer}

(* While a session starts or stops, exactly one timeout is outstanding, it  *)
(* is the one clearTimeout would clear, and it raises the event that this   *)
(* state waits for.  In every other state, and once the component is gone,  *)
(* none is: a timeout of an earlier session never acts on a later one.      *)
OneTimer ==
  timers = IF mounted /\ transitioning
             THEN {[id |-> transitionTimer,
                    event |-> IF session = "starting" THEN "output_confirmed" ELSE "output_opened"]}
             ELSE {}

(* A button that can be clicked asks for a transition that exists, so       *)
(* transitionSession never throws in an updater.                            *)
ButtonsHaveTransitions ==
  mounted =>
    /\ canStart => Defined(session, "start_requested")
    /\ active => Defined(session, "stop_requested")
    /\ canFault => Defined(session, "fault_detected")

(* No power is shown, and the output is not closed, unless energy flows:    *)
(* a stop, a fault or a restart never leaves the last reading behind.  A    *)
(* fault is shown exactly in the faulted state.                             *)
IdleMeter ==
  /\ ~active => power = 0
  /\ fault <=> session = "faulted"
  /\ session = "available" => ~sessionStarted /\ energy = 0 /\ elapsed = 0

NewBill ==
  \/ ~mounted \/ ~mounted'
  \/ session' \in {"starting", "available"} /\ session' # session

(* "Active and completed totals keep their original snapshot": until the    *)
(* next session the total never decreases, whatever is typed, and it only   *)
(* grows while energy is delivered.                                         *)
TotalKeepsSnapshot ==
  [][NewBill \/ (Total' >= Total /\ (Total' # Total => active))]_vars

(* Safety checks and the safe stop come to an end. *)
TransitionEnds == transitioning ~> ~(mounted /\ transitioning)
=============================================================================
