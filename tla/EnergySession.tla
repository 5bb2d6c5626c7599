--------------------------- MODULE EnergySession ---------------------------
(***************************************************************************)
(* The domain core of the SmartPod lab: the states of a session, the       *)
(* charge of a metered session, one second of the simulated meter, and the *)
(* projection of the simulator onto the gateway contract                   *)
(* (interface/src/simulator).  Amounts are natural numbers of minor        *)
(* currency units, mWh and seconds.                                        *)
(***************************************************************************)
EXTENDS Integers

States == {"available", "starting", "active", "stopping", "completed", "faulted"}

(* TRANSITIONS: from a state, on an event, to a state. *)
Transitions == {
  <<"available", "start_requested",  "starting">>,
  <<"starting",  "output_confirmed", "active">>,
  <<"starting",  "fault_detected",   "faulted">>,
  <<"active",    "stop_requested",   "stopping">>,
  <<"active",    "fault_detected",   "faulted">>,
  <<"stopping",  "output_opened",    "completed">>,
  <<"stopping",  "fault_detected",   "faulted">>,
  <<"completed", "start_requested",  "starting">> }

(* transitionSession throws when there is no such transition. *)
Defined(state, event) == \E next \in States : <<state, event, next>> \in Transitions

(* Mutant: truncates. *)
FloorDiv(a, b) == a \div b

(* Math.round(a / b): to the nearest integer, halves up. *)
RoundDiv(a, b) == (2 * a + b) \div (2 * b)

(* Units of the tariff's rates: per kWh in mWh, per minute, of the whole.  *)
PerKwh == 1000000
PerMinute == 60
PerWhole == 10000

NonNegative(n) == IF n < 0 THEN 0 ELSE n

TariffFields == {"fixed", "energyPerKwh", "timePerMinute", "taxBasisPoints"}
Tariffs == [TariffFields -> Nat]

DefaultTariff == [fixed |-> 500, energyPerKwh |-> 1200, timePerMinute |-> 20, taxBasisPoints |-> 1800]

Subtotal(energy, seconds, tariff) ==
  tariff["fixed"]
  + RoundDiv(energy * tariff["energyPerKwh"], PerKwh)
  + RoundDiv(seconds * tariff["timePerMinute"], PerMinute)

Taxed(subtotal, tariff) == subtotal + RoundDiv(subtotal * tariff["taxBasisPoints"], PerWhole)

(* totalMinor of calculateCharge. *)
Charge(energy, seconds, tariff, started) ==
  IF started THEN Taxed(Subtotal(energy, seconds, tariff), tariff) ELSE 0

(* Power at a voltage given in tenths of a volt, and a load in percent of  *)
(* the current limit; the energy of one second at that power.              *)
Power(limit, voltage, load) == RoundDiv(RoundDiv(voltage, 10) * limit * load * 96, 10000)
TickEnergy(power) == RoundDiv(power * 1000, 3600)

(* projectSimulatorContract. *)
Outputs == {"open", "closed", "unknown"}

PortState(state, output) ==
  CASE state \in {"available", "completed"} -> IF output = "open" THEN "available" ELSE "unavailable"
    [] state = "starting" -> "energizing"
    [] OTHER -> state

SessionState(state) ==
  CASE state = "available" -> "none"
    [] state = "starting" -> "energizing"
    [] state = "faulted" -> "failed"
    [] OTHER -> state

EnergyWh(energy) == energy \div 1000
EnergyRemainder(energy) == energy % 1000
-----------------------------------------------------------------------------
(* q is a / b rounded to the nearest integer, halves up. *)
Nearest(q, a, b) == 2 * b * q - b <= 2 * a /\ 2 * a < 2 * b * q + b

(* A total is the session fee, the energy and the time, each rounded once   *)
(* to a minor unit, and the tax on their sum, rounded once.                 *)
IsTotal(total, energy, seconds, tariff) ==
  \E e \in {q \in 0 .. total : Nearest(q, energy * tariff["energyPerKwh"], PerKwh)},
     t \in {q \in 0 .. total : Nearest(q, seconds * tariff["timePerMinute"], PerMinute)} :
       LET subtotal == tariff["fixed"] + e + t
       IN  Nearest(total - subtotal, subtotal * tariff["taxBasisPoints"], PerWhole)
=============================================================================
