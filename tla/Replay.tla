------------------------------- MODULE Replay -------------------------------
(***************************************************************************)
(* The readings of the deterministic replay (gateway/store.go): a sequence *)
(* number and the energy counter in milli-Wh.  The other columns are       *)
(* constants, or the sequence counted in seconds from a fixed date.        *)
(***************************************************************************)
EXTENDS Integers

Reading(n) == [sequence |-> n, energy |-> 100 * n]

Readings == [sequence : Nat, energy : Nat]

(* The gap-free history that ends with reading n. *)
Rows(n) == {Reading(i) : i \in 0 .. n}

SeedPresent(R) == Reading(0) \in R

(* SELECT MAX(sequence) over a non-empty set of readings. *)
LastSequence(R) ==
  CHOOSE m \in {r.sequence : r \in R} : \A r \in R : r.sequence <= m
=============================================================================
