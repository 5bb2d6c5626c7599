--------------------------- MODULE MCSmartPodDemo ---------------------------
(* A small instance of SmartPodDemo for TLC. *)
EXTENDS SmartPodDemo

(* A negative entry, which has to be clamped. *)
MCEntries == {-55}
=============================================================================
