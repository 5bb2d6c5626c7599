----------------------------- MODULE MCGateway -----------------------------
(* Small instances of Gateway for TLC. *)
EXTENDS Gateway, TLC
GatewaySymmetry == Permutations(Gateways)

\* Bound: another program locks the file only while at most one gateway runs.
OutsiderMeetsOne ==
  (\E o \in Outsiders : lock[o] # "none") => Cardinality({g \in Gateways : main[g] # "down"}) <= 1
=============================================================================
