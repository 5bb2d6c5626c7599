-------------------------- MODULE MCConnectivity --------------------------
(* Small instances of Connectivity for TLC.                                  *)
EXTENDS Connectivity

AccessPoint(mode, name) == [mode |-> mode, name |-> name]

MCEveryMode == {AccessPoint(mode, "pod") : mode \in Modes}
MCRenamed == {AccessPoint("always", "pod"), AccessPoint("disconnected", "lab")}
MCNever == {AccessPoint("never", "pod")}

\* Bound on the updates that are under way together: clients concern
\* themselves with the radio, or with the services that run over it, while the
\* other two rest with a usual setting.
Usual(service) ==
  IF service = "ota" THEN None ELSE CHOOSE option \in Options[service] : option # None

Rests(service) == fields[service] = Usual(service) /\ Applied(service)

OneConcern ==
  \/ Rests("ntp") /\ Rests("ota")
  \/ Rests("wifi") /\ Rests("ap") /\ scan = "none"
=============================================================================
