\* Two gateways and another program on one file.
SPECIFICATION Spec
CONSTANTS
  Gateways = {g1, g2}
  Outsiders = {o1}
  Clients = {c1}
  MaxSequence = 1
  None = None
INVARIANTS TypeOK GapFree ServesUsable FreshAnswers ConnectionReturnedClean ShutdownOrder
PROPERTIES HistoryPreserved LogSpec CleanExitAnsweredAll
SYMMETRY GatewaySymmetry
CONSTRAINT OutsiderMeetsOne
