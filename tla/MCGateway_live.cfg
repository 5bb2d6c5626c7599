\* Liveness of one gateway whose two clients compete for its connection.
SPECIFICATION FairSpec
CONSTANTS
  Gateways = {g1}
  Outsiders = {}
  Clients = {c1, c2}
  MaxSequence = 1
  None = None
PROPERTIES SignalStops FailureStops RequestSettles
