\* The exit status after a write failure.
SPECIFICATION Spec
CONSTANTS
  Gateways = {g1}
  Outsiders = {}
  Clients = {c1}
  MaxSequence = 1
  None = None
INVARIANT WriteFailureExitsNonzero
