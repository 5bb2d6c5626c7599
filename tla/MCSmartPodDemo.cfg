\* The browser lab with two current limits and two entries per field.
SPECIFICATION Spec
CONSTANTS
  TimerIds = {t1, t2}
  NoTimer = NoTimer
  Limits = {16, 32}
  Entries <- MCEntries
  Loads = {74, 90}
  MaxElapsed = 2
INVARIANTS TypeOK OneTimer ButtonsHaveTransitions IdleMeter
PROPERTIES TotalKeepsSnapshot TransitionEnds
