\* The tariffs make ties in every line: half a unit of energy, time and tax.
SPECIFICATION Spec
CONSTANTS
  None = None
  MaxSeconds = 4
  Fees = {0, 3}
  EnergyRates = {1200, 500000}
  TimeRates = {7, 30}
  Taxes = {0, 1800, 5000}
  Steps = {1, 250}
  p1 = p1
  p2 = p2
  c1 = c1
  c2 = c2
  Publishers = {p1, p2}
  Commits = {c1, c2}
  Files = {firmware, manifest}
  CommitOf <- MCCommitOf
  Installers = {i1, i2}
  Binaries = {new, newer}
INVARIANT
  SensorSettingsStored
CHECK_DEADLOCK FALSE
