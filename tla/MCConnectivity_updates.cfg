\* Settings posted to the four services, and scans.
SPECIFICATION Spec
CONSTANTS
  None = None
  WifiOptions = {n1, n2}
  ApOptions <- MCRenamed
  NtpOptions = {t1, t2}
  OtaOptions = {p1, None}
  Posting = {"wifi", "ap", "ntp", "ota"}
  Scanning = TRUE
  MaxPending = 1
  MaxEvents = 1
INVARIANTS TypeOK RadioRunsConfigured ServicesRunConfigured
CONSTRAINT OneConcern
