\* The same after a client has scanned for networks.
SPECIFICATION FairSpec
CONSTANTS
  None = None
  WifiOptions = {n1}
  ApOptions <- MCNever
  NtpOptions = {t1}
  OtaOptions = {None}
  Posting = {}
  Scanning = TRUE
  MaxPending = 1
  MaxEvents = 2
PROPERTY StationSettles
