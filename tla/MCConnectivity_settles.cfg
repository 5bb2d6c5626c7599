\* What the device comes to when clients and the radio leave it alone.
SPECIFICATION FairSpec
CONSTANTS
  None = None
  WifiOptions = {n1, None}
  ApOptions <- MCEveryMode
  NtpOptions = {t1}
  OtaOptions = {p1, None}
  Posting = {"wifi"}
  Scanning = FALSE
  MaxPending = 1
  MaxEvents = 2
PROPERTIES StationSettles AccessPointSettles ServicesSettle
