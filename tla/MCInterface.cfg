SPECIFICATION MCSpec
CONSTANTS
  None = None
  t1 = t1
  b1 = b1
  root = root
  guest = guest
  pw = pw
  s1 = s1
  s2 = s2
  n1 = n1
  Tabs = {t1}
  BrowserOf <- MCBrowserOf
  Names = {root, guest}
  Passwords = {pw}
  Secrets = {s1, s2}
  Networks = {n1, n2}
  NumPolls = 2
  DefaultSecret = s1
  Addresses = {"users", "wifi"}
  MaxClicks = 3
INVARIANTS
  TypeOK
  AdminRemains
  WaitingIsAwaited
  SelectedIsShown
PROPERTIES
  OnlyAdminsChange
  SpinnersEnd
CHECK_DEADLOCK FALSE
