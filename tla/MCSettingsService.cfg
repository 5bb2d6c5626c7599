CONSTANTS
  Absent = Absent
  Broken = Broken
  MaxPending = 2
  Empty <- MCEmpty
  Documents <- MCDocuments
  readFromJsonObject <- WifiRead
  writeToJsonObject <- WifiWrite
SPECIFICATION Spec
INVARIANTS TypeOK Agreement FileHoldsKept
PROPERTIES ShownIsStored TakesEffect
