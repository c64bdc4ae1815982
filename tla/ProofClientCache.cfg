SPECIFICATION FairSpec
CONSTANTS
  Calendar = {a, b}
  SelfNamed = {a}
  Time = {1, 2}
  MaxHeight = 2
  Cached = TRUE
  FaultKinds = {}
  MaxFaults = 0
PROPERTIES
  PollingCompletes
