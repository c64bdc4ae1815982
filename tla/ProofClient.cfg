SPECIFICATION FairSpec
CONSTANTS
  Calendar = {a, b}
  SelfNamed = {a}
  Time = {1, 2}
  MaxHeight = 2
  Cached = FALSE
  FaultKinds = {"unreachable", "lost", "rpc", "reorg", "lie"}
  MaxFaults = 1
INVARIANTS
  TypeOK
  FailClosed
PROPERTIES
  VerifiedAtEarliest
  PollingCompletes
