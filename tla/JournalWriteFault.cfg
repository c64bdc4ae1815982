SPECIFICATION Spec
CONSTANTS
  Commitment = {c1, c2, c3}
  RecordSize = 3
  FaultKinds = {"write", "sync"}
  MaxFaults = 1
INVARIANTS
  AckedReadable
CHECK_DEADLOCK FALSE
