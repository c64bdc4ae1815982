SPECIFICATION Spec
CONSTANTS
  Commitment = {c1, c2, c3, c4}
  RecordSize = 3
  FaultKinds = {"crash", "power", "write", "sync"}
  MaxFaults = 3
INVARIANTS
  TypeOK
  DamageConfined
  IndexNotReused
PROPERTIES
  ImplementsLog
CHECK_DEADLOCK FALSE
