SPECIFICATION Spec
CONSTANTS
  Request = {r1}
  QueueCap = 1
  FaultKinds = {"journal"}
  MaxFaults = 1
INVARIANTS
  ReceiptRecorded
CHECK_DEADLOCK FALSE
