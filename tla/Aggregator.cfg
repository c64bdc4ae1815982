SPECIFICATION FairSpec
CONSTANTS
  Request = {r1, r2, r3}
  QueueCap = 2
  FaultKinds = {"journal", "put"}
  MaxFaults = 2
INVARIANTS
  TypeOK
  SubmittedOnce
  StoredIsJournaled
  GracefulShutdown
PROPERTIES
  EveryRequestEnds
  QueuedIsAttempted
  ShutdownEnds
CHECK_DEADLOCK FALSE
