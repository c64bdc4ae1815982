SPECIFICATION FairSpec
CONSTANTS
  Commitment = {c1}
  Neighbour = {n1}
  MaxTxs = 2
  MaxDepth = 2
  MaxReorg = 1
  MinConf = 2
  MaxPending = 1
  FaultKinds = {"put"}
  MaxFaults = 1
PROPERTIES
  EventuallyAnchored
