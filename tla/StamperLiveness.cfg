SPECIFICATION FairSpec
CONSTANTS
  Commitment = {c1, c2}
  Neighbour = {n1}
  MaxTxs = 4
  MaxDepth = 2
  MaxReorg = 1
  MinConf = 2
  MaxPending = 1
  FaultKinds = {"crash", "reorg", "conflict", "rpc", "reply", "read"}
  MaxFaults = 1
PROPERTIES
  EventuallyAnchored
