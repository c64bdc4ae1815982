SPECIFICATION Spec
CONSTANTS
  Commitment = {c1, c2}
  Neighbour = {n1, n2}
  MaxTxs = 2
  MaxDepth = 2
  MaxReorg = 2
  MinConf = 2
  MaxPending = 1
  FaultKinds = {"crash", "reorg", "conflict", "rpc", "reply", "put", "read"}
  MaxFaults = 2
SYMMETRY Symmetry
INVARIANTS
  TypeOK
  NoCommitmentLost
  LossInv
  NoDoubleTracking
  AnchoredOnChain
PROPERTIES
  ImplementsLedger
  AttestedWhenActive
