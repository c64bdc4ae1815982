SPECIFICATION TreesSpec
CONSTANTS
  NumLeaves = 3
  MaxBlockTxs = 5
  NumBlocks = 2
  MaxAttempts = 2
  Calendar = {a, b, c}
  MaxMsgLength = 3
  MaxUpgrades = 2
INVARIANTS
  BranchesSuffice
  StoredProofsTrue
  StoredProofsComplete
  ClientTypeOK
  NothingLost
  OrderIrrelevant
  NoRepeats
  ReportsGain
CHECK_DEADLOCK FALSE
