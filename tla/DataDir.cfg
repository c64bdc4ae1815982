SPECIFICATION Spec
CONSTANTS
  URI = {u1, u2}
  Key = {k1, k2, k3, k4}
  None = none
  Size = 2
  FaultKinds = {"kill", "power", "io"}
  MaxFaults = 3
INVARIANTS
  TypeOK
  IdentityStable
  StartsAgain
