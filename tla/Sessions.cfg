SPECIFICATION Spec
CONSTANTS
  Callers = {p, q}
  Instances = {i, j}
  None = None
  AccessTTL = 0
  RefreshTTL = 1
  CallTime = 1
  MaxCalls = 3
  MaxPairs = 2
  MaxFaults = 2
SYMMETRY SessionSymmetry
INVARIANTS
  SessionTypeOK
  RevocationIsBounded
  QuietEndIsFinal
  ShopIsNotForgotten
CHECK_DEADLOCK FALSE
