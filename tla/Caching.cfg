SPECIFICATION Spec
CONSTANTS
  Callers = {p, q}
  Instances = {i, j}
  None = None
  TTL = 1
  CallTime = 1
  MaxWrites = 1
SYMMETRY CacheSymmetry
INVARIANTS
  CacheTypeOK
  BoundedStaleness
  QuietWriteIsSeen
CHECK_DEADLOCK FALSE
