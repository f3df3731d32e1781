CONSTANTS
  Callers = {p, q}
  SKUs = {s, t}
  Keys = {k, l}
  Titles = {old, new}
  FirstTitle = old
  MaxQuantity = 1
  MaxCalls = 5
  MaxFaults = 1
SPECIFICATION Spec
SYMMETRY StorefrontSymmetry
CHECK_DEADLOCK FALSE
INVARIANTS
  StorefrontTypeOK
  CartIsKept
  ViewsAreCounted
  ProductIsAsSet
  FunnelFollows
