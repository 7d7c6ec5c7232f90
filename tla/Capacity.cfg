SPECIFICATION Spec
CONSTANTS
  p = p
  q = q
  a = a
  b = b
  c = c
  heavy = heavy
  Work = {a, b, heavy}
  Processes = {p, q}
  Home <- Homes
  Skew <- SameClock
  MaxSkew = 0
  Ids = {i1, i2, i3, i4}
  Weight <- Weights
  Capacity = 2
  Timeout = 1
  TTL = 3
  KeyTTL = 12
  RenewEvery = 1
  MaxMissed = 1
SYMMETRY Symmetry
INVARIANTS
  TableWithinCapacity
  OneCap
  FreedInTTL
