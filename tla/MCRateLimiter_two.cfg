CONSTANTS
  p1 = p1
  p2 = p2
  Players = {p1, p2}
  Global = Global
  g_cap = 3
  g_rate = 2
  p_cap = 1
  p_rate = 1
  ChargeSizes = {2}
  DrainSizes = {3}
  RedisFaults = TRUE
  MaxDelay = 1
  MaxTime = 5
SPECIFICATION Spec
SYMMETRY MCSymmetry
INVARIANTS TypeOK SpendingBounded
PROPERTIES RefusalsAreFree ExpiryGrantsNothing
