CONSTANTS
  p1 = p1
  Players = {p1}
  Global = Global
  g_cap = 3
  g_rate = 2
  p_cap = 2
  p_rate = 1
  ChargeSizes = {1, 2}
  DrainSizes = {3}
  RedisFaults = FALSE
  MaxDelay = 1
  MaxTime = 2
SPECIFICATION Spec
PROPERTY CustomAlwaysPlaced
