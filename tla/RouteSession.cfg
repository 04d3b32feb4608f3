SPECIFICATION Spec
CONSTANTS
  None = None
  p1 = p1
  p2 = p2
  p3 = p3
  Pools = {p1, p2, p3}
  Links <- MCLinks
  TokenIn = "a"
  TokenOut = "c"
  MaxHops = 2
  Rates = {0, 1, 2}
  MaxProbes = 1
  MaxUpdates = 2
  MaxChanged = 1
INVARIANTS ExactWithinMaterialized CacheFresh
PROPERTIES RefreshSeesReplacements
CHECK_DEADLOCK FALSE
