SPECIFICATION Spec
CONSTANTS
  p1 = p1
  p2 = p2
  ta = ta
  tb = tb
  tc = tc
  None = None
  Pools = {p1, p2}
  Tokens = {ta, tb, tc}
  IncludeDegraded = FALSE
  ParallelOnly = TRUE
  Metadata <- MCMetadata
  Coherent = FALSE
  MaxVersion = 2
  MaxChanged = 2
SYMMETRY Symmetry
INVARIANTS TypeOK IndexIsCurrent GraphIsRebuild TargetsAreRebuild
PROPERTY VersionMarksTopology
CHECK_DEADLOCK FALSE
