SPECIFICATION Spec
CONSTANTS
  None = None
  Hashes = {h1, h2}
  MaxCatchup = 0
  MaxBlock = 1
  MaxSessions = 2
SYMMETRY Symmetry
INVARIANTS
  CommittedIsComplete
  CommitIsDurable
PROPERTY
  StartsFromVerifiedPoint
