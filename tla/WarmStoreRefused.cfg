SPECIFICATION Spec
CONSTANTS
  None = None
  Hashes = {h1}
  MaxCatchup = 1
  MaxBlock = 1
  MaxSessions = 2
INVARIANTS
  CommitNotRefused
CHECK_DEADLOCK FALSE
