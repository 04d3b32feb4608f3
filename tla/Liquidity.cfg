SPECIFICATION Spec
CONSTANTS
  Pools = {1, 2, 3}
  Tokens = {1, 2}
  Holder <- MCHolder
  VaultSlots = {1}
  Registries <- MCRegistries
  Amounts = {0, 1}
  MaxSteps = 3
INVARIANT FreshIsCurrent
CHECK_DEADLOCK FALSE
