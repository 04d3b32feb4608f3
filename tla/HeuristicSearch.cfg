SPECIFICATION Spec
CONSTANTS
  Tokens <- MCTokens
  Pools <- MCPools
  Source = 1
  AmountIn = 1
  Inputs <- MCInputs
  Configs <- MCConfigs
INVARIANTS
  PruningKeepsBest
  ResultsAreCandidates
CHECK_DEADLOCK FALSE
