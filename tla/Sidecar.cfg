CONSTANTS
  Nodes <- MCNodes
  Requests <- MCRequests
  Pools <- MCPools
  Tokens <- MCTokens
  Wanted = 2
  Topologies <- MCTopologies
  MaxVersion = 4
  EventCapacity = 1
  Registered <- MCRegistered
  Rate <- MCRate
  Holds <- MCHolds
  Rounds <- MCRounds
  Weth = 1
  Loads <- MCLoads
  Endpoints = 2
  Working = {1}
  Reports <- MCReports
  Allowed <- MCAllowed
  QuoteSlots = 1
  DiscoverySlots = 2
  SimulationSlots = 1
  Routing <- MCRouting
  AdminToken = TRUE
  MaxDeadline = 1
  MaxSlippageBps = 500
SPECIFICATION FairSpec
INVARIANTS OneGeneration RoutesExecuteAsQuoted ShutdownLeavesNoNode IndexIsGraph EnsureCoalesces
PROPERTIES NoFalseEmpty Recovers Answered Settles
CHECK_DEADLOCK FALSE
