SPECIFICATION FairSpec
CONSTANTS
  Threads = {1, 2}
  Keys = {1, 2, 3, 4, 5, 6}
  Outcome <- MCOutcome
  PathKeys <- MCPathKeys
  Settings <- MCSettings
  MaxPanics = 1
  MaxFailed = 1
INVARIANTS
  SingleFlight
  ExhaustiveIsExact
  EachRouteOnce
  CallerKnowsBest
PROPERTIES
  ImplementsMemo
  SearchReturns
CHECK_DEADLOCK FALSE
