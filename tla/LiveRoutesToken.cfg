SPECIFICATION FairSpec
CONSTANTS
  None = None
  Workers = {w1}
  Specs = {s1}
  MaxSubscriptions = 1
  JobQueueCapacity = 1
  CommandCapacity = 1
  ResultCapacity = 1
  MaxCommitBurst = 1
  MaxSubscribes = 1
  MaxCommits = 0
  MaxCalls = 2
  MaxEvents = 0
  Ops = {"token", "request", "unsubscribe", "drop"}
PROPERTIES
  TokenUseReleases
CHECK_DEADLOCK FALSE
