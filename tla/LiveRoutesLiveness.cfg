SPECIFICATION FairSpec
CONSTANTS
  None = None
  Workers = {w1}
  Specs = {s1}
  MaxSubscriptions = 2
  JobQueueCapacity = 1
  CommandCapacity = 1
  ResultCapacity = 1
  MaxCommitBurst = 1
  MaxSubscribes = 2
  MaxCommits = 1
  MaxCalls = 2
  MaxEvents = 1
  Ops = {"drop", "shutdown"}
INVARIANTS
  OneAttempt
  NoStrandedSubscription
PROPERTIES
  EventuallyAnswered
  DropReleases
  ShutdownCompletes
  WatchOnlyAdvances
CHECK_DEADLOCK FALSE
