SPECIFICATION Spec
CONSTANTS
  None = None
  Workers = {w1}
  Specs = {s1, s2}
  MaxSubscriptions = 1
  JobQueueCapacity = 1
  CommandCapacity = 1
  ResultCapacity = 1
  MaxCommitBurst = 1
  MaxSubscribes = 1
  MaxCommits = 2
  MaxCalls = 2
  MaxEvents = 1
  Ops = {"replace", "token", "request", "stop", "unsubscribe", "dropHandle", "fail"}
SYMMETRY Symmetry
INVARIANTS
  TypeOK
  WatchCurrent
  QuoteAnswersRequest
  PreviousIsHistorical
PROPERTIES
  OnlyWholeResultsPublished
