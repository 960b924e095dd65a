CONSTANTS
  s1 = s1
  s2 = s2
  Subscribers <- TwoSubscribers
  Backends = {"memory", "redis"}
  MaxPuts = 3
  BatchSize = 2
  ExecTime = 2
  StreamTTL = 4
  PostTTL = 2
  Threshold = 1
  MaxTime = 7
SPECIFICATION FairSpec
CHECK_DEADLOCK FALSE
INVARIANTS
  ResumeExact
  RunningSubscribable
PROPERTIES
  SubscribersEnd
