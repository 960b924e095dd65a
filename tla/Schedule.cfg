CONSTANTS
  s1 = s1
  s2 = s2
  Schedules <- OneSchedule
  Crons <- MCCrons
  Triggers <- MCTriggers
  BatchLimit = 1
  MaxRetries = 1
  Standalone = FALSE
  MayRunNow = TRUE
  MaxTime = 2
  MaxWrites = 3
  MaxRuns = 5
  MaxCalls = 2
  MaxStops = 0
  MaxFaults = 1
SPECIFICATION Spec
CHECK_DEADLOCK FALSE
INVARIANTS
  PendingMatchesStatus
  OnlyStaleWritesRejected
  HistoryExact
