CONSTANTS
  s1 = s1
  s2 = s2
  Schedules <- TwoSchedules
  Crons <- OneCron
  Triggers <- OneTrigger
  BatchLimit = 1
  MaxRetries = 1
  Standalone = TRUE
  MayRunNow = FALSE
  MaxTime = 1
  MaxWrites = 2
  MaxRuns = 4
  MaxCalls = 6
  MaxStops = 1
  MaxFaults = 1
SPECIFICATION FairSpec
CHECK_DEADLOCK FALSE
INVARIANTS
  StartedOnce
PROPERTIES
  DueRunsSettle
