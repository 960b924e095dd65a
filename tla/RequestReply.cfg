CONSTANTS
  q1 = q1
  Calls <- OneCall
  Statuses = {"200", "412"}
  Interval = 2
  Poll = 1
  FirstWait = 1
  Timeout = 6
  ReplyTTL = 7
  MaxSetups = 2
  MaxFaults = 3
SPECIFICATION FairSpec
CHECK_DEADLOCK FALSE
INVARIANTS
  HealthyNeverRefused
  DeadDetectedSoon
  DrainAnswersAll
PROPERTIES
  ImplementsPeerCall
  CallsEnd
