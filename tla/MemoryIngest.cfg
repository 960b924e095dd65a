CONSTANTS
  MaxTurns = 3
  MaxExchanges = 2
  Lookback = 3
  PauseTimeout = 4
  ExecTime = 1
  MaxFaults = 2
SPECIFICATION Spec
CHECK_DEADLOCK FALSE
INVARIANTS
  NothingSkipped
  SentIsFinal
  StoredOnce
  IngestedInTime
