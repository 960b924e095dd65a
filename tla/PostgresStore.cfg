CONSTANTS
  t1 = t1
  t2 = t2
  main = main
  c1 = c1
  c2 = c2
  NoTurn = NoTurn
  Turns <- MCTurns
  Threads <- OneThread
  MainThread = main
  Connections <- TwoConnections
  MaxContext = 1
  MaxLog = 1
  ClientReasons = {"client-cancelled"}
  ClientEvents = {"event"}
SPECIFICATION PgSpec
SYMMETRY Symmetry
CHECK_DEADLOCK FALSE
INVARIANTS
  BranchIsolation
  FreezeReadsFinal
  DeadlockNeedsDelete
PROPERTIES
  TerminalIsFinal
  StoreSpec
