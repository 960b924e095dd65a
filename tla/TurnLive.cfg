CONSTANTS
  t1 = t1
  t2 = t2
  e1 = e1
  e2 = e2
  c1 = c1
  main = main
  sub = sub
  NoTurn = NoTurn
  MainThread = main
  Turns <- MCTurns
  Threads <- OneThread
  Executors <- OneExecutor
  Requested = {"auto"}
  Cancels = {}
  EventKinds = {}
  MaxContext = 2
  MaxLog = 9
  MaxEvents = 0
  Modes = {"stream"}
  HasRedis = TRUE
  MayDelete = FALSE
  MayDisconnect = TRUE
  MayShutDown = TRUE
  MayTimeOut = TRUE
  MaxFaults = 0
  ClientReasons <- Reasons
  ClientEvents <- MCEvents
SPECIFICATION FairSpec
CHECK_DEADLOCK FALSE
PROPERTIES
  TurnsEnd
  ShutdownCompletes
