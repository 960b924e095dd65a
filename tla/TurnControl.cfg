CONSTANTS
  t1 = t1
  t2 = t2
  e1 = e1
  e2 = e2
  c1 = c1
  main = main
  sub = sub
  NoTurn = NoTurn
  MainThread = main
  Turns <- MCTurns
  Threads <- OneThread
  Executors <- MCExecutors
  Requested = {"auto"}
  Cancels <- MCCancels
  EventKinds = {}
  MaxContext = 2
  MaxLog = 9
  MaxEvents = 0
  Modes = {"stream", "json"}
  HasRedis = TRUE
  MayDelete = FALSE
  MayDisconnect = FALSE
  MayShutDown = TRUE
  MayTimeOut = FALSE
  MaxFaults = 0
  ClientReasons <- Reasons
  ClientEvents <- MCEvents
SPECIFICATION Spec
SYMMETRY Symmetry
CHECK_DEADLOCK FALSE
INVARIANTS
  CancelHeld
  GracefulExitSettles
