CONSTANTS
  t1 = t1
  t2 = t2
  e1 = e1
  e2 = e2
  c1 = c1
  main = main
  sub = sub
  NoTurn = NoTurn
  MainThread = main
  Turns <- MCTurns
  Threads <- MCThreads
  Executors <- MCExecutors
  Requested <- AnyRequest
  Cancels = {}
  EventKinds <- AllKinds
  MaxContext = 2
  MaxLog = 9
  MaxEvents = 1
  Modes = {"stream"}
  HasRedis = TRUE
  MayDelete = TRUE
  MayDisconnect = FALSE
  MayShutDown = FALSE
  MayTimeOut = FALSE
  MaxFaults = 2
  ClientReasons <- Reasons
  ClientEvents <- MCEvents
SPECIFICATION Spec
SYMMETRY Symmetry
CHECK_DEADLOCK FALSE
INVARIANTS
  StreamTellsTheTruth
  CommitNeverRejected
  ResourcesReleased
  PersistBeforeYield
PROPERTIES
  ImplementsLifecycle
