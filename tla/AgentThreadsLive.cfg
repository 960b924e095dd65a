CONSTANTS
  main = main
  a = a
  b = b
  Main = main
  NoCall = NoCall
  Children <- MCChildren
  MainShapes <- MCMixedShapes
  ChildShapes <- MCMixedChildShapes
  IterationLimit = 2
  MaxParallel = 1
  MaxWork = 4
  WithEdits = TRUE
SPECIFICATION Spec
CHECK_DEADLOCK FALSE
PROPERTY
  TurnEnds
