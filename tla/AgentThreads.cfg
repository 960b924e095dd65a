CONSTANTS
  main = main
  a = a
  b = b
  Main = main
  NoCall = NoCall
  Children <- MCChildren
  MainShapes <- MCMainShapes
  ChildShapes <- MCChildShapes
  IterationLimit = 2
  MaxParallel = 2
  MaxWork = 6
  WithEdits = FALSE
SPECIFICATION Spec
SYMMETRY Symmetry
CHECK_DEADLOCK FALSE
INVARIANTS
  CallsAnsweredOnce
  AsksForWhatItNeeds
  PlainToolRunsOnce
