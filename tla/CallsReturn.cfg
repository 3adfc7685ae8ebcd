SPECIFICATION Fair
CONSTANTS
  A = A
  B = B
  C = C
  D = D
  main = main
  other = other
  NoQueue = NoQueue
  Nobody = Nobody
  Queues = {A, B, C, D}
  Callers = {main}
  Program <- FanIn
  Capacity <- SmallSinks
  Threaded = TRUE
  MaxPuts <- ThreeItems
  Consumed = {}
  Breakable = {B}
INVARIANTS
  EverySourceServed
  TaskDoneBalanced
PROPERTIES
  EveryCallReturns
  ImplementsFanOut
CHECK_DEADLOCK FALSE
