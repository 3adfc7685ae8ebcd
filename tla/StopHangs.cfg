SPECIFICATION Fair
CONSTANTS
  A = A
  B = B
  C = C
  D = D
  main = main
  other = other
  NoQueue = NoQueue
  Nobody = Nobody
  Queues = {A, B, C, D}
  Callers = {main, other}
  Program <- StopMeetsChange
  Capacity <- SmallSinks
  Threaded = TRUE
  MaxPuts <- TwoItems
  Consumed = {}
  Breakable = {}
PROPERTIES
  EveryCallReturns
CHECK_DEADLOCK FALSE
