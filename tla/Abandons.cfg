SPECIFICATION Spec
CONSTANTS
  A = A
  B = B
  C = C
  D = D
  main = main
  other = other
  NoQueue = NoQueue
  Nobody = Nobody
  Queues = {A, B, C, D}
  Callers = {main}
  Program <- Finite
  Capacity <- SmallSinks
  Threaded = TRUE
  MaxPuts <- TwoItems
  Consumed = {B, C}
  Breakable = {}
INVARIANTS
  ConsistencyGuarantee
CHECK_DEADLOCK FALSE
