SPECIFICATION FairWithReaders
CONSTANTS
  A = A
  B = B
  C = C
  D = D
  main = main
  other = other
  NoQueue = NoQueue
  Nobody = Nobody
  Queues = {A, B, C, D}
  Callers = {main}
  Program <- Failing
  Capacity <- SmallSinks
  Threaded = FALSE
  MaxPuts <- TwoItems
  Consumed = {B, C}
  Breakable = {A, B}
INVARIANTS
  InOrderOnce
  NothingLostSilently
PROPERTIES
  ImplementsFanOut
  EventuallyDelivered
CHECK_DEADLOCK FALSE
