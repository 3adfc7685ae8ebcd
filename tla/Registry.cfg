SPECIFICATION Spec
CONSTANTS
  A = A
  B = B
  C = C
  D = D
  main = main
  other = other
  NoQueue = NoQueue
  Nobody = Nobody
  Queues = {A, B, C, D}
  Callers = {main, other}
  Program <- WithStop
  Capacity <- SmallSinks
  Threaded = TRUE
  MaxPuts <- TwoItems
  Consumed = {B, C}
  Breakable = {}
INVARIANTS
  TypeOK
  OneReaderPerQueue
  InOrderOnce
  NothingLostSilently
  NoStaleStopRequest
  LockedCallsComplete
PROPERTIES
  QuietAfterUnregister
CHECK_DEADLOCK FALSE
