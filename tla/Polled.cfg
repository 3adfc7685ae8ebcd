SPECIFICATION Fair
CONSTANTS
  A = A
  B = B
  C = C
  first = first
  second = second
  rival = rival
  NoItem = NoItem
  Queues = {A, B, C}
  Publishers = {first, second}
  Readers = {rival}
  Source <- Reads
  To <- Puts
  Order <- InOrder
  LinkTimeout = 2
  Cycle = 2
  Asked <- Ways
  PipeRoom <- OneItem
  Consumed = {C}
  MaxPuts <- Given
  MaxCalls = 2
INVARIANTS
  TypeOK
  SoleReaderNeverStuck
  WithinACycle
PROPERTIES
  ImplementsFanOut
  StopReturns
  EventuallyForwarded
CHECK_DEADLOCK FALSE
