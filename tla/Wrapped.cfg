SPECIFICATION Spec
CONSTANTS
  a = a
  b = b
  Byte = {a, b}
  Values <- Contents
  Nothing = Nothing
  Threshold = 2
  Copies = 3
  MaxWrites = 3
INVARIANTS
  TypeOK
  RemovedOnce
  OneOwner
  ReadsBack
  Deliverable
  NoLeftover
CHECK_DEADLOCK FALSE
