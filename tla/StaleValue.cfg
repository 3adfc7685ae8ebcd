SPECIFICATION Spec
CONSTANTS
  a = a
  b = b
  Byte = {a, b}
  Values <- Contents
  Nothing = Nothing
  Threshold = 2
  Copies = 1
  MaxWrites = 2
INVARIANTS
  StoredIsRead
CHECK_DEADLOCK FALSE
