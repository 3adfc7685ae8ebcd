SPECIFICATION Spec
CONSTANTS
  A = A
  B = B
  Sources = {A, B}
  Threaded = {}
  MaxSize = 2
  Interval = 2
  Window = 1
  MaxRuns <- TwoAndOne
  MaxCount = 2
  MaxCalls = 2
INVARIANTS
  TypeOK
  Accounted
PROPERTIES
  NeverGoesBack
CHECK_DEADLOCK FALSE
