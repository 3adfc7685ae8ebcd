SPECIFICATION Fair
CONSTANTS
  path = path
  handle = handle
  app = app
  conn = conn
  same = same
  Names = {path, handle, app, conn, same}
  In = source
  Itself = same
  Lines = 3
  Wrapped = {}
  PipeRoom = 1
  Consumed = {app}
  Calls <- Shapes
  KindOf <- KindOfName
  Opened <- TextMode
  MaxSize <- Small
INVARIANTS
  TypeOK
  PrefixReceived
  NothingVanishes
  RaisesPartway
  
PROPERTIES
  WritersOutlive
  AllReceived
  StopReturns
  NothingLeftRunning
  ImplementsTee
CHECK_DEADLOCK FALSE
