SPECIFICATION Spec
CONSTANTS
  path = path
  handle = handle
  app = app
  conn = conn
  same = same
  Names = {path, handle, app, conn, same}
  In = source
  Itself = same
  Lines = 3
  Wrapped = {}
  PipeRoom = 1
  Consumed = {app}
  Calls <- OpenHandle
  KindOf <- KindOfName
  Opened <- TextMode
  MaxSize <- Small
INVARIANTS
  StopDrains
CHECK_DEADLOCK FALSE
