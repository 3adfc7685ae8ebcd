SPECIFICATION Spec
CONSTANTS
  path = path
  handle = handle
  app = app
  conn = conn
  same = same
  Names = {path, handle, app, conn, same}
  In = source
  Itself = same
  Lines = 3
  Wrapped = {1}
  PipeRoom = 1
  Consumed = {app}
  Calls <- QueueToFile
  KindOf <- KindOfName
  Opened <- TextMode
  MaxSize <- Small
INVARIANTS
  FailsOnMixedTypes
CHECK_DEADLOCK FALSE
