SPECIFICATION Spec
CONSTANTS
  a = a
  b = b
  app = app
  x = x
  Nobody = Nobody
  Callers <- OneCaller
  Consumers <- App
  Closers <- None
  SeqMod = 8
  EventCap = 1
  ErrCap = 1
  SockCap = 3
  MaxReqs = 3
  MaxEvents = 0
  MayHangUp = FALSE
INVARIANT SyncSurfacesErrors
CHECK_DEADLOCK FALSE
