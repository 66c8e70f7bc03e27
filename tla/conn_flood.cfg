SPECIFICATION FairSpec
CONSTANTS
  a = a
  b = b
  app = app
  x = x
  Nobody = Nobody
  Callers <- App
  Consumers <- App
  Closers <- None
  SeqMod = 4
  EventCap = 1
  ErrCap = 1
  SockCap = 2
  MaxReqs = 1
  MaxEvents = 2
  MayHangUp = FALSE
PROPERTY ReplyArrives
CHECK_DEADLOCK FALSE
