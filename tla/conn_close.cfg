SPECIFICATION FairSpec
CONSTANTS
  a = a
  b = b
  app = app
  x = x
  Nobody = Nobody
  Callers <- OneCaller
  Consumers <- App
  Closers <- Closer
  SeqMod = 4
  EventCap = 1
  ErrCap = 1
  SockCap = 2
  MaxReqs = 1
  MaxEvents = 0
  MayHangUp = FALSE
PROPERTY CloseReleasesCallers
CHECK_DEADLOCK FALSE
