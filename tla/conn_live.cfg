SPECIFICATION FairSpec
CONSTANTS
  a = a
  b = b
  app = app
  x = x
  Nobody = Nobody
  Callers <- TwoCallers
  Consumers <- App
  Closers <- Closer
  SeqMod = 4
  EventCap = 1
  ErrCap = 0
  SockCap = 1
  MaxReqs = 2
  MaxEvents = 2
  MayHangUp = TRUE
INVARIANT TypeOK
INVARIANT PendHasOwner
PROPERTY RefinesRpc
PROPERTY ReplyOrDown
PROPERTY CloseStopsReader
CHECK_DEADLOCK FALSE
