SPECIFICATION Spec
CONSTANTS
  a = a
  b = b
  app = app
  x = x
  Nobody = Nobody
  Callers <- TwoCallers
  Consumers <- App
  Closers <- None
  SeqMod = 3
  EventCap = 1
  ErrCap = 1
  SockCap = 2
  MaxReqs = 4
  MaxEvents = 2
  MayHangUp = FALSE
INVARIANT AnswerIsOwn
INVARIANT ErrsAreUnclaimed
INVARIANT EventStream
INVARIANT ReplyBarrier
INVARIANT HandoffNeverBlocks
INVARIANT IInv
INVARIANT JInv
PROPERTY RefinesRpc
SYMMETRY Alike
CHECK_DEADLOCK FALSE
