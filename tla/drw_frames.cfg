SPECIFICATION Spec
CONSTANTS
  d1 = d1
  d2 = d2
  red = red
  Drawers <- TwoDrawers
  Sizes <- TwoSizes
  Rects <- Some
  Inks <- OneInk
  RootDepth = 24
  MaxRequestLength = 10
  IdUnit = 1
  IdCount = 8
INVARIANT NoProtocolErrors
INVARIANT NoLeak
INVARIANT PanicMeansExhausted
INVARIANT InsideIsSafe
INVARIANT DInv
PROPERTY MapShows
SYMMETRY Alike
CHECK_DEADLOCK FALSE
