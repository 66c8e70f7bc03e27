SPECIFICATION Spec
CONSTANTS
  d1 = d1
  d2 = d2
  red = red
  Drawers <- TwoDrawers
  Sizes <- TwoSizes
  Rects <- Some
  Inks <- OneInk
  RootDepth = 24
  MaxRequestLength = 10
  IdUnit = 2
  IdCount = 4
INVARIANT PanicMeansExhausted
CHECK_DEADLOCK FALSE
