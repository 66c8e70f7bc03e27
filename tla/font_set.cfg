SPECIFICATION Spec
CONSTANTS
  u = u
  v = v
  base = base
  one = one
  both = both
  odd = odd
  extra = extra
  x = x
  y = y
  z = z
  NoFont = NoFont
  Users <- TwoUsers
  Drawers <- OneDrawer
  Strings <- SomeStrings
  Fields <- SomeFields
  Ellipsis <- Dots
  Advance <- Widths
  NoText = NoText
  dot = dot
  MaxTexts = 1
  Runes <- FourRunes
  DB <- ThreeFonts
  Primary = base
  Manual <- Extra
  MaxManual = 2
  Covers <- Glyphs
  NoFace <- Odd
  Fickle <- Loose
  MaxCalls = 3
INVARIANT SInv
INVARIANT StableChoice
INVARIANT BestCoverage
INVARIANT NoDuplicates
INVARIANT TextInField
CHECK_DEADLOCK FALSE
