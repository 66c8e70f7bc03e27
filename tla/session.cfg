SPECIFICATION Spec
CONSTANTS
  a = a
  c = c
  here = here
  Nobody = Nobody
  Bad = Bad
  Nil = Nil
  Hostname = here
  LenMod = 16
  KeyMod = 256
  Users <- TwoUsers
  Displays <- SomeDisplays
  Xauthorities <- SomeFiles
  Setups <- SomeSetups
  Wanted <- SomeWanted
  Images <- SomeImages
  Layouts <- SomeLayouts
  Units <- Formats
  MaxItems = 1
  MaxCalls = 1
  MaxEvents = 1
INVARIANT VInv
INVARIANT DialOutcome
INVARIANT StreamAligned
INVARIANT NoneRefused
INVARIANT PanicMeans
INVARIANT LookupIsOwn
CHECK_DEADLOCK FALSE
