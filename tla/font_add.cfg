SPECIFICATION Spec
CONSTANTS
  p = p
  q = q
  plain = plain
  other = other
  tabbed = tabbed
  Procs <- TwoProcs
  Fonts <- ThreeFonts
  NDirs <- TwoDirs
  Lists <- SomeDirs
  home <- OneEach
  Installed <- Other
  Awkward <- Tabbed
  SlowAdds = TRUE
  MaxChanges = 2
  MaxFaults = 1
INVARIANT AnyAddInvalidates
CHECK_DEADLOCK FALSE
