SPECIFICATION FairSpec
CONSTANTS
  p = p
  q = q
  plain = plain
  other = other
  tabbed = tabbed
  Procs <- TwoProcs
  Fonts <- TwoFonts
  NDirs <- TwoDirs
  Lists <- SomeDirs
  home <- Apart
  Installed <- Other
  Awkward <- None
  SlowAdds = TRUE
  MaxChanges = 2
  MaxFaults = 2
INVARIANT IndexFresh
INVARIANT LoadIsCurrent
INVARIANT FInv
PROPERTY CacheSettles
CHECK_DEADLOCK FALSE
