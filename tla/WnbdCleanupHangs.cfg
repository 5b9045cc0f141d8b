SPECIFICATION FairSpec
CONSTANTS
  c1 = c1
  c2 = c2
  c3 = c3
  Creators = {c1, c3}
  NameOf <- TwoNames
  Callers = {}
  MaxDisks = 2
  MaxCleanups = 1
  MaxSetOpts = 0
  MaxFailures = 0
  NoDevice = NoDevice
CHECK_DEADLOCK FALSE
PROPERTIES
  CleanupReturnsAlways
