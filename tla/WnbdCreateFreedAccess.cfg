SPECIFICATION Spec
CONSTANTS
  c1 = c1
  c2 = c2
  c3 = c3
  Creators = {c1}
  NameOf <- TwoOneName
  Callers = {t1}
  MaxDisks = 1
  MaxCleanups = 0
  MaxSetOpts = 0
  MaxFailures = 0
  NoDevice = NoDevice
CHECK_DEADLOCK FALSE
INVARIANTS
  NoFreedAccess
