SPECIFICATION FairSpec
CONSTANTS
  c1 = c1
  c2 = c2
  c3 = c3
  Creators = {c1, c2}
  NameOf <- TwoOneName
  Callers = {t1}
  MaxDisks = 1
  MaxCleanups = 2
  MaxSetOpts = 1
  MaxFailures = 1
  NoDevice = NoDevice
CHECK_DEADLOCK FALSE
INVARIANTS
  TypeOK
  AddressPerDisk
  CountersDriftByRefusals
  ReachableIsLive
  PnpRemovesItsOwn
  CleanupLeavesNothing
PROPERTIES
  LastDiskTornDown
