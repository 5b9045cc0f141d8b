SPECIFICATION FairSpec
CONSTANTS
  Disks = {1, 2}
  NameOf <- OneName
  Removers = {r1}
  Resetters = {x1}
  Options <- MCOptions
  ResetTimeout = 1
  NoDisk = NoDisk
CHECK_DEADLOCK FALSE
INVARIANTS
  RemovalTruthful
  AllRemoved
PROPERTIES
  AdministrationReturns
