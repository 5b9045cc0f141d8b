SPECIFICATION Spec
CONSTANTS
  Srbs = {s1, s2}
  CopySrbs = {s1}
  Elements = {e1, e2}
  PoolElements = {e1}
  Fetchers = {f1, f2}
  Responders = {r1}
  Resetters = {x1}
  Removers = {}
  RemoveStaleConnections = TRUE
  MaxBusResets = 0
  NoSrb = NoSrb
  NoElement = NoElement
SYMMETRY Symmetry
CHECK_DEADLOCK FALSE
INVARIANTS
  TypeOK
  OneOwner
  ElementPerOwedSrb
  ReplyMatchesRequest
  NoLostWakeup
  NoUseAfterFree
  GoneMeansSettled
  StatisticsDriftByAborts
PROPERTIES
  CompletedSrbUntouched
  ImplementsService
