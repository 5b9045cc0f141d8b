SPECIFICATION FairSpec
CONSTANTS
  Srbs = {s1}
  CopySrbs = {s1}
  Elements = {e1}
  PoolElements = {e1}
  Fetchers = {f1}
  Responders = {r1}
  Resetters = {x1}
  Removers = {d1}
  RemoveStaleConnections = TRUE
  MaxBusResets = 1
  NoSrb = NoSrb
  NoElement = NoElement
CHECK_DEADLOCK FALSE
PROPERTIES
  RemovalReturns
  ImplementsLiveService
