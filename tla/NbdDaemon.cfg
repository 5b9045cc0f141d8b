SPECIFICATION FairSpec
CONSTANTS
  Requests = {q1, q2, q3}
  Writes = {q1}
  Reads = {q2}
  Unsupported = {q3}
  Dispatchers = {1, 2}
  Main = Main
  Worker = Worker
  MaximumWaitObjects = 1
  MaxRequests = 2
  MaxFailures = 1
  NoRequest = NoRequest
CHECK_DEADLOCK FALSE
INVARIANTS
  TypeOK
  FramesIntact
  SentIsPending
  AnsweredOnce
  ClosedIsQuiet
  NoOrphanedDisk
PROPERTIES
  ConnectionLossUnmaps
  RemovedDaemonEnds
