SPECIFICATION FairSpec
CONSTANTS
  Requests = {q1}
  Writes = {q1}
  Reads = {}
  Unsupported = {}
  Dispatchers = {1}
  Main = Main
  Worker = Worker
  MaximumWaitObjects = 1
  MaxRequests = 1
  MaxFailures = 0
  NoRequest = NoRequest
CHECK_DEADLOCK FALSE
PROPERTIES
  TerminatedUnmaps
