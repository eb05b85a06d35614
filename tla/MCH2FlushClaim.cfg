SPECIFICATION Spec
CONSTANTS
  StreamIds = {1}
  Tasks = {t1}
  NoTask = NoTask
  MaxInt = 4
  GlobalWindow = 2
  StreamWindow = 2
  InitialWindows = {}
  Increments = {1}
  MaxConcurrent = 1
  MaxBody = 1
  MaxChunk = 1
  PeerSends = {"HEADERS", "SHUTDOWN", "FLUSH"}
  MaxQueued = 1
INVARIANTS
  ShutdownDelivers
CHECK_DEADLOCK FALSE
