SPECIFICATION FairSpec
CONSTANTS
  StreamIds = {1}
  Tasks = {t1}
  NoTask = NoTask
  MaxInt = 2
  GlobalWindow = 1
  StreamWindow = 1
  InitialWindows = {0}
  Increments = {1}
  MaxConcurrent = 1
  MaxBody = 2
  MaxChunk = 2
  PeerSends = {"HEADERS", "WINDOW_UPDATE", "STREAM_WINDOW_UPDATE", "SETTINGS", "RST_STREAM", "OVERFLOW", "FAILURE", "UNDECODABLE", "GOAWAY", "SHUTDOWN", "FLUSH"}
  MaxQueued = 1
INVARIANTS
  AsksForItsChunk
PROPERTIES
  Served
  ShutdownTerminates
  TasksEnd
CHECK_DEADLOCK FALSE
