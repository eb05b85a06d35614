SPECIFICATION Spec
CONSTANTS
  StreamIds = {1, 3}
  Tasks = {t1, t2}
  NoTask = NoTask
  MaxInt = 1
  GlobalWindow = 0
  StreamWindow = 1
  InitialWindows = {}
  Increments = {1}
  MaxConcurrent = 1
  MaxBody = 1
  MaxChunk = 1
  PeerSends = {"HEADERS", "MALFORMED", "TRAILERS", "REOPEN", "WINDOW_UPDATE", "SHUTDOWN"}
  MaxQueued = 2
SYMMETRY Symmetry
INVARIANTS
  OpenStreamsExact
  ConcurrencyLimit
  ShutdownFinishesStreams
CHECK_DEADLOCK FALSE
