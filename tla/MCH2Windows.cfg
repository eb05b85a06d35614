SPECIFICATION HistorySpec
CONSTANTS
  StreamIds = {1, 3}
  Tasks = {t1, t2}
  NoTask = NoTask
  MaxInt = 2
  GlobalWindow = 2
  StreamWindow = 2
  InitialWindows = {0}
  Increments = {2}
  MaxConcurrent = 2
  MaxBody = 2
  MaxChunk = 2
  PeerSends = {"HEADERS", "WINDOW_UPDATE", "SETTINGS"}
  MaxQueued = 1
SYMMETRY Symmetry
INVARIANTS
  TypeOK
  WindowConserved
  CleanExitsLoseNoWindow
  NoLostWakeUp
PROPERTIES
  WireSpec
CHECK_DEADLOCK FALSE
