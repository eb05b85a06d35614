SPECIFICATION FairSpec
CONSTANTS
  Source <- FiveBytes
  MaxRead = 3
  Capacity = 2
  Base = 2
  HeaderRoom = 4
INVARIANTS
  NothingLost
  StopsAtEnd
PROPERTIES
  PipeSpec
  ReaderEnds
CHECK_DEADLOCK FALSE
