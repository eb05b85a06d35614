SPECIFICATION FairSpec
CONSTANTS
  Streams <- TwoPosts
  BodyBuf = 2
  BufferSize = 2
  MaxRead = 2
  MaxRequests = 4
INVARIANTS
  TypeOK
  BodyWithinLimit
  NothingLost
  ContinueOnce
  ShutdownAnswersAll
PROPERTIES
  RequestEnds
  BodiesReleased
CHECK_DEADLOCK FALSE
