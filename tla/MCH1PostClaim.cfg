SPECIFICATION Spec
CONSTANTS
  Streams <- TwoPosts
  BodyBuf = 2
  BufferSize = 2
  MaxRead = 2
  MaxRequests = 4
INVARIANTS
  BodiesArrive
CHECK_DEADLOCK FALSE
