SPECIFICATION FairSpec
CONSTANTS
  StreamIds = {s1, s2}
  GlobalPeerWindow = 2
  PeerWindow = 2
  MaxInt = 3
  Sizes = {1}
  NoSize = NoSize
  Frames <- DataFrames
  MaxRead = 2
  MaxPadding = 2
  Overdraft = 1
  MaxQueued = 2
INVARIANTS
  TypeOK
  ReceiveWindowConserved
  StreamWindowAgrees
  NoFalseAccusation
PROPERTIES
  UploadResumes
CHECK_DEADLOCK FALSE
