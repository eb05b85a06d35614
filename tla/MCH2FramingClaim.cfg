SPECIFICATION Spec
CONSTANTS
  Frames <- GoodFrames
  Junk <- GoodFrames
  NoFrame = NoFrame
  Never = Never
  HeaderLen = 1
  MaxFrameSize = 2
  HeaderBufSize = 2
  Skipped = 1
  MaxConcurrent = 1
  SettingsTimeout = 1
  PingInterval = 0
  PingTimeout = 0
  CheckInterval = 1
  MaxFrames = 3
  MaxAhead = 1
  MaxTime = 3
  MaxEvents = 4
INVARIANTS
  FramesAsSent
CHECK_DEADLOCK FALSE
