SPECIFICATION Spec
CONSTANTS
  Frames <- MCFrames
  Junk <- MCJunk
  NoFrame = NoFrame
  Never = Never
  HeaderLen = 1
  MaxFrameSize = 2
  HeaderBufSize = 1
  Skipped = 1
  MaxConcurrent = 1
  SettingsTimeout = 1
  PingInterval = 0
  PingTimeout = 0
  CheckInterval = 1
  MaxFrames = 3
  MaxAhead = 1
  MaxTime = 3
  MaxEvents = 4
INVARIANTS
  TypeOK
  FramesInStep
  BlocksWhole
  DeadlinesKept
  NoFalseExit
CHECK_DEADLOCK FALSE
