SPECIFICATION FairSpec
CONSTANTS
  Streams = {1, 2, 3}
  RingCapacity = 2
  QueueCapacity = 1
  MaxFrames = 3
  Fetches = {1, 2}
  MaxLosses = 1
  MaxFails = 1
  MaxRestarts = 1
INVARIANTS
  TypeOK
  StreamIsOneRun
  HoleOnlyByMixing
PROPERTIES
  FramesAreNew
  
CHECK_DEADLOCK FALSE
