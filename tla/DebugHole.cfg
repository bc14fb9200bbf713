SPECIFICATION Spec
CONSTANTS
  Streams = {1, 2, 3}
  RingCapacity = 2
  QueueCapacity = 1
  MaxFrames = 3
  Fetches = {1, 2}
  MaxLosses = 0
  MaxFails = 0
  MaxRestarts = 1
INVARIANT
  NoSilentHole
CHECK_DEADLOCK FALSE
