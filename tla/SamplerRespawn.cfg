SPECIFICATION Spec
CONSTANTS
  Sessions = {1, 2}
  MaxDeaths = 1
  MaxFails = 0
  MaxOps = 0
INVARIANTS
  KnownIsAnnounced
CHECK_DEADLOCK FALSE
