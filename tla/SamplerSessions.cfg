SPECIFICATION FairSpec
CONSTANTS
  Sessions = {1, 2}
  MaxDeaths = 1
  MaxFails = 1
  MaxOps = 1
INVARIANTS
  TypeOK
  
  OnlyKnownShareEnergy
PROPERTIES
  DeathIsAGap
  DeadIsReplaced
  
CHECK_DEADLOCK FALSE
