SPECIFICATION FairSpec
CONSTANTS
  s1 = s1
  s2 = s2
  Sessions = {s1, s2}
  Calls = {1, 2}
  Metas = {3}
  SessionOf <- BySession
  Zones = {1, 2}
  KnownZones = {1, 2}
  DeclaredZone <- DeclaresFirst
  DefaultZone = 2
  FaultKinds = {"estimate"}
  MaxFaults = 1
  MaxReports = 0
  MaxCrashes = 0
INVARIANTS
  TypeOK
  NoLostWake
  OneZoneAtRest
PROPERTIES
  
  Converges
  StopsWhenAsked
CHECK_DEADLOCK FALSE
