SPECIFICATION Spec
CONSTANTS
  s1 = s1
  s2 = s2
  Sessions = {s1, s2}
  Calls = {1, 2}
  Metas = {3}
  SessionOf <- BySession
  Zones = {1, 2}
  KnownZones = {1, 2}
  DeclaredZone <- DeclaresFirst
  DefaultZone = 2
  FaultKinds = {}
  MaxFaults = 0
  MaxReports = 0
  MaxCrashes = 0
INVARIANTS
  ZoneIsResolvedZone
CHECK_DEADLOCK FALSE
