SPECIFICATION Spec
CONSTANTS
  s1 = s1
  s2 = s2
  Sessions = {s1, s2}
  Calls = {1, 2}
  Metas = {}
  SessionOf <- BySession
  Zones = {1, 2}
  KnownZones = {1, 2}
  DeclaredZone <- DeclaresFirst
  DefaultZone = 2
  FaultKinds = {"zone", "query", "estimate", "count", "pass"}
  MaxFaults = 1
  MaxReports = 1
  MaxCrashes = 1
INVARIANTS
  ChangesReachJoins
CHECK_DEADLOCK FALSE
