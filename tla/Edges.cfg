SPECIFICATION Spec
CHECK_DEADLOCK FALSE
CONSTANTS
  Scenarios = {"hook", "opencode", "otlp", "install", "sidecar"}
  Calls = {c1, c2}
  Session = session
  MaxKills = 1
  MaxLostAppends = 1
  Collectors = {k1, k2}
  Log <- MCLog
  Overrides = {2}
  None = None
  MaxFaults = 1
  MaxStarts = 2
  Exporters <- MCExporters
  Workers = {w1, w2}
  QueueCap = 1
  CacheCap = 2
  Batches <- MCBatches
  NoRequest = NoRequest
  MaxOtlpFaults = 1
  MaxTries <- MCTries
  FileOrder <- MCFileOrder
  Managers = {"launchd", "systemd"}
  Wanted = {v1, v2}
  Nothing = Nothing
  MaxRuns = 2
  MaxStumbles = 1
  MaxEdits = 1
  Questions = {q1, q2}
  NoQuestion = NoQuestion
  MaxRequests = 3
  MaxStrays = 2
  MaxRespawns = 1
INVARIANT NoSpanForgotten
INVARIANT FactsBeforeCursor
 
 
INVARIANT SuccessMeansInstalled
INVARIANT EditsSurvive
INVARIANT AnswerIsOwn
PROPERTY HookDrains
PROPERTY OpenCodeCatchesUp
