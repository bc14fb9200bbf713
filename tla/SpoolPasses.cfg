SPECIFICATION MCFairSpec
CONSTANTS
  watch = watch
  report = report
  e1 = e1
  e2 = e2
  o1 = o1
  m1 = m1
  f1 = f1
  f2 = f2
  Procs = {watch, report}
  Files = {f1}
  MaxStops = 1
  MaxRecreate = 0
  Events = {e1, e2}
  Opaque = {o1}
  Malformed = {m1}
  MaxLen <- LongAndShort
INVARIANTS
  TypeOK
  CursorCoversPersisted
  CursorWithinFile
  
  
PROPERTIES
  EveryLineIngested
  LedgerImplementedLive
