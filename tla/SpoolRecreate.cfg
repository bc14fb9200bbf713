SPECIFICATION MCFairRecreateSpec
CONSTANTS
  watch = watch
  report = report
  e1 = e1
  e2 = e2
  o1 = o1
  m1 = m1
  f1 = f1
  f2 = f2
  Procs = {watch}
  Files = {f1, f2}
  MaxLen <- LongAndShort
  MaxStops = 1
  MaxRecreate = 1
  Events = {e1}
  Opaque = {}
  Malformed = {m1}
PROPERTIES
  CursorRecovers
