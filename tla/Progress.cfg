SPECIFICATION ProgressSpec
CONSTANTS
  c1 = c1
  c2 = c2
  c3 = c3
  sched = sched
  w1 = w1
  w2 = w2
  o1 = o1
  oService = oService
  Service = Service
  NoJob = NoJob
  NoFile = NoFile
  Caller = {c1, c2, c3}
  Key = {w1, w2}
  Entry = {e1, e2, e3}
  NoEntry = NoEntry
  Nobody = Nobody
INVARIANTS
  TypeOK
  MutualExclusion
  NoLeakedEntry
PROPERTIES
  WaiterAcquires
  ImplementsMutex
  RunsEnd
