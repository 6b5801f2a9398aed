SPECIFICATION Spec
CONSTANTS
  sched = sched
  r1 = r1
  r2 = r2
  w1 = w1
  w2 = w2
  Scheduler = sched
  Job = {sched, r1, r2}
  Workspace = {w1, w2}
  Service = Service
  Output = {o1, oService}
  ServiceOutput = oService
  Cap = 2
  NoJob = NoJob
  NoFile = NoFile
  MaxEdits = 1
  MaxCrashes = 1
SYMMETRY Interchangeable
INVARIANTS
  TypeOK
  RunsAreExclusive
  SlotsAreExact
  EditsSurvive
PROPERTIES
  PublishesOwnBuild
