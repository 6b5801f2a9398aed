SPECIFICATION Spec
CONSTANTS
  a1 = a1
  a2 = a2
  a3 = a3
  p1 = p1
  p2 = p2
  p3 = p3
  Actor = {a1, a2}
  Workspace = {1, 2}
  Pub = {p1, p2}
  MaxPublications = 1
  NoActor = NoActor
  NoPub = NoPub
  Inherited = {}
  MaxMishaps = 0
SYMMETRY Interchangeable
CHECK_DEADLOCK FALSE
INVARIANT
  NoDeadlock
