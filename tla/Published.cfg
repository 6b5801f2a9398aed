SPECIFICATION PublishedSpec
CONSTANTS
  a1 = a1
  a2 = a2
  p1 = p1
  p2 = p2
  Actor = {a1, a2}
  Workspace = {1, 2}
  Pub = {p1, p2}
  MaxPublications = 1
  NoActor = NoActor
  NoPub = NoPub
  Inherited = {1}
  MaxMishaps = 1
  Token = {t0, t1, t2}
  Legacy = {t0}
  NoToken = NoToken
SYMMETRY Interchangeable
CHECK_DEADLOCK FALSE
INVARIANTS
  NoDanglingBinding
  LivePublicationsBounded
  NoForgottenPublication
  LiveLinkIsFound
  NewLinksDie
  IndexIsComplete
PROPERTIES
  DeletedStaysDeleted
  PinnedWorkspaceSurvives
