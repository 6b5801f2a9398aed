SPECIFICATION Spec
CONSTANTS
  a1 = a1
  a2 = a2
  p1 = p1
  p2 = p2
  t1 = t1
  t2 = t2
  Actor = {a1, a2}
  Pub = {p1, p2}
  Token = {t0, t1, t2}
  Legacy = {t0}
  NoPub = NoPub
  NoToken = NoToken
  MaxMishaps = 0
SYMMETRY Interchangeable
CHECK_DEADLOCK FALSE
INVARIANT
  OldTokenReturns404
