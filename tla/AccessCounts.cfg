SPECIFICATION FairSpec
CONSTANTS
  a1 = a1
  a2 = a2
  a3 = a3
  Actor = {a1, a2, a3}
  MaxAccesses = 3
  MaxMishaps = 1
CHECK_DEADLOCK FALSE
INVARIANTS
  AccessesAreConserved
PROPERTIES
  LastAccessIsMonotonic
  EventuallyCounted
