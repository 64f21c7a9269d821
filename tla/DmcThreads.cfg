\* Two threads; a table of one slot, doubled, then full.
SPECIFICATION Spec
CONSTANTS
  Threads = {t1, t2}
  Objects = {o1, o2, o3, o4}
  DMC_MIN_HANDLES = 1
  DMC_MAX_HANDLES = 2
  None = None
CHECK_DEADLOCK FALSE
INVARIANTS
  TypeOK
  HandlesAreUnique
  OwnedOnceAtRest
  PrivateHandlesAreSafe
  FreedMeansOverlap
PROPERTIES
  LockIsReturned
