CONSTANTS
  m1 = m1
  m2 = m2
  NoId = NoId
  NoModel = NoModel
  MaxGens = 2
  Environments <- HookedDeletion
SPECIFICATION Spec
INVARIANT DeletesKept
CHECK_DEADLOCK FALSE
