CONSTANTS
  m1 = m1
  m2 = m2
  NoId = NoId
  NoModel = NoModel
  MaxGens = 2
  Environments <- MCEnvironments
SPECIFICATION Spec
INVARIANTS TypeOK OneStory SpendAccounted
CHECK_DEADLOCK FALSE
