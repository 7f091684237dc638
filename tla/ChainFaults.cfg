SPECIFICATION Spec
CONSTANTS
  s1 = s1
  s2 = s2
  Session <- MCSession
  Segments = 2
  SegmentMax = 1
  MaxEntries = 1
  MaxEvents = 5
  Environments <- Faults
INVARIANTS TypeOK NoDanglingLink OneChain
CHECK_DEADLOCK FALSE
