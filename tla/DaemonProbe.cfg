CONSTANTS
  t1 = t1
  t2 = t2
  home = home
  work = work
  repo = repo
  MaxPid = 5
  MaxRoots = 2
  Home = home
  Tree <- MCTree
  Within <- MCWithin
  Commands = {t1, t2}
  Environments <- Probed
SPECIFICATION Spec
PROPERTIES HandedOver
CHECK_DEADLOCK FALSE
