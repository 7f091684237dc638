CONSTANTS
  c = c
  d = d
  s = s
  t = t
  Shim = Shim
  Absent = Absent
  Nobody = Nobody
  Unread = Unread
  Commands = {c, d}
  Sessions = {s, t}
  Files = {s, t}
  Limits = {c, d}
  Accounts = {s, t}
  Ticks = {1, 2}
  MaxHeals = 2
  Overlap = 1
  Cap = 4
  Environments <- MCEnvironments
SPECIFICATION Spec
INVARIANTS TypeOK SlotKept LanesTrue
PROPERTIES ToldOnce AllTold
