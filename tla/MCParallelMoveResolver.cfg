SPECIFICATION FairSpec
CONSTANTS
  a = a
  b = b
  c = c
  e = e
  s = s
  t = t
  u = u
  s4 = s4
  s8 = s8
  s12 = s12
  Register = {a, b, c, e}
  Slot = {s, s4, s8, s12}
  CheapConst = {1}
  CostlyConst = {2}
  Temp = {t, u}
  Machines <- Sound
  NoLocation = NoLocation
CHECK_DEADLOCK FALSE
INVARIANTS Resolved NothingLost
PROPERTY Terminates
