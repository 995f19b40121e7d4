SPECIFICATION Spec
CONSTANTS
  u1 = u1
  u2 = u2
  Url = {u1, u2}
  NoUrl = NoUrl
  Days = 2
  DayLen = 2
  Age <- MCAge
  Pack = {1}
  MaxTime = 6
  MaxSaves = 3
  MaxRestart = 1
INVARIANTS
  DaysLimit
CHECK_DEADLOCK FALSE
