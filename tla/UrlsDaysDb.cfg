SPECIFICATION Spec
CONSTANTS
  u1 = u1
  u2 = u2
  Url = {u1, u2}
  NoUrl = NoUrl
  Days = 2
  DayLen = 2
  Age <- MCAge
  Pack = {1, 2}
  MaxTime = 5
  MaxSaves = 3
  MaxRestart = 1
INVARIANTS
  TypeOK
  VisitsConserved
  DaysBounded
  SnapshotCovers
CHECK_DEADLOCK FALSE
