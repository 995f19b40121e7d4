SPECIFICATION Spec
CONSTANTS
  u1 = u1
  u2 = u2
  Url = {u1, u2}
  Window = {1, 2}
  Age = {0, 2}
  Pack = {2}
  Limit = {0, 1, 2, 3}
  MaxTime = 4
  MaxEvents = 4
SYMMETRY Symmetry
INVARIANTS
  FreqMatchesQueue
  VisitsCounted
  HourInDay
  TopUrlsRight
CHECK_DEADLOCK FALSE
