SPECIFICATION ApiFairSpec
CONSTANTS
  g1 = g1
  u1 = u1
  u2 = u2
  q1 = q1
  q2 = q2
  q3 = q3
  c1 = c1
  c2 = c2
  Gid = {g1}
  Url = {u1, u2}
  Query = {q1, q2, q3}
  QuerySets <- MCQuerySets
  Contents <- MCContents
  Client = {c1, c2}
  NotUtf8 <- MCNotUtf8
  NoGroup = NoGroup
  Idle = Idle
  Body <- MCBody
  Unparsable = Unparsable
  Null = Null
  NotString = NotString
  NotArray = NotArray
  NoGid = NoGid
  MaxFail = 1
  MaxRestart = 1
INVARIANTS
  TypeOK
  OrphansRaced
  SetIsRead
  HitsOwn
PROPERTIES
  HitsKept
  MatchFound
