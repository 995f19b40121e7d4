SPECIFICATION FairSpec
CONSTANTS
  h1 = h1
  h2 = h2
  w1 = w1
  w2 = w2
  page = page
  r1 = r1
  r2 = r2
  r3 = r3
  r4 = r4
  Host = {h1, h2}
  Global = Global
  Page = {page}
  RobotsTxt = RobotsTxt
  NoRobots = NoRobots
  Worker = {w1, w2}
  Req <- MCReq
  HostOf <- PairsHostOf
  PathOf <- PairsPathOf
  WorkerOf <- MCWorkerOf
  MaxSystemParallel = 2
  MaxBatch = 2
  MaxTime = 0
  MaxLost = 1
  MaxRestart = 1
  Window <- MCWindow
  WindowLen <- MCWindowLen
  WindowLimit <- OpenWindowLimit
  MaxHostParallel = 2
INVARIANTS
  SystemBound
PROPERTIES
  HostRecovers
CHECK_DEADLOCK FALSE
