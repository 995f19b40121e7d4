SPECIFICATION FairSpec
CONSTANTS
  p1 = p1
  p2 = p2
  rb = rb
  v1 = v1
  v2 = v2
  Page = {p1}
  Robots = {rb}
  RobotsOf <- OneRobotsOf
  Visit = {v1}
  Normal <- OneNormal
  Top <- OneTop
  NoRobots = NoRobots
  Rules <- Allows
  Target = {1}
  Outcome = {"OK", "CURL_ERR"}
  LastStoreAttempts = 2
  Hour = 1
  Day = 2
  Week = 3
  MaxTime = 3
  MaxLost = 0
  MaxRestart = 0
PROPERTIES
  EnqueuedWaitsDay
