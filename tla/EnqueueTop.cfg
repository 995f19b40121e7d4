SPECIFICATION FairSpec
CONSTANTS
  p1 = p1
  p2 = p2
  rb = rb
  v1 = v1
  v2 = v2
  Page = {p1, p2}
  Robots = {rb}
  RobotsOf <- TwoRobotsOf
  Visit = {v1, v2}
  Normal <- TwoNormal
  Top <- TwoTop
  NoRobots = NoRobots
  Rules <- AllowsOrNot
  Target = {1}
  Outcome = {"OK", "CURL_ERR"}
  LastStoreAttempts = 2
  Hour = 1
  Day = 2
  Week = 3
  MaxTime = 1
  MaxLost = 1
  MaxRestart = 0
PROPERTIES
  PagesTried
