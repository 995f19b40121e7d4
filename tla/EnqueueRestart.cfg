SPECIFICATION Spec
CONSTANTS
  p1 = p1
  p2 = p2
  rb = rb
  v1 = v1
  v2 = v2
  Page = {p1}
  Robots = {rb}
  RobotsOf <- OneRobotsOf
  Visit = {v1, v2}
  Normal <- SameNormal
  Top <- TwoTop
  NoRobots = NoRobots
  Rules <- Allows
  Target = {2}
  Outcome = {"OK", "CURL_ERR"}
  LastStoreAttempts = 1
  Hour = 1
  Day = 1
  Week = 3
  MaxTime = 1
  MaxLost = 0
  MaxRestart = 1
INVARIANTS
  RobotsAgree
  QueuedPagesFetchable
PROPERTIES
  PushGap
