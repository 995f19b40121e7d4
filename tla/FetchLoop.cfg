SPECIFICATION FairSpec
CONSTANTS
  Url = {"page", "robots", "forbidden"}
  Robots = {"robots"}
  Refused = {"forbidden"}
  Topic <- MCTopic
  MaxRead = 1
  MaxRequests = 2
  MaxFaults = 1
INVARIANTS
  PageSaved
PROPERTIES
  Delivered
  AllAnswered
CHECK_DEADLOCK FALSE
