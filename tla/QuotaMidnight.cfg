SPECIFICATION Spec
CONSTANTS
  Enqueued = "ENQUEUED"
  Finished <- OneFinished
  TargetDayCrawl = 2
  HoursInDay = 3
  MaxTime = 5
  MaxPush = 3
  MaxResults = 2
PROPERTIES
  HourPacedAlways
