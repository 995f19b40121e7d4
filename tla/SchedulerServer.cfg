SPECIFICATION FairServerSpec
CONSTANTS
  Call = {"try1", "try2", "result1", "result2"}
  Method = {"TryFetchUrls", "OnFetched"}
  MethodOf <- MCMethodOf
INVARIANTS
  Listening
  HandledOnce
PROPERTIES
  CallsAnswered
  StopEnds
CHECK_DEADLOCK FALSE
