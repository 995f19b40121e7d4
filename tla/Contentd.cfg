SPECIFICATION FairSpec
CONSTANTS
  MockKafka = FALSE
  Routes = 3
  MaxVisits = 2
  MaxRecords = 2
INVARIANTS
  FillsMerged
  StatsAgree
PROPERTIES
  DryRunEnds
CHECK_DEADLOCK FALSE
