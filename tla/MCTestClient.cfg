SPECIFICATION FairSpec
CONSTANTS
  s1 = s1
  s2 = s2
  MaxConnID = 2
  MaxBatch = 2
  StressClient = {s1, s2}
  OpsPerClient = 2
  NetErrors = TRUE
INVARIANTS TypeOK TableMatchesConnections CleanupLeavesNothing StressReport
PROPERTIES StressEnds CleanupReturns
CHECK_DEADLOCK FALSE
