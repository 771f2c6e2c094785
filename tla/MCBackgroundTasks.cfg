SPECIFICATION FairSpec
CONSTANTS
  j1 = j1
  j2 = j2
  NULL = NULL
  Jobs <- TwoJobs
  CanForget = TRUE
INVARIANTS TypeOK NeverAhead ScanReachable
PROPERTIES WaitReturns LoopReturns
CHECK_DEADLOCK FALSE
