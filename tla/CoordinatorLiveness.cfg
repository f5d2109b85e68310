SPECIFICATION FairSpec
CONSTANTS
  j1 = j1
  j2 = j2
  Jobs <- TwoJobs
  Mode <- AutoLocal
  Gated = {}
  Profiled = {j1}
  MaxConcurrent = 1
  MaxAttempts = 1
  Faults = {"crash"}
  MaxFaults = 1
CHECK_DEADLOCK FALSE
PROPERTIES
  EveryJobEnds
