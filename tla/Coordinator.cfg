SPECIFICATION Spec
CONSTANTS
  j1 = j1
  j2 = j2
  Jobs <- TwoJobs
  Mode <- AutoDirect
  Gated = {j1}
  Profiled = {j1}
  MaxConcurrent = 1
  MaxAttempts = 2
  Faults = {"audit", "crash"}
  MaxFaults = 2
CHECK_DEADLOCK FALSE
INVARIANTS
  StartedOnce
  VerifiedCancel
  QueueIsRunnable
PROPERTIES
  RunsOnlyIfApproved
  
