SPECIFICATION Spec
CONSTANTS
  j1 = j1
  j2 = j2
  Jobs <- OneJob
  Mode <- AutoOnly
  Gated = {}
  Profiled = {}
  MaxConcurrent = 1
  MaxAttempts = 1
  Faults = {}
  MaxFaults = 0
CHECK_DEADLOCK FALSE
INVARIANTS
  DirectCannotVerify
