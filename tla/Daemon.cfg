SPECIFICATION DaemonFairSpec
CONSTANTS
  c1 = c1
  c2 = c2
  d1 = d1
  d2 = d2
  d3 = d3
  j1 = j1
  None = None
  Clients <- TwoClients
  Daemons <- ThreeDaemons
  DaemonJobs = {j1}
  BuildOf <- OldAndNew
  MaxPolls = 2
  Faults = {"client", "daemon", "slow"}
  MaxFaults = 1
CHECK_DEADLOCK FALSE
INVARIANTS
  
  TokensAgree
  CompareIsOrder
PROPERTIES
  EnsureReadyEnds
