SPECIFICATION FairSpec
CONSTANTS
  Workflows = {w1, w2}
  Configs <- PublishConfigs
  DiscoveryTimeout = 3
  ActionsTimeout = 3
  PollInterval = 2
  AttemptTimeout = 1
  Backoff = {1}
  RetryAfters = {0, 5}
  MaxRetryAfter = 3
  MaxAttempts = 2
  MaxCommits = 1
CHECK_DEADLOCK FALSE
INVARIANTS
  
  VerdictIsTrue
  
  RequireGates

  
