CONSTANTS
  r1 = r1
  r2 = r2
  NoRpc = NoRpc
  Rpcs <- MCRpcs
  Policies <- MCPolicies
  Batch = 2
  MaxRetries = 1
  Faults <- MCFaults
  MaxFaults = 1
SPECIFICATION FairSpec
INVARIANTS NoSilentLoss OutputInOrder LostIsExplained CursorsComplete
 
