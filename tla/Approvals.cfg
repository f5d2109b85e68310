CONSTANTS
  j1 = j1  j2 = j2  j3 = j3  s1 = s1  s2 = s2  None = None
  Jobs = {j1, j2, j3}
  Ids = {s1, s2}
  Push = {s1}
  Plans <- MCPlans
  GrantTtls = {1, 2}
  Calls = {c1, c2}
  CapTtl = 1  MaxTime = 1
SPECIFICATION Spec
SYMMETRY Symmetric
INVARIANTS DecidedOnce RecordedIsTrue CapsBounded 
CHECK_DEADLOCK FALSE
