SPECIFICATION Spec
CONSTANTS
  j1 = j1
  j2 = j2
  c1 = c1
  c2 = c2
  c3 = c3
  Jobs <- TwoJobs
  Callers <- ThreeCalls
  Timeout <- ShortLong
  PerJob = 2
  Global = 2
  Retained = 1
  MaxVersion = 3
  MaxTime = 3
  MaxCrashes = 1
CHECK_DEADLOCK FALSE
SYMMETRY Symmetry
INVARIANTS
  WaitersAccounted
  OnlyStaleVersionsHurt
PROPERTIES
  AnswersAreTrue
