SPECIFICATION Spec
CONSTANTS
  s1 = s1
  s2 = s2
  Sups <- TwoSups
  None = None
  Empty = Empty
  MaxOutputs = 0
  OutputMode = "full"
  ExternalMode = TRUE
  HasTimeout = TRUE
  Faults = {"supervisor", "io", "server"}
  MaxFaults = 2
SYMMETRY SupSymmetry
INVARIANTS
  AtMostOnce
  VerifiedMeansStopped
  OnlyLostIsAmbiguous
  CancelAnswerHolds
  RecordFollowsEvent
