SPECIFICATION FairSpec
CONSTANTS
  s1 = s1
  s2 = s2
  Sups <- OneSup
  None = None
  Empty = Empty
  MaxOutputs = 1
  OutputMode = "tail"
  ExternalMode = FALSE
  HasTimeout = TRUE
  Faults = {"supervisor", "server"}
  MaxFaults = 1
PROPERTIES
  
  OrphanEnds
  
