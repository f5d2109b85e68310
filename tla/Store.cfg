SPECIFICATION Spec
CONSTANTS
  j1 = j1
  j2 = j2
  Jobs <- TwoJobs
  MaxVersion = 3
  Plans <- TwoPlans
  MaxFaults = 2
SYMMETRY JobSymmetry
INVARIANTS
  SavedVersionsSurvive
  DeletedStaysDeleted
