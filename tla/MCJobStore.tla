---------------------------- MODULE MCJobStore ----------------------------
(* Small instances of JobStore for TLC: failing writes with a journal that *)
(* is compacted, and a snapshot that is lost.                              *)
EXTENDS JobStore, TLC

CONSTANTS j1, j2

TwoJobs == {j1, j2}
Failing == [faults |-> {"crash", "torn", "io"}, compactAt |-> 2]
Losing  == [faults |-> {"crash", "snapshot"}, compactAt |-> 20]
TwoPlans == {Failing, Losing}
JobSymmetry == Permutations(TwoJobs)
=============================================================================
