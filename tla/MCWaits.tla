------------------------------ MODULE MCWaits ------------------------------
(* Instances of Waits for TLC. *)
EXTENDS Waits

CONSTANTS j1, j2, c1, c2, c3

TwoJobs == {j1, j2}
ThreeCalls == {c1, c2, c3}

ShortLong == [c \in Callers |-> IF c = c2 THEN 2 ELSE 1]

Symmetry == Permutations({j1, j2}) \cup Permutations({c1, c3})
=============================================================================
