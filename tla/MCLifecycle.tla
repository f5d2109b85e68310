---------------------------- MODULE MCLifecycle ----------------------------
(* Instances of Lifecycle for TLC. *)
EXTENDS Lifecycle

CONSTANTS j1, j2

OneJob  == {j1}
TwoJobs == {j1, j2}

AutoOnly   == [j \in Jobs |-> "auto"]
AutoLocal  == [j \in Jobs |-> IF j = j1 THEN "auto" ELSE "local"]
AutoDirect == [j \in Jobs |-> IF j = j1 THEN "auto" ELSE "direct"]
=============================================================================
