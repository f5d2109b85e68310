---------------------------- MODULE MCRunnerJob ----------------------------
(* Small instances of RunnerJob for TLC.                                   *)
EXTENDS RunnerJob, TLC

CONSTANTS s1, s2

(* Two submit RPCs for the job: the first and a retry.                     *)
TwoSups == {s1, s2}

(* One submit RPC, for the runs with temporal properties.                  *)
OneSup == {s1}
SupSymmetry == Permutations(TwoSups)
=============================================================================
