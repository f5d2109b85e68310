---------------------------- MODULE MCApprovals ----------------------------
(* Two calls overlap on two jobs with room for two capabilities, so that   *)
(* the older is evicted; two calls issue capabilities for three jobs with  *)
(* room for one; two calls overlap on one job, with every fault of daemon, *)
(* server and audit log, or with a record that is not saved; and a job     *)
(* ends with a subscription of each kind, edited at the same time.         *)
EXTENDS Approvals, TLC

CONSTANTS j1, j2, j3, s1, s2

Basic == [jobs |-> {j1}, subscribed |-> [j \in Jobs |-> <<>>], ttl |-> 1, maxCaps |-> 2, others |-> TRUE,
          tokens |-> 2, edits |-> 0, faults |-> {}]
MCPlans ==
  {[Basic EXCEPT !.jobs = {j1, j2}],
   [Basic EXCEPT !.jobs = Jobs, !.maxCaps = 1, !.others = FALSE, !.tokens = 3],
   [Basic EXCEPT !.faults = {"crash", "server", "audit"}],
   [Basic EXCEPT !.tokens = 1, !.faults = {"io"}],
   [Basic EXCEPT !.subscribed[j1] = <<s1, s2>>, !.tokens = 0, !.edits = 2, !.faults = {"crash", "audit", "io"}]}

Symmetric == Permutations(Calls)
=============================================================================
