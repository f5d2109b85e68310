----------------------------- MODULE MCRunnerLog -----------------------------
(* Two watch RPCs, so that one can outlive the coordinator's interest.  A    *)
(* tail file of one chunk is compacted twice, a full file of one overflows,  *)
(* and an answer holds two events, too much when the chunks are heavy.       *)
EXTENDS RunnerLog

CONSTANTS r1, r2

MCRpcs   == {r1, r2}
MCPolicies ==
  {[mode |-> "tail", maxBytes |-> 1, prints |-> 3, heavy |-> FALSE, reuse |-> TRUE],
   [mode |-> "tail", maxBytes |-> 1, prints |-> 2, heavy |-> TRUE,  reuse |-> FALSE],
   [mode |-> "full", maxBytes |-> 1, prints |-> 2, heavy |-> FALSE, reuse |-> FALSE],
   [mode |-> "none", maxBytes |-> 1, prints |-> 1, heavy |-> FALSE, reuse |-> FALSE]}
MCFaults == {"killed", "torn", "lost_answer", "server"}
=============================================================================
