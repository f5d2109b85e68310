----------------------------- MODULE MCPublish -----------------------------
(* Instances of Publish for TLC. *)
EXTENDS Publish

Absent == [on |-> FALSE, filtered |-> FALSE, branches |-> <<>>, ignored |-> FALSE, sync |-> TRUE]
AnyBranch == [Absent EXCEPT !.on = TRUE]
Hit(negative) == [negative |-> negative, hit |-> TRUE]
Readded  == [AnyBranch EXCEPT !.filtered = TRUE, !.branches = <<Hit(TRUE), Hit(FALSE)>>]
Excluded == [AnyBranch EXCEPT !.filtered = TRUE, !.branches = <<Hit(FALSE), Hit(TRUE)>>]
Opened   == [AnyBranch EXCEPT !.sync = FALSE]
Ignored  == [AnyBranch EXCEPT !.ignored = TRUE]

On(push, pr, target) ==
  [uncertain |-> FALSE, push |-> push, pullRequest |-> pr, pullRequestTarget |-> target]

PublishConfigs ==
  {On(Readded, Absent, Absent), On(Excluded, Ignored, AnyBranch),
   On(Absent, Opened, Absent), [On(Absent, Absent, Absent) EXCEPT !.uncertain = TRUE]}
=============================================================================
