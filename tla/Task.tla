-------------------------------- MODULE Task --------------------------------
(***************************************************************************)
(* What a client may rely on about the tasks it starts, whatever happens   *)
(* to the coordinator, the target host and the connection between them.    *)
(* Lifecycle implements this specification.                                *)
(***************************************************************************)
CONSTANT Jobs

VARIABLE task  \* of each job: its state, whether its command has begun,
               \* and whether a client asked to cancel it

Ends == {"succeeded", "failed", "cancelled", "timed_out", "lost"}
Task == [state : {"absent", "accepted"} \cup Ends, begun : BOOLEAN, asked : BOOLEAN]

Unknown == [state |-> "absent", begun |-> FALSE, asked |-> FALSE]

Accepted(a, b) == a = Unknown /\ b = [a EXCEPT !.state = "accepted"]

(* The command begins, once.  It may begin after the end of a task that is *)
(* lost or cancelled, whose submission is still on its way, and never      *)
(* after another end.                                                      *)
Begins(a, b) ==
  /\ ~a.begun /\ a.state \in {"accepted", "cancelled", "lost"}
  /\ b = [a EXCEPT !.begun = TRUE]

(* A cancel ends the task at once or leaves it to end. *)
CancelAsked(a, b) ==
  /\ a.state = "accepted"
  /\ \E st \in {"accepted", "cancelled"} :
       b = [state |-> st, begun |-> a.begun, asked |-> TRUE]

(* Only a command that has begun succeeds, and a task that was asked to    *)
(* cancel is cancelled or lost.                                            *)
Ended(a, b) ==
  /\ a.state = "accepted"
  /\ \E st \in Ends : /\ b = [a EXCEPT !.state = st]
                      /\ st = "succeeded" => a.begun
                      /\ a.asked => st \in {"cancelled", "lost"}

(* The coordinator dies before the task was saved: nothing of it has begun *)
(* and no cancel was acknowledged.                                         *)
Forgotten(a, b) == a.state = "accepted" /\ ~a.begun /\ ~a.asked /\ b = Unknown

Init == task = [j \in Jobs |-> Unknown]

(* A crash or a restart of the coordinator concerns several tasks at once. *)
Next ==
  /\ task' \in [Jobs -> Task]
  /\ \A j \in Jobs : LET a == task[j]
                         b == task'[j]
                     IN  \/ a = b \/ Accepted(a, b) \/ Begins(a, b) \/ CancelAsked(a, b)
                         \/ Ended(a, b) \/ Forgotten(a, b)

Spec == Init /\ [][Next]_task
=============================================================================
