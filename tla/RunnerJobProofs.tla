--------------------------- MODULE RunnerJobProofs ---------------------------
(***************************************************************************)
(* Proofs about RunnerJob, for any number of submit RPCs, output chunks    *)
(* and faults.  The invariant says that one supervisor is engaged at a     *)
(* time, that a process group exists exactly from command.Start on and is  *)
(* recorded only then, that every copy of a record (job.json,              *)
(* job.json.tmp, a supervisor's, Reconcile's) that says the command ended  *)
(* is right for good, and that every copy follows the event of its state.  *)
(***************************************************************************)
EXTENDS RunnerJob, TLAPS

(* Supervisors that hold the claim or have started the command.            *)
Engaged(s) == group[s] # "none" \/ pc[s] \in Claimed

ClaimInv ==
  /\ claim = None => \A s \in Sups : ~Engaged(s)
  /\ \A s, t \in Sups : Engaged(s) /\ Engaged(t) => s = t

(* The steps of a claim holder before command.Start.                       *)
BeforeStart == {"claim_pid", "check_cancel", "record_tmp", "record_rename", "start"}

StartInv ==
  \A s \in Sups :
    /\ pc[s] \in (RPC \ {"done"}) \cup {"read", "claim"} \cup BeforeStart => group[s] = "none"
    /\ pc[s] = "running_append" => group[s] # "none"

(* A recorded process group is one that was started.                       *)
Grouped(r) == r.pgid \in Sups => group[r.pgid] # "none"

GroupInv ==
  /\ Grouped(job) /\ Grouped(rec.job) /\ Grouped(canc)
  /\ \A j \in tmp : Grouped(j)
  /\ \A s \in Sups : Grouped(mem[s])

(* Everything about claims, groups and program points.                     *)
Shape == TypeOK /\ ClaimInv /\ StartInv /\ GroupInv

(* No command runs (its output is open), none can be started any more.     *)
NoStart == claim # None /\ \A s \in Sups : pc[s] \notin BeforeStart
Ended   == NoStart /\ \A s \in Sups : group[s] # "live"
Quiet   == NoStart /\ \A s \in Sups : ~Running(s)

Truthful(r) == /\ r.state \in Terminal \ {"lost"} => Ended
               /\ Verified(r) => Quiet

TruthInv ==
  /\ Truthful(job) /\ Truthful(rec.job)
  /\ \A j \in tmp : Truthful(j)
  /\ \A s \in Sups : Truthful(mem[s])
  /\ reply = "cancelled" => Quiet

Logged(log, r) ==
  r.state # "queued" =>
    \E i \in DOMAIN log : log[i].state = r.state /\ log[i].seq <= r.seq

LogInv ==
  /\ Logged(stateLog, job)
  /\ rec.pc # "append" => Logged(stateLog, rec.job)
  /\ rec.pc = "append" => rec.job.state = "lost"
  /\ \A j \in tmp : Logged(stateLog, j)
  /\ \A s \in Sups : Logged(stateLog, mem[s])

IInv == Shape /\ TruthInv /\ LogInv
-----------------------------------------------------------------------------
(* The writes of writeJob move between known program points.               *)
LEMMA WritePoints ==
  /\ \A p \in Writing : RenameAfter(p) \in Renaming
  /\ \A p \in Renaming : Written(p) \in {"start", "running", "done"}
  BY DEF Writing, Renaming, RenameAfter, Written

(* The records the Runner builds are job records and events.               *)
LEMMA NewJobType == NewJob \in Job
  BY DEF NewJob, Job, States, Active, Flags

LEMMA PidType ==
  ASSUME NEW r \in Job, NEW p \in Sups
  PROVE  [r EXCEPT !.pid = p] \in Job
  BY DEF Job

LEMMA EventType ==
  ASSUME NEW n \in Nat, NEW st \in States
  PROVE  [seq |-> n, state |-> st] \in Event
  BY DEF Event

LEMMA FieldTypes ==
  ASSUME NEW r \in Job
  PROVE  /\ r.seq \in Nat /\ r.state \in States
         /\ r.pid \in Sups \cup {None} /\ r.pgid \in Sups \cup {None}
  BY DEF Job

LEMMA FinishedType ==
  ASSUME NEW r \in Job, NEW st \in States, NEW v \in BOOLEAN
  PROVE  /\ Finished(r, st, v) \in Job
         /\ [seq |-> r.seq + 1, state |-> st] \in Event
<1> DEFINE n == r.seq + 1
           f == IF v THEN r.flags \cup {"verified"} ELSE r.flags \ {"verified"}
<1>1. n \in Nat /\ f \in Flags
  BY DEF Job, Flags
<1>2. Finished(r, st, v) = [r EXCEPT !.state = st, !.seq = n, !.flags = f]
  BY DEF Finished
<1> HIDE DEF n, f
<1>3. [r EXCEPT !.state = st, !.seq = n, !.flags = f] \in Job
  BY <1>1 DEF Job
<1>4. [seq |-> n, state |-> st] \in Event
  BY <1>1, EventType
<1> QED
  BY <1>2, <1>3, <1>4 DEF n

LEMMA RunningType ==
  ASSUME NEW r \in Job, NEW p \in Sups
  PROVE  /\ Started(r, p) \in Job
         /\ [seq |-> r.seq + 1, state |-> "running"] \in Event
<1> DEFINE n == r.seq + 1
<1>1. n \in Nat /\ "running" \in States
  BY FieldTypes DEF States, Active
<1> HIDE DEF n
<1>2. [r EXCEPT !.state = "running", !.pgid = p, !.seq = n] \in Job
  BY <1>1 DEF Job
<1>3. [seq |-> n, state |-> "running"] \in Event
  BY <1>1, EventType
<1> QED
  BY <1>2, <1>3 DEF n, Started

LEMMA CapturedType ==
  ASSUME NEW r \in Job, NEW whole
  PROVE  Captured(r, whole) \in Job
<1> DEFINE n == r.seq + 1
           f == IF whole THEN r.flags ELSE r.flags \cup {"truncated"}
<1>1. n \in Nat /\ f \in Flags
  BY DEF Job, Flags
<1> HIDE DEF n, f
<1>2. [r EXCEPT !.seq = n, !.flags = f] \in Job
  BY <1>1 DEF Job
<1> QED
  BY <1>2 DEF n, f, Captured

(* What the edits of a record change, and what they keep.                  *)
LEMMA FinishedFields ==
  ASSUME NEW r \in Job, NEW st \in States, NEW v \in BOOLEAN
  PROVE  /\ Finished(r, st, v).state = st
         /\ Finished(r, st, v).seq = r.seq + 1
         /\ Finished(r, st, v).pgid = r.pgid
         /\ Verified(Finished(r, st, v)) => v
  BY DEF Finished, Verified, Job, Flags

LEMMA LostFields ==
  ASSUME NEW r \in Job
  PROVE  LET lost == Finished(r, "lost", FALSE)
         IN lost.state = "lost" /\ lost.seq = r.seq + 1 /\ ~Verified(lost)
  BY FinishedFields DEF States, Terminal

LEMMA CapturedFields ==
  ASSUME NEW r \in Job, NEW whole
  PROVE  /\ Captured(r, whole).state = r.state
         /\ Captured(r, whole).seq = r.seq + 1
         /\ Captured(r, whole).pgid = r.pgid
         /\ Verified(Captured(r, whole)) => Verified(r)
  BY DEF Captured, Verified, Job, Flags

LEMMA PidFields ==
  ASSUME NEW r \in Job, NEW p \in Sups
  PROVE  LET q == [r EXCEPT !.pid = p]
         IN /\ q.state = r.state /\ q.seq = r.seq /\ q.pgid = r.pgid
            /\ Verified(q) => Verified(r)
  BY DEF Verified, Job

LEMMA StartedFields ==
  ASSUME NEW r \in Job, NEW p \in Sups
  PROVE  /\ Started(r, p).state = "running"
         /\ Started(r, p).seq = r.seq + 1
         /\ Started(r, p).pgid = p
         /\ Verified(Started(r, p)) => Verified(r)
  BY DEF Started, Verified, Job

LEMMA OutcomeType ==
  ASSUME TypeOK, NEW s \in Sups, NEW ack \in BOOLEAN, NEW ok \in BOOLEAN,
         NEW declared \in {"none", "cancelled", "timed_out"}
  PROVE  LET out == Outcome(processGroupTerminationVerified(s), ack, declared, ok)
         IN out.state \in States /\ out.verified \in BOOLEAN
  BY RunnerAssumption DEF TypeOK, Outcome, processGroupTerminationVerified, States, Terminal

LEMMA FinishType ==
  ASSUME TypeOK, NEW s \in Sups, NEW st \in States, NEW v \in BOOLEAN, Finish(s, st, v)
  PROVE  mem' \in [Sups -> Job] /\ stateLog' \in Seq(Event) /\ pc' \in [Sups -> PCs]
<1>1. mem[s] \in Job
  BY DEF TypeOK
<1>2. Finished(mem[s], st, v) \in Job /\ [seq |-> mem[s].seq + 1, state |-> st] \in Event
  BY <1>1, FinishedType
<1>3. pc' \in [Sups -> PCs]
  BY DEF Finish, TypeOK, PCs, Live, Writing
<1> QED
  BY <1>2, <1>3 DEF Finish, TypeOK

(* What finishSupervisor does to its supervisor's record and to the log.   *)
LEMMA FinishEffect ==
  ASSUME TypeOK, NEW s \in Sups, NEW st \in States, NEW v \in BOOLEAN, Finish(s, st, v)
  PROVE  /\ mem'[s].state = st /\ mem'[s].seq = mem[s].seq + 1
         /\ mem'[s].pgid = mem[s].pgid
         /\ Verified(mem'[s]) => v
         /\ \A t \in Sups \ {s} : mem'[t] = mem[t]
<1>1. mem[s] \in Job
  BY DEF TypeOK
<1>2. mem'[s] = Finished(mem[s], st, v) /\ \A t \in Sups \ {s} : mem'[t] = mem[t]
  BY DEF Finish, TypeOK
<1> QED
  BY <1>1, <1>2, FinishedFields

(* The state a reaped command ends in, and when it counts as verified.     *)
LEMMA WaitEffect ==
  ASSUME TypeOK, NEW s \in Sups, SupWait(s)
  PROVE  \E st \in States, v \in BOOLEAN :
           Finish(s, st, v) /\ (v => group[s] = "gone")
<1>1. PICK ok \in BOOLEAN, ack \in BOOLEAN, declared \in {"none", "cancelled", "timed_out"} :
        LET out == Outcome(processGroupTerminationVerified(s), ack, declared, ok)
        IN Finish(s, out.state, out.verified)
  BY DEF SupWait
<1> DEFINE out == Outcome(processGroupTerminationVerified(s), ack, declared, ok)
<1>2. out.state \in States /\ out.verified \in BOOLEAN
  BY OutcomeType
<1>3. Finish(s, out.state, out.verified)
  BY <1>1
<1>4. out.verified => group[s] = "gone"
  BY DEF Outcome, processGroupTerminationVerified
<1> HIDE DEF out
<1> QED
  BY <1>2, <1>3, <1>4

(* TypeOK is preserved by every action of the Runner.                      *)
LEMMA TypeStep == TypeOK /\ [Next]_vars => TypeOK'
<1> SUFFICES ASSUME TypeOK, [Next]_vars PROVE TypeOK'
  OBVIOUS
<1> USE DEF TypeOK, PCs, RPC, Live, Creating, Fault, files, procs
<1>1. ASSUME NEW s \in Sups, SubmitCreate(s) PROVE TypeOK'
  BY <1>1 DEF SubmitCreate
<1>2. ASSUME NEW s \in Sups, CreateRecord(s) PROVE TypeOK'
  BY <1>2, NewJobType DEF CreateRecord
<1>3. ASSUME NEW s \in Sups, CreateEvent(s) PROVE TypeOK'
  BY <1>3, EventType DEF CreateEvent, States, Active
<1>4. ASSUME NEW s \in Sups, StartSupervisor(s) PROVE TypeOK'
  BY <1>4 DEF StartSupervisor
<1>5. ASSUME NEW s \in Sups, SupRead(s) PROVE TypeOK'
  BY <1>5 DEF SupRead
<1>6. ASSUME NEW s \in Sups, SupClaim(s) PROVE TypeOK'
  BY <1>6 DEF SupClaim
<1>7. ASSUME NEW s \in Sups, SupClaimPid(s) PROVE TypeOK'
  BY <1>7, RunnerAssumption DEF SupClaimPid
<1>8. ASSUME NEW s \in Sups, SupCheckCancel(s) PROVE TypeOK'
  <2>1. CASE cancelFile
    <3>1. Finish(s, "cancelled", TRUE)
      BY <1>8, <2>1 DEF SupCheckCancel
    <3>2. "cancelled" \in States
      BY DEF States, Terminal
    <3>3. mem' \in [Sups -> Job] /\ stateLog' \in Seq(Event) /\ pc' \in [Sups -> PCs]
      BY <3>1, <3>2, FinishType
    <3> QED
      BY <1>8, <3>3 DEF SupCheckCancel
  <2>2. CASE ~cancelFile
    <3>1. mem' \in [Sups -> Job]
      BY <1>8, <2>2, PidType DEF SupCheckCancel
    <3> QED
      BY <1>8, <2>2, <3>1 DEF SupCheckCancel, Writing
  <2> QED
    BY <2>1, <2>2
<1>9. ASSUME NEW s \in Sups, SupTmp(s) PROVE TypeOK'
  BY <1>9, WritePoints DEF SupTmp
<1>10. ASSUME NEW s \in Sups, SupRename(s) PROVE TypeOK'
  BY <1>10, WritePoints DEF SupRename
<1>11. ASSUME NEW s \in Sups, SupStart(s) PROVE TypeOK'
  <2>1. CASE /\ group' = [group EXCEPT ![s] = "live"]
             /\ pc' = [pc EXCEPT ![s] = "running_append"]
             /\ UNCHANGED <<mem, stateLog, faults>>
    BY <1>11, <2>1 DEF SupStart
  <2>2. CASE Fault("io") /\ Finish(s, "failed", FALSE)
    <3>1. "failed" \in States
      BY DEF States, Terminal
    <3>2. mem' \in [Sups -> Job] /\ stateLog' \in Seq(Event) /\ pc' \in [Sups -> PCs]
      BY <2>2, <3>1, FinishType
    <3>3. group' \in [Sups -> {"none", "live", "stray", "gone"}]
      BY <1>11, <2>2 DEF SupStart
    <3>4. faults' \in Nat
      BY <2>2
    <3> QED
      BY <1>11, <3>2, <3>3, <3>4 DEF SupStart
  <2> QED
    BY <1>11, <2>1, <2>2 DEF SupStart
<1>12. ASSUME NEW s \in Sups, SupRunning(s) PROVE TypeOK'
  <2>1. mem' \in [Sups -> Job] /\ stateLog' \in Seq(Event)
    BY <1>12, RunningType DEF SupRunning
  <2>2. pc' \in [Sups -> PCs]
    BY <1>12 DEF SupRunning, Writing
  <2> QED
    BY <1>12, <2>1, <2>2 DEF SupRunning
<1>13. ASSUME NEW s \in Sups, SupOutput(s) PROVE TypeOK'
  <2>1. mem' \in [Sups -> Job]
    BY <1>13, CapturedType DEF SupOutput
  <2>2. outputLog' \subseteq Nat
    <3>1. mem[s].seq + 1 \in Nat
      BY FieldTypes
    <3>2. \A k \in Retained(mem[s].seq + 1) : k \subseteq Nat
      BY <3>1 DEF Retained
    <3> QED
      BY <1>13, <3>2 DEF SupOutput
  <2>3. pc' \in [Sups -> PCs]
    BY <1>13 DEF SupOutput, Writing
  <2> QED
    BY <1>13, <2>1, <2>2, <2>3 DEF SupOutput
<1>14. ASSUME NEW s \in Sups, SupWait(s) PROVE TypeOK'
  <2>1. PICK ok \in BOOLEAN, ack \in BOOLEAN, declared \in {"none", "cancelled", "timed_out"} :
          LET out == Outcome(processGroupTerminationVerified(s), ack, declared, ok)
          IN Finish(s, out.state, out.verified)
    BY <1>14 DEF SupWait
  <2> DEFINE out == Outcome(processGroupTerminationVerified(s), ack, declared, ok)
  <2>2. out.state \in States /\ out.verified \in BOOLEAN
    BY OutcomeType
  <2>3. Finish(s, out.state, out.verified)
    BY <2>1
  <2> HIDE DEF out
  <2>4. mem' \in [Sups -> Job] /\ stateLog' \in Seq(Event) /\ pc' \in [Sups -> PCs]
    BY <2>2, <2>3, FinishType
  <2> QED
    BY <1>14, <2>4 DEF SupWait
<1>15. ASSUME NEW s \in Sups, TimeoutMark(s) PROVE TypeOK'
  BY <1>15 DEF TimeoutMark
<1>16. ASSUME NEW s \in Sups, TimeoutKill(s) PROVE TypeOK'
  BY <1>16 DEF TimeoutKill
<1>17. ASSUME NEW s \in Sups, CommandExits(s) PROVE TypeOK'
  BY <1>17 DEF CommandExits
<1>18. ASSUME NEW s \in Sups, SupCrash(s) PROVE TypeOK'
  BY <1>18 DEF SupCrash
<1>19. ASSUME NEW s \in Sups, SupIOError(s) PROVE TypeOK'
  BY <1>19 DEF SupIOError, Writing, Renaming
<1>20. CASE RecRead
  BY <1>20, NewJobType DEF RecRead, Served, NoRec
<1>21. CASE RecDecide
  <2> DEFINE lost == Finished(rec.job, "lost", FALSE)
             upd  == [rec.job EXCEPT !.pid = claim]
  <2>1. lost \in Job
    BY FinishedType DEF States, Terminal
  <2>2. claim \in Sups => upd \in Job
    BY PidType
  <2>3. \/ rec' = NoRec
        \/ rec' = [pc |-> "append", job |-> lost]
        \/ claim \in Sups /\ rec' = [pc |-> "tmp", job |-> upd]
    BY <1>21 DEF RecDecide
  <2> HIDE DEF lost, upd
  <2>5. rec' \in [pc : {"idle", "decide", "append", "tmp", "rename"}, job : Job]
    BY <2>1, <2>2, <2>3, NewJobType DEF NoRec
  <2>4. server' \in {"up", "starting", "down"}
    BY <1>21 DEF RecDecide, Served
  <2> QED
    BY <1>21, <2>4, <2>5 DEF RecDecide
<1>22. CASE RecAppend
  BY <1>22, EventType, FieldTypes DEF RecAppend, States, Terminal
<1>23. CASE RecTmp
  BY <1>23 DEF RecTmp
<1>24. CASE RecRename
  BY <1>24, NewJobType DEF RecRename, Served, NoRec
<1>25. CASE Age
  <2>1. fresh' \in BOOLEAN
    BY <1>25 DEF Age
  <2> QED
    BY <1>25, <2>1 DEF Age
<1>26. CASE CancelBegin
  BY <1>26, FieldTypes DEF CancelBegin, Answer, NoCancel
<1>27. CASE CancelMark
  BY <1>27 DEF CancelMark
<1>28. CASE CancelAwaitGroup
  BY <1>28, FieldTypes DEF CancelAwaitGroup, Answer, NoCancel
<1>29. CASE CancelTerm
  BY <1>29 DEF CancelTerm
<1>30. CASE CancelPoll
  BY <1>30 DEF CancelPoll, Answer, NoCancel
<1>31. CASE CancelKill
  <2>1. group' \in [Sups -> {"none", "live", "stray", "gone"}]
    BY <1>31 DEF CancelKill
  <2> QED
    BY <1>31, <2>1 DEF CancelKill
<1>32. CASE CancelGiveUp
  BY <1>32 DEF CancelGiveUp, Answer, NoCancel
<1>33. CASE ServerCrash
  BY <1>33, NewJobType DEF ServerCrash, NoRec, NoCancel
<1>34. CASE ServerStart
  BY <1>34 DEF ServerStart
<1>35. CASE UNCHANGED vars
  BY <1>35 DEF vars
<1> QED
  BY <1>1, <1>2, <1>3, <1>4, <1>5, <1>6, <1>7, <1>8, <1>9, <1>10, <1>11, <1>12,
     <1>13, <1>14, <1>15, <1>16, <1>17, <1>18, <1>19, <1>20, <1>21, <1>22, <1>23, <1>24,
     <1>25, <1>26, <1>27, <1>28, <1>29, <1>30, <1>31, <1>32, <1>33, <1>34, <1>35
  DEF Next, Submit, Supervise, Timer, Reconcile, Cancel, Environment

LEMMA TypeInit == Init => TypeOK
<1> SUFFICES ASSUME Init PROVE TypeOK
  OBVIOUS
<1>1. /\ rec \in [pc : {"idle", "decide", "append", "tmp", "rename"}, job : Job]
      /\ canc \in [pc : {"idle", "mark", "await_group", "term", "poll", "last_poll"},
                   pgid : Sups \cup {None}]
  BY NewJobType DEF Init, NoRec, NoCancel
<1>2. pc \in [Sups -> PCs] /\ mem \in [Sups -> Job]
  BY NewJobType DEF Init, PCs, RPC
<1>3. cancelFile \in BOOLEAN /\ timeoutFile \in BOOLEAN /\ fresh \in BOOLEAN
  BY DEF Init
<1>4. group \in [Sups -> {"none", "live", "stray", "gone"}] /\ stateLog \in Seq(Event)
  BY DEF Init
<1>5. /\ dir \in {"absent", "empty", "present"} /\ tmp \subseteq Job
      /\ \A j, k \in tmp : j = k
      /\ outputLog \subseteq Nat /\ claim \in Sups \cup {None, Empty}
      /\ children \subseteq Sups /\ server \in {"up", "starting", "down"}
      /\ reply \in {"none", "cancelled", "terminal", "unverified"} /\ faults \in Nat
  BY DEF Init
<1>6. job \in Job
  BY NewJobType DEF Init
<1> QED
  BY <1>1, <1>2, <1>3, <1>4, <1>5, <1>6 DEF TypeOK

(* Type correctness of the Runner, whatever the interleaving and the       *)
(* faults.                                                                 *)
THEOREM TypeCorrect == Spec => []TypeOK
  BY TypeInit, TypeStep, PTL DEF Spec
-----------------------------------------------------------------------------
(* What a step can do to the program points and groups of supervisors.     *)
Step(t) ==
  /\ claim' = None => claim = None
  /\ group[t] # "none" => group'[t] # "none"
  /\ group[t] = "none" /\ group'[t] # "none" => pc[t] \in Claimed \ {"claim_pid"}
  /\ group[t] # "live" /\ group'[t] = "live" => pc[t] = "start"
  /\ group'[t] = "stray" => group[t] \in {"live", "stray"}
  /\ pc'[t] \in Claimed => pc[t] \in Claimed \/ (pc[t] = "claim" /\ claim = None /\ claim' # None)
  /\ pc'[t] \in BeforeStart => pc[t] \in BeforeStart \/ (pc[t] = "claim" /\ claim = None)

(* One step lets one supervisor win the claim.                             *)
OneWinner(t, u) ==
  (pc[t] = "claim" /\ pc'[t] \in Claimed /\ pc[u] = "claim" /\ pc'[u] \in Claimed) => t = u

(* How the two steps that may end a job before it runs move the            *)
(* supervisors.                                                            *)
LEMMA StartShape ==
  ASSUME TypeOK, NEW s \in Sups, SupStart(s)
  PROVE  /\ pc[s] = "start" /\ pc'[s] \in {"running_append", "finish_tmp"}
         /\ pc'[s] = "running_append" => group'[s] = "live"
         /\ group'[s] \in {group[s], "live", "gone"}
         /\ \A t \in Sups \ {s} : pc'[t] = pc[t] /\ group'[t] = group[t]
         /\ claim' = claim
<1>1. \/ pc' = [pc EXCEPT ![s] = "running_append"] /\ group' = [group EXCEPT ![s] = "live"]
      \/ pc' = [pc EXCEPT ![s] = "finish_tmp"]
         /\ (group' = group \/ group' = [group EXCEPT ![s] = "gone"])
  BY DEF SupStart, Finish
<1>2. pc[s] = "start" /\ claim' = claim
  BY DEF SupStart
<1>3. DOMAIN pc = Sups /\ DOMAIN group = Sups
  BY DEF TypeOK
<1> QED BY <1>1, <1>2, <1>3

LEMMA CheckShape ==
  ASSUME TypeOK, NEW s \in Sups, SupCheckCancel(s)
  PROVE  /\ pc[s] = "check_cancel" /\ pc'[s] \in {"record_tmp", "finish_tmp"}
         /\ \A t \in Sups \ {s} : pc'[t] = pc[t]
         /\ UNCHANGED <<group, claim>>
<1>1. \E p \in {"record_tmp", "finish_tmp"} : pc' = [pc EXCEPT ![s] = p]
  BY DEF SupCheckCancel, Finish
<1>2. pc[s] = "check_cancel" /\ UNCHANGED <<group, claim>>
  BY DEF SupCheckCancel
<1>3. DOMAIN pc = Sups
  BY DEF TypeOK
<1> QED BY <1>1, <1>2, <1>3

(* Every step of the Runner keeps claims, groups and program points in     *)
(* this order.                                                             *)
LEMMA StepShape ==
  ASSUME TypeOK, StartInv, GroupInv, [Next]_vars
  PROVE  \A t, u \in Sups : Step(t) /\ OneWinner(t, u)
<1> USE RunnerAssumption
    DEF TypeOK, StartInv, BeforeStart, Claimed, Live, Writing, Renaming, Creating, Step, OneWinner, files, procs
<1>1. ASSUME NEW s \in Sups, SubmitCreate(s) PROVE \A t, u \in Sups : Step(t) /\ OneWinner(t, u)
  BY <1>1 DEF SubmitCreate
<1>2. ASSUME NEW s \in Sups, CreateRecord(s) PROVE \A t, u \in Sups : Step(t) /\ OneWinner(t, u)
  BY <1>2 DEF CreateRecord
<1>3. ASSUME NEW s \in Sups, CreateEvent(s) PROVE \A t, u \in Sups : Step(t) /\ OneWinner(t, u)
  BY <1>3 DEF CreateEvent
<1>4. ASSUME NEW s \in Sups, StartSupervisor(s) PROVE \A t, u \in Sups : Step(t) /\ OneWinner(t, u)
  BY <1>4 DEF StartSupervisor
<1>5. ASSUME NEW s \in Sups, SupRead(s) PROVE \A t, u \in Sups : Step(t) /\ OneWinner(t, u)
  BY <1>5 DEF SupRead
<1>6. ASSUME NEW s \in Sups, SupClaim(s) PROVE \A t, u \in Sups : Step(t) /\ OneWinner(t, u)
  BY <1>6 DEF SupClaim
<1>7. ASSUME NEW s \in Sups, SupClaimPid(s) PROVE \A t, u \in Sups : Step(t) /\ OneWinner(t, u)
  BY <1>7 DEF SupClaimPid
<1>8. ASSUME NEW s \in Sups, SupCheckCancel(s) PROVE \A t, u \in Sups : Step(t) /\ OneWinner(t, u)
  BY <1>8, CheckShape
<1>9. ASSUME NEW s \in Sups, SupTmp(s) PROVE \A t, u \in Sups : Step(t) /\ OneWinner(t, u)
  BY <1>9 DEF SupTmp, RenameAfter
<1>10. ASSUME NEW s \in Sups, SupRename(s) PROVE \A t, u \in Sups : Step(t) /\ OneWinner(t, u)
  BY <1>10 DEF SupRename, Written
<1>11. ASSUME NEW s \in Sups, SupStart(s) PROVE \A t, u \in Sups : Step(t) /\ OneWinner(t, u)
  BY <1>11, StartShape
<1>12. ASSUME NEW s \in Sups, SupRunning(s) PROVE \A t, u \in Sups : Step(t) /\ OneWinner(t, u)
  BY <1>12 DEF SupRunning
<1>13. ASSUME NEW s \in Sups, SupOutput(s) PROVE \A t, u \in Sups : Step(t) /\ OneWinner(t, u)
  BY <1>13 DEF SupOutput
<1>14. ASSUME NEW s \in Sups, SupWait(s) PROVE \A t, u \in Sups : Step(t) /\ OneWinner(t, u)
  BY <1>14 DEF SupWait, Finish
<1>15. ASSUME NEW s \in Sups, TimeoutMark(s) PROVE \A t, u \in Sups : Step(t) /\ OneWinner(t, u)
  BY <1>15 DEF TimeoutMark
<1>16. ASSUME NEW s \in Sups, TimeoutKill(s) PROVE \A t, u \in Sups : Step(t) /\ OneWinner(t, u)
  BY <1>16 DEF TimeoutKill, Running
<1>17. ASSUME NEW s \in Sups, CommandExits(s) PROVE \A t, u \in Sups : Step(t) /\ OneWinner(t, u)
  BY <1>17 DEF CommandExits, Running
<1>18. ASSUME NEW s \in Sups, SupCrash(s) PROVE \A t, u \in Sups : Step(t) /\ OneWinner(t, u)
  BY <1>18 DEF SupCrash, Alive
<1>19. ASSUME NEW s \in Sups, SupIOError(s) PROVE \A t, u \in Sups : Step(t) /\ OneWinner(t, u)
  BY <1>19 DEF SupIOError
<1>20. CASE RecRead
  BY <1>20 DEF RecRead
<1>21. CASE RecDecide
  BY <1>21 DEF RecDecide
<1>22. CASE RecAppend
  BY <1>22 DEF RecAppend
<1>23. CASE RecTmp
  BY <1>23 DEF RecTmp
<1>24. CASE RecRename
  BY <1>24 DEF RecRename
<1>25. CASE Age
  BY <1>25 DEF Age
<1>26. CASE CancelBegin
  BY <1>26 DEF CancelBegin
<1>27. CASE CancelMark
  BY <1>27 DEF CancelMark
<1>28. CASE CancelAwaitGroup
  BY <1>28 DEF CancelAwaitGroup
<1>29. CASE CancelTerm
  BY <1>29 DEF CancelTerm
<1>30. CASE CancelPoll
  BY <1>30 DEF CancelPoll
<1>31. CASE CancelKill
  BY <1>31 DEF CancelKill, GroupInv, Grouped
<1>32. CASE CancelGiveUp
  BY <1>32 DEF CancelGiveUp
<1>33. CASE ServerCrash
  BY <1>33 DEF ServerCrash
<1>34. CASE ServerStart
  BY <1>34 DEF ServerStart
<1>35. CASE UNCHANGED vars
  BY <1>35 DEF vars
<1> QED
  BY <1>1, <1>2, <1>3, <1>4, <1>5, <1>6, <1>7, <1>8, <1>9, <1>10, <1>11, <1>12,
     <1>13, <1>14, <1>15, <1>16, <1>17, <1>18, <1>19, <1>20, <1>21, <1>22, <1>23, <1>24,
     <1>25, <1>26, <1>27, <1>28, <1>29, <1>30, <1>31, <1>32, <1>33, <1>34, <1>35
  DEF Next, Submit, Supervise, Timer, Reconcile, Cancel, Environment

(* One supervisor is engaged with the job, and keeps being the only one.   *)
LEMMA ClaimStep ==
  ASSUME TypeOK, StartInv, GroupInv, ClaimInv, [Next]_vars
  PROVE  ClaimInv'
<1>1. TypeOK'
  BY TypeStep
<1>2. \A t, u \in Sups : Step(t) /\ OneWinner(t, u)
  BY StepShape
<1>3. (claim = None)' => \A t \in Sups : ~Engaged(t)'
  BY <1>2 DEF Step, Engaged, ClaimInv
<1>4. ASSUME NEW s \in Sups, NEW t \in Sups, Engaged(s)', Engaged(t)'
      PROVE  s = t
  BY <1>2, <1>4 DEF Step, OneWinner, Engaged, ClaimInv
<1> QED
  BY <1>3, <1>4 DEF ClaimInv

(* A group exists exactly from command.Start on.                           *)
LEMMA StartStep ==
  ASSUME TypeOK, StartInv, GroupInv, [Next]_vars
  PROVE  StartInv'
<1> USE RunnerAssumption
    DEF TypeOK, StartInv, BeforeStart, RPC, Writing, Renaming, Creating, files, procs
<1>1. ASSUME NEW s \in Sups, SubmitCreate(s) PROVE StartInv'
  BY <1>1 DEF SubmitCreate
<1>2. ASSUME NEW s \in Sups, CreateRecord(s) PROVE StartInv'
  BY <1>2 DEF CreateRecord
<1>3. ASSUME NEW s \in Sups, CreateEvent(s) PROVE StartInv'
  BY <1>3 DEF CreateEvent
<1>4. ASSUME NEW s \in Sups, StartSupervisor(s) PROVE StartInv'
  BY <1>4 DEF StartSupervisor
<1>5. ASSUME NEW s \in Sups, SupRead(s) PROVE StartInv'
  BY <1>5 DEF SupRead
<1>6. ASSUME NEW s \in Sups, SupClaim(s) PROVE StartInv'
  BY <1>6 DEF SupClaim
<1>7. ASSUME NEW s \in Sups, SupClaimPid(s) PROVE StartInv'
  BY <1>7 DEF SupClaimPid
<1>8. ASSUME NEW s \in Sups, SupCheckCancel(s) PROVE StartInv'
  BY <1>8 DEF SupCheckCancel, Finish
<1>9. ASSUME NEW s \in Sups, SupTmp(s) PROVE StartInv'
  BY <1>9 DEF SupTmp, RenameAfter
<1>10. ASSUME NEW s \in Sups, SupRename(s) PROVE StartInv'
  BY <1>10 DEF SupRename, Written
<1>11. ASSUME NEW s \in Sups, SupStart(s) PROVE StartInv'
  BY <1>11, StartShape
<1>12. ASSUME NEW s \in Sups, SupRunning(s) PROVE StartInv'
  BY <1>12 DEF SupRunning
<1>13. ASSUME NEW s \in Sups, SupOutput(s) PROVE StartInv'
  BY <1>13 DEF SupOutput
<1>14. ASSUME NEW s \in Sups, SupWait(s) PROVE StartInv'
  BY <1>14 DEF SupWait, Finish
<1>15. ASSUME NEW s \in Sups, TimeoutMark(s) PROVE StartInv'
  BY <1>15 DEF TimeoutMark
<1>16. ASSUME NEW s \in Sups, TimeoutKill(s) PROVE StartInv'
  BY <1>16 DEF TimeoutKill, Running
<1>17. ASSUME NEW s \in Sups, CommandExits(s) PROVE StartInv'
  BY <1>17 DEF CommandExits, Running
<1>18. ASSUME NEW s \in Sups, SupCrash(s) PROVE StartInv'
  BY <1>18 DEF SupCrash
<1>19. ASSUME NEW s \in Sups, SupIOError(s) PROVE StartInv'
  BY <1>19 DEF SupIOError
<1>20. CASE RecRead
  BY <1>20 DEF RecRead
<1>21. CASE RecDecide
  BY <1>21 DEF RecDecide
<1>22. CASE RecAppend
  BY <1>22 DEF RecAppend
<1>23. CASE RecTmp
  BY <1>23 DEF RecTmp
<1>24. CASE RecRename
  BY <1>24 DEF RecRename
<1>25. CASE Age
  BY <1>25 DEF Age
<1>26. CASE CancelBegin
  BY <1>26 DEF CancelBegin
<1>27. CASE CancelMark
  BY <1>27 DEF CancelMark
<1>28. CASE CancelAwaitGroup
  BY <1>28 DEF CancelAwaitGroup
<1>29. CASE CancelTerm
  BY <1>29 DEF CancelTerm
<1>30. CASE CancelPoll
  BY <1>30 DEF CancelPoll
<1>31. CASE CancelKill
  BY <1>31 DEF CancelKill, GroupInv, Grouped
<1>32. CASE CancelGiveUp
  BY <1>32 DEF CancelGiveUp
<1>33. CASE ServerCrash
  BY <1>33 DEF ServerCrash
<1>34. CASE ServerStart
  BY <1>34 DEF ServerStart
<1>35. CASE UNCHANGED vars
  BY <1>35 DEF vars
<1> QED
  BY <1>1, <1>2, <1>3, <1>4, <1>5, <1>6, <1>7, <1>8, <1>9, <1>10, <1>11, <1>12,
     <1>13, <1>14, <1>15, <1>16, <1>17, <1>18, <1>19, <1>20, <1>21, <1>22, <1>23, <1>24,
     <1>25, <1>26, <1>27, <1>28, <1>29, <1>30, <1>31, <1>32, <1>33, <1>34, <1>35
  DEF Next, Submit, Supervise, Timer, Reconcile, Cancel, Environment

(* Every copy of a record that names a process group names a started one.  *)
LEMMA GroupedStep ==
  ASSUME TypeOK, StartInv, GroupInv, [Next]_vars
  PROVE  GroupInv'
<1>0. \A t \in Sups : group[t] # "none" => group'[t] # "none"
  BY StepShape DEF Step
<1> USE <1>0, RunnerAssumption DEF TypeOK, GroupInv, Grouped, files, procs
<1>1. ASSUME NEW s \in Sups, SubmitCreate(s) PROVE GroupInv'
  BY <1>1 DEF SubmitCreate
<1>2. ASSUME NEW s \in Sups, CreateRecord(s) PROVE GroupInv'
  BY <1>2 DEF CreateRecord, NewJob
<1>3. ASSUME NEW s \in Sups, CreateEvent(s) PROVE GroupInv'
  BY <1>3 DEF CreateEvent
<1>4. ASSUME NEW s \in Sups, StartSupervisor(s) PROVE GroupInv'
  BY <1>4 DEF StartSupervisor
<1>5. ASSUME NEW s \in Sups, SupRead(s) PROVE GroupInv'
  BY <1>5 DEF SupRead
<1>6. ASSUME NEW s \in Sups, SupClaim(s) PROVE GroupInv'
  BY <1>6 DEF SupClaim
<1>7. ASSUME NEW s \in Sups, SupClaimPid(s) PROVE GroupInv'
  BY <1>7 DEF SupClaimPid
<1>8. ASSUME NEW s \in Sups, SupCheckCancel(s) PROVE GroupInv'
  <2>1. mem'[s].pgid = mem[s].pgid /\ \A t \in Sups \ {s} : mem'[t] = mem[t]
    <3>1. CASE cancelFile
      BY <1>8, <3>1, FinishEffect DEF SupCheckCancel, States, Terminal
    <3>2. CASE ~cancelFile
      <4>1. mem'[s] = [mem[s] EXCEPT !.pid = s] /\ mem[s] \in Job
        BY <1>8, <3>2 DEF SupCheckCancel
      <4>2. mem'[s].pgid = mem[s].pgid
        BY <4>1, PidFields
      <4> QED
        BY <1>8, <3>2, <4>2 DEF SupCheckCancel
    <3> QED
      BY <3>1, <3>2
  <2> QED
    BY <1>8, <2>1 DEF SupCheckCancel
<1>9. ASSUME NEW s \in Sups, SupTmp(s) PROVE GroupInv'
  BY <1>9 DEF SupTmp
<1>10. ASSUME NEW s \in Sups, SupRename(s) PROVE GroupInv'
  BY <1>10 DEF SupRename
<1>11. ASSUME NEW s \in Sups, SupStart(s) PROVE GroupInv'
  <2>1. mem'[s].pgid = mem[s].pgid /\ \A t \in Sups \ {s} : mem'[t] = mem[t]
    <3>1. CASE Finish(s, "failed", FALSE)
      BY <3>1, FinishEffect DEF States, Terminal
    <3>2. CASE UNCHANGED mem
      BY <3>2
    <3> QED
      BY <1>11, <3>1, <3>2 DEF SupStart
  <2> QED
    BY <1>11, <2>1 DEF SupStart
<1>12. ASSUME NEW s \in Sups, SupRunning(s) PROVE GroupInv'
  BY <1>12, StartedFields DEF SupRunning, StartInv
<1>13. ASSUME NEW s \in Sups, SupOutput(s) PROVE GroupInv'
  BY <1>13, CapturedFields DEF SupOutput
<1>14. ASSUME NEW s \in Sups, SupWait(s) PROVE GroupInv'
  <2>1. mem'[s].pgid = mem[s].pgid /\ \A t \in Sups \ {s} : mem'[t] = mem[t]
    BY <1>14, WaitEffect, FinishEffect
  <2> QED
    BY <1>14, <2>1 DEF SupWait
<1>15. ASSUME NEW s \in Sups, TimeoutMark(s) PROVE GroupInv'
  BY <1>15 DEF TimeoutMark
<1>16. ASSUME NEW s \in Sups, TimeoutKill(s) PROVE GroupInv'
  BY <1>16 DEF TimeoutKill
<1>17. ASSUME NEW s \in Sups, CommandExits(s) PROVE GroupInv'
  BY <1>17 DEF CommandExits
<1>18. ASSUME NEW s \in Sups, SupCrash(s) PROVE GroupInv'
  BY <1>18 DEF SupCrash
<1>19. ASSUME NEW s \in Sups, SupIOError(s) PROVE GroupInv'
  BY <1>19 DEF SupIOError
<1>20. CASE RecRead
  <2>1. rec' = [pc |-> "decide", job |-> job] \/ UNCHANGED rec
    BY <1>20 DEF RecRead
  <2> QED
    BY <1>20, <2>1 DEF RecRead
<1>21. CASE RecDecide
  <2> DEFINE lost == Finished(rec.job, "lost", FALSE)
             upd  == [rec.job EXCEPT !.pid = claim]
  <2>1. lost.pgid = rec.job.pgid
    BY FinishedFields DEF States, Terminal
  <2>2. claim \in Sups => upd.pgid = rec.job.pgid
    BY PidFields
  <2>3. \/ rec' = NoRec
        \/ rec' = [pc |-> "append", job |-> lost]
        \/ claim \in Sups /\ rec' = [pc |-> "tmp", job |-> upd]
    BY <1>21 DEF RecDecide
  <2> HIDE DEF lost, upd
  <2>4. rec'.job.pgid \in {rec.job.pgid, None}
    BY <2>1, <2>2, <2>3 DEF NoRec, NewJob
  <2> QED
    BY <1>21, <2>4 DEF RecDecide
<1>22. CASE RecAppend
  BY <1>22 DEF RecAppend
<1>23. CASE RecTmp
  BY <1>23 DEF RecTmp
<1>24. CASE RecRename
  <2>1. rec'.job.pgid = None
    BY <1>24 DEF RecRename, NoRec, NewJob
  <2>2. job' \in tmp \cup {job} /\ tmp' \subseteq tmp
    BY <1>24 DEF RecRename
  <2> QED
    BY <1>24, <2>1, <2>2 DEF RecRename
<1>25. CASE Age
  BY <1>25 DEF Age
<1>26. CASE CancelBegin
  BY <1>26 DEF CancelBegin, Answer, NoCancel
<1>27. CASE CancelMark
  BY <1>27 DEF CancelMark
<1>28. CASE CancelAwaitGroup
  BY <1>28 DEF CancelAwaitGroup, Answer, NoCancel
<1>29. CASE CancelTerm
  BY <1>29 DEF CancelTerm
<1>30. CASE CancelPoll
  BY <1>30 DEF CancelPoll, Answer, NoCancel
<1>31. CASE CancelKill
  BY <1>31 DEF CancelKill
<1>32. CASE CancelGiveUp
  BY <1>32 DEF CancelGiveUp, Answer, NoCancel
<1>33. CASE ServerCrash
  BY <1>33 DEF ServerCrash, NoRec, NoCancel, NewJob
<1>34. CASE ServerStart
  BY <1>34 DEF ServerStart
<1>35. CASE UNCHANGED vars
  BY <1>35 DEF vars
<1> QED
  BY <1>1, <1>2, <1>3, <1>4, <1>5, <1>6, <1>7, <1>8, <1>9, <1>10, <1>11, <1>12,
     <1>13, <1>14, <1>15, <1>16, <1>17, <1>18, <1>19, <1>20, <1>21, <1>22, <1>23, <1>24,
     <1>25, <1>26, <1>27, <1>28, <1>29, <1>30, <1>31, <1>32, <1>33, <1>34, <1>35
  DEF Next, Submit, Supervise, Timer, Reconcile, Cancel, Environment

LEMMA ShapeInit == Init => Shape
<1> SUFFICES ASSUME Init PROVE Shape
  OBVIOUS
<1>1. TypeOK
  BY TypeInit
<1>2. ClaimInv
  BY RunnerAssumption DEF Init, ClaimInv, Engaged, Claimed, Live, Writing, Renaming
<1>3. StartInv
  BY DEF Init, StartInv
<1>4. GroupInv
  BY RunnerAssumption DEF Init, GroupInv, Grouped, NewJob, NoRec, NoCancel
<1> QED
  BY <1>1, <1>2, <1>3, <1>4 DEF Shape

LEMMA ShapeStep == Shape /\ [Next]_vars => Shape'
  BY TypeStep, ClaimStep, StartStep, GroupedStep DEF Shape

(* The command of a job is started by at most one supervisor, for any      *)
(* number of submits, crashes and reconciliations.                         *)
THEOREM StartedAtMostOnce == Spec => []AtMostOnce
<1>1. Shape => AtMostOnce
  BY DEF Shape, ClaimInv, Engaged, AtMostOnce
<1> QED
  BY <1>1, ShapeInit, ShapeStep, PTL DEF Spec
-----------------------------------------------------------------------------
(* A record that says the command ended stays right: no step starts a      *)
(* command once a claim holder has passed its start.                       *)
LEMMA StaysEnded ==
  ASSUME Shape, [Next]_vars
  PROVE  (Ended => Ended') /\ (Quiet => Quiet')
<1>1. \A t \in Sups : Step(t)
  BY StepShape DEF Shape
<1>2. TypeOK'
  BY TypeStep DEF Shape
<1>3. NoStart => NoStart'
  BY <1>1, RunnerAssumption DEF NoStart, Step
<1>4. NoStart => \A t \in Sups : group'[t] = "live" => group[t] = "live"
  BY <1>1 DEF NoStart, Step, BeforeStart
<1> QED
  BY <1>1, <1>3, <1>4 DEF Ended, Quiet, Running, Step, NoStart, BeforeStart

(* The engaged supervisor speaks for the whole job.                        *)
LEMMA SoleEnded ==
  ASSUME ClaimInv', NEW s \in Sups, Engaged(s)', pc'[s] \notin BeforeStart
  PROVE  /\ group'[s] # "live" => Ended'
         /\ ~Running(s)' => Quiet'
  BY DEF ClaimInv, Engaged, Ended, Quiet, NoStart, BeforeStart, Claimed, Live,
         Writing, Renaming, Running

LEMMA NewTruthful == NewJob.state \notin Terminal /\ ~Verified(NewJob)
  BY DEF NewJob, Terminal, Verified

(* Every copy of a record that says the command ended is right, for good.  *)
LEMMA TruthStep ==
  ASSUME Shape, TruthInv, [Next]_vars
  PROVE  TruthInv'
<1>0. (Ended => Ended') /\ (Quiet => Quiet') /\ ClaimInv'
  BY StaysEnded, ShapeStep DEF Shape
<1> USE <1>0, RunnerAssumption DEF Shape, TypeOK, TruthInv, Truthful, files, procs
<1>1. ASSUME NEW s \in Sups, SubmitCreate(s) PROVE TruthInv'
  BY <1>1 DEF SubmitCreate
<1>2. ASSUME NEW s \in Sups, CreateRecord(s) PROVE TruthInv'
  BY <1>2, NewTruthful DEF CreateRecord
<1>3. ASSUME NEW s \in Sups, CreateEvent(s) PROVE TruthInv'
  BY <1>3 DEF CreateEvent
<1>4. ASSUME NEW s \in Sups, StartSupervisor(s) PROVE TruthInv'
  BY <1>4 DEF StartSupervisor
<1>5. ASSUME NEW s \in Sups, SupRead(s) PROVE TruthInv'
  BY <1>5 DEF SupRead
<1>6. ASSUME NEW s \in Sups, SupClaim(s) PROVE TruthInv'
  BY <1>6 DEF SupClaim
<1>7. ASSUME NEW s \in Sups, SupClaimPid(s) PROVE TruthInv'
  BY <1>7 DEF SupClaimPid
<1>8. ASSUME NEW s \in Sups, SupCheckCancel(s) PROVE TruthInv'
  <2>1. CASE cancelFile
    <3>1. Finish(s, "cancelled", TRUE) /\ pc[s] = "check_cancel" /\ UNCHANGED <<claim, group>>
      BY <1>8, <2>1 DEF SupCheckCancel
    <3>4. pc'[s] = "finish_tmp" /\ group'[s] = "none"
      BY <3>1 DEF Finish, StartInv, BeforeStart
    <3>2. Ended' /\ Quiet'
      BY <3>4, SoleEnded DEF Engaged, BeforeStart, Claimed, Live, Writing, Running
    <3>3. \A t \in Sups \ {s} : mem'[t] = mem[t]
      BY <3>1, FinishEffect DEF States, Terminal
    <3> QED
      BY <1>8, <3>2, <3>3 DEF SupCheckCancel
  <2>2. CASE ~cancelFile
    <3>1. mem'[s] = [mem[s] EXCEPT !.pid = s] /\ mem[s] \in Job
      BY <1>8, <2>2 DEF SupCheckCancel
    <3>2. mem'[s].state = mem[s].state /\ (Verified(mem'[s]) => Verified(mem[s]))
      BY <3>1, PidFields
    <3>3. \A t \in Sups \ {s} : mem'[t] = mem[t]
      BY <1>8, <2>2 DEF SupCheckCancel
    <3> QED
      BY <1>8, <3>2, <3>3 DEF SupCheckCancel
  <2> QED
    BY <2>1, <2>2
<1>9. ASSUME NEW s \in Sups, SupTmp(s) PROVE TruthInv'
  BY <1>9 DEF SupTmp
<1>10. ASSUME NEW s \in Sups, SupRename(s) PROVE TruthInv'
  BY <1>10 DEF SupRename
<1>11. ASSUME NEW s \in Sups, SupStart(s) PROVE TruthInv'
  <2>1. CASE UNCHANGED mem
    BY <1>11, <2>1 DEF SupStart
  <2>2. CASE Finish(s, "failed", FALSE) /\ group'[s] \in {group[s], "gone"}
    <3>1. pc[s] = "start" /\ UNCHANGED claim
      BY <1>11 DEF SupStart
    <3>4. pc'[s] = "finish_tmp" /\ group'[s] \in {"none", "gone"}
      BY <2>2, <3>1 DEF Finish, StartInv, BeforeStart
    <3>2. Ended'
      BY <3>4, SoleEnded DEF Engaged, BeforeStart, Claimed, Live, Writing
    <3>3. ~Verified(mem'[s]) /\ \A t \in Sups \ {s} : mem'[t] = mem[t]
      BY <2>2, FinishEffect DEF States, Terminal
    <3> QED
      BY <1>11, <3>2, <3>3 DEF SupStart
  <2> QED
    BY <1>11, <2>1, <2>2 DEF SupStart
<1>12. ASSUME NEW s \in Sups, SupRunning(s) PROVE TruthInv'
  <2>1. mem'[s] = Started(mem[s], s) /\ mem[s] \in Job
    BY <1>12 DEF SupRunning
  <2>2. mem'[s].state \notin Terminal /\ (Verified(mem'[s]) => Verified(mem[s]))
    BY <2>1, StartedFields DEF Terminal
  <2> QED
    BY <1>12, <2>2 DEF SupRunning
<1>13. ASSUME NEW s \in Sups, SupOutput(s) PROVE TruthInv'
  <2> DEFINE whole == outputLog' = outputLog \cup {mem[s].seq + 1}
             cap   == Captured(mem[s], whole)
  <2>6. cap.state = mem[s].state /\ (Verified(cap) => Verified(mem[s]))
    BY CapturedFields
  <2>1. mem'[s] = mem[s] \/ mem'[s] = cap
    BY <1>13 DEF SupOutput
  <2> HIDE DEF cap
  <2>2. mem'[s].state = mem[s].state /\ (Verified(mem'[s]) => Verified(mem[s]))
    BY <2>1, <2>6
  <2> QED
    BY <1>13, <2>2 DEF SupOutput
<1>14. ASSUME NEW s \in Sups, SupWait(s) PROVE TruthInv'
  <2>1. PICK st \in States, v \in BOOLEAN : Finish(s, st, v) /\ (v => group[s] = "gone")
    BY <1>14, WaitEffect
  <2>2. pc[s] = "running" /\ group[s] \in {"stray", "gone"} /\ UNCHANGED <<claim, group>>
    BY <1>14 DEF SupWait, Reaped
  <2>3. Ended' /\ (group[s] = "gone" => Quiet')
    BY <2>1, <2>2, SoleEnded DEF Finish, Engaged, BeforeStart, Claimed, Live, Running
  <2>4. (Verified(mem'[s]) => v) /\ \A t \in Sups \ {s} : mem'[t] = mem[t]
    BY <2>1, FinishEffect
  <2> QED
    BY <1>14, <2>1, <2>3, <2>4 DEF SupWait
<1>15. ASSUME NEW s \in Sups, TimeoutMark(s) PROVE TruthInv'
  BY <1>15 DEF TimeoutMark
<1>16. ASSUME NEW s \in Sups, TimeoutKill(s) PROVE TruthInv'
  BY <1>16 DEF TimeoutKill
<1>17. ASSUME NEW s \in Sups, CommandExits(s) PROVE TruthInv'
  BY <1>17 DEF CommandExits
<1>18. ASSUME NEW s \in Sups, SupCrash(s) PROVE TruthInv'
  BY <1>18 DEF SupCrash
<1>19. ASSUME NEW s \in Sups, SupIOError(s) PROVE TruthInv'
  BY <1>19 DEF SupIOError
<1>20. CASE RecRead
  <2>1. rec' = [pc |-> "decide", job |-> job] \/ UNCHANGED rec
    BY <1>20 DEF RecRead
  <2> QED
    BY <1>20, <2>1 DEF RecRead
<1>21. CASE RecDecide
  <2> DEFINE lost == Finished(rec.job, "lost", FALSE)
             upd  == [rec.job EXCEPT !.pid = claim]
  <2>1. lost.state = "lost" /\ ~Verified(lost)
    BY LostFields
  <2>2. claim \in Sups => upd.state = rec.job.state /\ (Verified(upd) => Verified(rec.job))
    BY PidFields
  <2>3. \/ rec' = NoRec
        \/ rec' = [pc |-> "append", job |-> lost]
        \/ claim \in Sups /\ rec' = [pc |-> "tmp", job |-> upd]
    BY <1>21 DEF RecDecide
  <2> HIDE DEF lost, upd
  <2>4. rec'.job = NewJob \/ rec'.job = lost \/ (claim \in Sups /\ rec'.job = upd)
    BY <2>3 DEF NoRec
  <2>5. Truthful(rec.job)'
    BY <2>1, <2>2, <2>4, NewTruthful
  <2> QED
    BY <1>21, <2>5 DEF RecDecide
<1>22. CASE RecAppend
  BY <1>22 DEF RecAppend
<1>23. CASE RecTmp
  BY <1>23 DEF RecTmp
<1>24. CASE RecRename
  <2>1. rec'.job = NewJob
    BY <1>24 DEF RecRename, NoRec
  <2> QED
    BY <1>24, <2>1, NewTruthful DEF RecRename
<1>25. CASE Age
  BY <1>25 DEF Age
<1>26. CASE CancelBegin
  BY <1>26 DEF CancelBegin, Answer, Stopped
<1>27. CASE CancelMark
  BY <1>27 DEF CancelMark
<1>28. CASE CancelAwaitGroup
  BY <1>28 DEF CancelAwaitGroup, Answer, Stopped
<1>29. CASE CancelTerm
  BY <1>29 DEF CancelTerm
<1>30. CASE CancelPoll
  BY <1>30 DEF CancelPoll, Answer, Stopped
<1>31. CASE CancelKill
  BY <1>31 DEF CancelKill
<1>32. CASE CancelGiveUp
  BY <1>32 DEF CancelGiveUp, Answer
<1>33. CASE ServerCrash
  <2>1. rec'.job = NewJob
    BY <1>33 DEF ServerCrash, NoRec
  <2> QED
    BY <1>33, <2>1, NewTruthful DEF ServerCrash
<1>34. CASE ServerStart
  BY <1>34 DEF ServerStart
<1>35. CASE UNCHANGED vars
  BY <1>35 DEF vars
<1> QED
  BY <1>1, <1>2, <1>3, <1>4, <1>5, <1>6, <1>7, <1>8, <1>9, <1>10, <1>11, <1>12,
     <1>13, <1>14, <1>15, <1>16, <1>17, <1>18, <1>19, <1>20, <1>21, <1>22, <1>23, <1>24,
     <1>25, <1>26, <1>27, <1>28, <1>29, <1>30, <1>31, <1>32, <1>33, <1>34, <1>35
  DEF Next, Submit, Supervise, Timer, Reconcile, Cancel, Environment
-----------------------------------------------------------------------------
(* The event log only grows, and an appended event covers its record.      *)
LEMMA LogGrows ==
  ASSUME NEW log \in Seq(Event), NEW e \in Event, NEW r \in Job, Logged(log, r)
  PROVE  Logged(Append(log, e), r)
  BY DEF Logged

LEMMA LogHit ==
  ASSUME NEW log \in Seq(Event), NEW e \in Event, NEW r \in Job,
         e.state = r.state, e.seq <= r.seq
  PROVE  Logged(Append(log, e), r)
<1>1. Append(log, e)[Len(log) + 1] = e /\ Len(log) + 1 \in DOMAIN Append(log, e)
  OBVIOUS
<1> QED
  BY <1>1 DEF Logged

LEMMA LogEdit ==
  ASSUME NEW log \in Seq(Event), NEW r \in Job, NEW q \in Job, Logged(log, r),
         q.state = r.state, r.seq <= q.seq
  PROVE  Logged(log, q)
<1>1. CASE r.state = "queued"
  BY <1>1 DEF Logged
<1>2. CASE r.state # "queued"
  <2>1. PICK i \in DOMAIN log : log[i].state = r.state /\ log[i].seq <= r.seq
    BY <1>2 DEF Logged
  <2>4. log[i] \in Event
    OBVIOUS
  <2>5. log[i].seq \in Nat
    BY <2>4 DEF Event
  <2>2. log[i].seq \in Nat /\ r.seq \in Nat /\ q.seq \in Nat
    BY <2>5, FieldTypes
  <2>3. log[i].seq <= q.seq
    BY <2>1, <2>2
  <2> QED
    BY <2>1, <2>3 DEF Logged
<1> QED
  BY <1>1, <1>2

LEMMA NewLogged == \A log : Logged(log, NewJob)
  BY DEF Logged, NewJob

LEMMA FinishLogged ==
  ASSUME TypeOK, NEW s \in Sups, NEW st \in States, NEW v \in BOOLEAN, Finish(s, st, v)
  PROVE  /\ \A r \in Job : Logged(stateLog, r) => Logged(stateLog', r)
         /\ Logged(stateLog', mem'[s])
         /\ \A t \in Sups \ {s} : mem'[t] = mem[t]
<1> DEFINE e == [seq |-> mem[s].seq + 1, state |-> st]
<1>1. stateLog' = Append(stateLog, e) /\ mem[s] \in Job /\ stateLog \in Seq(Event)
  BY DEF Finish, TypeOK
<1>2. e \in Event
  BY <1>1, FinishedType
<1>3. mem'[s] \in Job
  BY FinishType
<1>4. e.state = mem'[s].state /\ e.seq <= mem'[s].seq
  BY <1>1, FinishEffect, FieldTypes
<1> HIDE DEF e
<1>5. Logged(stateLog', mem'[s])
  BY <1>1, <1>2, <1>3, <1>4, LogHit
<1>6. \A r \in Job : Logged(stateLog, r) => Logged(stateLog', r)
  BY <1>1, <1>2, LogGrows
<1> QED
  BY <1>5, <1>6, FinishEffect

(* Every copy of a record follows the event of its state.                  *)
LEMMA LogStep ==
  ASSUME TypeOK, LogInv, [Next]_vars
  PROVE  LogInv'
<1> USE DEF TypeOK, LogInv, files, procs
<1>1. ASSUME NEW s \in Sups, SubmitCreate(s) PROVE LogInv'
  BY <1>1 DEF SubmitCreate
<1>2. ASSUME NEW s \in Sups, CreateRecord(s) PROVE LogInv'
  BY <1>2, NewLogged DEF CreateRecord
<1>3. ASSUME NEW s \in Sups, CreateEvent(s) PROVE LogInv'
  <2>1. [seq |-> 1, state |-> "queued"] \in Event
    BY EventType DEF States, Active
  <2>2. \A r \in Job : Logged(stateLog, r) => Logged(stateLog', r)
    BY <1>3, <2>1, LogGrows DEF CreateEvent
  <2> QED
    BY <1>3, <2>2 DEF CreateEvent
<1>4. ASSUME NEW s \in Sups, StartSupervisor(s) PROVE LogInv'
  BY <1>4 DEF StartSupervisor
<1>5. ASSUME NEW s \in Sups, SupRead(s) PROVE LogInv'
  BY <1>5 DEF SupRead
<1>6. ASSUME NEW s \in Sups, SupClaim(s) PROVE LogInv'
  BY <1>6 DEF SupClaim
<1>7. ASSUME NEW s \in Sups, SupClaimPid(s) PROVE LogInv'
  BY <1>7 DEF SupClaimPid
<1>8. ASSUME NEW s \in Sups, SupCheckCancel(s) PROVE LogInv'
  <2>1. CASE cancelFile
    <3>1. Finish(s, "cancelled", TRUE) /\ "cancelled" \in States
      BY <1>8, <2>1 DEF SupCheckCancel, States, Terminal
    <3>2. /\ \A r \in Job : Logged(stateLog, r) => Logged(stateLog', r)
          /\ Logged(stateLog', mem'[s]) /\ \A t \in Sups \ {s} : mem'[t] = mem[t]
      BY <3>1, FinishLogged
    <3> QED
      BY <1>8, <3>2 DEF SupCheckCancel
  <2>2. CASE ~cancelFile
    <3>1. mem'[s] = [mem[s] EXCEPT !.pid = s] /\ mem[s] \in Job
      BY <1>8, <2>2 DEF SupCheckCancel
    <3>2. mem'[s].state = mem[s].state /\ mem'[s].seq = mem[s].seq
      BY <3>1, PidFields
    <3>3. stateLog' = stateLog /\ \A t \in Sups \ {s} : mem'[t] = mem[t]
      BY <1>8, <2>2 DEF SupCheckCancel
    <3>4. Logged(stateLog', mem'[s])
      BY <3>2, <3>3 DEF Logged
    <3> QED
      BY <1>8, <3>3, <3>4 DEF SupCheckCancel
  <2> QED
    BY <2>1, <2>2
<1>9. ASSUME NEW s \in Sups, SupTmp(s) PROVE LogInv'
  BY <1>9 DEF SupTmp
<1>10. ASSUME NEW s \in Sups, SupRename(s) PROVE LogInv'
  BY <1>10 DEF SupRename
<1>11. ASSUME NEW s \in Sups, SupStart(s) PROVE LogInv'
  <2>1. CASE UNCHANGED <<mem, stateLog>>
    BY <1>11, <2>1 DEF SupStart
  <2>2. CASE Finish(s, "failed", FALSE)
    <3>1. /\ \A r \in Job : Logged(stateLog, r) => Logged(stateLog', r)
          /\ Logged(stateLog', mem'[s]) /\ \A t \in Sups \ {s} : mem'[t] = mem[t]
      BY <2>2, FinishLogged DEF States, Terminal
    <3> QED
      BY <1>11, <3>1 DEF SupStart
  <2> QED
    BY <1>11, <2>1, <2>2 DEF SupStart
<1>12. ASSUME NEW s \in Sups, SupRunning(s) PROVE LogInv'
  <2> DEFINE e == [seq |-> mem[s].seq + 1, state |-> "running"]
  <2>1. mem[s] \in Job /\ mem'[s] = Started(mem[s], s) /\ stateLog' = Append(stateLog, e)
    BY <1>12 DEF SupRunning
  <2>2. e \in Event /\ mem'[s] \in Job
    BY <2>1, RunningType
  <2>3. e.state = mem'[s].state /\ e.seq <= mem'[s].seq
    BY <2>1, StartedFields, FieldTypes
  <2> HIDE DEF e
  <2>4. \A r \in Job : Logged(stateLog, r) => Logged(stateLog', r)
    BY <2>1, <2>2, LogGrows
  <2>5. Logged(stateLog', mem'[s])
    BY <2>1, <2>2, <2>3, LogHit
  <2> QED
    BY <1>12, <2>4, <2>5 DEF SupRunning
<1>13. ASSUME NEW s \in Sups, SupOutput(s) PROVE LogInv'
  <2> DEFINE whole == outputLog' = outputLog \cup {mem[s].seq + 1}
             cap   == Captured(mem[s], whole)
  <2>1. cap \in Job /\ cap.state = mem[s].state /\ cap.seq = mem[s].seq + 1
    BY CapturedFields, CapturedType
  <2>2. mem'[s] = mem[s] \/ mem'[s] = cap
    BY <1>13 DEF SupOutput
  <2> HIDE DEF cap
  <2>3. Logged(stateLog, mem'[s])
    <3>1. mem[s] \in Job /\ mem[s].seq <= cap.seq
      BY <2>1, FieldTypes
    <3> QED
      BY <2>1, <2>2, <3>1, LogEdit
  <2> QED
    BY <1>13, <2>3 DEF SupOutput
<1>14. ASSUME NEW s \in Sups, SupWait(s) PROVE LogInv'
  <2>1. PICK st \in States, v \in BOOLEAN : Finish(s, st, v)
    BY <1>14, WaitEffect
  <2>2. /\ \A r \in Job : Logged(stateLog, r) => Logged(stateLog', r)
        /\ Logged(stateLog', mem'[s]) /\ \A t \in Sups \ {s} : mem'[t] = mem[t]
    BY <2>1, FinishLogged
  <2> QED
    BY <1>14, <2>2 DEF SupWait
<1>15. ASSUME NEW s \in Sups, TimeoutMark(s) PROVE LogInv'
  BY <1>15 DEF TimeoutMark
<1>16. ASSUME NEW s \in Sups, TimeoutKill(s) PROVE LogInv'
  BY <1>16 DEF TimeoutKill
<1>17. ASSUME NEW s \in Sups, CommandExits(s) PROVE LogInv'
  BY <1>17 DEF CommandExits
<1>18. ASSUME NEW s \in Sups, SupCrash(s) PROVE LogInv'
  BY <1>18 DEF SupCrash
<1>19. ASSUME NEW s \in Sups, SupIOError(s) PROVE LogInv'
  BY <1>19 DEF SupIOError
<1>20. CASE RecRead
  <2>1. rec' = [pc |-> "decide", job |-> job] \/ UNCHANGED rec
    BY <1>20 DEF RecRead
  <2> QED
    BY <1>20, <2>1 DEF RecRead
<1>21. CASE RecDecide
  <2> DEFINE lost == Finished(rec.job, "lost", FALSE)
             upd  == [rec.job EXCEPT !.pid = claim]
  <2>1. lost.state = "lost"
    BY LostFields
  <2>2. claim \in Sups => upd.state = rec.job.state /\ upd.seq = rec.job.seq
    BY PidFields
  <2>3. \/ rec' = NoRec
        \/ rec' = [pc |-> "append", job |-> lost]
        \/ claim \in Sups /\ rec' = [pc |-> "tmp", job |-> upd]
    BY <1>21 DEF RecDecide
  <2>4. Logged(stateLog, rec.job)
    BY <1>21 DEF RecDecide
  <2> HIDE DEF lost, upd
  <2>5. claim \in Sups => Logged(stateLog, upd)
    BY <2>2, <2>4 DEF Logged
  <2>6. /\ rec'.pc # "append" => Logged(stateLog, rec'.job)
        /\ rec'.pc = "append" => rec'.job.state = "lost"
    BY <2>1, <2>3, <2>5, NewLogged DEF NoRec
  <2> QED
    BY <1>21, <2>6 DEF RecDecide
<1>22. CASE RecAppend
  <2> DEFINE e == [seq |-> rec.job.seq, state |-> "lost"]
  <2>1. e \in Event /\ rec.job \in Job /\ e.seq = rec.job.seq /\ e.seq <= rec.job.seq
    BY EventType, FieldTypes DEF States, Terminal
  <2>2. rec.job.state = "lost" /\ e.state = "lost"
    BY <1>22 DEF RecAppend
  <2>3. stateLog' = Append(stateLog, e) /\ rec'.pc = "tmp" /\ rec'.job = rec.job
    BY <1>22 DEF RecAppend
  <2> HIDE DEF e
  <2>4. \A r \in Job : Logged(stateLog, r) => Logged(stateLog', r)
    BY <2>1, <2>3, LogGrows
  <2>5. Logged(stateLog', rec'.job)
    BY <2>1, <2>2, <2>3, LogHit
  <2> QED
    BY <1>22, <2>3, <2>4, <2>5 DEF RecAppend
<1>23. CASE RecTmp
  BY <1>23 DEF RecTmp
<1>24. CASE RecRename
  <2>1. rec' = NoRec
    BY <1>24 DEF RecRename
  <2>2. job' \in tmp \cup {job} /\ tmp' \subseteq tmp
    BY <1>24 DEF RecRename
  <2> QED
    BY <1>24, <2>1, <2>2, NewLogged DEF RecRename, NoRec
<1>25. CASE Age
  BY <1>25 DEF Age
<1>26. CASE CancelBegin
  BY <1>26 DEF CancelBegin
<1>27. CASE CancelMark
  BY <1>27 DEF CancelMark
<1>28. CASE CancelAwaitGroup
  BY <1>28 DEF CancelAwaitGroup
<1>29. CASE CancelTerm
  BY <1>29 DEF CancelTerm
<1>30. CASE CancelPoll
  BY <1>30 DEF CancelPoll
<1>31. CASE CancelKill
  BY <1>31 DEF CancelKill
<1>32. CASE CancelGiveUp
  BY <1>32 DEF CancelGiveUp
<1>33. CASE ServerCrash
  <2>1. rec' = NoRec
    BY <1>33 DEF ServerCrash
  <2> QED
    BY <1>33, <2>1, NewLogged DEF ServerCrash, NoRec
<1>34. CASE ServerStart
  BY <1>34 DEF ServerStart
<1>35. CASE UNCHANGED vars
  BY <1>35 DEF vars
<1> QED
  BY <1>1, <1>2, <1>3, <1>4, <1>5, <1>6, <1>7, <1>8, <1>9, <1>10, <1>11, <1>12,
     <1>13, <1>14, <1>15, <1>16, <1>17, <1>18, <1>19, <1>20, <1>21, <1>22, <1>23, <1>24,
     <1>25, <1>26, <1>27, <1>28, <1>29, <1>30, <1>31, <1>32, <1>33, <1>34, <1>35
  DEF Next, Submit, Supervise, Timer, Reconcile, Cancel, Environment

(* The inductive invariant of the Runner.                                  *)
LEMMA InvInit == Init => IInv
<1> SUFFICES ASSUME Init PROVE IInv
  OBVIOUS
<1>1. TruthInv
  BY NewTruthful DEF Init, TruthInv, Truthful, NoRec
<1>2. LogInv
  BY NewLogged DEF Init, LogInv, NoRec
<1> QED
  BY <1>1, <1>2, ShapeInit DEF IInv, Shape

LEMMA InvStep == IInv /\ [Next]_vars => IInv'
  BY ShapeStep, TruthStep, LogStep DEF IInv, Shape

LEMMA Invariant == Spec => []IInv
  BY InvInit, InvStep, PTL DEF Spec

(* cancellationVerified in job.json means that no member of the process    *)
(* group runs, however the writes of job.json by the server and by the     *)
(* supervisors interleave.                                                 *)
THEOREM VerifiedIsTrue == Spec => []VerifiedMeansStopped
<1>1. IInv => VerifiedMeansStopped
  BY DEF IInv, TruthInv, Truthful, Quiet, VerifiedMeansStopped, AnyRunning
<1> QED
  BY <1>1, Invariant, PTL

(* A terminal state other than lost means that the command was reaped.     *)
THEOREM TerminalIsTrue == Spec => []OnlyLostIsAmbiguous
<1>1. IInv => OnlyLostIsAmbiguous
  BY DEF IInv, TruthInv, Truthful, Ended, OnlyLostIsAmbiguous
<1> QED
  BY <1>1, Invariant, PTL

(* The cancel RPC answers success only for a command that does not run and *)
(* never will.                                                             *)
THEOREM CancelIsTrue == Spec => []CancelAnswerHolds
<1>1. IInv => CancelAnswerHolds
  BY DEF IInv, TruthInv, Quiet, CancelAnswerHolds, AnyRunning
<1> QED
  BY <1>1, Invariant, PTL

(* Write-ahead order of events.jsonl and job.json.                         *)
THEOREM EventFirst == Spec => []RecordFollowsEvent
<1>1. IInv => RecordFollowsEvent
  BY DEF IInv, LogInv, Logged, RecordFollowsEvent
<1> QED
  BY <1>1, Invariant, PTL
=============================================================================
