--------------------------- MODULE LifecycleProofs ---------------------------
(***************************************************************************)
(* Proofs about Lifecycle, for any number of jobs, slots, attempts and     *)
(* faults.  The invariant says of each job what the coordinator and the    *)
(* host may have done with it so far: a job that is not running yet left   *)
(* no trace on any host, an execution awaits only what its record allows,  *)
(* a verified cancellation rests on a job that cannot start any more, and  *)
(* the record on disk lags behind the one in memory only where a crash     *)
(* may forget the difference.                                              *)
(***************************************************************************)
EXTENDS Lifecycle, SequenceTheorems, TLAPS

(* No submit, exec or spawn of j has left the coordinator.                 *)
Untouched(j) ==
  starts[j] = 0 /\ j \notin flight /\ j \notin running /\ runner[j].state = "none"

(* The command of j does not run and will not: the Runner has verified its *)
(* end, or it ended before it was ever submitted.                          *)
Stopped(j) ==
  \/ runner[j].verified = "yes"
  \/ Untouched(j) /\ job[j].state \in Terminal

HostInv(j) ==
  /\ starts[j] \in {0, 1}
  /\ j \in running => starts[j] = 1
  /\ j \in flight /\ runner[j].state = "none" =>
       starts[j] = 0 /\ job[j].state \in {"running", "cancelled", "lost"}
  /\ runner[j].state \notin {"none", "failed"} => starts[j] = 1
  /\ runner[j].verified = "yes" =>
       runner[j].state \in {"cancelled", "timed_out"} /\ j \notin running

ExecInv(j) ==
  /\ job[j].state \in {"absent", "queued"} => Untouched(j)
  /\ at[j] # "idle" => up /\ job[j].state = "running"
  /\ at[j] = "idle" => handle[j] = "none"
  /\ at[j] \in {"ping", "connect"} => Untouched(j)
  /\ at[j] = "submit" /\ runner[j].state = "none" => starts[j] = 0
  /\ at[j] \in {"exec", "local"} => j \notin flight /\ runner[j].state = "none"
  /\ at[j] \in {"watch", "rewatch"} => runner[j].state # "none"
  /\ handle[j] = "local" => Mode[j] = "local"

(* What holds of a record of j, in memory or on disk.                      *)
RecordInv(j, r) ==
  /\ r.backend = "local" <=> Mode[j] = "local"
  /\ r.state = "absent" => r.flags = {}
  /\ r.state = "queued" => r.flags \subseteq {"waiting"}
  /\ "waiting" \in r.flags => r.state = "queued"
  /\ r.approval = "approved" => grant[j] # "none"
  /\ r.verified = "yes" /\ j \notin early /\ Mode[j] # "local" => Stopped(j)

(* What a crash may forget.                                                *)
DiskInv(j) ==
  /\ disk[j].state = job[j].state \/ (disk[j].state = "absent" /\ job[j].state = "queued")
  /\ "cancel" \in disk[j].flags <=> "cancel" \in job[j].flags

JobInv(j) ==
  HostInv(j) /\ ExecInv(j) /\ RecordInv(j, job[j]) /\ RecordInv(j, disk[j]) /\ DiskInv(j)

(* What drain may run.                                                     *)
Runnable(j) ==
  /\ j \in pending /\ job[j].state = "queued" /\ "waiting" \notin job[j].flags
  /\ j \in Gated => job[j].approval = "approved"

QueueInv ==
  /\ queue \in Seq(Jobs)
  /\ \A i \in 1..Len(queue) : Runnable(queue[i])
  /\ \A i, k \in 1..Len(queue) : queue[i] = queue[k] => i = k
  /\ ~up => queue = <<>> /\ job = disk

IInv == TypeOK /\ QueueInv /\ \A j \in Jobs : JobInv(j)
-----------------------------------------------------------------------------
(***************************************************************************)
(* Lemmas about records.                                                   *)
(***************************************************************************)
LEMMA EditedRecords ==
  ASSUME NEW r \in Job, NEW f \in {"cancel", "waiting", "remote"}
  PROVE  /\ With(r, f) \in Job /\ Without(r, f) \in Job
         /\ With(r, f).state = r.state /\ With(r, f).backend = r.backend
         /\ With(r, f).approval = r.approval /\ With(r, f).verified = r.verified
         /\ With(r, f).flags = r.flags \cup {f}
         /\ Without(r, f).state = r.state /\ Without(r, f).backend = r.backend
         /\ Without(r, f).approval = r.approval /\ Without(r, f).verified = r.verified
         /\ Without(r, f).flags = r.flags \ {f}
  BY DEF With, Without, Job

LEMMA FinishedRecord ==
  ASSUME NEW r \in Job, NEW st \in Terminal
  PROVE  /\ Finished(r, st) \in Job
         /\ Finished(r, st).state = st /\ Finished(r, st).backend = r.backend
         /\ Finished(r, st).approval = r.approval /\ Finished(r, st).verified = r.verified
         /\ Finished(r, st).flags = r.flags \ {"waiting"}
<1> DEFINE w == Without(r, "waiting")
<1>1. /\ w \in Job /\ w.backend = r.backend /\ w.approval = r.approval
      /\ w.verified = r.verified /\ w.flags = r.flags \ {"waiting"}
  BY EditedRecords
<1>2. Finished(r, st) = [w EXCEPT !.state = st]
  BY DEF Finished
<1> HIDE DEF w
<1> QED BY <1>1, <1>2 DEF Job, Terminal

LEMMA CompletedRecord ==
  ASSUME NEW r \in Job, NEW st \in Terminal, NEW v \in {"unset", "yes", "no"}, NEW c,
         \E zero \in BOOLEAN : c = Completed(r, st, zero, v)
  PROVE  /\ c \in Job /\ c.state \in Terminal
         /\ c.backend = r.backend /\ c.approval = r.approval
         /\ c.verified = (IF v = "unset" THEN r.verified ELSE v)
         /\ c.flags = r.flags \ {"waiting"}
         /\ "cancel" \in r.flags => c.state = "cancelled"
<1>0. PICK zero \in BOOLEAN : c = Completed(r, st, zero, v)
  OBVIOUS
<1> DEFINE e  == [r EXCEPT !.verified = IF v = "unset" THEN @ ELSE v]
           cs == IF Has(r, "cancel") THEN "cancelled" ELSE Result(st, zero)
<1>1. e \in Job /\ e.backend = r.backend /\ e.approval = r.approval /\ e.flags = r.flags
      /\ e.verified = (IF v = "unset" THEN r.verified ELSE v)
  BY DEF Job
<1>2. cs \in Terminal /\ ("cancel" \in r.flags => cs = "cancelled")
  BY DEF Has, Result, Terminal
<1>3. c = Finished(e, cs)
  BY <1>0 DEF Completed
<1> HIDE DEF e, cs
<1> QED BY <1>1, <1>2, <1>3, FinishedRecord

LEMMA ErroredRecord ==
  ASSUME NEW r \in Job, NEW code, NEW c, c = Errored(r, code)
  PROVE  /\ c \in Job /\ c.state \in {"cancelled", "lost", "failed"}
         /\ c.backend = r.backend /\ c.approval = r.approval /\ c.verified = r.verified
         /\ c.flags = r.flags \ {"waiting"}
         /\ "cancel" \in r.flags => c.state = "cancelled"
         /\ code = "lost" => c.state \in {"cancelled", "lost"}
<1> DEFINE cs == IF Has(r, "cancel") THEN "cancelled"
                 ELSE IF code = "lost" THEN "lost" ELSE "failed"
<1>1. /\ cs \in Terminal /\ cs \in {"cancelled", "lost", "failed"}
      /\ "cancel" \in r.flags => cs = "cancelled"
      /\ code = "lost" => cs \in {"cancelled", "lost"}
  BY DEF Has, Terminal
<1>2. c = Finished(r, cs)
  BY DEF Errored
<1> HIDE DEF cs
<1> QED BY <1>1, <1>2, FinishedRecord

LEMMA NewRecord ==
  ASSUME NEW j \in Jobs
  PROVE  /\ NoJob(j) \in Job /\ Started(j) \in Job
         /\ NoJob(j).state = "absent" /\ NoJob(j).verified = "unset" /\ NoJob(j).flags = {}
         /\ NoJob(j).approval = "not_required"
         /\ NoJob(j).backend = "local" <=> Mode[j] = "local"
         /\ Started(j).state = "queued" /\ Started(j).verified = "unset"
         /\ Started(j).backend = "local" <=> Mode[j] = "local"
         /\ Started(j).approval = (IF j \in Gated THEN "pending" ELSE "not_required")
         /\ Started(j).flags = (IF j \in Gated THEN {"waiting"} ELSE {})
<1>1. Backend(j) \in {"local", "ssh_direct", "ssh_runner"}
      /\ (Backend(j) = "local" <=> Mode[j] = "local")
  BY LifecycleAssumption DEF Backend
<1> QED BY <1>1 DEF NoJob, Started, Job, Active
-----------------------------------------------------------------------------
(***************************************************************************)
(* Lemmas about the queue.                                                 *)
(***************************************************************************)
LEMMA QueueAppend ==
  ASSUME QueueInv, up, NEW j \in Jobs, ~Runnable(j), queue' = Append(queue, j), up',
         Runnable(j)', \A k \in Jobs : Runnable(k) => Runnable(k)'
  PROVE  QueueInv'
<1>1. /\ queue' \in Seq(Jobs) /\ Len(queue') = Len(queue) + 1
      /\ queue'[Len(queue) + 1] = j
      /\ \A i \in 1..Len(queue) : queue'[i] = queue[i]
  BY DEF QueueInv
<1>2. \A i \in 1..Len(queue) : queue[i] \in Jobs /\ queue[i] # j
  BY DEF QueueInv
<1> QED BY <1>1, <1>2 DEF QueueInv

LEMMA QueueTail ==
  ASSUME QueueInv, queue # <<>>, queue' = Tail(queue), up',
         \A k \in Jobs : k # Head(queue) /\ Runnable(k) => Runnable(k)'
  PROVE  QueueInv'
<1>1. /\ queue' \in Seq(Jobs) /\ Len(queue) >= 1 /\ Len(queue') = Len(queue) - 1
      /\ Head(queue) = queue[1]
      /\ \A i \in 1..Len(queue') : queue'[i] = queue[i + 1]
  BY DEF QueueInv
<1>2. \A i \in 1..Len(queue') : queue[i + 1] \in Jobs /\ queue[i + 1] # Head(queue)
  BY <1>1 DEF QueueInv
<1> QED BY <1>1, <1>2 DEF QueueInv

LEMMA QueueSame ==
  ASSUME QueueInv, queue' = queue, up',
         \A k \in Jobs : Runnable(k) => Runnable(k)'
  PROVE  QueueInv'
  BY DEF QueueInv

LEMMA DequeuedQueue ==
  ASSUME QueueInv, NEW j \in Jobs, queue' = Dequeued(j), up',
         \A k \in Jobs : k # j /\ Runnable(k) => Runnable(k)'
  PROVE  QueueInv'
<1> DEFINE places == {i \in DOMAIN queue : queue[i] = j}
           first  == CHOOSE i \in places : \A k \in places : i <= k
<1>0. queue \in Seq(Jobs) /\ DOMAIN queue = 1..Len(queue) /\ Len(queue) \in Nat
  BY DEF QueueInv
<1>1. CASE places = {}
  <2>1. queue' = queue
    BY <1>1 DEF Dequeued
  <2> QED BY <2>1, <1>0, <1>1 DEF QueueInv
<1>2. CASE places # {}
  <2>1. PICK p \in 1..Len(queue) : queue[p] = j
    BY <1>0, <1>2
  <2>2. places = {p}
    BY <1>0, <2>1 DEF QueueInv
  <2>3. first = p
    <3>1. p \in places /\ \A k \in places : p <= k
      BY <2>2, <1>0
    <3>2. first \in places
      BY <3>1
    <3> QED BY <3>2, <2>2
  <2>4. queue' = SubSeq(queue, 1, p - 1) \o SubSeq(queue, p + 1, Len(queue))
    BY <1>2, <2>3 DEF Dequeued
  <2> DEFINE a == SubSeq(queue, 1, p - 1)
             b == SubSeq(queue, p + 1, Len(queue))
  <2>5. /\ a \in Seq(Jobs) /\ Len(a) = p - 1
        /\ \A i \in 1..(p - 1) : a[i] = queue[i]
    BY <1>0, <2>1, SubSeqProperties
  <2>6. /\ b \in Seq(Jobs) /\ Len(b) = Len(queue) - p
        /\ \A i \in 1..(Len(queue) - p) : b[i] = queue[i + p]
    <3>1. p + 1 \in Int /\ Len(queue) \in Int /\ \A i \in (p + 1)..Len(queue) : queue[i] \in Jobs
      BY <1>0, <2>1
    <3>2. /\ b \in Seq(Jobs)
          /\ Len(b) = IF p + 1 <= Len(queue) THEN Len(queue) - (p + 1) + 1 ELSE 0
          /\ \A i \in 1..(Len(queue) - (p + 1) + 1) : b[i] = queue[(p + 1) + i - 1]
      BY <3>1, SubSeqProperties
    <3>3. \A i \in 1..(Len(queue) - p) :
            (p + 1) + i - 1 = i + p /\ i \in 1..(Len(queue) - (p + 1) + 1)
      BY <1>0, <2>1
    <3> HIDE DEF b
    <3>4. Len(b) = Len(queue) - p
      <4>1. Len(b) = IF p + 1 <= Len(queue) THEN Len(queue) - (p + 1) + 1 ELSE 0
        BY <3>2
      <4>2. p \in Nat /\ p <= Len(queue) /\ Len(queue) \in Nat
        BY <1>0, <2>1
      <4> QED BY <4>1, <4>2
    <3>5. ASSUME NEW i \in 1..(Len(queue) - p)
          PROVE  b[i] = queue[i + p]
      <4>1. (p + 1) + i - 1 = i + p /\ i \in 1..(Len(queue) - (p + 1) + 1)
        BY <3>3
      <4>2. b[i] = queue[(p + 1) + i - 1]
        BY <3>2, <4>1
      <4> QED BY <4>1, <4>2
    <3> QED BY <3>2, <3>4, <3>5
  <2>7. /\ queue' \in Seq(Jobs) /\ Len(queue') = Len(queue) - 1
        /\ \A i \in 1..Len(queue') : queue'[i] = IF i < p THEN queue[i] ELSE queue[i + 1]
    <3> HIDE DEF a, b
    <3>1. queue' = a \o b
      BY <2>4 DEF a, b
    <3>2. /\ queue' \in Seq(Jobs) /\ Len(queue') = Len(a) + Len(b)
          /\ \A i \in 1..Len(a) + Len(b) :
               queue'[i] = IF i <= Len(a) THEN a[i] ELSE b[i - Len(a)]
      <4>1. a \in Seq(Jobs) /\ b \in Seq(Jobs)
        BY <2>5, <2>6
      <4>2. /\ a \o b \in Seq(Jobs) /\ Len(a \o b) = Len(a) + Len(b)
            /\ \A i \in 1..Len(a) + Len(b) :
                 (a \o b)[i] = IF i <= Len(a) THEN a[i] ELSE b[i - Len(a)]
        BY <4>1, ConcatProperties
      <4> QED BY <3>1, <4>2, Zenon
    <3>3. Len(queue') = Len(queue) - 1
      BY <3>2, <2>5, <2>6, <2>1, <1>0
    <3>4. ASSUME NEW i \in 1..Len(queue')
          PROVE  queue'[i] = IF i < p THEN queue[i] ELSE queue[i + 1]
      <4>1. CASE i < p
        BY <4>1, <3>2, <3>3, <2>5, <2>6, <2>1, <1>0
      <4>2. CASE ~(i < p)
        <5>1. i - (p - 1) \in 1..(Len(queue) - p) /\ i - (p - 1) + p = i + 1
          BY <4>2, <3>3, <2>1, <1>0
        <5>2. queue'[i] = b[i - (p - 1)]
          BY <4>2, <3>2, <2>5, <2>6, <2>1, <1>0
        <5> QED BY <5>1, <5>2, <2>6, <4>2
      <4> QED BY <4>1, <4>2
    <3> QED BY <3>2, <3>3, <3>4
  <2>8. \A i \in 1..Len(queue) : i # p => queue[i] \in Jobs /\ queue[i] # j
    BY <1>0, <2>2
  <2> HIDE DEF a, b, places, first
  <2> QED BY <2>1, <2>7, <2>8, <1>0 DEF QueueInv
<1> QED BY <1>1, <1>2
-----------------------------------------------------------------------------
(***************************************************************************)
(* The frame of a step: what it must leave alone of a job for the          *)
(* invariant to survive.  A save also writes the records of other jobs.    *)
(***************************************************************************)
Same(k) ==
  /\ job'[k] = job[k] /\ disk'[k] \in {disk[k], job[k]}
  /\ at'[k] = at[k] /\ handle'[k] = handle[k]
  /\ runner'[k] = runner[k] /\ starts'[k] = starts[k] /\ grant'[k] = grant[k]
  /\ k \in flight' <=> k \in flight
  /\ k \in running' <=> k \in running
  /\ k \in early' <=> k \in early
  /\ up' = up

LEMMA Frame ==
  ASSUME NEW k \in Jobs, JobInv(k), Same(k)
  PROVE  JobInv(k)'
<1>1. Untouched(k)' <=> Untouched(k)
  BY DEF Untouched, Same
<1>2. Stopped(k)' <=> Stopped(k)
  BY <1>1 DEF Stopped, Same
<1>3. HostInv(k)' /\ ExecInv(k)'
  BY <1>1 DEF HostInv, ExecInv, Same, JobInv
<1>4. RecordInv(k, job[k])'
  BY <1>2 DEF RecordInv, Same, JobInv
<1>5. RecordInv(k, disk[k])'
  BY <1>2 DEF RecordInv, Same, JobInv
<1>6. DiskInv(k)'
  BY DEF DiskInv, Same, JobInv
<1> QED BY <1>3, <1>4, <1>5, <1>6 DEF JobInv

LEMMA Assemble ==
  ASSUME IInv, NEW j \in Jobs, TypeOK', QueueInv', JobInv(j)',
         \A k \in Jobs : k # j => Same(k)
  PROVE  IInv'
  BY Frame DEF IInv

(* The queue does not change and nothing in it is touched.                 *)
LEMMA QueueKept ==
  ASSUME IInv, queue' = queue, pending' = pending, up' = up, up,
         \A k \in Jobs : job[k].state = "queued" => job'[k] = job[k]
  PROVE  QueueInv'
<1>1. \A k \in Jobs : Runnable(k) => Runnable(k)'
  BY DEF Runnable
<1> QED BY <1>1, QueueSame DEF IInv
-----------------------------------------------------------------------------
(***************************************************************************)
(* The host.                                                               *)
(***************************************************************************)
LEMMA HostQueue ==
  ASSUME IInv, UNCHANGED <<table, sched, up>>
  PROVE  QueueInv'
  BY DEF IInv, QueueInv, Runnable, table, sched

LEMMA DeliverStep ==
  ASSUME IInv, NEW j \in Jobs, Deliver(j)
  PROVE  IInv'
<1>1. TypeOK'
  BY DEF IInv, TypeOK, Deliver, table, sched, execution, ghosts, Remote, Active, Terminal
<1>2. QueueInv'
  BY HostQueue DEF Deliver
<1>3. \A k \in Jobs : k # j => Same(k)
  BY DEF Deliver, Same, table, sched, execution, ghosts, IInv, TypeOK
<1>4. JobInv(j)'
  <2>0. JobInv(j)
    BY DEF IInv
  <2>1. HostInv(j)'
    BY <2>0 DEF Deliver, JobInv, HostInv, ExecInv, table, execution, IInv, TypeOK, Remote
  <2>2. ExecInv(j)'
    BY <2>0
       DEF Deliver, JobInv, HostInv, ExecInv, table, execution, IInv, TypeOK, Remote,
           Untouched
  <2>3. RecordInv(j, job[j])' /\ RecordInv(j, disk[j])'
    BY <2>0
       DEF Deliver, JobInv, RecordInv, HostInv, table, ghosts, Stopped, Untouched, IInv,
           TypeOK, Remote
  <2>4. DiskInv(j)'
    BY <2>0 DEF Deliver, JobInv, DiskInv, table
  <2> QED BY <2>1, <2>2, <2>3, <2>4 DEF JobInv
<1> QED BY <1>1, <1>2, <1>3, <1>4, Assemble

LEMMA RunnerEndsStep ==
  ASSUME IInv, NEW j \in Jobs, RunnerEnds(j)
  PROVE  IInv'
<1>1. TypeOK'
  BY DEF IInv, TypeOK, RunnerEnds, table, sched, execution, ghosts, Remote, Active, Terminal
<1>2. QueueInv'
  BY HostQueue DEF RunnerEnds
<1>3. \A k \in Jobs : k # j => Same(k)
  BY DEF RunnerEnds, Same, table, sched, execution, ghosts, IInv, TypeOK
<1>4. JobInv(j)'
  <2>0. JobInv(j)
    BY DEF IInv
  <2>1. HostInv(j)'
    BY <2>0
       DEF RunnerEnds, JobInv, HostInv, ExecInv, table, execution, IInv, TypeOK, Remote,
           Terminal
  <2>2. ExecInv(j)'
    BY <2>0
       DEF RunnerEnds, JobInv, HostInv, ExecInv, table, execution, IInv, TypeOK, Remote,
           Untouched, Terminal
  <2>3. RecordInv(j, job[j])' /\ RecordInv(j, disk[j])'
    BY <2>0
       DEF RunnerEnds, JobInv, RecordInv, HostInv, table, ghosts, Stopped, Untouched, IInv,
           TypeOK, Remote, Terminal
  <2>4. DiskInv(j)'
    BY <2>0 DEF RunnerEnds, JobInv, DiskInv, table
  <2> QED BY <2>1, <2>2, <2>3, <2>4 DEF JobInv
<1> QED BY <1>1, <1>2, <1>3, <1>4, Assemble

LEMMA OrphanExitsStep ==
  ASSUME IInv, NEW j \in Jobs, OrphanExits(j)
  PROVE  IInv'
<1>1. TypeOK'
  BY DEF IInv, TypeOK, OrphanExits, table, sched, execution, ghosts
<1>2. QueueInv'
  BY HostQueue DEF OrphanExits
<1>3. \A k \in Jobs : k # j => Same(k)
  BY DEF OrphanExits, Same, table, sched, execution, ghosts
<1>4. JobInv(j)'
  <2>0. JobInv(j)
    BY DEF IInv
  <2>1. HostInv(j)' /\ ExecInv(j)'
    BY <2>0 DEF OrphanExits, JobInv, HostInv, ExecInv, table, execution, Untouched
  <2>2. RecordInv(j, job[j])' /\ RecordInv(j, disk[j])'
    BY <2>0 DEF OrphanExits, JobInv, RecordInv, HostInv, table, ghosts, Stopped, Untouched
  <2>3. DiskInv(j)'
    BY <2>0 DEF OrphanExits, JobInv, DiskInv, table
  <2> QED BY <2>1, <2>2, <2>3 DEF JobInv
<1> QED BY <1>1, <1>2, <1>3, <1>4, Assemble
-----------------------------------------------------------------------------
(***************************************************************************)
(* The end of an execution: every way out of run saves a terminal record   *)
(* and gives the slot back.                                                *)
(***************************************************************************)
LEMMA LeaveStep ==
  ASSUME IInv, NEW j \in Jobs, NEW r \in Job, Free, at[j] # "idle", Leave(j, r),
         r.state \in Terminal, r.backend = job[j].backend, r.approval = job[j].approval,
         "waiting" \notin r.flags,
         r.verified = "yes" => job[j].verified = "yes" \/ runner[j].verified = "yes",
         flight' \in {flight, flight \ {j}}, running' \in {running, running \ {j}},
         j \in flight' /\ runner[j].state = "none" => r.state \in {"cancelled", "lost"},
         UNCHANGED <<runner, starts, tries, rpc, ghosts, up, faults>>
  PROVE  IInv'
<1>0. /\ JobInv(j) /\ job[j].state = "running" /\ up
      /\ job \in [Jobs -> Job] /\ at \in [Jobs -> Awaits]
      /\ handle \in [Jobs -> {"none", "local", "ssh", "runner"}]
  BY DEF IInv, JobInv, ExecInv, TypeOK
<1>1. /\ job' = [job EXCEPT ![j] = r] /\ disk' = job'
      /\ job'[j] = r /\ at'[j] = "idle" /\ handle'[j] = "none"
      /\ \A k \in Jobs : k # j => job'[k] = job[k] /\ disk'[k] = job[k]
                                   /\ at'[k] = at[k] /\ handle'[k] = handle[k]
  BY <1>0 DEF Leave, Save
<1>2. TypeOK'
  <2>1. /\ job' \in [Jobs -> Job] /\ disk' \in [Jobs -> Job] /\ timer' \in BOOLEAN
        /\ at' \in [Jobs -> Awaits]
        /\ handle' \in [Jobs -> {"none", "local", "ssh", "runner"}]
    BY <1>0 DEF Leave, Save, Awaits
  <2>2. drain' \in {"none", "scheduled", "running"}
    BY DEF IInv, TypeOK, Leave, scheduleDrain
  <2> QED BY <2>1, <2>2 DEF IInv, TypeOK, Leave, ghosts
<1>3. QueueInv'
  <2>1. \A k \in Jobs : job[k].state = "queued" => job'[k] = job[k]
    BY <1>0, <1>1
  <2> QED BY <2>1, <1>0, QueueKept DEF Leave
<1>4. \A k \in Jobs : k # j => Same(k)
  BY <1>1 DEF Same, ghosts
<1>5. JobInv(j)'
  <2>1. HostInv(j)' /\ ExecInv(j)'
    BY <1>0, <1>1 DEF JobInv, HostInv, ExecInv, Untouched, Terminal
  <2>2. Stopped(j) => Stopped(j)'
    BY <1>0, <1>1 DEF Stopped, Terminal
  <2>3. RecordInv(j, job[j])'
    BY <1>0, <1>1, <2>2 DEF JobInv, RecordInv, Stopped, Terminal, ghosts
  <2> QED BY <2>1, <2>3, <1>1 DEF JobInv, DiskInv
<1> QED BY <1>2, <1>3, <1>4, <1>5, Assemble

(* An execution ends with an error: run's catch.                           *)
LEMMA ErrorStep ==
  ASSUME IInv, NEW j \in Jobs, NEW code, Free, at[j] # "idle",
         Leave(j, Errored(job[j], code)),
         flight' \in {flight, flight \ {j}},
         j \in flight' /\ runner[j].state = "none" => code = "lost",
         UNCHANGED <<running, runner, starts, tries, rpc, ghosts, up, faults>>
  PROVE  IInv'
<1> DEFINE r == Errored(job[j], code)
<1>1. job[j] \in Job
  BY DEF IInv, TypeOK
<1>2. /\ r \in Job /\ r.state \in Terminal
      /\ r.backend = job[j].backend /\ r.approval = job[j].approval
      /\ "waiting" \notin r.flags /\ r.verified = job[j].verified
      /\ code = "lost" => r.state \in {"cancelled", "lost"}
  BY <1>1, ErroredRecord DEF Terminal
<1> HIDE DEF r
<1> QED BY <1>2, LeaveStep DEF r

(* An execution ends with a result: completeExecution.                     *)
LEMMA CompleteStep ==
  ASSUME IInv, NEW j \in Jobs, NEW st \in Terminal, NEW zero \in BOOLEAN,
         NEW v \in {"unset", "yes", "no"}, Free, at[j] # "idle",
         Leave(j, Completed(job[j], st, zero, v)),
         v = "yes" => runner[j].verified = "yes",
         running' \in {running, running \ {j}},
         j \in flight => runner[j].state # "none",
         UNCHANGED <<flight, runner, starts, tries, rpc, ghosts, up, faults>>
  PROVE  IInv'
<1> DEFINE r == Completed(job[j], st, zero, v)
<1>1. job[j] \in Job
  BY DEF IInv, TypeOK
<1>2. /\ r \in Job /\ r.state \in Terminal
      /\ r.backend = job[j].backend /\ r.approval = job[j].approval
      /\ "waiting" \notin r.flags
      /\ r.verified = "yes" => job[j].verified = "yes" \/ v = "yes"
  <2>0. \E z \in BOOLEAN : r = Completed(job[j], st, z, v)
    OBVIOUS
  <2> HIDE DEF r
  <2>1. /\ r \in Job /\ r.state \in Terminal
        /\ r.backend = job[j].backend /\ r.approval = job[j].approval
        /\ r.verified = (IF v = "unset" THEN job[j].verified ELSE v)
        /\ r.flags = job[j].flags \ {"waiting"}
    BY <1>1, <2>0, CompletedRecord
  <2> QED BY <2>1
<1> HIDE DEF r
<1> QED BY <1>2, LeaveStep DEF r
-----------------------------------------------------------------------------
(***************************************************************************)
(* An execution goes on: the job stays running and its record changes in   *)
(* what a crash may forget.                                                *)
(***************************************************************************)
LEMMA PingOkStep ==
  ASSUME IInv, NEW j \in Jobs, PingOk(j)
  PROVE  IInv'
<1>0. /\ JobInv(j) /\ up /\ up' = up /\ job[j].state = "running"
      /\ job \in [Jobs -> Job] /\ job[j] \in Job
  BY DEF IInv, JobInv, ExecInv, TypeOK, PingOk, Free
<1>1. TypeOK'
  BY <1>0, LifecycleAssumption DEF IInv, TypeOK, PingOk, Changed, sched, ghosts, Awaits
<1>2. QueueInv'
  BY <1>0, QueueKept DEF PingOk, Changed, sched, ghosts
<1>3. \A k \in Jobs : k # j => Same(k)
  BY <1>0 DEF Same, IInv, TypeOK, PingOk, Changed, sched, ghosts
<1>4. JobInv(j)'
  <2>1. HostInv(j)'
    BY <1>0
       DEF JobInv, HostInv, ExecInv, Untouched, IInv, TypeOK, PingOk, Changed, sched, ghosts
  <2>2. ExecInv(j)'
    BY <1>0
       DEF JobInv, HostInv, ExecInv, Untouched, IInv, TypeOK, PingOk, Changed, sched, ghosts
  <2>3. RecordInv(j, job[j])' /\ RecordInv(j, disk[j])'
    BY <1>0
       DEF JobInv, RecordInv, Stopped, Untouched, Terminal, IInv, TypeOK, PingOk, Changed,
           sched, ghosts
  <2>4. DiskInv(j)'
    BY <1>0 DEF JobInv, DiskInv, IInv, TypeOK, PingOk, Changed, sched, ghosts
  <2> QED BY <2>1, <2>2, <2>3, <2>4 DEF JobInv
<1> QED BY <1>1, <1>2, <1>3, <1>4, Assemble

LEMMA SubmitRetryStep ==
  ASSUME IInv, NEW j \in Jobs, SubmitRetry(j)
  PROVE  IInv'
<1>0. /\ JobInv(j) /\ up /\ up' = up /\ job[j].state = "running"
      /\ job \in [Jobs -> Job] /\ job[j] \in Job
  BY DEF IInv, JobInv, ExecInv, TypeOK, SubmitRetry, Free
<1>1. TypeOK'
  BY <1>0, LifecycleAssumption DEF IInv, TypeOK, SubmitRetry, AttemptsLeft, table, sched, ghosts
<1>2. QueueInv'
  BY <1>0, QueueKept DEF SubmitRetry, AttemptsLeft, table, sched, ghosts
<1>3. \A k \in Jobs : k # j => Same(k)
  BY <1>0 DEF Same, IInv, TypeOK, SubmitRetry, AttemptsLeft, table, sched, ghosts
<1>4. JobInv(j)'
  <2>1. HostInv(j)'
    BY <1>0
       DEF JobInv, HostInv, ExecInv, Untouched, IInv, TypeOK, SubmitRetry, AttemptsLeft,
           table, sched, ghosts
  <2>2. ExecInv(j)'
    BY <1>0
       DEF JobInv, HostInv, ExecInv, Untouched, IInv, TypeOK, SubmitRetry, AttemptsLeft,
           table, sched, ghosts
  <2>3. RecordInv(j, job[j])' /\ RecordInv(j, disk[j])'
    BY <1>0
       DEF JobInv, RecordInv, Stopped, Untouched, Terminal, IInv, TypeOK, SubmitRetry,
           AttemptsLeft, table, sched, ghosts
  <2>4. DiskInv(j)'
    BY <1>0 DEF JobInv, DiskInv, IInv, TypeOK, SubmitRetry, AttemptsLeft, table, sched, ghosts
  <2> QED BY <2>1, <2>2, <2>3, <2>4 DEF JobInv
<1> QED BY <1>1, <1>2, <1>3, <1>4, Assemble

LEMMA StillWatchingStep ==
  ASSUME IInv, NEW j \in Jobs, StillWatching(j)
  PROVE  IInv'
<1>0. /\ JobInv(j) /\ up /\ up' = up /\ job[j].state = "running"
      /\ job \in [Jobs -> Job] /\ job[j] \in Job
  BY DEF IInv, JobInv, ExecInv, TypeOK, StillWatching, Free
<1>1. TypeOK'
  BY <1>0 DEF IInv, TypeOK, StillWatching, Changed, sched, execution, host, ghosts
<1>2. QueueInv'
  BY <1>0, QueueKept DEF StillWatching, Changed, sched, execution, host, ghosts
<1>3. \A k \in Jobs : k # j => Same(k)
  BY <1>0 DEF Same, IInv, TypeOK, StillWatching, Changed, sched, execution, host, ghosts
<1>4. JobInv(j)'
  <2>1. HostInv(j)'
    BY <1>0
       DEF JobInv, HostInv, ExecInv, Untouched, IInv, TypeOK, StillWatching, Changed, sched,
           execution, host, ghosts
  <2>2. ExecInv(j)'
    BY <1>0
       DEF JobInv, HostInv, ExecInv, Untouched, IInv, TypeOK, StillWatching, Changed, sched,
           execution, host, ghosts
  <2>3. RecordInv(j, job[j])' /\ RecordInv(j, disk[j])'
    BY <1>0
       DEF JobInv, RecordInv, Stopped, Untouched, Terminal, IInv, TypeOK, StillWatching,
           Changed, sched, execution, host, ghosts
  <2>4. DiskInv(j)'
    BY <1>0
       DEF JobInv, DiskInv, IInv, TypeOK, StillWatching, Changed, sched, execution, host,
           ghosts
  <2> QED BY <2>1, <2>2, <2>3, <2>4 DEF JobInv
<1> QED BY <1>1, <1>2, <1>3, <1>4, Assemble

LEMMA SubmitReplyStep ==
  ASSUME IInv, NEW j \in Jobs, SubmitReply(j)
  PROVE  IInv'
<1>0. /\ JobInv(j) /\ up /\ up' = up /\ job[j].state = "running"
      /\ job \in [Jobs -> Job] /\ job[j] \in Job
  BY DEF IInv, JobInv, ExecInv, TypeOK, SubmitReply, Free
<1> DEFINE r == With(job[j], "remote")
<1>1. /\ r \in Job /\ r.state = "running" /\ r.backend = job[j].backend
      /\ r.approval = job[j].approval /\ r.verified = job[j].verified
      /\ r.flags = job[j].flags \cup {"remote"}
      /\ job' = [job EXCEPT ![j] = r] /\ timer' = TRUE /\ disk' = disk
  BY <1>0, EditedRecords DEF SubmitReply, Changed
<1> HIDE DEF r
<1>2. TypeOK'
  BY <1>0, <1>1 DEF IInv, TypeOK, SubmitReply, Attach, sched, host, ghosts, Awaits
<1>3. QueueInv'
  BY <1>0, <1>1, QueueKept DEF SubmitReply, Attach, sched, host, ghosts
<1>4. \A k \in Jobs : k # j => Same(k)
  BY <1>0, <1>1 DEF Same, IInv, TypeOK, SubmitReply, Attach, sched, host, ghosts
<1>5. JobInv(j)'
  <2>1. HostInv(j)'
    BY <1>0, <1>1
       DEF JobInv, HostInv, ExecInv, Untouched, IInv, TypeOK, SubmitReply, Attach, sched,
           host, ghosts
  <2>2. ExecInv(j)'
    BY <1>0, <1>1
       DEF JobInv, HostInv, ExecInv, Untouched, IInv, TypeOK, SubmitReply, Attach, sched,
           host, ghosts
  <2>3. RecordInv(j, job[j])' /\ RecordInv(j, disk[j])'
    BY <1>0, <1>1
       DEF JobInv, RecordInv, Stopped, Untouched, Terminal, IInv, TypeOK, SubmitReply,
           Attach, sched, host, ghosts
  <2>4. DiskInv(j)'
    BY <1>0, <1>1 DEF JobInv, DiskInv, IInv, TypeOK, SubmitReply, Attach, sched, host, ghosts
  <2> QED BY <2>1, <2>2, <2>3, <2>4 DEF JobInv
<1> QED BY <1>2, <1>3, <1>4, <1>5, Assemble

LEMMA RecoverReplyStep ==
  ASSUME IInv, NEW j \in Jobs, RecoverReply(j)
  PROVE  IInv'
<1>0. /\ JobInv(j) /\ up /\ up' = up /\ job[j].state = "running"
      /\ job \in [Jobs -> Job] /\ job[j] \in Job
  BY DEF IInv, JobInv, ExecInv, TypeOK, RecoverReply, Free
<1>1. TypeOK'
  BY <1>0 DEF IInv, TypeOK, RecoverReply, Attach, Changed, sched, host, ghosts, Awaits
<1>2. QueueInv'
  BY <1>0, QueueKept DEF RecoverReply, Attach, Changed, sched, host, ghosts
<1>3. \A k \in Jobs : k # j => Same(k)
  BY <1>0 DEF Same, IInv, TypeOK, RecoverReply, Attach, Changed, sched, host, ghosts
<1>4. JobInv(j)'
  <2>1. HostInv(j)'
    BY <1>0
       DEF JobInv, HostInv, ExecInv, Untouched, IInv, TypeOK, RecoverReply, Attach, Changed,
           sched, host, ghosts
  <2>2. ExecInv(j)'
    BY <1>0
       DEF JobInv, HostInv, ExecInv, Untouched, IInv, TypeOK, RecoverReply, Attach, Changed,
           sched, host, ghosts
  <2>3. RecordInv(j, job[j])' /\ RecordInv(j, disk[j])'
    BY <1>0
       DEF JobInv, RecordInv, Stopped, Untouched, Terminal, IInv, TypeOK, RecoverReply,
           Attach, Changed, sched, host, ghosts
  <2>4. DiskInv(j)'
    BY <1>0
       DEF JobInv, DiskInv, IInv, TypeOK, RecoverReply, Attach, Changed, sched, host, ghosts
  <2> QED BY <2>1, <2>2, <2>3, <2>4 DEF JobInv
<1> QED BY <1>1, <1>2, <1>3, <1>4, Assemble

LEMMA DirectReadyStep ==
  ASSUME IInv, NEW j \in Jobs, DirectReady(j)
  PROVE  IInv'
<1>0. /\ JobInv(j) /\ up /\ up' = up /\ job[j].state = "running"
      /\ job \in [Jobs -> Job] /\ job[j] \in Job
  BY DEF IInv, JobInv, ExecInv, TypeOK, DirectReady, Free
<1>1. TypeOK'
  BY <1>0 DEF IInv, TypeOK, DirectReady, Changed, sched, ghosts, Awaits
<1>2. QueueInv'
  BY <1>0, QueueKept DEF DirectReady, Changed, sched, ghosts
<1>3. \A k \in Jobs : k # j => Same(k)
  BY <1>0 DEF Same, IInv, TypeOK, DirectReady, Changed, sched, ghosts
<1>4. JobInv(j)'
  <2>1. HostInv(j)'
    BY <1>0
       DEF JobInv, HostInv, ExecInv, Untouched, IInv, TypeOK, DirectReady, Changed, sched,
           ghosts
  <2>2. ExecInv(j)'
    BY <1>0
       DEF JobInv, HostInv, ExecInv, Untouched, IInv, TypeOK, DirectReady, Changed, sched,
           ghosts
  <2>3. RecordInv(j, job[j])' /\ RecordInv(j, disk[j])'
    BY <1>0
       DEF JobInv, RecordInv, Stopped, Untouched, Terminal, IInv, TypeOK, DirectReady,
           Changed, sched, ghosts
  <2>4. DiskInv(j)'
    BY <1>0 DEF JobInv, DiskInv, IInv, TypeOK, DirectReady, Changed, sched, ghosts
  <2> QED BY <2>1, <2>2, <2>3, <2>4 DEF JobInv
<1> QED BY <1>1, <1>2, <1>3, <1>4, Assemble
(* runRunner's errors: the fallback happens while nothing was submitted.   *)
LEMMA FallbackStep ==
  ASSUME IInv, NEW j \in Jobs, at[j] = "ping", Free, FallsBack(j, "unavailable"),
         Changed([job EXCEPT ![j] = [Without(@, "remote") EXCEPT !.backend = "ssh_direct"]]),
         at' = [at EXCEPT ![j] = "connect"], handle' = [handle EXCEPT ![j] = "ssh"],
         UNCHANGED <<sched, tries, rpc, host, ghosts, up, faults>>
  PROVE  IInv'
<1> DEFINE w == Without(job[j], "remote")
           r == [w EXCEPT !.backend = "ssh_direct"]
<1>0. /\ JobInv(j) /\ up /\ up' = up /\ job[j].state = "running"
      /\ job \in [Jobs -> Job] /\ job[j] \in Job /\ Mode[j] = "auto"
  BY DEF IInv, JobInv, ExecInv, TypeOK, Free, FallsBack
<1>1. /\ w \in Job /\ w.state = "running" /\ w.approval = job[j].approval
      /\ w.verified = job[j].verified /\ w.flags = job[j].flags \ {"remote"}
  BY <1>0, EditedRecords
<1>2. job' = [job EXCEPT ![j] = r] /\ timer' = TRUE /\ disk' = disk
  BY <1>0 DEF Changed
<1>3. /\ r \in Job /\ r.state = "running" /\ r.approval = job[j].approval
      /\ r.verified = job[j].verified /\ r.flags = job[j].flags \ {"remote"}
      /\ r.backend = "ssh_direct"
  <2> HIDE DEF w
  <2> QED BY <1>1 DEF Job
<1> HIDE DEF w, r
<1>4. TypeOK'
  BY <1>0, <1>2, <1>3 DEF IInv, TypeOK, sched, host, ghosts, Awaits
<1>5. QueueInv'
  BY <1>0, <1>2, QueueKept DEF sched
<1>6. \A k \in Jobs : k # j => Same(k)
  BY <1>0, <1>2 DEF Same, IInv, TypeOK, sched, host, ghosts
<1>7. JobInv(j)'
  <2>1. HostInv(j)' /\ ExecInv(j)'
    BY <1>0, <1>2, <1>3 DEF JobInv, HostInv, ExecInv, Untouched, IInv, TypeOK, host
  <2>2. RecordInv(j, job[j])' /\ RecordInv(j, disk[j])'
    BY <1>0, <1>2, <1>3 DEF JobInv, RecordInv, Stopped, Untouched, Terminal, host, ghosts
  <2>3. DiskInv(j)'
    BY <1>0, <1>2, <1>3 DEF JobInv, DiskInv
  <2> QED BY <2>1, <2>2, <2>3 DEF JobInv
<1> QED BY <1>4, <1>5, <1>6, <1>7, Assemble

LEMMA PingFailStep ==
  ASSUME IInv, NEW j \in Jobs, PingFail(j)
  PROVE  IInv'
<1>0. Free /\ at[j] = "ping" /\ j \notin flight
  BY DEF IInv, JobInv, ExecInv, Untouched, PingFail
<1>1. PICK code \in {"unavailable", "other"} : Threw(j, code)
  BY DEF PingFail
<1>2. CASE FallsBack(j, code)
  <2>1. FallsBack(j, "unavailable") /\ code = "unavailable"
    BY <1>2 DEF FallsBack
  <2> QED BY <2>1, <1>0, <1>1, <1>2, FallbackStep DEF PingFail, Threw
<1>3. CASE ~FallsBack(j, code)
  <2>1. Leave(j, Errored(job[j], code))
    BY <1>1, <1>3 DEF Threw
  <2> QED BY <2>1, <1>0, ErrorStep DEF PingFail, host
<1> QED BY <1>2, <1>3

LEMMA SubmitGivesUpStep ==
  ASSUME IInv, NEW j \in Jobs, SubmitGivesUp(j)
  PROVE  IInv'
<1>1. Leave(j, Errored(job[j], "lost"))
  BY DEF SubmitGivesUp, Threw, FallsBack
<1> QED BY <1>1, ErrorStep DEF SubmitGivesUp

LEMMA SubmitConflictStep ==
  ASSUME IInv, NEW j \in Jobs, SubmitConflict(j)
  PROVE  IInv'
<1>1. Leave(j, Errored(job[j], "other"))
  BY DEF SubmitConflict, Threw, FallsBack
<1> QED BY <1>1, ErrorStep DEF SubmitConflict

LEMMA WatchReplyStep ==
  ASSUME IInv, NEW j \in Jobs, WatchReply(j)
  PROVE  IInv'
<1>1. PICK zero \in ExitsZero(j) :
        Leave(j, Completed(job[j], runner[j].state, zero, runner[j].verified))
  BY DEF WatchReply
<1>2. zero \in BOOLEAN
  BY <1>1 DEF ExitsZero
<1>3. /\ runner[j].state \in Terminal /\ runner[j].verified \in {"unset", "yes", "no"}
      /\ runner[j].state # "none" /\ Free /\ at[j] # "idle"
  BY DEF WatchReply, IInv, TypeOK, Remote, Terminal
<1> QED BY <1>1, <1>2, <1>3, CompleteStep DEF WatchReply, host

LEMMA WatchDeadlineStep ==
  ASSUME IInv, NEW j \in Jobs, WatchDeadline(j)
  PROVE  IInv'
<1>1. CASE at[j] = "watch" /\ Threw(j, "lost")
  <2>1. Leave(j, Errored(job[j], "lost"))
    BY <1>1 DEF Threw, FallsBack
  <2> QED BY <2>1, <1>1, ErrorStep DEF WatchDeadline, host
<1>2. CASE at[j] \in {"recover", "rewatch"} /\ Leave(j, Finished(job[j], "lost"))
  <2> DEFINE r == Finished(job[j], "lost")
  <2>1. job[j] \in Job
    BY DEF IInv, TypeOK
  <2>2. /\ r \in Job /\ r.state = "lost" /\ r.backend = job[j].backend
        /\ r.approval = job[j].approval /\ r.verified = job[j].verified
        /\ "waiting" \notin r.flags
    BY <2>1, FinishedRecord DEF Terminal
  <2> HIDE DEF r
  <2>3. r.state \in Terminal /\ Free /\ at[j] # "idle" /\ Leave(j, r)
    BY <2>2, <1>2 DEF WatchDeadline, Terminal, r
  <2> QED BY <2>2, <2>3, LeaveStep DEF WatchDeadline, host
<1> QED BY <1>1, <1>2 DEF WatchDeadline

LEMMA LocalExitStep ==
  ASSUME IInv, NEW j \in Jobs, LocalExit(j)
  PROVE  IInv'
<1>1. PICK st \in {"failed", "timed_out"}, zero \in BOOLEAN :
        Leave(j, Completed(job[j], st, zero, "unset"))
  BY DEF LocalExit
<1>2. st \in Terminal /\ j \notin flight /\ Free /\ at[j] # "idle"
  BY DEF LocalExit, Terminal, IInv, JobInv, ExecInv
<1> QED BY <1>1, <1>2, CompleteStep DEF LocalExit

LEMMA LocalErrorStep ==
  ASSUME IInv, NEW j \in Jobs, LocalError(j)
  PROVE  IInv'
<1>1. Leave(j, Errored(job[j], "other")) /\ j \notin flight /\ Free /\ at[j] # "idle"
  BY DEF LocalError, IInv, JobInv, ExecInv
<1> QED BY <1>1, ErrorStep DEF LocalError, host

LEMMA DirectExitStep ==
  ASSUME IInv, NEW j \in Jobs, DirectExit(j)
  PROVE  IInv'
<1>1. PICK zero \in BOOLEAN : Leave(j, Completed(job[j], "failed", zero, "unset"))
  BY DEF DirectExit
<1>2. "failed" \in Terminal /\ j \notin flight /\ Free /\ at[j] # "idle"
  BY DEF DirectExit, Terminal, IInv, JobInv, ExecInv
<1> QED BY <1>1, <1>2, CompleteStep DEF DirectExit

LEMMA DirectErrorStep ==
  ASSUME IInv, NEW j \in Jobs, DirectError(j)
  PROVE  IInv'
<1>1. "timed_out" \in Terminal /\ j \notin flight /\ Free /\ at[j] # "idle"
  BY DEF DirectError, Terminal, IInv, JobInv, ExecInv, Untouched
<1>2. CASE Leave(j, Errored(job[j], "other"))
  BY <1>1, <1>2, ErrorStep DEF DirectError, host
<1>3. CASE Leave(j, Completed(job[j], "timed_out", FALSE, "unset"))
  BY <1>1, <1>3, CompleteStep DEF DirectError, host
<1> QED BY <1>2, <1>3 DEF DirectError
-----------------------------------------------------------------------------
(***************************************************************************)
(* Time, saves and the late answer to a cancel call.                       *)
(***************************************************************************)
LEMMA ExpireStep ==
  ASSUME IInv, NEW j \in Jobs, Expire(j)
  PROVE  IInv'
<1>1. TypeOK'
  BY DEF IInv, TypeOK, Expire, table, sched, execution, host
<1>2. QueueInv'
  BY HostQueue DEF Expire
<1>3. \A k \in Jobs : k # j => Same(k)
  BY DEF Expire, Same, table, sched, execution, host, IInv, TypeOK
<1>4. JobInv(j)'
  <2>0. JobInv(j)
    BY DEF IInv
  <2>1. HostInv(j)' /\ ExecInv(j)'
    BY <2>0 DEF Expire, JobInv, HostInv, ExecInv, Untouched, table, execution, host
  <2>2. RecordInv(j, job[j])' /\ RecordInv(j, disk[j])'
    BY <2>0 DEF Expire, JobInv, RecordInv, Stopped, Untouched, table, host, IInv, TypeOK
  <2>3. DiskInv(j)'
    BY <2>0 DEF Expire, JobInv, DiskInv, table
  <2> QED BY <2>1, <2>2, <2>3 DEF JobInv
<1> QED BY <1>1, <1>2, <1>3, <1>4, Assemble

LEMMA PersistTimerStep ==
  ASSUME IInv, PersistTimer
  PROVE  IInv'
<1>0. up /\ up' = up
  BY DEF PersistTimer, Free
<1>1. TypeOK'
  BY DEF IInv, TypeOK, PersistTimer, Save, sched, execution, host, ghosts
<1>2. QueueInv'
  BY <1>0, QueueKept DEF PersistTimer, Save, sched
<1>3. \A k \in Jobs : Same(k)
  BY DEF PersistTimer, Same, Save, sched, execution, host, ghosts
<1> QED BY <1>1, <1>2, <1>3, Frame DEF IInv

LEMMA CancelAnswerStep ==
  ASSUME IInv, NEW j \in Jobs, CancelAnswer(j)
  PROVE  IInv'
<1>0. /\ JobInv(j) /\ up /\ up' = up /\ disk' = disk /\ timer' = TRUE
      /\ queue' = queue /\ pending' = pending /\ job[j] \in Job /\ job \in [Jobs -> Job]
  BY DEF IInv, TypeOK, CancelAnswer, Free, Changed, sched
<1>1. PICK r : /\ job' = [job EXCEPT ![j] = r]
               /\ r \in Job /\ r.state = job[j].state /\ r.backend = job[j].backend
               /\ r.approval = job[j].approval /\ r.flags = job[j].flags
               /\ r.verified \in {job[j].verified, runner[j].verified}
  <2>1. CASE Changed([job EXCEPT ![j].verified = runner[j].verified])
    <3> WITNESS [job[j] EXCEPT !.verified = runner[j].verified]
    <3>1. runner[j].verified \in {"yes", "no"}
      BY DEF IInv, TypeOK, Remote
    <3> QED BY <2>1, <3>1, <1>0 DEF Changed, Job
  <2>2. CASE Changed(job)
    <3> WITNESS job[j]
    <3> QED BY <2>2, <1>0 DEF Changed
  <2> QED BY <2>1, <2>2 DEF CancelAnswer
<1>2. TypeOK'
  BY <1>0, <1>1 DEF IInv, TypeOK, CancelAnswer, sched, host, ghosts
<1>3. QueueInv'
  <2>1. \A k \in Jobs : Runnable(k) => Runnable(k)'
    BY <1>0, <1>1 DEF Runnable
  <2> QED BY <2>1, <1>0, QueueSame DEF IInv
<1>4. \A k \in Jobs : k # j => Same(k)
  BY <1>0, <1>1 DEF Same, CancelAnswer, sched, host, ghosts
<1>5. JobInv(j)'
  <2>1. HostInv(j)' /\ ExecInv(j)'
    BY <1>0, <1>1 DEF CancelAnswer, JobInv, HostInv, ExecInv, Untouched, host
  <2>2. RecordInv(j, job[j])' /\ RecordInv(j, disk[j])'
    BY <1>0, <1>1 DEF CancelAnswer, JobInv, RecordInv, Stopped, Untouched, host, ghosts
  <2>3. DiskInv(j)'
    BY <1>0, <1>1 DEF JobInv, DiskInv
  <2> QED BY <2>1, <2>2, <2>3 DEF JobInv
<1> QED BY <1>2, <1>3, <1>4, <1>5, Assemble
-----------------------------------------------------------------------------
(***************************************************************************)
(* Requests of clients.                                                    *)
(***************************************************************************)
LEMMA FaultCount ==
  ASSUME TypeOK, NEW kind, NoFault \/ Fault(kind)
  PROVE  faults' \in 0 .. MaxFaults
  BY LifecycleAssumption DEF TypeOK, NoFault, Fault

LEMMA StartStep ==
  ASSUME IInv, NEW j \in Jobs, Start(j)
  PROVE  IInv'
<1> DEFINE r == Started(j)
<1>0. /\ JobInv(j) /\ up /\ up' = up /\ job[j].state = "absent" /\ disk[j].state = "absent"
      /\ job \in [Jobs -> Job] /\ disk \in [Jobs -> Job]
      /\ job' = [job EXCEPT ![j] = r]
      /\ disk' = job' \/ disk' = disk
      /\ timer' \in BOOLEAN /\ drain' \in {"none", "scheduled", "running"}
      /\ pending' = pending \cup {j}
  BY DEF IInv, TypeOK, JobInv, DiskInv, Start, Free, Save, scheduleDrain
<1>1. /\ r \in Job /\ r.state = "queued" /\ r.verified = "unset"
      /\ r.backend = "local" <=> Mode[j] = "local"
      /\ r.approval = (IF j \in Gated THEN "pending" ELSE "not_required")
      /\ r.flags = (IF j \in Gated THEN {"waiting"} ELSE {})
  BY NewRecord
<1> HIDE DEF r
<1>2. QueueInv'
  <2>0. ~Runnable(j) /\ \A k \in Jobs : Runnable(k) => Runnable(k)'
    BY <1>0 DEF Runnable
  <2>1. CASE queue' = queue
    BY <2>0, <2>1, <1>0, QueueSame DEF IInv
  <2>2. CASE queue' = Append(queue, j) /\ j \notin Gated
    <3>1. Runnable(j)'
      BY <2>2, <1>0, <1>1 DEF Runnable
    <3> QED BY <3>1, <2>0, <2>2, <1>0, QueueAppend DEF IInv
  <2> QED BY <2>1, <2>2 DEF Start
<1>3. TypeOK'
  <2>1. faults' \in 0 .. MaxFaults
    BY FaultCount DEF IInv, Start
  <2>2. (\A i \in DOMAIN queue : queue[i] \in Jobs)'
    BY <1>2 DEF QueueInv
  <2>3. job' \in [Jobs -> Job] /\ disk' \in [Jobs -> Job]
    BY <1>0, <1>1
  <2>4. pending' \subseteq Jobs /\ contexts' \subseteq Jobs /\ active' \subseteq Jobs
    BY <1>0 DEF Start, IInv, TypeOK
  <2> QED BY <2>1, <2>2, <2>3, <2>4, <1>0 DEF IInv, TypeOK, Start, execution, host, ghosts
<1>4. \A k \in Jobs : k # j => Same(k)
  BY <1>0 DEF Same, Start, execution, host, ghosts
<1>5. JobInv(j)'
  <2>1. HostInv(j)' /\ ExecInv(j)'
    BY <1>0, <1>1 DEF Start, JobInv, HostInv, ExecInv, Untouched, execution, host
  <2>2. RecordInv(j, job[j])' /\ RecordInv(j, disk[j])'
    BY <1>0, <1>1 DEF Start, JobInv, RecordInv, Stopped, Untouched, host, ghosts, Terminal
  <2>3. DiskInv(j)'
    BY <1>0, <1>1 DEF JobInv, DiskInv, RecordInv
  <2> QED BY <2>1, <2>2, <2>3 DEF JobInv
<1> QED BY <1>2, <1>3, <1>4, <1>5, Assemble

LEMMA approveStep ==
  ASSUME IInv, NEW j \in Jobs, approve(j)
  PROVE  IInv'
<1> DEFINE w == Without(job[j], "waiting")
           r == [w EXCEPT !.approval = "approved"]
<1>0. /\ JobInv(j) /\ up /\ up' = up /\ job[j].state = "queued" /\ "waiting" \in job[j].flags
      /\ job[j] \in Job /\ job \in [Jobs -> Job] /\ disk \in [Jobs -> Job] /\ j \in pending
      /\ grant \in [Jobs -> {"none", "valid", "expired"}]
  BY DEF IInv, TypeOK, JobInv, RecordInv, approve, Pending, Has, Free
<1>1. /\ w \in Job /\ w.state = "queued" /\ w.backend = job[j].backend
      /\ w.verified = job[j].verified /\ w.flags = job[j].flags \ {"waiting"}
  BY <1>0, EditedRecords
<1>2. /\ job' = [job EXCEPT ![j] = r]
      /\ disk' = job' \/ disk' = disk
      /\ timer' \in BOOLEAN /\ drain' \in {"none", "scheduled", "running"}
      /\ pending' = pending /\ grant' = [grant EXCEPT ![j] = "valid"]
  BY <1>0 DEF IInv, TypeOK, approve, Save, scheduleDrain
<1>3. /\ r \in Job /\ r.state = "queued" /\ r.backend = job[j].backend
      /\ r.verified = job[j].verified /\ r.flags = job[j].flags \ {"waiting"}
      /\ r.approval = "approved"
  <2> HIDE DEF w
  <2> QED BY <1>1 DEF Job
<1> HIDE DEF w, r
<1>4. QueueInv'
  <2>1. /\ ~Runnable(j) /\ Runnable(j)'
        /\ \A k \in Jobs : Runnable(k) => Runnable(k)'
    BY <1>0, <1>2, <1>3 DEF Runnable
  <2> QED BY <2>1, <1>0, QueueAppend DEF IInv, approve
<1>5. TypeOK'
  <2>1. faults' \in 0 .. MaxFaults
    BY FaultCount DEF IInv, approve
  <2>2. (\A i \in DOMAIN queue : queue[i] \in Jobs)'
    BY <1>4 DEF QueueInv
  <2>3. /\ job' \in [Jobs -> Job] /\ disk' \in [Jobs -> Job]
        /\ grant' \in [Jobs -> {"none", "valid", "expired"}]
    BY <1>0, <1>2, <1>3
  <2>4. contexts' \subseteq Jobs /\ audited' \subseteq Jobs
    BY DEF approve, IInv, TypeOK
  <2> QED BY <2>1, <2>2, <2>3, <2>4, <1>2 DEF IInv, TypeOK, approve, execution, host
<1>6. \A k \in Jobs : k # j => Same(k)
  BY <1>0, <1>2 DEF Same, approve, execution, host
<1>7. JobInv(j)'
  <2>1. HostInv(j)' /\ ExecInv(j)'
    BY <1>0, <1>2, <1>3 DEF approve, JobInv, HostInv, ExecInv, Untouched, execution, host
  <2>2. RecordInv(j, job[j])' /\ RecordInv(j, disk[j])'
    BY <1>0, <1>2, <1>3 DEF approve, JobInv, RecordInv, Stopped, Untouched, host, Terminal
  <2>3. DiskInv(j)'
    BY <1>0, <1>2, <1>3 DEF JobInv, DiskInv
  <2> QED BY <2>1, <2>2, <2>3 DEF JobInv
<1> QED BY <1>4, <1>5, <1>6, <1>7, Assemble
LEMMA rejectApprovalStep ==
  ASSUME IInv, NEW j \in Jobs, rejectApproval(j)
  PROVE  IInv'
<1> DEFINE q == [job[j] EXCEPT !.approval = "rejected"]
<1>0. /\ JobInv(j) /\ up /\ up' = up /\ job[j].state = "queued" /\ "waiting" \in job[j].flags
      /\ job[j] \in Job /\ job \in [Jobs -> Job] /\ disk \in [Jobs -> Job]
  BY DEF IInv, TypeOK, JobInv, RecordInv, rejectApproval, Pending, Has, Free
<1>1. /\ q \in Job /\ q.state = "queued" /\ q.backend = job[j].backend
      /\ q.verified = job[j].verified /\ q.flags = job[j].flags /\ q.approval = "rejected"
  BY <1>0 DEF Job
<1>2. PICK r : /\ job' = [job EXCEPT ![j] = r]
               /\ r \in Job /\ r.backend = job[j].backend /\ r.verified = job[j].verified
               /\ r.approval = "rejected"
               /\ \/ r.state = "queued" /\ r.flags = job[j].flags /\ disk' = disk /\ timer' = timer
                  \/ /\ r.state = "cancelled" /\ r.flags = job[j].flags \ {"waiting"}
                     /\ disk' = job' /\ timer' = FALSE
  <2>1. CASE Save([job EXCEPT ![j] = Finished(q, "cancelled")])
    <3> WITNESS Finished(q, "cancelled")
    <3> HIDE DEF q
    <3> QED BY <2>1, <1>0, <1>1, FinishedRecord DEF Save, Terminal
  <2>2. CASE job' = [job EXCEPT ![j] = q] /\ disk' = disk /\ timer' = timer
    <3> WITNESS q
    <3> HIDE DEF q
    <3> QED BY <2>2, <1>0, <1>1
  <2> QED BY <2>1, <2>2 DEF rejectApproval
<1> HIDE DEF q
<1>3. QueueInv'
  <2>1. \A k \in Jobs : Runnable(k) => Runnable(k)'
    BY <1>0, <1>2 DEF Runnable, rejectApproval
  <2> QED BY <2>1, <1>0, QueueSame DEF IInv, rejectApproval
<1>4. TypeOK'
  <2>1. faults' \in 0 .. MaxFaults
    BY FaultCount DEF IInv, rejectApproval
  <2>2. job' \in [Jobs -> Job] /\ disk' \in [Jobs -> Job] /\ timer' \in BOOLEAN
    BY <1>0, <1>2 DEF IInv, TypeOK
  <2>3. pending' \subseteq Jobs /\ contexts' \subseteq Jobs
    BY DEF rejectApproval, IInv, TypeOK
  <2> QED BY <2>1, <2>2, <2>3 DEF IInv, TypeOK, rejectApproval, execution, host, ghosts
<1>5. \A k \in Jobs : k # j => Same(k)
  BY <1>0, <1>2 DEF Same, rejectApproval, execution, host, ghosts
<1>6. JobInv(j)'
  <2>1. HostInv(j)' /\ ExecInv(j)'
    BY <1>0, <1>2 DEF rejectApproval, JobInv, HostInv, ExecInv, Untouched, execution, host
  <2>2. RecordInv(j, job[j])' /\ RecordInv(j, disk[j])'
    BY <1>0, <1>2
       DEF rejectApproval, JobInv, RecordInv, Stopped, Untouched, host, ghosts, Terminal
  <2>3. DiskInv(j)'
    BY <1>0, <1>2 DEF JobInv, DiskInv
  <2> QED BY <2>1, <2>2, <2>3 DEF JobInv
<1> QED BY <1>3, <1>4, <1>5, <1>6, Assemble

(* cancel of a running job that goes on until its end is known.            *)
LEMMA CancelRunning ==
  ASSUME IInv, NEW j \in Jobs, Free, job[j].state = "running", NEW r \in Job,
         r.state = "running", r.backend = job[j].backend, r.approval = job[j].approval,
         r.flags = (job[j].flags \cup {"cancel"}) \ {"waiting"}, r.verified = Verifiable(j),
         Save([job EXCEPT ![j] = r]), rpc' \subseteq Jobs,
         early' = (IF handle[j] = "none" THEN early \cup {j} ELSE early),
         UNCHANGED <<sched, at, tries, handle, host, grant, audited, up, faults>>
  PROVE  IInv'
<1>0. /\ JobInv(j) /\ up /\ up' = up /\ job \in [Jobs -> Job]
      /\ job' = [job EXCEPT ![j] = r] /\ disk' = job' /\ timer' = FALSE
  BY DEF IInv, TypeOK, Free, Save
<1>1. TypeOK'
  BY <1>0 DEF IInv, TypeOK, sched, host
<1>2. QueueInv'
  BY <1>0, QueueKept DEF sched
<1>3. \A k \in Jobs : k # j => Same(k)
  BY <1>0 DEF Same, sched, host
<1>4. JobInv(j)'
  <2>1. HostInv(j)' /\ ExecInv(j)'
    BY <1>0 DEF JobInv, HostInv, ExecInv, Untouched, host
  <2>2. r.verified = "yes" => Mode[j] = "local" \/ j \in early'
    BY <1>0 DEF Verifiable, JobInv, ExecInv
  <2>3. RecordInv(j, job[j])'
    BY <1>0, <2>2 DEF JobInv, RecordInv
  <2> QED BY <2>1, <2>3, <1>0 DEF JobInv, DiskInv
<1> QED BY <1>1, <1>2, <1>3, <1>4, Assemble

(* cancel of a job that waits for its turn or its approval.                *)
LEMMA CancelQueued ==
  ASSUME IInv, NEW j \in Jobs, Free, job[j].state = "queued", NEW r \in Job,
         r.state = "cancelled", r.backend = job[j].backend, r.approval = job[j].approval,
         r.flags = (job[j].flags \cup {"cancel"}) \ {"waiting"},
         Save([job EXCEPT ![j] = r]), queue' = Dequeued(j),
         pending' = pending \ {j}, contexts' = contexts \ {j},
         UNCHANGED <<active, drain, execution, host, ghosts, up, faults>>
  PROVE  IInv'
<1>0. /\ JobInv(j) /\ up /\ up' = up /\ job \in [Jobs -> Job] /\ Untouched(j)
      /\ job' = [job EXCEPT ![j] = r] /\ disk' = job' /\ timer' = FALSE
  BY DEF IInv, TypeOK, Free, Save, JobInv, ExecInv
<1>1. QueueInv'
  <2>1. \A k \in Jobs : k # j /\ Runnable(k) => Runnable(k)'
    BY <1>0 DEF Runnable
  <2> QED BY <2>1, <1>0, DequeuedQueue DEF IInv
<1>2. TypeOK'
  <2>1. (\A i \in DOMAIN queue : queue[i] \in Jobs)'
    BY <1>1 DEF QueueInv
  <2> QED BY <2>1, <1>0 DEF IInv, TypeOK, execution, host, ghosts
<1>3. \A k \in Jobs : k # j => Same(k)
  BY <1>0 DEF Same, execution, host, ghosts
<1>4. JobInv(j)'
  <2>1. HostInv(j)' /\ ExecInv(j)'
    BY <1>0 DEF JobInv, HostInv, ExecInv, Untouched, execution, host
  <2>2. Stopped(j)'
    BY <1>0 DEF Stopped, Untouched, Terminal, host
  <2>3. RecordInv(j, job[j])'
    BY <1>0, <2>2 DEF JobInv, RecordInv, ghosts
  <2> QED BY <2>1, <2>3, <1>0 DEF JobInv, DiskInv
<1> QED BY <1>1, <1>2, <1>3, <1>4, Assemble

LEMMA CancelStep ==
  ASSUME IInv, NEW j \in Jobs, Cancel(j)
  PROVE  IInv'
<1> DEFINE c == With(job[j], "cancel")
           w == Without(c, "waiting")
           r == [w EXCEPT !.verified = Verifiable(j)]
<1>0. Free /\ job[j] \in Job /\ Verifiable(j) \in {"yes", "no"}
  BY DEF IInv, TypeOK, Cancel, Verifiable
<1>1. /\ c \in Job /\ c.state = job[j].state /\ c.backend = job[j].backend
      /\ c.approval = job[j].approval /\ c.flags = job[j].flags \cup {"cancel"}
  BY <1>0, EditedRecords
<1>2. /\ w \in Job /\ w.state = job[j].state /\ w.backend = job[j].backend
      /\ w.approval = job[j].approval
      /\ w.flags = (job[j].flags \cup {"cancel"}) \ {"waiting"}
  <2> HIDE DEF c
  <2> QED BY <1>1, EditedRecords
<1>3. /\ r \in Job /\ r.state = job[j].state /\ r.backend = job[j].backend
      /\ r.approval = job[j].approval /\ r.verified = Verifiable(j)
      /\ r.flags = (job[j].flags \cup {"cancel"}) \ {"waiting"}
  <2> HIDE DEF w
  <2> QED BY <1>0, <1>2 DEF Job
<1>4. CASE job[j].state = "queued"
  <2> DEFINE f == Finished(r, "cancelled")
  <2>1. /\ f \in Job /\ f.state = "cancelled" /\ f.backend = job[j].backend
        /\ f.approval = job[j].approval
        /\ f.flags = (job[j].flags \cup {"cancel"}) \ {"waiting"}
    <3> HIDE DEF r
    <3> QED BY <1>3, FinishedRecord DEF Terminal
  <2>2. /\ Save([job EXCEPT ![j] = f])
        /\ queue' = Dequeued(j) /\ pending' = pending \ {j} /\ contexts' = contexts \ {j}
        /\ UNCHANGED <<active, drain, execution, host, ghosts, up, faults>>
    BY <1>4 DEF Cancel, ghosts
  <2> HIDE DEF f
  <2> QED BY <2>1, <2>2, <1>0, <1>4, CancelQueued
<1>5. CASE job[j].state = "running" /\ handle[j] = "ssh"
  <2> DEFINE f == Completed(r, "failed", FALSE, "unset")
  <2>0. Verifiable(j) = "no" /\ at[j] # "idle"
    BY <1>5 DEF Verifiable, IInv, JobInv, ExecInv
  <2>1. /\ f \in Job /\ f.state = "cancelled" /\ f.backend = job[j].backend
        /\ f.approval = job[j].approval /\ "waiting" \notin f.flags /\ f.verified = "no"
    <3>1. \E zero \in BOOLEAN : f = Completed(r, "failed", zero, "unset")
      OBVIOUS
    <3> HIDE DEF r, f
    <3> QED BY <1>3, <2>0, <3>1, CompletedRecord DEF Terminal
  <2>2. /\ Leave(j, f)
        /\ UNCHANGED <<tries, rpc, host, ghosts, up, faults>>
    BY <1>5 DEF Cancel, ghosts
  <2> HIDE DEF f
  <2> QED BY <2>0, <2>1, <2>2, <1>0, LeaveStep DEF host, Terminal
<1>6. CASE job[j].state = "running" /\ handle[j] # "ssh"
  <2>1. /\ Save([job EXCEPT ![j] = r]) /\ rpc' \in {rpc, rpc \cup {j}}
        /\ early' = (IF handle[j] = "none" THEN early \cup {j} ELSE early)
        /\ UNCHANGED <<sched, at, tries, handle, host, grant, audited, up, faults>>
    BY <1>6 DEF Cancel, execution
  <2>2. rpc' \subseteq Jobs
    BY <2>1 DEF IInv, TypeOK
  <2> HIDE DEF r
  <2> QED BY <2>1, <2>2, <1>0, <1>3, <1>6, CancelRunning
<1> QED BY <1>4, <1>5, <1>6 DEF Cancel, Active
-----------------------------------------------------------------------------
(***************************************************************************)
(* drain.                                                                  *)
(***************************************************************************)
LEMMA DrainEndStep ==
  ASSUME IInv, DrainEnd
  PROVE  IInv'
<1>1. TypeOK'
  BY DEF IInv, TypeOK, DrainEnd, table, execution, host, ghosts
<1>2. QueueInv'
  BY DEF IInv, QueueInv, Runnable, DrainEnd, table
<1>3. \A k \in Jobs : Same(k)
  BY DEF DrainEnd, Same, table, execution, host, ghosts
<1> QED BY <1>1, <1>2, <1>3, Frame DEF IInv

(* What drain takes from the queue.                                        *)
LEMMA HeadOfQueue ==
  ASSUME IInv, NEW j \in Jobs, DrainHead(j)
  PROVE  /\ JobInv(j) /\ Runnable(j) /\ Untouched(j) /\ at[j] = "idle"
         /\ job[j] \in Job /\ up /\ queue # <<>> /\ j = Head(queue) /\ queue' = Tail(queue)
         /\ pending' = pending \ {j}
<1>1. JobInv(j) /\ up /\ queue # <<>> /\ j = Head(queue) /\ job[j] \in Job
      /\ queue' = Tail(queue) /\ pending' = pending \ {j}
  BY DEF IInv, TypeOK, DrainHead
<1>2. 1 \in 1..Len(queue) /\ j = queue[1]
  BY <1>1 DEF IInv, QueueInv
<1>3. Runnable(j)
  BY <1>2 DEF IInv, QueueInv
<1> QED BY <1>1, <1>3 DEF Runnable, JobInv, ExecInv

LEMMA DrainExpiredStep ==
  ASSUME IInv, NEW j \in Jobs, DrainExpired(j)
  PROVE  IInv'
<1> DEFINE q == [job[j] EXCEPT !.approval = "expired"]
           r == Finished(q, "failed")
<1>0. /\ JobInv(j) /\ Runnable(j) /\ Untouched(j) /\ at[j] = "idle"
      /\ job[j] \in Job /\ up /\ queue # <<>> /\ j = Head(queue) /\ queue' = Tail(queue)
      /\ pending' = pending \ {j} /\ job \in [Jobs -> Job]
  BY HeadOfQueue DEF DrainExpired, IInv, TypeOK
<1>1. /\ q \in Job /\ q.backend = job[j].backend
      /\ q.verified = job[j].verified /\ q.flags = job[j].flags /\ q.approval = "expired"
  BY <1>0 DEF Job
<1>2. /\ r \in Job /\ r.state = "failed" /\ r.backend = job[j].backend
      /\ r.verified = job[j].verified /\ r.approval = "expired"
      /\ r.flags = job[j].flags \ {"waiting"}
  <2> HIDE DEF q
  <2> QED BY <1>1, FinishedRecord DEF Terminal
<1>3. job' = [job EXCEPT ![j] = r] /\ disk' = job' /\ timer' = FALSE /\ up' = up
  BY DEF DrainExpired, Save
<1> HIDE DEF q, r
<1>4. QueueInv'
  <2>1. \A k \in Jobs : k # j /\ Runnable(k) => Runnable(k)'
    BY <1>0, <1>3 DEF Runnable
  <2> QED BY <2>1, <1>0, <1>3, QueueTail DEF IInv
<1>5. TypeOK'
  <2>1. (\A i \in DOMAIN queue : queue[i] \in Jobs)'
    BY <1>4 DEF QueueInv
  <2> QED BY <2>1, <1>0, <1>2, <1>3 DEF DrainExpired, IInv, TypeOK, execution, host, ghosts
<1>6. \A k \in Jobs : k # j => Same(k)
  BY <1>0, <1>3 DEF Same, DrainExpired, execution, host, ghosts
<1>7. JobInv(j)'
  <2>1. HostInv(j)' /\ ExecInv(j)'
    BY <1>0, <1>2, <1>3 DEF DrainExpired, JobInv, HostInv, ExecInv, Untouched, execution, host
  <2>2. Stopped(j)'
    BY <1>0, <1>2, <1>3 DEF DrainExpired, Stopped, Untouched, Terminal, host
  <2>3. RecordInv(j, job[j])'
    BY <1>0, <1>2, <1>3, <2>2 DEF JobInv, RecordInv
  <2> QED BY <2>1, <2>3, <1>3 DEF JobInv, DiskInv
<1> QED BY <1>4, <1>5, <1>6, <1>7, Assemble

LEMMA DrainRunStep ==
  ASSUME IInv, NEW j \in Jobs, DrainRun(j)
  PROVE  IInv'
<1> DEFINE r == [job[j] EXCEPT !.state = "running"]
<1>0. /\ JobInv(j) /\ Runnable(j) /\ Untouched(j) /\ at[j] = "idle"
      /\ job[j] \in Job /\ up /\ queue # <<>> /\ j = Head(queue) /\ queue' = Tail(queue)
      /\ pending' = pending \ {j} /\ job \in [Jobs -> Job]
  BY HeadOfQueue DEF DrainRun, IInv, TypeOK
<1>1. /\ r \in Job /\ r.state = "running" /\ r.backend = job[j].backend
      /\ r.verified = job[j].verified /\ r.flags = job[j].flags /\ r.approval = job[j].approval
  BY <1>0 DEF Job, Active
<1>2. job' = [job EXCEPT ![j] = r] /\ disk' = job' /\ timer' = FALSE /\ up' = up
  BY <1>0 DEF DrainRun, Save
<1> HIDE DEF r
<1>3. QueueInv'
  <2>1. \A k \in Jobs : k # j /\ Runnable(k) => Runnable(k)'
    BY <1>0, <1>2 DEF Runnable
  <2> QED BY <2>1, <1>0, <1>2, QueueTail DEF IInv
<1>4. /\ Await(j) \in {"local", "connect", "ping"} /\ Handle(j) \in {"local", "ssh", "none"}
      /\ Await(j) = "local" <=> Mode[j] = "local"
      /\ Handle(j) = "local" <=> Mode[j] = "local"
  BY LifecycleAssumption DEF Await, Handle
<1>5. TypeOK'
  <2>1. (\A i \in DOMAIN queue : queue[i] \in Jobs)'
    BY <1>3 DEF QueueInv
  <2>2. job' \in [Jobs -> Job] /\ disk' \in [Jobs -> Job] /\ timer' \in BOOLEAN
    BY <1>0, <1>1, <1>2
  <2>3. at' \in [Jobs -> Awaits] /\ handle' \in [Jobs -> {"none", "local", "ssh", "runner"}]
    BY <1>4 DEF DrainRun, IInv, TypeOK, Awaits
  <2>4. running' \subseteq Jobs /\ starts' \in [Jobs -> Nat]
    BY DEF DrainRun, IInv, TypeOK
  <2>5. pending' \subseteq Jobs /\ active' \subseteq Jobs
    BY <1>0 DEF DrainRun, IInv, TypeOK
  <2> QED BY <2>1, <2>2, <2>3, <2>4, <2>5 DEF DrainRun, IInv, TypeOK, ghosts
<1>6. \A k \in Jobs : k # j => Same(k)
  BY <1>0, <1>2 DEF Same, DrainRun, ghosts, IInv, TypeOK
<1>7. JobInv(j)'
  <2>1. /\ at'[j] = Await(j) /\ handle'[j] = Handle(j) /\ j \notin flight' /\ runner' = runner
        /\ runner[j].state = "none" /\ starts[j] = 0 /\ starts'[j] \in {0, 1}
        /\ j \in running' => starts'[j] = 1 /\ Mode[j] = "local"
        /\ j \notin running' => starts'[j] = 0
    BY <1>0 DEF DrainRun, IInv, TypeOK, Untouched
  <2>2. HostInv(j)'
    BY <1>0, <1>1, <1>2, <2>1 DEF JobInv, HostInv
  <2>3. ExecInv(j)'
    BY <1>0, <1>1, <1>2, <1>4, <2>1 DEF JobInv, ExecInv, Untouched
  <2>4. RecordInv(j, job[j])'
    BY <1>0, <1>1, <1>2, <2>1
       DEF JobInv, RecordInv, Runnable, Stopped, Terminal, DrainRun, ghosts
  <2> QED BY <2>2, <2>3, <2>4, <1>2 DEF JobInv, DiskInv
<1> QED BY <1>3, <1>5, <1>6, <1>7, Assemble
-----------------------------------------------------------------------------
(***************************************************************************)
(* The process ends and starts again.                                      *)
(***************************************************************************)
LEMMA DownStep ==
  ASSUME IInv, NEW d \in {job, disk}, Down(d), faults' \in 0 .. MaxFaults
  PROVE  IInv'
<1>1. TypeOK'
  <2>1. job' \in [Jobs -> Job] /\ disk' \in [Jobs -> Job] /\ timer' \in BOOLEAN /\ up' \in BOOLEAN
    BY DEF Down, IInv, TypeOK
  <2>2. /\ at' \in [Jobs -> Awaits] /\ tries' \in [Jobs -> 0 .. MaxAttempts]
        /\ handle' \in [Jobs -> {"none", "local", "ssh", "runner"}]
    BY LifecycleAssumption DEF Down, Awaits
  <2>3. (\A i \in DOMAIN queue : queue[i] \in Jobs)'
    BY DEF Down
  <2> QED BY <2>1, <2>2, <2>3 DEF IInv, TypeOK, Down, host, ghosts
<1>2. QueueInv'
  BY DEF Down, QueueInv
<1>3. ASSUME NEW k \in Jobs
      PROVE  JobInv(k)'
  <2>0. /\ JobInv(k) /\ job'[k] = d[k] /\ disk'[k] = d[k] /\ d[k] \in {job[k], disk[k]}
        /\ at'[k] = "idle" /\ handle'[k] = "none"
    BY DEF IInv, Down
  <2>1. HostInv(k)' /\ ExecInv(k)'
    BY <2>0 DEF JobInv, HostInv, ExecInv, DiskInv, Untouched, Down, host
  <2>2. Stopped(k) => Stopped(k)'
    BY <2>0 DEF JobInv, DiskInv, Stopped, Untouched, Terminal, Down, host
  <2>3. RecordInv(k, d[k])'
    <3>1. RecordInv(k, d[k])
      BY <2>0 DEF JobInv
    <3>2. d'[k] = d[k]
      BY <2>0
    <3> QED BY <3>1, <3>2, <2>2 DEF RecordInv, Down, ghosts
  <2> QED BY <2>0, <2>1, <2>3 DEF JobInv, DiskInv, RecordInv
<1> QED BY <1>1, <1>2, <1>3 DEF IInv

LEMMA RestartStep ==
  ASSUME IInv, Restart
  PROVE  IInv'
<1> DEFINE again == {j \in Jobs : job[j].state \in Active /\ Recoverable(j)}
           R(j)  == [job[j] EXCEPT !.state = "running"]
           L(j)  == Finished(job[j], "lost")
<1>0. /\ ~up /\ up' = TRUE /\ queue = <<>> /\ queue' = <<>> /\ job \in [Jobs -> Job]
      /\ at' = [j \in Jobs |-> IF j \in again THEN "recover" ELSE "idle"]
      /\ job' = [j \in Jobs |-> IF j \in again THEN R(j)
                   ELSE IF job[j].state \in Active THEN L(j) ELSE job[j]]
      /\ disk' = job' /\ timer' = FALSE /\ active' = again
  BY DEF Restart, Save, IInv, QueueInv, TypeOK
<1>1. ASSUME NEW k \in Jobs
      PROVE  /\ R(k) \in Job /\ R(k).state = "running" /\ R(k).backend = job[k].backend
             /\ R(k).approval = job[k].approval /\ R(k).verified = job[k].verified
             /\ R(k).flags = job[k].flags
  BY <1>0 DEF Job, Active
<1>2. ASSUME NEW k \in Jobs
      PROVE  /\ L(k) \in Job /\ L(k).state = "lost" /\ L(k).backend = job[k].backend
             /\ L(k).approval = job[k].approval /\ L(k).verified = job[k].verified
             /\ L(k).flags = job[k].flags \ {"waiting"}
  BY <1>0, FinishedRecord DEF Terminal
<1> HIDE DEF R, L
<1>3. TypeOK'
  <2>1. job' \in [Jobs -> Job] /\ disk' \in [Jobs -> Job]
    BY <1>0, <1>1, <1>2
  <2>2. at' \in [Jobs -> Awaits] /\ active' \subseteq Jobs
    BY <1>0 DEF Awaits
  <2> QED BY <2>1, <2>2, <1>0 DEF IInv, TypeOK, Restart, host, ghosts
<1>4. QueueInv'
  BY <1>0 DEF QueueInv
<1>5. ASSUME NEW k \in Jobs
      PROVE  JobInv(k)'
  <2> DEFINE r == IF k \in again THEN R(k) ELSE IF job[k].state \in Active THEN L(k) ELSE job[k]
  <2>0. /\ JobInv(k) /\ job'[k] = r /\ disk'[k] = r /\ at[k] = "idle"
        /\ handle'[k] = "none" /\ at'[k] = IF k \in again THEN "recover" ELSE "idle"
    BY <1>0 DEF IInv, JobInv, ExecInv, Restart
  <2>1. /\ r.backend = job[k].backend /\ r.approval = job[k].approval
        /\ r.verified = job[k].verified
        /\ r.flags \in {job[k].flags, job[k].flags \ {"waiting"}}
        /\ IF k \in again THEN r.state = "running"
           ELSE r.state = (IF job[k].state \in Active THEN "lost" ELSE job[k].state)
        /\ r.state # "queued" /\ "waiting" \notin r.flags
    BY <2>0, <1>1, <1>2 DEF JobInv, RecordInv, Recoverable, Has, Active
  <2> HIDE DEF r
  <2>2. HostInv(k)' /\ ExecInv(k)'
    BY <2>0, <2>1, <1>0
       DEF JobInv, HostInv, ExecInv, Untouched, Restart, host, Active
  <2>3. Stopped(k) => Stopped(k)'
    BY <2>0, <2>1 DEF JobInv, Stopped, Untouched, Terminal, Restart, host, Active
  <2>4. RecordInv(k, job[k])'
    BY <2>0, <2>1, <2>3 DEF JobInv, RecordInv, Restart, ghosts, Active
  <2> QED BY <2>0, <2>2, <2>4 DEF JobInv, DiskInv
<1> QED BY <1>3, <1>4, <1>5 DEF IInv
-----------------------------------------------------------------------------
(***************************************************************************)
(* The invariant.                                                          *)
(***************************************************************************)
LEMMA InitInv == Init => IInv
<1> SUFFICES ASSUME Init PROVE IInv
  OBVIOUS
<1>1. job \in [Jobs -> Job] /\ \A k \in Jobs : job[k] = NoJob(k)
  BY NewRecord DEF Init
<1>2. TypeOK
  <2>1. runner \in [Jobs -> Remote]
    BY DEF Init, Remote
  <2>2. /\ at \in [Jobs -> Awaits] /\ tries \in [Jobs -> 0 .. MaxAttempts]
        /\ handle \in [Jobs -> {"none", "local", "ssh", "runner"}]
        /\ faults \in 0 .. MaxFaults
    BY LifecycleAssumption DEF Init, Awaits
  <2>3. starts \in [Jobs -> Nat] /\ grant \in [Jobs -> {"none", "valid", "expired"}]
    BY DEF Init
  <2>4. \A i \in DOMAIN queue : queue[i] \in Jobs
    BY DEF Init
  <2> QED BY <1>1, <2>1, <2>2, <2>3, <2>4 DEF Init, TypeOK
<1>3. QueueInv
  BY DEF Init, QueueInv
<1>4. ASSUME NEW k \in Jobs
      PROVE  JobInv(k)
  <2>1. HostInv(k) /\ ExecInv(k)
    BY <1>1 DEF Init, HostInv, ExecInv, Untouched
  <2>2. RecordInv(k, job[k])
    BY <1>1, NewRecord DEF Init, RecordInv
  <2> QED BY <2>1, <2>2 DEF JobInv, DiskInv, Init
<1> QED BY <1>2, <1>3, <1>4 DEF IInv

LEMMA StutterStep ==
  ASSUME IInv, UNCHANGED vars
  PROVE  IInv'
<1>1. UNCHANGED <<table, sched, execution, host, ghosts, up, faults>>
  BY DEF vars
<1>2. TypeOK'
  BY <1>1 DEF IInv, TypeOK, table, sched, execution, host, ghosts
<1>3. QueueInv'
  BY <1>1, HostQueue
<1>4. \A k \in Jobs : Same(k)
  BY <1>1 DEF Same, table, sched, execution, host, ghosts
<1> QED BY <1>2, <1>3, <1>4, Frame DEF IInv

LEMMA NextInv ==
  ASSUME IInv, [Next]_vars
  PROVE  IInv'
<1>1. CASE UNCHANGED vars
  BY <1>1, StutterStep
<1>2. CASE Drain
  <2>1. CASE DrainEnd
    BY <2>1, DrainEndStep
  <2>2. CASE DrainRejects
    BY <2>2, DownStep, FaultCount DEF DrainRejects, IInv
  <2>3. CASE \E j \in Jobs : DrainExpired(j) \/ DrainRun(j)
    BY <2>3, DrainExpiredStep, DrainRunStep
  <2> QED BY <1>2, <2>1, <2>2, <2>3 DEF Drain
<1>3. CASE PersistTimer
  BY <1>3, PersistTimerStep
<1>4. CASE Crash \/ dispose
  BY <1>4, DownStep, FaultCount DEF Crash, dispose, IInv
<1>5. CASE Restart
  BY <1>5, RestartStep
<1>6. ASSUME NEW j \in Jobs, Client(j)
      PROVE  IInv'
  BY <1>6, StartStep, approveStep, rejectApprovalStep, CancelStep DEF Client
<1>7. ASSUME NEW j \in Jobs, Progress(j)
      PROVE  IInv'
  BY <1>7, PingOkStep, PingFailStep, SubmitReplyStep, SubmitRetryStep, SubmitGivesUpStep,
     SubmitConflictStep, WatchReplyStep, RecoverReplyStep, LocalExitStep, LocalErrorStep,
     DirectReadyStep, DirectExitStep, DirectErrorStep DEF Progress
<1>8. ASSUME NEW j \in Jobs, Host(j)
      PROVE  IInv'
  BY <1>8, DeliverStep, RunnerEndsStep, OrphanExitsStep DEF Host
<1>9. ASSUME NEW j \in Jobs, Expire(j) \/ StillWatching(j) \/ WatchDeadline(j) \/ CancelAnswer(j)
      PROVE  IInv'
  BY <1>9, ExpireStep, StillWatchingStep, WatchDeadlineStep, CancelAnswerStep
<1> QED BY <1>1, <1>2, <1>3, <1>4, <1>5, <1>6, <1>7, <1>8, <1>9 DEF Next

(* The inductive invariant holds in every reachable state.                 *)
THEOREM Invariant == Spec => []IInv
<1>1. IInv /\ [Next]_vars => IInv'
  BY NextInv
<1> QED BY InitInv, <1>1, PTL DEF Spec

(* drain finds only queued jobs with their input, each once, and every     *)
(* variable keeps its type: LifecycleManager's test for a missing input or *)
(* a cancelled job in drain never succeeds.                                *)
THEOREM QueueRunnable == Spec => []QueueIsRunnable
<1>1. ASSUME IInv PROVE QueueIsRunnable
  <2>1. TypeOK /\ DOMAIN queue = 1..Len(queue)
    BY <1>1 DEF IInv, QueueInv
  <2>2. ASSUME NEW i \in DOMAIN queue
        PROVE  /\ queue[i] \in pending /\ job[queue[i]].state = "queued"
               /\ ~Has(job[queue[i]], "cancel")
    <3>1. queue[i] \in Jobs /\ Runnable(queue[i])
      BY <1>1, <2>1, <2>2 DEF IInv, QueueInv
    <3>2. RecordInv(queue[i], job[queue[i]])
      BY <1>1, <3>1 DEF IInv, JobInv
    <3> QED BY <3>1, <3>2 DEF Runnable, RecordInv, Has
  <2> QED BY <1>1, <2>1, <2>2 DEF IInv, QueueInv, QueueIsRunnable
<1> QED BY <1>1, Invariant, PTL

(* However a submission was retried, its answer lost, the backend changed  *)
(* or the daemon killed, the command of a job is started at most once.     *)
THEOREM AtMostOneStart == Spec => []StartedOnce
<1>1. IInv => StartedOnce
  BY DEF IInv, JobInv, HostInv, StartedOnce
<1> QED BY <1>1, Invariant, PTL

(* A remote job that is reported cancelled and verified does not run,      *)
(* unless cancel came before it had a handle.                              *)
THEOREM CancelVerified == Spec => []VerifiedCancel
<1>1. ASSUME IInv PROVE VerifiedCancel
  <2> SUFFICES ASSUME NEW j \in Jobs, j \notin early, job[j].verified = "yes",
                      job[j].backend # "local"
               PROVE  j \notin running
    BY DEF VerifiedCancel
  <2>1. JobInv(j)
    BY <1>1 DEF IInv
  <2>2. Stopped(j)
    BY <2>1 DEF JobInv, RecordInv
  <2> QED BY <2>1, <2>2 DEF Stopped, Untouched, JobInv, HostInv
<1> QED BY <1>1, Invariant, PTL
-----------------------------------------------------------------------------
(***************************************************************************)
(* Approval.                                                               *)
(***************************************************************************)
LEMMA ActiveGrows ==
  ASSUME IInv, [Next]_vars, up, NEW j \in Jobs, j \notin active, j \in active'
  PROVE  DrainRun(j)
<1>1. ~UNCHANGED vars
  BY DEF vars, sched
<1>2. ~(DrainEnd \/ DrainRejects \/ Crash \/ dispose \/ Restart)
  BY DEF DrainEnd, DrainRejects, Crash, dispose, Restart, Down
<1>3. ~PersistTimer
  BY DEF PersistTimer, sched
<1>4. ASSUME NEW k \in Jobs, DrainExpired(k) PROVE FALSE
  BY <1>4 DEF DrainExpired
<1>5. ASSUME NEW k \in Jobs, DrainRun(k) PROVE k = j
  BY <1>5 DEF DrainRun
<1>6. ASSUME NEW k \in Jobs, NEW r, Leave(k, r) PROVE FALSE
  BY <1>6 DEF Leave
<1>7. ASSUME NEW k \in Jobs, NEW code, Threw(k, code) PROVE FALSE
  BY <1>6, <1>7 DEF Threw, sched
<1>8. ASSUME NEW k \in Jobs, Client(k) PROVE FALSE
  BY <1>6, <1>8 DEF Client, Start, approve, rejectApproval, Cancel, sched
<1>9. ASSUME NEW k \in Jobs, Progress(k) PROVE FALSE
  BY <1>6, <1>7, <1>9
     DEF Progress, PingOk, PingFail, SubmitReply, SubmitRetry, SubmitGivesUp, SubmitConflict,
         WatchReply, RecoverReply, LocalExit, LocalError, DirectReady, DirectExit, DirectError,
         sched
<1>10. ASSUME NEW k \in Jobs, Host(k) PROVE FALSE
  BY <1>10 DEF Host, Deliver, RunnerEnds, OrphanExits, sched
<1>11. ASSUME NEW k \in Jobs,
              Expire(k) \/ StillWatching(k) \/ WatchDeadline(k) \/ CancelAnswer(k)
       PROVE  FALSE
  BY <1>6, <1>7, <1>11 DEF Expire, StillWatching, WatchDeadline, CancelAnswer, sched
<1> QED BY <1>1, <1>2, <1>3, <1>4, <1>5, <1>8, <1>9, <1>10, <1>11 DEF Next, Drain

(* drain begins a gated command only under a grant that has not expired.   *)
THEOREM ApprovedRuns == Spec => RunsOnlyIfApproved
<1>1. ASSUME IInv, [Next]_vars, NEW j \in Gated \ active, up, j \in active'
      PROVE  grant[j] = "valid"
  <2>0. j \in Jobs /\ grant[j] \in {"none", "valid", "expired"}
    BY <1>1, LifecycleAssumption DEF IInv, TypeOK
  <2>1. DrainRun(j)
    BY <1>1, <2>0, ActiveGrows
  <2>2. Runnable(j) /\ JobInv(j)
    BY <1>1, <2>0, <2>1, HeadOfQueue DEF DrainRun
  <2>3. job[j].approval = "approved" /\ grant[j] # "none"
    BY <1>1, <2>2 DEF Runnable, JobInv, RecordInv
  <2> QED BY <2>0, <2>1, <2>3 DEF DrainRun, GrantExpired
<1>2. IInv /\ [Next]_vars
      => [\A j \in Gated \ active : up /\ j \in active' => grant[j] = "valid"]_vars
  BY <1>1
<1> QED BY <1>2, Invariant, PTL DEF Spec, RunsOnlyIfApproved
-----------------------------------------------------------------------------
(***************************************************************************)
(* Refinement: every step of the coordinator is, for each job, a step of   *)
(* Task or none.                                                           *)
(***************************************************************************)
TaskOf(r, n) ==
  [state |-> IF r.state \in Active THEN "accepted" ELSE r.state,
   begun |-> n > 0, asked |-> Has(r, "cancel")]

Mapped == [j \in Jobs |-> [state |-> IF job[j].state \in Active THEN "accepted" ELSE job[j].state,
                           begun |-> starts[j] > 0, asked |-> Has(job[j], "cancel")]]

TaskStep(a, b) ==
  \/ a = b \/ Promise!Accepted(a, b) \/ Promise!Begins(a, b) \/ Promise!CancelAsked(a, b)
  \/ Promise!Ended(a, b) \/ Promise!Forgotten(a, b)

Moved(j) == TaskStep(TaskOf(job[j], starts[j]), TaskOf(job'[j], starts'[j]))

(* What a step may do to the record and the command of one job.            *)
LEMMA MovedSame ==
  ASSUME NEW j \in Jobs, starts'[j] = starts[j],
         job'[j].state = job[j].state \/ (job[j].state \in Active /\ job'[j].state \in Active),
         "cancel" \in job'[j].flags <=> "cancel" \in job[j].flags
  PROVE  Moved(j)
  BY DEF Moved, TaskStep, TaskOf, Has

LEMMA MovedEnds ==
  ASSUME NEW j \in Jobs, starts'[j] = starts[j],
         job[j].state \in Active, job'[j].state \in Terminal,
         "cancel" \in job'[j].flags <=> "cancel" \in job[j].flags,
         "cancel" \in job[j].flags => job'[j].state \in {"cancelled", "lost"},
         job'[j].state = "succeeded" => starts[j] > 0
  PROVE  Moved(j)
<1> DEFINE a == TaskOf(job[j], starts[j])
           b == TaskOf(job'[j], starts'[j])
<1>1. a.state = "accepted" /\ job'[j].state \in Promise!Ends /\ job'[j].state \notin Active
  BY DEF TaskOf, Promise!Ends, Terminal, Active
<1>2. b = [a EXCEPT !.state = job'[j].state]
  BY <1>1 DEF TaskOf, Has
<1>3. Promise!Ended(a, b)
  BY <1>1, <1>2 DEF Promise!Ended, TaskOf, Has
<1> QED BY <1>3 DEF Moved, TaskStep

LEMMA MovedCancel ==
  ASSUME NEW j \in Jobs, starts'[j] = starts[j],
         job[j].state \in Active, job'[j].state \in {"running", "cancelled"},
         "cancel" \in job'[j].flags
  PROVE  Moved(j)
<1> DEFINE a == TaskOf(job[j], starts[j])
           b == TaskOf(job'[j], starts'[j])
<1>1. a.state = "accepted" /\ b.state \in {"accepted", "cancelled"}
  BY DEF TaskOf, Active
<1>2. Has(job'[j], "cancel") = TRUE
  BY DEF Has
<1>3. b = [state |-> b.state, begun |-> a.begun, asked |-> TRUE]
  BY <1>2 DEF TaskOf
<1> HIDE DEF a, b
<1>4. Promise!CancelAsked(a, b)
  BY <1>1, <1>3 DEF Promise!CancelAsked
<1> QED BY <1>4 DEF Moved, TaskStep, a, b

LEMMA MovedBegins ==
  ASSUME NEW j \in Jobs, starts[j] = 0, starts'[j] = 1,
         job[j].state = job'[j].state \/ (job[j].state \in Active /\ job'[j].state \in Active),
         job[j].state \in {"queued", "running", "cancelled", "lost"},
         "cancel" \in job'[j].flags <=> "cancel" \in job[j].flags
  PROVE  Moved(j)
<1> DEFINE a == TaskOf(job[j], starts[j])
           b == TaskOf(job'[j], starts'[j])
           h == Has(job[j], "cancel")
<1>1. a.state \in {"accepted", "cancelled", "lost"} /\ b.state = a.state
  BY DEF TaskOf, Active
<1>2. /\ (starts[j] > 0) = FALSE /\ (starts'[j] > 0) = TRUE
      /\ Has(job'[j], "cancel") = h
  BY DEF Has
<1>3. a = [state |-> a.state, begun |-> FALSE, asked |-> h]
  BY <1>2 DEF TaskOf
<1>4. b = [state |-> a.state, begun |-> TRUE, asked |-> h]
  BY <1>1, <1>2 DEF TaskOf
<1> HIDE DEF h
<1> HIDE DEF a, b
<1>5. b = [a EXCEPT !.begun = TRUE]
  <2>1. ASSUME NEW s, NEW u, NEW v, NEW w, a = [state |-> s, begun |-> u, asked |-> v],
               b = [state |-> s, begun |-> w, asked |-> v]
        PROVE  b = [a EXCEPT !.begun = w]
    BY <2>1
  <2>2. \E s, u, v, w : /\ w = TRUE /\ a = [state |-> s, begun |-> u, asked |-> v]
                        /\ b = [state |-> s, begun |-> w, asked |-> v]
    BY <1>3, <1>4, Zenon
  <2>3. \E w : w = TRUE /\ b = [a EXCEPT !.begun = w]
    BY <2>1, <2>2
  <2> QED BY <2>3, Zenon
<1>6. ~a.begun
  <2>1. a.begun = FALSE
    BY <1>3
  <2> QED BY <2>1
<1>7. Promise!Begins(a, b)
  BY <1>1, <1>5, <1>6 DEF Promise!Begins
<1> QED BY <1>7 DEF Moved, TaskStep, a, b

(* The record of a job that no client has started or nobody remembers.     *)
LEMMA UnknownTask ==
  ASSUME NEW r, r.state = "absent", "cancel" \notin r.flags
  PROVE  TaskOf(r, 0) = Promise!Unknown
<1>1. (0 > 0) = FALSE /\ Has(r, "cancel") = FALSE
  BY DEF Has
<1>2. TaskOf(r, 0) = [state |-> "absent", begun |-> FALSE, asked |-> FALSE]
  BY <1>1 DEF TaskOf, Active
<1> QED BY <1>2 DEF Promise!Unknown

LEMMA QueuedTask ==
  ASSUME NEW r, r.state = "queued", "cancel" \notin r.flags
  PROVE  TaskOf(r, 0) = [state |-> "accepted", begun |-> FALSE, asked |-> FALSE]
<1>1. (0 > 0) = FALSE /\ Has(r, "cancel") = FALSE
  BY DEF Has
<1> QED BY <1>1 DEF TaskOf, Active

LEMMA MovedAccepted ==
  ASSUME NEW j \in Jobs, starts'[j] = 0, starts[j] = 0,
         job[j].state = "absent", job'[j].state = "queued",
         "cancel" \notin job'[j].flags, "cancel" \notin job[j].flags
  PROVE  Moved(j)
<1> DEFINE a == TaskOf(job[j], starts[j])
           b == TaskOf(job'[j], starts'[j])
<1>1. a = Promise!Unknown /\ b = [state |-> "accepted", begun |-> FALSE, asked |-> FALSE]
  BY UnknownTask, QueuedTask
<1> HIDE DEF a, b
<1>2. b = [a EXCEPT !.state = "accepted"]
  <2>1. ASSUME NEW u, NEW v, a = [state |-> "absent", begun |-> u, asked |-> v],
               b = [state |-> "accepted", begun |-> u, asked |-> v]
        PROVE  b = [a EXCEPT !.state = "accepted"]
    BY <2>1
  <2>2. \E u, v : /\ a = [state |-> "absent", begun |-> u, asked |-> v]
                  /\ b = [state |-> "accepted", begun |-> u, asked |-> v]
    BY <1>1, Zenon DEF Promise!Unknown
  <2> QED BY <2>1, <2>2
<1>3. Promise!Accepted(a, b)
  BY <1>1, <1>2 DEF Promise!Accepted
<1> QED BY <1>3 DEF Moved, TaskStep, a, b

LEMMA MovedForgotten ==
  ASSUME NEW j \in Jobs, starts'[j] = 0, starts[j] = 0,
         job[j].state = "queued", job'[j].state = "absent",
         "cancel" \notin job'[j].flags, "cancel" \notin job[j].flags
  PROVE  Moved(j)
<1> DEFINE a == TaskOf(job[j], starts[j])
           b == TaskOf(job'[j], starts'[j])
<1>1. b = Promise!Unknown /\ a = [state |-> "accepted", begun |-> FALSE, asked |-> FALSE]
  BY UnknownTask, QueuedTask
<1> HIDE DEF a, b
<1>2. a.state = "accepted" /\ ~a.begun /\ ~a.asked
  BY <1>1
<1>3. Promise!Forgotten(a, b)
  BY <1>1, <1>2 DEF Promise!Forgotten
<1> QED BY <1>3 DEF Moved, TaskStep, a, b
LEMMA MovedNot ==
  ASSUME NEW k \in Jobs, job'[k] = job[k], starts'[k] = starts[k]
  PROVE  Moved(k)
  BY MovedSame

LEMMA LeaveMoved ==
  ASSUME IInv, NEW j \in Jobs, NEW r \in Job, at[j] # "idle", Leave(j, r), starts' = starts,
         r.state \in Terminal, r.flags = job[j].flags \ {"waiting"},
         "cancel" \in job[j].flags => r.state \in {"cancelled", "lost"},
         r.state = "succeeded" => starts[j] > 0, NEW k \in Jobs
  PROVE  Moved(k)
<1>1. job' = [job EXCEPT ![j] = r] /\ job \in [Jobs -> Job] /\ job[j].state \in Active
  BY DEF Leave, Save, IInv, TypeOK, JobInv, ExecInv, Active
<1>2. CASE k = j
  BY <1>1, <1>2, MovedEnds
<1>3. CASE k # j
  BY <1>1, <1>3, MovedNot
<1> QED BY <1>2, <1>3

LEMMA ErrorMoved ==
  ASSUME IInv, NEW j \in Jobs, NEW code, at[j] # "idle", Leave(j, Errored(job[j], code)),
         starts' = starts, NEW k \in Jobs
  PROVE  Moved(k)
<1> DEFINE r == Errored(job[j], code)
<1>1. /\ r \in Job /\ r.state \in {"cancelled", "lost", "failed"}
      /\ r.flags = job[j].flags \ {"waiting"}
      /\ "cancel" \in job[j].flags => r.state = "cancelled"
  BY ErroredRecord DEF IInv, TypeOK
<1>2. r.state \in Terminal /\ r.state # "succeeded"
  BY <1>1 DEF Terminal
<1> HIDE DEF r
<1> QED BY <1>1, <1>2, LeaveMoved DEF r

LEMMA CompleteMoved ==
  ASSUME IInv, NEW j \in Jobs, NEW st \in Terminal, NEW zero \in BOOLEAN,
         NEW v \in {"unset", "yes", "no"}, at[j] # "idle",
         Leave(j, Completed(job[j], st, zero, v)), zero => starts[j] > 0,
         starts' = starts, NEW k \in Jobs
  PROVE  Moved(k)
<1> DEFINE r == Completed(job[j], st, zero, v)
<1>0. job[j] \in Job
  BY DEF IInv, TypeOK
<1>1. /\ r \in Job /\ r.state \in Terminal /\ r.flags = job[j].flags \ {"waiting"}
      /\ "cancel" \in job[j].flags => r.state = "cancelled"
  <2>1. \E z \in BOOLEAN : r = Completed(job[j], st, z, v)
    OBVIOUS
  <2> HIDE DEF r
  <2> QED BY <2>1, <1>0, CompletedRecord
<1>2. r.state = "succeeded" => zero
  <2> DEFINE e  == [job[j] EXCEPT !.verified = IF v = "unset" THEN @ ELSE v]
             cs == IF Has(job[j], "cancel") THEN "cancelled" ELSE Result(st, zero)
  <2>1. e \in Job
    BY <1>0 DEF Job
  <2>2. cs \in Terminal /\ (cs = "succeeded" => zero)
    BY DEF Has, Result, Terminal
  <2>3. r = Finished(e, cs)
    BY DEF Completed
  <2> HIDE DEF e, cs, r
  <2>4. r.state = cs
    BY <2>1, <2>2, <2>3, FinishedRecord
  <2> QED BY <2>2, <2>4
<1> HIDE DEF r
<1> QED BY <1>1, <1>2, LeaveMoved DEF r

LEMMA ProgressMoved ==
  ASSUME IInv, NEW j \in Jobs, Progress(j), NEW k \in Jobs
  PROVE  Moved(k)
<1>0. /\ JobInv(j) /\ job \in [Jobs -> Job] /\ job[j] \in Job
      /\ starts \in [Jobs -> Nat] /\ runner[j] \in Remote
  BY DEF IInv, TypeOK
<1>1. CASE PingOk(j) \/ SubmitRetry(j) \/ RecoverReply(j)
  <2>1. job' = job /\ starts' = starts
    BY <1>1 DEF PingOk, SubmitRetry, RecoverReply, Changed, table, host
  <2> QED BY <2>1, MovedNot
<1>2. CASE PingFail(j)
  <2>1. PICK code \in {"unavailable", "other"} : Threw(j, code)
    BY <1>2 DEF PingFail
  <2>2. CASE FallsBack(j, code)
    <3> DEFINE w == Without(job[j], "remote")
               r == [w EXCEPT !.backend = "ssh_direct"]
    <3>1. w \in Job /\ w.state = job[j].state /\ w.flags = job[j].flags \ {"remote"}
      BY <1>0, EditedRecords
    <3>2. r.state = job[j].state /\ ("cancel" \in r.flags <=> "cancel" \in job[j].flags)
      <4> HIDE DEF w
      <4> QED BY <3>1 DEF Job
    <3>3. job' = [job EXCEPT ![j] = r] /\ starts' = starts
      BY <1>0, <1>2, <2>1, <2>2 DEF PingFail, Threw, Changed, host
    <3> HIDE DEF w, r
    <3> QED BY <1>0, <3>2, <3>3, MovedSame
  <2>3. CASE ~FallsBack(j, code)
    BY <1>2, <2>1, <2>3, ErrorMoved DEF PingFail, Threw, host
  <2> QED BY <2>2, <2>3
<1>3. CASE SubmitReply(j)
  <2> DEFINE r == With(job[j], "remote")
  <2>1. r.state = job[j].state /\ ("cancel" \in r.flags <=> "cancel" \in job[j].flags)
    BY <1>0, EditedRecords
  <2>2. job' = [job EXCEPT ![j] = r] /\ starts' = starts
    BY <1>0, <1>3 DEF SubmitReply, Changed, host
  <2> HIDE DEF r
  <2> QED BY <1>0, <2>1, <2>2, MovedSame
<1>4. CASE SubmitGivesUp(j) \/ SubmitConflict(j)
  <2>1. \E code : Leave(j, Errored(job[j], code))
    BY <1>4 DEF SubmitGivesUp, SubmitConflict, Threw, FallsBack
  <2> QED BY <1>4, <2>1, ErrorMoved DEF SubmitGivesUp, SubmitConflict
<1>5. CASE WatchReply(j)
  <2>1. PICK zero \in ExitsZero(j) :
          Leave(j, Completed(job[j], runner[j].state, zero, runner[j].verified))
    BY <1>5 DEF WatchReply
  <2>2. zero \in BOOLEAN /\ (zero => starts[j] > 0)
    <3>1. CASE runner[j].state = "succeeded"
      BY <3>1, <1>0 DEF ExitsZero, JobInv, HostInv
    <3>2. CASE runner[j].state = "failed" /\ starts[j] > 0
      BY <3>2 DEF ExitsZero
    <3>3. CASE runner[j].state # "succeeded" /\ ~(runner[j].state = "failed" /\ starts[j] > 0)
      <4>1. ExitsZero(j) = {FALSE}
        BY <3>3 DEF ExitsZero
      <4> QED BY <4>1
    <3> QED BY <3>1, <3>2, <3>3
  <2>3. /\ runner[j].state \in Terminal /\ runner[j].verified \in {"unset", "yes", "no"}
        /\ at[j] # "idle" /\ starts' = starts
    BY <1>0, <1>5 DEF WatchReply, Remote, host
  <2> QED BY <2>1, <2>2, <2>3, CompleteMoved
<1>6. CASE LocalExit(j)
  <2>1. PICK st \in {"failed", "timed_out"}, zero \in BOOLEAN :
          Leave(j, Completed(job[j], st, zero, "unset"))
    BY <1>6 DEF LocalExit
  <2>2. st \in Terminal /\ starts[j] > 0 /\ at[j] # "idle" /\ starts' = starts
    BY <1>0, <1>6 DEF LocalExit, Terminal, JobInv, HostInv
  <2> QED BY <2>1, <2>2, CompleteMoved
<1>7. CASE LocalError(j)
  BY <1>7, ErrorMoved DEF LocalError, host
<1>8. CASE DirectReady(j)
  <2>1. job' = job /\ starts[j] = 0 /\ job[j].state = "running"
    BY <1>0, <1>8 DEF DirectReady, Changed, JobInv, ExecInv, Untouched
  <2>2. starts' = starts \/ starts' = [starts EXCEPT ![j] = 1]
    BY <1>0, <1>8, <2>1 DEF DirectReady
  <2>3. CASE k = j
    BY <2>1, <2>2, <2>3, <1>0, MovedNot, MovedBegins
  <2>4. CASE k # j
    BY <2>1, <2>2, <2>4, <1>0, MovedNot
  <2> QED BY <2>3, <2>4
<1>9. CASE DirectExit(j)
  <2>1. PICK zero \in BOOLEAN : Leave(j, Completed(job[j], "failed", zero, "unset"))
    BY <1>9 DEF DirectExit
  <2>2. "failed" \in Terminal /\ starts[j] > 0 /\ at[j] # "idle" /\ starts' = starts
    BY <1>0, <1>9 DEF DirectExit, Terminal, JobInv, HostInv
  <2> QED BY <2>1, <2>2, CompleteMoved
<1>10. CASE DirectError(j)
  <2>1. "timed_out" \in Terminal /\ at[j] # "idle" /\ starts' = starts
    BY <1>10 DEF DirectError, Terminal, host
  <2>2. CASE Leave(j, Errored(job[j], "other"))
    BY <2>1, <2>2, ErrorMoved
  <2>3. CASE Leave(j, Completed(job[j], "timed_out", FALSE, "unset"))
    BY <2>1, <2>3, CompleteMoved
  <2> QED BY <1>10, <2>2, <2>3 DEF DirectError
<1> QED BY <1>1, <1>2, <1>3, <1>4, <1>5, <1>6, <1>7, <1>8, <1>9, <1>10 DEF Progress
LEMMA ClientMoved ==
  ASSUME IInv, NEW j \in Jobs, Client(j), NEW k \in Jobs
  PROVE  Moved(k)
<1>0. JobInv(j) /\ job \in [Jobs -> Job] /\ job[j] \in Job
  BY DEF IInv, TypeOK
<1>1. CASE Start(j)
  <2>1. job' = [job EXCEPT ![j] = Started(j)] /\ starts' = starts /\ job[j].state = "absent"
    BY <1>1 DEF Start, Save, host
  <2>2. /\ Started(j).state = "queued" /\ "cancel" \notin Started(j).flags
        /\ "cancel" \notin job[j].flags /\ starts[j] = 0
    BY <1>0, <2>1, NewRecord DEF JobInv, RecordInv, ExecInv, Untouched
  <2> QED BY <1>0, <2>1, <2>2, MovedAccepted, MovedNot
<1>2. CASE approve(j)
  <2> DEFINE w == Without(job[j], "waiting")
             r == [w EXCEPT !.approval = "approved"]
  <2>1. w \in Job /\ w.state = job[j].state /\ w.flags = job[j].flags \ {"waiting"}
    BY <1>0, EditedRecords
  <2>2. r.state = job[j].state /\ ("cancel" \in r.flags <=> "cancel" \in job[j].flags)
    <3> HIDE DEF w
    <3> QED BY <2>1 DEF Job
  <2>3. job' = [job EXCEPT ![j] = r] /\ starts' = starts
    BY <1>0, <1>2 DEF approve, Save, host
  <2> HIDE DEF w, r
  <2> QED BY <1>0, <2>2, <2>3, MovedSame
<1>3. CASE rejectApproval(j)
  <2> DEFINE q == [job[j] EXCEPT !.approval = "rejected"]
             f == Finished(q, "cancelled")
  <2>0. /\ job[j].state = "queued" /\ "cancel" \notin job[j].flags /\ starts' = starts
        /\ job' \in {[job EXCEPT ![j] = q], [job EXCEPT ![j] = f]}
    BY <1>0, <1>3 DEF rejectApproval, Pending, Has, JobInv, RecordInv, host, Save
  <2>1. q \in Job /\ q.state = job[j].state /\ q.flags = job[j].flags
    BY <1>0 DEF Job
  <2>2. f.state = "cancelled" /\ f.flags = job[j].flags \ {"waiting"}
    <3> HIDE DEF q
    <3> QED BY <2>1, FinishedRecord DEF Terminal
  <2> HIDE DEF q, f
  <2>3. CASE job' = [job EXCEPT ![j] = q]
    BY <1>0, <2>0, <2>1, <2>3, MovedSame
  <2>4. CASE job' = [job EXCEPT ![j] = f]
    <3>1. job[j].state \in Active /\ f.state \in Terminal
      BY <2>0, <2>2 DEF Active, Terminal
    <3> QED BY <1>0, <2>0, <2>2, <2>4, <3>1, MovedEnds, MovedNot
  <2> QED BY <2>0, <2>3, <2>4
<1>4. CASE Cancel(j)
  <2> DEFINE c == With(job[j], "cancel")
             w == Without(c, "waiting")
             r == [w EXCEPT !.verified = Verifiable(j)]
             f == Finished(r, "cancelled")
             g == Completed(r, "failed", FALSE, "unset")
  <2>1. c \in Job /\ c.state = job[j].state /\ "cancel" \in c.flags
    BY <1>0, EditedRecords
  <2>2. w \in Job /\ w.state = job[j].state /\ "cancel" \in w.flags
    <3> HIDE DEF c
    <3> QED BY <2>1, EditedRecords
  <2>3. r \in Job /\ r.state = job[j].state /\ "cancel" \in r.flags
    <3> HIDE DEF w
    <3> QED BY <2>2 DEF Job, Verifiable
  <2>4. f.state = "cancelled" /\ "cancel" \in f.flags
    <3> HIDE DEF r
    <3> QED BY <2>3, FinishedRecord DEF Terminal
  <2>5. g.state = "cancelled" /\ "cancel" \in g.flags
    <3>1. \E zero \in BOOLEAN : g = Completed(r, "failed", zero, "unset")
      OBVIOUS
    <3> HIDE DEF r, g
    <3> QED BY <2>3, <3>1, CompletedRecord DEF Terminal
  <2>6. /\ starts' = starts /\ job[j].state \in Active
        /\ \/ job' = [job EXCEPT ![j] = f] \/ job' = [job EXCEPT ![j] = g]
           \/ job' = [job EXCEPT ![j] = r] /\ job[j].state = "running"
    BY <1>4 DEF Cancel, Save, Leave, host
  <2> HIDE DEF c, w, r, f, g
  <2> QED BY <1>0, <2>3, <2>4, <2>5, <2>6, MovedCancel, MovedNot
<1> QED BY <1>1, <1>2, <1>3, <1>4 DEF Client

LEMMA DrainMoved ==
  ASSUME IInv, NEW j \in Jobs, DrainExpired(j) \/ DrainRun(j), NEW k \in Jobs
  PROVE  Moved(k)
<1>0. /\ JobInv(j) /\ Runnable(j) /\ Untouched(j) /\ job \in [Jobs -> Job] /\ job[j] \in Job
      /\ "cancel" \notin job[j].flags
  BY HeadOfQueue DEF DrainExpired, DrainRun, IInv, TypeOK, DrainHead, Has
<1>1. CASE DrainExpired(j)
  <2> DEFINE q == [job[j] EXCEPT !.approval = "expired"]
             f == Finished(q, "failed")
  <2>1. q \in Job /\ q.flags = job[j].flags
    BY <1>0 DEF Job
  <2>2. f.state = "failed" /\ f.flags = job[j].flags \ {"waiting"} /\ f.state \in Terminal
    <3> HIDE DEF q
    <3> QED BY <2>1, FinishedRecord DEF Terminal
  <2>3. job' = [job EXCEPT ![j] = f] /\ starts' = starts /\ job[j].state \in Active
    BY <1>0, <1>1 DEF DrainExpired, Save, host, Runnable, Active
  <2> HIDE DEF q, f
  <2> QED BY <1>0, <2>2, <2>3, MovedEnds, MovedNot
<1>2. CASE DrainRun(j)
  <2> DEFINE r == [job[j] EXCEPT !.state = "running"]
  <2>1. r.state = "running" /\ r.flags = job[j].flags
    BY <1>0 DEF Job
  <2>2. /\ job' = [job EXCEPT ![j] = r] /\ starts[j] = 0 /\ job[j].state = "queued"
        /\ starts' = starts \/ starts' = [starts EXCEPT ![j] = 1]
        /\ starts \in [Jobs -> Nat]
    BY <1>0, <1>2 DEF DrainRun, Save, Untouched, Runnable, IInv, TypeOK
  <2> HIDE DEF r
  <2>3. CASE k = j
    <3>1. job[k].state \in Active /\ job'[k].state \in Active
      BY <1>0, <2>1, <2>2, <2>3 DEF Active
    <3> QED BY <1>0, <2>1, <2>2, <2>3, <3>1, MovedSame, MovedBegins
  <2>4. CASE k # j
    BY <1>0, <2>2, <2>4, MovedNot
  <2> QED BY <2>3, <2>4
<1> QED BY <1>1, <1>2

LEMMA DownMoved ==
  ASSUME IInv, NEW d \in {job, disk}, Down(d), NEW k \in Jobs
  PROVE  Moved(k)
<1>1. /\ job'[k] = d[k] /\ starts'[k] = starts[k] /\ JobInv(k)
      /\ d[k] = job[k] \/ d[k] = disk[k]
  BY DEF Down, host, IInv
<1>2. CASE d[k] = job[k]
  BY <1>1, <1>2, MovedNot
<1>3. CASE d[k] = disk[k] /\ disk[k].state = job[k].state
  BY <1>1, <1>3, MovedSame DEF JobInv, DiskInv
<1>4. CASE d[k] = disk[k] /\ disk[k].state # job[k].state
  <2>1. /\ disk[k].state = "absent" /\ job[k].state = "queued"
        /\ "cancel" \notin job[k].flags /\ "cancel" \notin disk[k].flags /\ starts[k] = 0
    BY <1>1, <1>4 DEF JobInv, DiskInv, RecordInv, ExecInv, Untouched
  <2> QED BY <1>1, <1>4, <2>1, MovedForgotten
<1> QED BY <1>1, <1>2, <1>3, <1>4

LEMMA RestartMoved ==
  ASSUME IInv, Restart, NEW k \in Jobs
  PROVE  Moved(k)
<1>0. /\ job[k] \in Job /\ JobInv(k) /\ starts'[k] = starts[k]
      /\ \/ job'[k] = [job[k] EXCEPT !.state = "running"] /\ job[k].state \in Active
         \/ job'[k] = Finished(job[k], "lost") /\ job[k].state \in Active
         \/ job'[k] = job[k]
  BY DEF Restart, Save, host, IInv, TypeOK
<1>1. CASE job'[k] = [job[k] EXCEPT !.state = "running"] /\ job[k].state \in Active
  <2>1. job'[k].state \in Active /\ job'[k].flags = job[k].flags
    BY <1>0, <1>1 DEF Job, Active
  <2> QED BY <1>0, <1>1, <2>1, MovedSame
<1>2. CASE job'[k] = Finished(job[k], "lost") /\ job[k].state \in Active
  <2>1. job'[k].state = "lost" /\ "lost" \in Terminal /\ job'[k].flags = job[k].flags \ {"waiting"}
    BY <1>0, <1>2, FinishedRecord DEF Terminal
  <2> QED BY <1>0, <1>2, <2>1, MovedEnds
<1>3. CASE job'[k] = job[k]
  BY <1>0, <1>3, MovedNot
<1> QED BY <1>0, <1>1, <1>2, <1>3

LEMMA HostMoved ==
  ASSUME IInv, NEW j \in Jobs, Host(j), NEW k \in Jobs
  PROVE  Moved(k)
<1>0. JobInv(j) /\ starts \in [Jobs -> Nat] /\ job' = job
  BY DEF IInv, TypeOK, Host, Deliver, RunnerEnds, OrphanExits, table
<1>1. CASE RunnerEnds(j) \/ OrphanExits(j)
  BY <1>0, <1>1, MovedNot DEF RunnerEnds, OrphanExits
<1>2. CASE Deliver(j)
  <2>1. CASE starts' = starts
    BY <1>0, <2>1, MovedNot
  <2>2. CASE starts' # starts
    <3>1. /\ starts[j] = 0 /\ starts' = [starts EXCEPT ![j] = 1]
          /\ job[j].state \in {"running", "cancelled", "lost"}
      BY <1>0, <1>2, <2>2 DEF Deliver, JobInv, HostInv
    <3>2. CASE k = j
      BY <1>0, <3>1, <3>2, MovedBegins
    <3>3. CASE k # j
      BY <1>0, <3>1, <3>3, MovedNot
    <3> QED BY <3>2, <3>3
  <2> QED BY <2>1, <2>2
<1> QED BY <1>1, <1>2 DEF Host

LEMMA WatcherMoved ==
  ASSUME IInv, NEW j \in Jobs, NEW k \in Jobs,
         Expire(j) \/ StillWatching(j) \/ WatchDeadline(j) \/ CancelAnswer(j)
  PROVE  Moved(k)
<1>0. job \in [Jobs -> Job] /\ job[j] \in Job
  BY DEF IInv, TypeOK
<1>1. CASE Expire(j) \/ StillWatching(j)
  BY <1>1, MovedNot DEF Expire, StillWatching, Changed, table, host
<1>2. CASE WatchDeadline(j)
  <2>1. CASE at[j] = "watch" /\ Threw(j, "lost")
    BY <1>2, <2>1, ErrorMoved DEF WatchDeadline, Threw, FallsBack, host
  <2>2. CASE at[j] \in {"recover", "rewatch"} /\ Leave(j, Finished(job[j], "lost"))
    <3> DEFINE r == Finished(job[j], "lost")
    <3>1. /\ r \in Job /\ r.state = "lost" /\ r.state \in Terminal
          /\ r.flags = job[j].flags \ {"waiting"}
      BY <1>0, FinishedRecord DEF Terminal
    <3> HIDE DEF r
    <3>2. Leave(j, r) /\ at[j] # "idle" /\ starts' = starts
      BY <1>2, <2>2 DEF WatchDeadline, host, r
    <3> QED BY <3>1, <3>2, LeaveMoved
  <2> QED BY <1>2, <2>1, <2>2 DEF WatchDeadline
<1>3. CASE CancelAnswer(j)
  <2>1. CASE job' = job
    BY <1>3, <2>1, MovedNot DEF CancelAnswer, host
  <2>2. CASE job' # job
    <3>1. job' = [job EXCEPT ![j] = [job[j] EXCEPT !.verified = runner[j].verified]]
      BY <1>0, <1>3, <2>2 DEF CancelAnswer, Changed
    <3>2. job'[j].state = job[j].state /\ job'[j].flags = job[j].flags
      BY <1>0, <3>1 DEF Job
    <3> QED BY <1>0, <1>3, <3>1, <3>2, MovedSame, MovedNot DEF CancelAnswer, host
  <2> QED BY <2>1, <2>2
<1> QED BY <1>1, <1>2, <1>3

LEMMA NextMoved ==
  ASSUME IInv, [Next]_vars, NEW k \in Jobs
  PROVE  Moved(k)
<1>1. CASE UNCHANGED vars
  BY <1>1, MovedNot DEF vars, table, host
<1>2. CASE Drain
  <2>1. CASE DrainEnd
    BY <2>1, MovedNot DEF DrainEnd, table, host
  <2>2. CASE DrainRejects
    BY <2>2, DownMoved DEF DrainRejects
  <2> QED BY <1>2, <2>1, <2>2, DrainMoved DEF Drain
<1>3. CASE PersistTimer
  BY <1>3, MovedNot DEF PersistTimer, Save, host
<1>4. CASE Crash \/ dispose
  BY <1>4, DownMoved DEF Crash, dispose
<1>5. CASE Restart
  BY <1>5, RestartMoved
<1> QED BY <1>1, <1>2, <1>3, <1>4, <1>5, ClientMoved, ProgressMoved, HostMoved, WatcherMoved
        DEF Next
(* The coordinator with its hosts implements Task: acceptance, beginning,  *)
(* cancellation and end of every job happen as the abstract specification  *)
(* says, across crashes, retries, fallbacks and late deliveries.           *)
THEOREM TaskImplemented == Spec => ImplementsTask
<1>1. Init => Promise!Init
  <2> SUFFICES ASSUME Init PROVE Promise!Init
    OBVIOUS
  <2>1. ASSUME NEW j \in Jobs PROVE TaskOf(job[j], starts[j]) = Promise!Unknown
    <3>1. job[j].state = "absent" /\ "cancel" \notin job[j].flags /\ starts[j] = 0
      BY NewRecord DEF Init
    <3> QED BY <3>1, UnknownTask
  <2>2. Mapped = [j \in Jobs |-> Promise!Unknown]
    BY <2>1 DEF Mapped, TaskOf
  <2> QED BY <2>2 DEF Promise!Init, Mapped
<1>2. ASSUME IInv, IInv', [Next]_vars
      PROVE  [Promise!Next]_Mapped
  <2>1. ASSUME NEW j \in Jobs
        PROVE  /\ Mapped[j] = TaskOf(job[j], starts[j])
               /\ Mapped'[j] = TaskOf(job'[j], starts'[j])
    BY <2>1 DEF Mapped, TaskOf
  <2>2. Mapped' \in [Jobs -> Promise!Task]
    <3>1. ASSUME NEW j \in Jobs
          PROVE  TaskOf(job'[j], starts'[j]) \in Promise!Task
      <4>1. job'[j].state \in {"absent"} \cup Active \cup Terminal
        BY <1>2, <3>1 DEF IInv, TypeOK, Job
      <4> DEFINE st == IF job'[j].state \in Active THEN "accepted" ELSE job'[j].state
      <4>2. st \in {"absent", "accepted"} \cup Promise!Ends
        BY <4>1 DEF Promise!Ends, Terminal
      <4>3. (starts'[j] > 0) \in BOOLEAN /\ Has(job'[j], "cancel") \in BOOLEAN
        BY DEF Has
      <4> HIDE DEF st
      <4> QED BY <4>2, <4>3 DEF TaskOf, Promise!Task, st
    <3>2. Mapped' = [j \in Jobs |-> TaskOf(job'[j], starts'[j])]
      BY DEF Mapped, TaskOf
    <3> QED BY <3>1, <3>2
  <2>3. \A j \in Jobs : TaskStep(Mapped[j], Mapped'[j])
    BY <1>2, <2>1, NextMoved DEF Moved
  <2>4. Promise!Next
    BY <2>2, <2>3 DEF Promise!Next, TaskStep, Mapped
  <2> QED BY <2>4
<1>3. IInv /\ IInv' /\ [Next]_vars => [Promise!Next]_Mapped
  BY <1>2
<1> QED BY <1>1, <1>3, Invariant, PTL DEF Spec, ImplementsTask, Promise!Spec, Mapped
=============================================================================
