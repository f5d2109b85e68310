------------------------------ MODULE Lifecycle ------------------------------
(***************************************************************************)
(* The coordinator: LifecycleManager, from start to the terminal record of *)
(* a job, over the Runner, direct SSH or a local process.                  *)
(*                                                                         *)
(* The coordinator is one event loop.  An action is one handler up to its  *)
(* next await: a request of a client, one turn of drain's loop, an answer  *)
(* or an error of a remote call, the end of a process.  What the target    *)
(* host does in between are actions of its own.  The Runner is abstracted  *)
(* to what RunnerJob shows of it: it starts the command of a job at most   *)
(* once however often it is submitted, a terminal record other than lost   *)
(* means that the command ended, and cancellationVerified that nothing of  *)
(* it runs.  The store is abstracted to what JobStore shows of it: a       *)
(* restart finds the table of the last save.                               *)
(***************************************************************************)
EXTENDS Naturals, Sequences, FiniteSets

CONSTANTS Jobs,          \* jobs that clients start
          Mode,          \* of each job: "local", "direct", "runner" or "auto"
          Gated,         \* jobs whose command needs an approval
          Profiled,      \* jobs with a credentialProfileId that can be resolved
          MaxConcurrent, \* maxConcurrentJobs
          MaxAttempts,   \* sshHandshakeAttempts
          Faults,        \* kinds of fault the environment may produce
          MaxFaults      \* bound: how many of them

ASSUME LifecycleAssumption ==
  /\ Mode \in [Jobs -> {"local", "direct", "runner", "auto"}]
  /\ Gated \subseteq Jobs /\ Profiled \subseteq Jobs
  /\ MaxConcurrent \in Nat \ {0} /\ MaxAttempts \in Nat \ {0} /\ MaxFaults \in Nat
  /\ Faults \subseteq {"audit", "crash"}

VARIABLES job,      \* the table of job records
          disk,     \* the table the store would load
          timer,    \* persistenceTimer is armed
          queue,    \* jobs to run, in order
          pending,  \* jobs whose input is in pendingInputs
          contexts, \* jobs with an approval context
          grant,    \* the approval grant of each job: "none", "valid" or "expired"
          active,   \* activeJobs
          drain,    \* "none", "scheduled" or "running" (inside drain's loop)
          at,       \* what the execution of each job awaits
          tries,    \* submits of each job so far
          handle,   \* the kind of runtime handle of each job
          rpc,      \* jobs whose cancel call is under way
          flight,   \* submit requests that may still reach the Runner
          runner,   \* the Runner's record of each job
          running,  \* jobs whose command runs somewhere
          starts,   \* how often the command of each job was started
          audited,  \* jobs whose approval is in the audit log
          early,    \* jobs that were cancelled before they had a handle
          up,       \* the coordinator process runs
          faults    \* faults so far

table     == <<job, disk, timer>>
sched     == <<queue, pending, contexts, active, drain>>
execution == <<at, tries, handle, rpc>>
host      == <<flight, runner, running, starts>>
ghosts    == <<grant, audited, early>>
vars      == <<table, sched, execution, host, ghosts, up, faults>>

Active   == {"queued", "running"}
Terminal == {"succeeded", "failed", "cancelled", "timed_out", "lost"}

(* flags: cancelRequested, phase = awaiting_approval, remoteJobId is set.  *)
Job == [state    : {"absent"} \cup Active \cup Terminal,
        backend  : {"local", "ssh_direct", "ssh_runner"},
        approval : {"not_required", "pending", "approved", "rejected", "expired"},
        verified : {"unset", "yes", "no"},
        flags    : SUBSET {"cancel", "waiting", "remote"}]

Backend(j) == CASE Mode[j] = "local" -> "local" [] Mode[j] = "direct" -> "ssh_direct"
                [] OTHER -> "ssh_runner"
NoJob(j) == [state |-> "absent", backend |-> Backend(j), approval |-> "not_required",
             verified |-> "unset", flags |-> {}]

Awaits == {"idle", "ping", "submit", "watch", "recover", "rewatch", "connect", "exec", "local"}

(* The Runner's record: its state, and whether it says verified.           *)
Remote == [state : {"none"} \cup Active \cup Terminal, verified : {"yes", "no"}]

TypeOK ==
  /\ job \in [Jobs -> Job] /\ disk \in [Jobs -> Job] /\ timer \in BOOLEAN
  /\ \A i \in DOMAIN queue : queue[i] \in Jobs
  /\ pending \subseteq Jobs /\ contexts \subseteq Jobs /\ active \subseteq Jobs
  /\ grant \in [Jobs -> {"none", "valid", "expired"}]
  /\ drain \in {"none", "scheduled", "running"}
  /\ at \in [Jobs -> Awaits] /\ tries \in [Jobs -> 0 .. MaxAttempts]
  /\ handle \in [Jobs -> {"none", "local", "ssh", "runner"}]
  /\ rpc \subseteq Jobs /\ flight \subseteq Jobs
  /\ runner \in [Jobs -> Remote]
  /\ running \subseteq Jobs /\ starts \in [Jobs -> Nat]
  /\ audited \subseteq Jobs /\ early \subseteq Jobs
  /\ up \in BOOLEAN /\ faults \in 0 .. MaxFaults
-----------------------------------------------------------------------------
(* The event loop can take a new event.                                    *)
Free == up /\ drain # "running"

Fault(kind) == kind \in Faults /\ faults < MaxFaults /\ faults' = faults + 1
NoFault == UNCHANGED faults

Has(r, flag) == flag \in r.flags
With(r, flag) == [r EXCEPT !.flags = @ \cup {flag}]
Without(r, flag) == [r EXCEPT !.flags = @ \ {flag}]

(* persistNow, and changed with its debounced save.                        *)
Save(records) == job' = records /\ disk' = records /\ timer' = FALSE
Changed(records) == job' = records /\ timer' = TRUE /\ UNCHANGED disk

scheduleDrain == drain' = IF drain = "none" THEN "scheduled" ELSE drain

(* finish: the record of a job that ends in state st.                      *)
Finished(r, st) == [Without(r, "waiting") EXCEPT !.state = st]

(* The execution of j is over: run's finally, after finish in state st.    *)
MutDrainForgotten(j, r) ==
  /\ Save([job EXCEPT ![j] = r])
  /\ at' = [at EXCEPT ![j] = "idle"]
  /\ handle' = [handle EXCEPT ![j] = "none"]
  /\ active' = active \ {j} /\ contexts' = contexts \ {j}
  /\ UNCHANGED <<queue, pending, drain>>
Leave(j, r) ==
  /\ Save([job EXCEPT ![j] = r])
  /\ at' = [at EXCEPT ![j] = "idle"]
  /\ handle' = [handle EXCEPT ![j] = "none"]
  /\ active' = active \ {j} /\ contexts' = contexts \ {j}
  /\ scheduleDrain
  /\ UNCHANGED <<queue, pending>>

(* completeExecution: the record for a result.  v is the result's          *)
(* cancellationVerified, zero an exit code of 0.                           *)
Result(st, zero) == IF st \in {"lost", "timed_out", "cancelled"} THEN st
                    ELSE IF zero THEN "succeeded" ELSE "failed"
MutResultFirst(r, st, zero, v) ==
  Finished([r EXCEPT !.verified = IF v = "unset" THEN @ ELSE v],
           IF Has(r, "cancel") /\ ~zero THEN "cancelled" ELSE Result(st, zero))
Completed(r, st, zero, v) ==
  Finished([r EXCEPT !.verified = IF v = "unset" THEN @ ELSE v],
           IF Has(r, "cancel") THEN "cancelled" ELSE Result(st, zero))

(* run's catch: the record for an error.                                   *)
Errored(r, code) ==
  Finished(r, IF Has(r, "cancel") THEN "cancelled"
              ELSE IF code = "lost" THEN "lost" ELSE "failed")
-----------------------------------------------------------------------------
(***************************************************************************)
(* Requests of clients.                                                    *)
(***************************************************************************)
Started(j) == [NoJob(j) EXCEPT !.state = "queued",
                 !.approval = IF j \in Gated THEN "pending" ELSE "not_required",
                 !.flags = IF j \in Gated THEN {"waiting"} ELSE {}]

(* start of a job that is not in the table yet; a job that is (by request  *)
(* trace or idempotency key) is the answer itself.  When the audit log     *)
(* throws, the record and its input stay behind.                           *)
Start(j) ==
  /\ Free /\ job[j].state = "absent"
  /\ pending' = pending \cup {j}
  /\ contexts' = contexts \cup ({j} \cap Gated)
  /\ \/ /\ NoFault /\ j \in Gated
        /\ Save([job EXCEPT ![j] = Started(j)])
        /\ UNCHANGED <<queue, drain>>
     \/ /\ NoFault /\ j \notin Gated
        /\ Save([job EXCEPT ![j] = Started(j)])
        /\ queue' = Append(queue, j)
        /\ scheduleDrain
     \/ /\ Fault("audit")
        /\ job' = [job EXCEPT ![j] = Started(j)]
        /\ UNCHANGED <<disk, timer, queue, drain>>
  /\ UNCHANGED <<active, execution, host, ghosts, up>>

Pending(j) == Has(job[j], "waiting") /\ job[j].approval = "pending" /\ j \in contexts

approve(j) ==
  /\ Free /\ Pending(j) /\ j \in pending
  /\ LET granted == [job EXCEPT ![j] = [Without(@, "waiting") EXCEPT !.approval = "approved"]]
     IN \/ /\ NoFault
           /\ Save(granted)
           /\ contexts' = contexts \ {j}
           /\ audited' = audited \cup {j}
           /\ scheduleDrain
        \/ /\ Fault("audit")
           /\ job' = granted
           /\ UNCHANGED <<disk, timer, contexts, audited, drain>>
  /\ grant' = [grant EXCEPT ![j] = "valid"]
  /\ queue' = Append(queue, j)
  /\ UNCHANGED <<pending, active, execution, host, early, up>>

rejectApproval(j) ==
  /\ Free /\ Pending(j)
  /\ pending' = pending \ {j}
  /\ LET rejected == [job[j] EXCEPT !.approval = "rejected"]
     IN \/ /\ NoFault
           /\ Save([job EXCEPT ![j] = Finished(rejected, "cancelled")])
           /\ contexts' = contexts \ {j}
        \/ /\ Fault("audit")
           /\ job' = [job EXCEPT ![j] = rejected]
           /\ UNCHANGED <<disk, timer, contexts>>
  /\ UNCHANGED <<queue, active, drain, execution, host, ghosts, up>>

(* What cancel says of the termination before anything was signalled.      *)
MutHandleTrusted(j) == "yes"
Verifiable(j) == IF handle[j] \in {"none", "local"} THEN "yes" ELSE "no"

(* The queue without the first j: indexOf and splice.                      *)
MutNotDequeued(j) == queue
Dequeued(j) ==
  LET places == {i \in DOMAIN queue : queue[i] = j}
      first  == CHOOSE i \in places : \A k \in places : i <= k
  IN  IF places = {} THEN queue
      ELSE SubSeq(queue, 1, first - 1) \o SubSeq(queue, first + 1, Len(queue))

Cancel(j) ==
  /\ Free /\ job[j].state \in Active
  /\ LET r == [Without(With(job[j], "cancel"), "waiting") EXCEPT !.verified = Verifiable(j)]
     IN \/ /\ job[j].state = "queued"
           /\ Save([job EXCEPT ![j] = Finished(r, "cancelled")])
           /\ queue' = Dequeued(j)
           /\ pending' = pending \ {j} /\ contexts' = contexts \ {j}
           /\ UNCHANGED <<active, drain, execution>>
        \/ /\ job[j].state = "running" /\ handle[j] = "ssh"    \* channel and client closed
           /\ Leave(j, Completed(r, "failed", FALSE, "unset"))
           /\ UNCHANGED <<tries, rpc>>
        \/ /\ job[j].state = "running" /\ handle[j] = "runner" /\ ~Has(job[j], "cancel")
           /\ Save([job EXCEPT ![j] = r])
           /\ rpc' = rpc \cup {j}
           /\ UNCHANGED <<sched, at, tries, handle>>
        \/ /\ job[j].state = "running"
           /\ handle[j] \in {"none", "local"} \/ (handle[j] = "runner" /\ Has(job[j], "cancel"))
           /\ Save([job EXCEPT ![j] = r])
           /\ UNCHANGED <<sched, execution>>
  /\ early' = IF job[j].state = "running" /\ handle[j] = "none" THEN early \cup {j} ELSE early
  /\ UNCHANGED <<host, grant, audited, up, faults>>
-----------------------------------------------------------------------------
(***************************************************************************)
(* drain.                                                                  *)
(***************************************************************************)
DrainEnd ==
  /\ up /\ drain # "none"
  /\ Cardinality(active) >= MaxConcurrent \/ queue = <<>>
  /\ drain' = "none"
  /\ UNCHANGED <<table, queue, pending, contexts, active, execution, host, ghosts, up, faults>>

DrainHead(j) ==
  /\ up /\ drain # "none" /\ Cardinality(active) < MaxConcurrent
  /\ queue # <<>> /\ j = Head(queue) /\ queue' = Tail(queue)
  /\ j \in pending /\ ~Has(job[j], "cancel")
  /\ pending' = pending \ {j}

MutGrantTrusted(j) == FALSE
GrantExpired(j) == job[j].approval = "approved" /\ grant[j] = "expired"

DrainExpired(j) ==
  /\ DrainHead(j) /\ GrantExpired(j)
  /\ Save([job EXCEPT ![j] = Finished([@ EXCEPT !.approval = "expired"], "failed")])
  /\ contexts' = contexts \ {j}
  /\ drain' = "running"
  /\ UNCHANGED <<active, execution, host, ghosts, up, faults>>

(* The process ends; the table d is what the store will load.              *)
Down(d) ==
  /\ up' = FALSE /\ job' = d /\ disk' = d /\ timer' = FALSE
  /\ queue' = <<>> /\ pending' = {} /\ contexts' = {} /\ active' = {} /\ drain' = "none"
  /\ at' = [j \in Jobs |-> "idle"] /\ tries' = [j \in Jobs |-> 0]
  /\ handle' = [j \in Jobs |-> "none"] /\ rpc' = {}
  /\ UNCHANGED <<host, ghosts>>

(* The audit log throws on an expired grant: drain is not awaited and no   *)
(* handler exists, so the unhandled rejection ends the process.            *)
DrainRejects ==
  /\ up /\ drain # "none" /\ Cardinality(active) < MaxConcurrent
  /\ queue # <<>> /\ GrantExpired(Head(queue))
  /\ Fault("audit")
  /\ Down(disk)

(* run, up to its first await.                                             *)
Await(j) == CASE Mode[j] = "local" -> "local" [] Mode[j] = "direct" -> "connect" [] OTHER -> "ping"
Handle(j) == CASE Mode[j] = "local" -> "local" [] Mode[j] = "direct" -> "ssh" [] OTHER -> "none"

DrainRun(j) ==
  /\ DrainHead(j) /\ ~GrantExpired(j)
  /\ drain' = "running"
  /\ active' = active \cup {j}
  /\ Save([job EXCEPT ![j].state = "running"])
  /\ at' = [at EXCEPT ![j] = Await(j)]
  /\ handle' = [handle EXCEPT ![j] = Handle(j)]
  /\ \/ /\ Mode[j] = "local"            \* spawn succeeds
        /\ running' = running \cup {j}
        /\ starts' = [starts EXCEPT ![j] = @ + 1]
     \/ UNCHANGED <<running, starts>>   \* spawn fails, or the job is remote
  /\ UNCHANGED <<contexts, tries, rpc, flight, runner, ghosts, up, faults>>

(* Time passes.                                                            *)
Expire(j) ==
  /\ grant[j] = "valid"
  /\ grant' = [grant EXCEPT ![j] = "expired"]
  /\ UNCHANGED <<table, sched, execution, host, audited, early, up, faults>>

PersistTimer ==
  /\ Free /\ timer
  /\ Save(job)
  /\ UNCHANGED <<sched, execution, host, ghosts, up, faults>>
-----------------------------------------------------------------------------
(***************************************************************************)
(* runSshJob over the Runner.                                              *)
(***************************************************************************)
(* runSshJob's catch: an error that proves nothing was submitted.          *)
MutFallsBackAlways(j, code) == Mode[j] = "auto"
FallsBack(j, code) == Mode[j] = "auto" /\ code = "unavailable"

(* runRunner threw: direct SSH takes over, or the job ends.                *)
Threw(j, code) ==
  \/ /\ FallsBack(j, code)
     /\ Changed([job EXCEPT ![j] = [Without(@, "remote") EXCEPT !.backend = "ssh_direct"]])
     /\ at' = [at EXCEPT ![j] = "connect"]
     /\ handle' = [handle EXCEPT ![j] = "ssh"]
     /\ UNCHANGED sched
  \/ /\ ~FallsBack(j, code)
     /\ Leave(j, Errored(job[j], code))

PingOk(j) ==
  /\ Free /\ at[j] = "ping"
  /\ at' = [at EXCEPT ![j] = "submit"]
  /\ tries' = [tries EXCEPT ![j] = 1]
  /\ flight' = flight \cup {j}
  /\ Changed(job)
  /\ UNCHANGED <<sched, handle, rpc, runner, running, starts, ghosts, up, faults>>

PingFail(j) ==
  /\ Free /\ at[j] = "ping"
  /\ \E code \in {"unavailable", "other"} : Threw(j, code)
  /\ UNCHANGED <<tries, rpc, host, ghosts, up, faults>>

(* The Runner answers that it has the job; watchRunnerJob begins, and      *)
(* passes on a cancel that came before.                                    *)
Attach(j, next) ==
  /\ at' = [at EXCEPT ![j] = next]
  /\ handle' = [handle EXCEPT ![j] = "runner"]
  /\ rpc' = IF Has(job[j], "cancel") THEN rpc \cup {j} ELSE rpc

SubmitReply(j) ==
  /\ Free /\ at[j] = "submit" /\ runner[j].state # "none"
  /\ Changed([job EXCEPT ![j] = With(@, "remote")])
  /\ Attach(j, "watch")
  /\ UNCHANGED <<sched, tries, host, ghosts, up, faults>>

AttemptsLeft(j) == tries[j] < MaxAttempts

(* The call failed or timed out; whether the request arrived, or still     *)
(* will, is not known.                                                     *)
SubmitRetry(j) ==
  /\ Free /\ at[j] = "submit" /\ AttemptsLeft(j)
  /\ tries' = [tries EXCEPT ![j] = @ + 1]
  /\ flight' = flight \cup {j}
  /\ UNCHANGED <<table, sched, at, handle, rpc, runner, running, starts, ghosts, up, faults>>

SubmitGivesUp(j) ==
  /\ Free /\ at[j] = "submit" /\ ~AttemptsLeft(j)
  /\ Threw(j, "lost")
  /\ flight' \in {flight, flight \ {j}}
  /\ UNCHANGED <<tries, rpc, runner, running, starts, ghosts, up, faults>>

(* IDEMPOTENCY_CONFLICT: the Runner refused the key.                       *)
SubmitConflict(j) ==
  /\ Free /\ at[j] = "submit" /\ runner[j].state = "none" /\ j \in flight
  /\ Threw(j, "other")
  /\ flight' = flight \ {j}
  /\ UNCHANGED <<tries, rpc, runner, running, starts, ghosts, up, faults>>

(* A watch call answered with a record that is not terminal or with events *)
(* to come, or a call failed before the deadline.                          *)
StillWatching(j) ==
  /\ Free /\ at[j] \in {"watch", "recover", "rewatch"}
  /\ Changed(job)
  /\ UNCHANGED <<sched, execution, host, ghosts, up, faults>>

(* The exit code of a job that the Runner calls failed may be 0, unless    *)
(* the command could not be started: then there is none.                   *)
ExitsZero(j) ==
  CASE runner[j].state = "succeeded" -> {TRUE}
    [] runner[j].state = "failed" /\ starts[j] > 0 -> BOOLEAN
    [] OTHER -> {FALSE}

WatchReply(j) ==
  /\ Free /\ at[j] \in {"watch", "rewatch"} /\ runner[j].state \in Terminal
  /\ \E zero \in ExitsZero(j) :
       Leave(j, Completed(job[j], runner[j].state, zero, runner[j].verified))
  /\ UNCHANGED <<tries, rpc, host, ghosts, up, faults>>

(* A call failed after the deadline.                                       *)
WatchDeadline(j) ==
  /\ Free
  /\ \/ at[j] = "watch" /\ Threw(j, "lost")
     \/ at[j] \in {"recover", "rewatch"} /\ Leave(j, Finished(job[j], "lost"))
  /\ UNCHANGED <<tries, rpc, host, ghosts, up, faults>>

(* recoverRunnerJob reached the Runner again.                              *)
RecoverReply(j) ==
  /\ Free /\ at[j] = "recover" /\ runner[j].state # "none"
  /\ Changed(job)
  /\ Attach(j, "rewatch")
  /\ UNCHANGED <<sched, tries, host, ghosts, up, faults>>

(* The answer to a cancel call, also after the job has ended.              *)
CancelAnswer(j) ==
  /\ Free /\ j \in rpc
  /\ rpc' = rpc \ {j}
  /\ \/ /\ runner[j].state \in Terminal
        /\ Changed([job EXCEPT ![j].verified = runner[j].verified])
     \/ Changed(job)
  /\ UNCHANGED <<sched, at, tries, handle, host, ghosts, up, faults>>
-----------------------------------------------------------------------------
(***************************************************************************)
(* runLocal and runSsh.  The handshake attempts of runSsh are one "await". *)
(***************************************************************************)
(* close: the leader ended; a grandchild that left its pipes may run on.   *)
LocalExit(j) ==
  /\ Free /\ at[j] = "local" /\ j \in running
  /\ running' \in {running, running \ {j}}
  /\ \E st \in {"failed", "timed_out"}, zero \in BOOLEAN :
       Leave(j, Completed(job[j], st, zero, "unset"))
  /\ UNCHANGED <<tries, rpc, flight, runner, starts, ghosts, up, faults>>

LocalError(j) ==
  /\ Free /\ at[j] = "local" /\ j \notin running
  /\ Leave(j, Errored(job[j], "other"))
  /\ UNCHANGED <<tries, rpc, host, ghosts, up, faults>>

(* ready: the exec request is sent, and arrives or not.                    *)
DirectReady(j) ==
  /\ Free /\ at[j] = "connect"
  /\ at' = [at EXCEPT ![j] = "exec"]
  /\ Changed(job)
  /\ \/ /\ running' = running \cup {j}
        /\ starts' = [starts EXCEPT ![j] = @ + 1]
     \/ UNCHANGED <<running, starts>>
  /\ UNCHANGED <<sched, tries, handle, rpc, flight, runner, ghosts, up, faults>>

DirectExit(j) ==
  /\ Free /\ at[j] = "exec" /\ j \in running
  /\ running' = running \ {j}
  /\ \E zero \in BOOLEAN : Leave(j, Completed(job[j], "failed", zero, "unset"))
  /\ UNCHANGED <<tries, rpc, flight, runner, starts, ghosts, up, faults>>

(* The connection failed for good, or the job's timeout closed it.         *)
DirectError(j) ==
  /\ Free /\ at[j] \in {"connect", "exec"}
  /\ \/ Leave(j, Errored(job[j], "other"))
     \/ Leave(j, Completed(job[j], "timed_out", FALSE, "unset"))
  /\ UNCHANGED <<tries, rpc, host, ghosts, up, faults>>
-----------------------------------------------------------------------------
(***************************************************************************)
(* The target host.                                                        *)
(***************************************************************************)
(* A submit arrives.  The first one creates the job and starts its         *)
(* command, or finds that it cannot be started.                            *)
Deliver(j) ==
  /\ j \in flight
  /\ flight' = flight \ {j}
  /\ \/ /\ runner[j].state = "none"
        /\ runner' = [runner EXCEPT ![j].state = "running"]
        /\ running' = running \cup {j}
        /\ starts' = [starts EXCEPT ![j] = @ + 1]
     \/ /\ runner[j].state = "none"
        /\ runner' = [runner EXCEPT ![j].state = "failed"]
        /\ UNCHANGED <<running, starts>>
     \/ /\ runner[j].state # "none"
        /\ UNCHANGED <<runner, running, starts>>
  /\ UNCHANGED <<table, sched, execution, ghosts, up, faults>>

(* The job gets its terminal record: the command ended, was cancelled by a *)
(* client or a scheduler, timed out, or the server declared it lost, which *)
(* a supervisor that still runs overwrites.                                *)
RunnerEnds(j) ==
  /\ runner[j].state = "running" \/ (runner[j].state = "lost" /\ j \in running)
  /\ \E st \in Terminal, v \in {"yes", "no"}, runs \in BOOLEAN :
       /\ v = "yes" => st \in {"cancelled", "timed_out"} /\ ~runs
       /\ st = "cancelled" => v = "yes"
       /\ runner' = [runner EXCEPT ![j] = [state |-> st, verified |-> v]]
       /\ running' = IF runs THEN running ELSE running \ {j}
  /\ UNCHANGED <<table, sched, execution, flight, starts, ghosts, up, faults>>

(* A command that nobody waits for any more ends.                          *)
OrphanExits(j) ==
  /\ j \in running /\ at[j] \notin {"exec", "local"} /\ runner[j].state # "running"
  /\ running' = running \ {j}
  /\ UNCHANGED <<table, sched, execution, flight, runner, starts, ghosts, up, faults>>
-----------------------------------------------------------------------------
(***************************************************************************)
(* The daemon stops and starts.                                            *)
(***************************************************************************)
Crash == up /\ Fault("crash") /\ Down(disk)

(* dispose, on an orderly stop.                                            *)
dispose == Free /\ Fault("crash") /\ Down(job)

Recoverable(j) == job[j].backend = "ssh_runner" /\ Has(job[j], "remote") /\ j \in Profiled

Restart ==
  /\ ~up /\ up' = TRUE
  /\ LET again == {j \in Jobs : job[j].state \in Active /\ Recoverable(j)}
     IN /\ Save([j \in Jobs |->
              IF j \in again THEN [job[j] EXCEPT !.state = "running"]
              ELSE IF job[j].state \in Active THEN Finished(job[j], "lost") ELSE job[j]])
        /\ at' = [j \in Jobs |-> IF j \in again THEN "recover" ELSE "idle"]
        /\ active' = again
  /\ UNCHANGED <<queue, pending, contexts, drain, tries, handle, rpc, host, ghosts, faults>>
-----------------------------------------------------------------------------
Init ==
  /\ job = [j \in Jobs |-> NoJob(j)] /\ disk = job /\ timer = FALSE
  /\ queue = <<>> /\ pending = {} /\ contexts = {} /\ active = {} /\ drain = "none"
  /\ at = [j \in Jobs |-> "idle"] /\ tries = [j \in Jobs |-> 0]
  /\ handle = [j \in Jobs |-> "none"] /\ rpc = {}
  /\ flight = {} /\ running = {} /\ starts = [j \in Jobs |-> 0]
  /\ runner = [j \in Jobs |-> [state |-> "none", verified |-> "no"]]
  /\ grant = [j \in Jobs |-> "none"] /\ audited = {} /\ early = {}
  /\ up = TRUE /\ faults = 0

Client(j) == Start(j) \/ approve(j) \/ rejectApproval(j) \/ Cancel(j)

Drain == DrainEnd \/ DrainRejects \/ \E j \in Jobs : DrainExpired(j) \/ DrainRun(j)

(* What an execution awaits happens, or its own timeout or deadline.       *)
Progress(j) ==
  \/ PingOk(j) \/ PingFail(j)
  \/ SubmitReply(j) \/ SubmitRetry(j) \/ SubmitGivesUp(j) \/ SubmitConflict(j)
  \/ WatchReply(j) \/ RecoverReply(j)
  \/ LocalExit(j) \/ LocalError(j)
  \/ DirectReady(j) \/ DirectExit(j) \/ DirectError(j)

Host(j) == Deliver(j) \/ RunnerEnds(j) \/ OrphanExits(j)

Next ==
  \/ Drain \/ PersistTimer \/ Crash \/ dispose \/ Restart
  \/ \E j \in Jobs : \/ Client(j) \/ Progress(j) \/ Host(j)
                     \/ Expire(j) \/ StillWatching(j) \/ WatchDeadline(j) \/ CancelAnswer(j)

Spec == Init /\ [][Next]_vars

(* The event loop runs what is due, and every call, handshake and process  *)
(* it waits for has a timeout of its own.  A watch has none while its      *)
(* calls succeed: that the Runner ends the job is RunnerJob's JobEnds.     *)
(* Some client comes back and starts the daemon again (ensureReady);       *)
(* otherwise clients owe nothing.                                          *)
Fairness ==
  /\ WF_vars(Drain) /\ WF_vars(Restart)
  /\ \A j \in Jobs : WF_vars(Progress(j)) /\ WF_vars(RunnerEnds(j))

FairSpec == Spec /\ Fairness
-----------------------------------------------------------------------------
(***************************************************************************)
(* Properties.                                                             *)
(***************************************************************************)
Ended(j) == job[j].state \in Terminal

(* The command of a job is started at most once, however its submission    *)
(* was retried, its answer lost, its backend changed or the daemon killed. *)
StartedOnce == \A j \in Jobs : starts[j] <= 1

(* drain's test for a missing input or a cancelled job never succeeds:     *)
(* what waits in the queue is a queued job with its input, once.           *)
QueueIsRunnable ==
  /\ TypeOK
  /\ \A i \in DOMAIN queue :
       /\ queue[i] \in pending /\ job[queue[i]].state = "queued"
       /\ ~Has(job[queue[i]], "cancel")
  /\ \A i, k \in DOMAIN queue : queue[i] = queue[k] => i = k

(* A remote job that is reported cancelled and verified does not run, if   *)
(* it was cancelled through its handle.                                    *)
VerifiedCancel ==
  \A j \in Jobs \ early :
    job[j].state = "cancelled" /\ job[j].verified = "yes" /\ job[j].backend # "local"
      => j \notin running

(* A command that needs an approval begins to run only under a grant that  *)
(* has not expired, however long it was queued.                            *)
RunsOnlyIfApproved ==
  [][\A j \in Gated \ active : up /\ j \in active' => grant[j] = "valid"]_vars

(* The coordinator, with the hosts it uses, implements Task: what a client *)
(* was told stays true across crashes, lost answers and fallbacks.         *)
Promise == INSTANCE Task WITH
  task <- [j \in Jobs |-> [state |-> IF job[j].state \in Active THEN "accepted" ELSE job[j].state,
                           begun |-> starts[j] > 0, asked |-> Has(job[j], "cancel")]]
ImplementsTask == Promise!Spec

(* A job that does not wait for an approval ends, also when the daemon     *)
(* crashes and other jobs hold every slot.                                 *)
EveryJobEnds ==
  \A j \in Jobs : (job[j].state \in Active /\ ~Has(job[j], "waiting")) ~> Ended(j)

-----------------------------------------------------------------------------
(* Statements of the repository that the code does not keep: the README    *)
(* tells how.  They are not invariants.                                    *)

(* "Direct SSH [...] cannot verify remote process cancellation"            *)
(* (docs/MIGRATION_3.0.md): no direct job is reported as verified.         *)
DirectCannotVerify ==
  \A j \in Jobs : job[j].backend = "ssh_direct" /\ job[j].state = "cancelled" /\ starts[j] > 0
    => job[j].verified # "yes"

(* "A daemon restart reattaches Runner tasks" (README.md).                 *)
RestartReattaches ==
  [][\A j \in Profiled :
       ~up /\ up' /\ runner[j].state = "running" /\ job[j].state = "running"
       => job'[j].state = "running"]_vars

(* The audit log "records decisions, approvals [...]" and "fails closed"   *)
(* (docs/REMOTE_JOB_MONITOR_ARCHITECTURE.md): no gated command runs        *)
(* without the record of its approval.                                     *)
ApprovalAudited == \A j \in Gated : starts[j] > 0 => j \in audited
=============================================================================
