------------------------------ MODULE RunnerJob ------------------------------
(***************************************************************************)
(* One job directory of the Go Runner, and everyone who touches it:        *)
(*                                                                         *)
(*  - submit RPCs, which create the record and start a supervisor process; *)
(*    a retried submit may start another supervisor for the same job;      *)
(*  - supervisor processes, which contend for supervisor.claim, run the    *)
(*    command in a process group and write job.json and the event files;   *)
(*  - the server's Reconcile (every get, every poll of a watch, and server *)
(*    start), which declares a job lost;                                   *)
(*  - the cancel RPC.                                                      *)
(*                                                                         *)
(* The server and the supervisors are separate processes: store.mu orders  *)
(* Create and Reconcile only, and nothing orders the server against a      *)
(* supervisor but the files themselves.  Every access to a file that       *)
(* another process uses is a step of its own.  A supervisor s and the      *)
(* submit RPC that starts it share the name s.                             *)
(***************************************************************************)
EXTENDS Naturals, Sequences, FiniteSets

CONSTANTS Sups,         \* submit RPCs, each with the supervisor it may start
          None,         \* no supervisor
          Empty,        \* supervisor.claim exists, no pid written to it yet
          MaxOutputs,   \* bound: output chunks a command produces
          OutputMode,   \* the job's output policy: "tail", "full" or "none"
          ExternalMode, \* cancellationMode "external" (an adapter acknowledges)
          HasTimeout,   \* the job has a timeout
          Faults,       \* kinds of fault the environment may produce
          MaxFaults     \* bound: how many of them

ASSUME RunnerAssumption ==
  /\ Sups # {} /\ None \notin Sups /\ Empty \notin Sups /\ None # Empty
  /\ MaxOutputs \in Nat /\ MaxFaults \in Nat
  /\ OutputMode \in {"tail", "full", "none"}
  /\ ExternalMode \in BOOLEAN /\ HasTimeout \in BOOLEAN
  /\ Faults \subseteq {"supervisor", "io", "server"}

VARIABLES dir,         \* the job directory: "absent", "empty" or "present" (job.json)
          job,         \* job.json
          tmp,         \* job.json.tmp: the set of its content, {} when absent
          stateLog,    \* events.jsonl
          outputLog,   \* sequence numbers of the records in output.jsonl
          claim,       \* supervisor.claim
          cancelFile,  \* cancel.requested exists
          timeoutFile, \* timeout.requested exists
          fresh,       \* the job is less than 5 seconds old
          pc,          \* where each submit RPC / supervisor is
          mem,         \* each supervisor's own copy of the job record
          group,       \* the process group each supervisor started
          children,    \* supervisors whose parent is the server now running
          server,      \* "up", "starting" (ReconcileAll) or "down"
          rec,         \* the Reconcile in progress
          canc,        \* the cancel RPC in progress
          reply,       \* the last answer of a cancel RPC
          faults       \* faults so far

files == <<dir, job, tmp, stateLog, outputLog, claim, cancelFile, timeoutFile>>
procs == <<pc, mem, group, children>>
vars  == <<files, fresh, procs, server, rec, canc, reply, faults>>

Active   == {"queued", "running"}
Terminal == {"succeeded", "failed", "cancelled", "timed_out", "lost"}
States   == Active \cup Terminal

(* A process group is named after the supervisor that started it; flags    *)
(* holds the Boolean fields that are set: "verified" for                   *)
(* cancellationVerified, "truncated" for outputTruncated.                  *)
Flags == SUBSET {"verified", "truncated"}
Job   == [state : States, seq : Nat, pid : Sups \cup {None}, pgid : Sups \cup {None},
          flags : Flags]

NewJob == [state |-> "queued", seq |-> 1, pid |-> None, pgid |-> None, flags |-> {}]

Verified(r) == "verified" \in r.flags

(* Where a supervisor writes job.json, and where it goes on from there.    *)
Writing == {"record_tmp", "running_tmp", "output_tmp", "finish_tmp"}
Renaming == {"record_rename", "running_rename", "output_rename", "finish_rename"}
RenameAfter(p) == CASE p = "record_tmp"  -> "record_rename"
                    [] p = "running_tmp" -> "running_rename"
                    [] p = "output_tmp"  -> "output_rename"
                    [] OTHER             -> "finish_rename"
Written(p) == CASE p = "record_rename"  -> "start"
                [] p = "running_rename" -> "running"
                [] p = "output_rename"  -> "running"
                [] OTHER                -> "done"

Creating == {"create_record", "create_event"}
RPC      == {"idle", "submit", "done"} \cup Creating
Live     == {"read", "claim", "claim_pid", "check_cancel", "start",
             "running_append", "running"} \cup Writing \cup Renaming
PCs      == RPC \cup Live
Claimed  == Live \ {"read", "claim"}   \* a supervisor that won supervisor.claim

Event == [seq : Nat, state : States]

TypeOK ==
  /\ dir \in {"absent", "empty", "present"}
  /\ job \in Job
  /\ tmp \subseteq Job /\ \A j, k \in tmp : j = k
  /\ stateLog \in Seq(Event)
  /\ outputLog \subseteq Nat
  /\ claim \in Sups \cup {None, Empty}
  /\ cancelFile \in BOOLEAN /\ timeoutFile \in BOOLEAN /\ fresh \in BOOLEAN
  /\ pc \in [Sups -> PCs]
  /\ mem \in [Sups -> Job]
  /\ group \in [Sups -> {"none", "live", "stray", "gone"}]
  /\ children \subseteq Sups
  /\ server \in {"up", "starting", "down"}
  /\ rec \in [pc : {"idle", "decide", "append", "tmp", "rename"}, job : Job]
  /\ canc \in [pc : {"idle", "mark", "await_group", "term", "poll", "last_poll"},
               pgid : Sups \cup {None}]
  /\ reply \in {"none", "cancelled", "terminal", "unverified"}
  /\ faults \in Nat
-----------------------------------------------------------------------------
(* A supervisor process is live until it returns or is killed.             *)
Alive(s) == pc[s] \in Live

(* kill(pid, 0): startSupervisor never waits for its child, so a dead      *)
(* supervisor stays a zombie, which kill still finds, as long as the       *)
(* server that started it lives.                                           *)
MutClaimTrusted(s) == TRUE
processExists(s) == Alive(s) \/ s \in children

(* Holders of store.mu.                                                    *)
StoreLocked == rec.pc # "idle" \/ \E s \in Sups : pc[s] \in Creating

Fault(kind) == kind \in Faults /\ faults < MaxFaults /\ faults' = faults + 1

Running(s) == group[s] \in {"live", "stray"}
AnyRunning == \E s \in Sups : Running(s)
-----------------------------------------------------------------------------
(***************************************************************************)
(* submit: Create under store.mu, then startSupervisor.                    *)
(***************************************************************************)
SubmitCreate(s) ==
  /\ server = "up" /\ pc[s] = "idle" /\ ~StoreLocked
  /\ \/ /\ dir = "absent"
        /\ dir' = "empty"
        /\ pc' = [pc EXCEPT ![s] = "create_record"]
     \/ /\ dir = "empty"            \* no readable record: IDEMPOTENCY_CONFLICT
        /\ pc' = [pc EXCEPT ![s] = "done"]
        /\ UNCHANGED dir
     \/ /\ dir = "present"          \* the existing job is the answer
        /\ pc' = [pc EXCEPT ![s] = IF job.state = "queued" THEN "submit" ELSE "done"]
        /\ UNCHANGED dir
  /\ UNCHANGED <<job, tmp, stateLog, outputLog, claim, cancelFile, timeoutFile, fresh,
                 mem, group, children, server, rec, canc, reply, faults>>

CreateRecord(s) ==
  /\ pc[s] = "create_record"
  /\ dir' = "present"
  /\ job' = NewJob
  /\ fresh' = TRUE
  /\ pc' = [pc EXCEPT ![s] = "create_event"]
  /\ UNCHANGED <<tmp, stateLog, outputLog, claim, cancelFile, timeoutFile,
                 mem, group, children, server, rec, canc, reply, faults>>

CreateEvent(s) ==
  /\ pc[s] = "create_event"
  /\ stateLog' = Append(stateLog, [seq |-> 1, state |-> "queued"])
  /\ pc' = [pc EXCEPT ![s] = "submit"]
  /\ UNCHANGED <<dir, job, tmp, outputLog, claim, cancelFile, timeoutFile, fresh,
                 mem, group, children, server, rec, canc, reply, faults>>

(* The claim check and the start of the supervisor process.                *)
StartSupervisor(s) ==
  /\ pc[s] = "submit"
  /\ \/ /\ claim = None
        /\ pc' = [pc EXCEPT ![s] = "read"]
        /\ children' = children \cup {s}
        /\ UNCHANGED faults
     \/ /\ claim # None
        /\ pc' = [pc EXCEPT ![s] = "done"]
        /\ UNCHANGED <<children, faults>>
     \/ /\ Fault("io")              \* the process cannot be started
        /\ pc' = [pc EXCEPT ![s] = "done"]
        /\ UNCHANGED children
  /\ UNCHANGED <<files, fresh, mem, group, server, rec, canc, reply>>
-----------------------------------------------------------------------------
(***************************************************************************)
(* Supervise.                                                              *)
(***************************************************************************)
SupRead(s) ==
  /\ pc[s] = "read"
  /\ IF job.state \in Terminal
       THEN /\ pc' = [pc EXCEPT ![s] = "done"]
            /\ UNCHANGED mem
       ELSE /\ pc' = [pc EXCEPT ![s] = "claim"]
            /\ mem' = [mem EXCEPT ![s] = job]
  /\ UNCHANGED <<files, fresh, group, children, server, rec, canc, reply, faults>>

(* claimSupervisor: O_CREATE|O_EXCL first, the pid afterwards.             *)
MutClaimNotExclusive(s) ==
  /\ pc[s] = "claim"
  /\ claim' = Empty /\ pc' = [pc EXCEPT ![s] = "claim_pid"]
  /\ UNCHANGED <<dir, job, tmp, stateLog, outputLog, cancelFile, timeoutFile, fresh,
                 mem, group, children, server, rec, canc, reply, faults>>
SupClaim(s) ==
  /\ pc[s] = "claim"
  /\ IF claim = None
       THEN claim' = Empty /\ pc' = [pc EXCEPT ![s] = "claim_pid"]
       ELSE pc' = [pc EXCEPT ![s] = "done"] /\ UNCHANGED claim
  /\ UNCHANGED <<dir, job, tmp, stateLog, outputLog, cancelFile, timeoutFile, fresh,
                 mem, group, children, server, rec, canc, reply, faults>>

SupClaimPid(s) ==
  /\ pc[s] = "claim_pid"
  /\ claim' = s
  /\ pc' = [pc EXCEPT ![s] = "check_cancel"]
  /\ UNCHANGED <<dir, job, tmp, stateLog, outputLog, cancelFile, timeoutFile, fresh,
                 mem, group, children, server, rec, canc, reply, faults>>

(* finishSupervisor(jobDir, &r, st, ..., v): the record it will write.     *)
Finished(r, st, v) ==
  [r EXCEPT !.state = st, !.seq = @ + 1,
            !.flags = IF v THEN @ \cup {"verified"} ELSE @ \ {"verified"}]

(* A supervisor's finishSupervisor up to the append; writeJob follows.     *)
Finish(s, st, v) ==
  /\ mem' = [mem EXCEPT ![s] = Finished(mem[s], st, v)]
  /\ stateLog' = Append(stateLog, [seq |-> mem[s].seq + 1, state |-> st])
  /\ pc' = [pc EXCEPT ![s] = "finish_tmp"]

SupCheckCancel(s) ==
  /\ pc[s] = "check_cancel"
  /\ IF cancelFile
       THEN Finish(s, "cancelled", TRUE)
       ELSE /\ mem' = [mem EXCEPT ![s] = [@ EXCEPT !.pid = s]]
            /\ pc' = [pc EXCEPT ![s] = "record_tmp"]
            /\ UNCHANGED stateLog
  /\ UNCHANGED <<dir, job, tmp, outputLog, claim, cancelFile, timeoutFile, fresh,
                 group, children, server, rec, canc, reply, faults>>

(* writeJob: the content goes to job.json.tmp, one name shared by every    *)
(* process, and is renamed over job.json.                                  *)
SupTmp(s) ==
  /\ pc[s] \in Writing
  /\ tmp' = {mem[s]}
  /\ pc' = [pc EXCEPT ![s] = RenameAfter(@)]
  /\ UNCHANGED <<dir, job, stateLog, outputLog, claim, cancelFile, timeoutFile, fresh,
                 mem, group, children, server, rec, canc, reply, faults>>

(* The rename fails when another process has renamed the file already.     *)
(* The error is ignored after an output chunk, kills the process group     *)
(* when the running state was being written, and ends the supervisor.      *)
SupRename(s) ==
  /\ pc[s] \in Renaming
  /\ \/ /\ \E j \in tmp : job' = j
        /\ tmp' = {}
        /\ pc' = [pc EXCEPT ![s] = Written(@)]
        /\ UNCHANGED group
     \/ /\ tmp = {}
        /\ pc' = [pc EXCEPT ![s] = IF @ = "output_rename" THEN "running" ELSE "done"]
        /\ group' = [group EXCEPT ![s] = IF pc[s] = "running_rename" THEN "gone" ELSE @]
        /\ UNCHANGED <<job, tmp>>
  /\ UNCHANGED <<dir, stateLog, outputLog, claim, cancelFile, timeoutFile, fresh,
                 mem, children, server, rec, canc, reply, faults>>

(* command.Start and the write of the command to its stdin.                *)
SupStart(s) ==
  /\ pc[s] = "start"
  /\ \/ /\ group' = [group EXCEPT ![s] = "live"]
        /\ pc' = [pc EXCEPT ![s] = "running_append"]
        /\ UNCHANGED <<mem, stateLog, faults>>
     \/ /\ Fault("io")              \* Start fails, or stdin fails and the group is killed
        /\ \/ group' = [group EXCEPT ![s] = "gone"]
           \/ UNCHANGED group
        /\ Finish(s, "failed", FALSE)
  /\ UNCHANGED <<dir, job, tmp, outputLog, claim, cancelFile, timeoutFile, fresh,
                 children, server, rec, canc, reply>>

(* The record once the command runs in its process group.                  *)
Started(r, s) == [r EXCEPT !.state = "running", !.pgid = s, !.seq = @ + 1]

MutRunningNotLogged(s) ==
  /\ pc[s] = "running_append"
  /\ mem' = [mem EXCEPT ![s] = Started(@, s)]
  /\ pc' = [pc EXCEPT ![s] = "running_tmp"]
  /\ UNCHANGED <<files, fresh, group, children, server, rec, canc, reply, faults>>
SupRunning(s) ==
  /\ pc[s] = "running_append"
  /\ mem' = [mem EXCEPT ![s] = Started(@, s)]
  /\ stateLog' = Append(stateLog, [seq |-> mem[s].seq + 1, state |-> "running"])
  /\ pc' = [pc EXCEPT ![s] = "running_tmp"]
  /\ UNCHANGED <<dir, job, tmp, outputLog, claim, cancelFile, timeoutFile, fresh,
                 group, children, server, rec, canc, reply, faults>>

(* What output.jsonl may hold once chunk n was appended: mode "full" drops *)
(* the chunk over the cap, "tail" compacts the oldest chunks away.         *)
Retained(n) ==
  LET all == outputLog \cup {n}
  IN {all} \cup IF OutputMode = "full"
                  THEN {outputLog}
                  ELSE {{m \in all : m > k} : k \in all}

(* The record after a chunk; whole: no chunk was dropped or compacted.     *)
Captured(r, whole) ==
  [r EXCEPT !.seq = @ + 1, !.flags = IF whole THEN @ ELSE @ \cup {"truncated"}]

(* copyOutput and appendOutput: a dropped chunk uses its sequence number.  *)
SupOutput(s) ==
  /\ pc[s] = "running" /\ group[s] = "live"
  /\ mem[s].seq < 2 + MaxOutputs
  /\ LET n == mem[s].seq + 1 IN
     IF OutputMode = "none"
       THEN UNCHANGED <<mem, outputLog>>
       ELSE /\ outputLog' \in Retained(n)
            /\ mem' = [mem EXCEPT ![s] = Captured(@, outputLog' = outputLog \cup {n})]
  /\ pc' = [pc EXCEPT ![s] = "output_tmp"]
  /\ UNCHANGED <<dir, job, tmp, stateLog, claim, cancelFile, timeoutFile, fresh,
                 group, children, server, rec, canc, reply, faults>>

(* outputWG.Wait and command.Wait return once the pipes are closed.        *)
MutNotReaped(s) == group[s] # "none"
Reaped(s) == group[s] \in {"stray", "gone"}

(* No running member of the group is left after at most 2 seconds.         *)
MutVerifiedAssumed(s) == TRUE
processGroupTerminationVerified(s) == group[s] = "gone"

(* The terminal state and cancellationVerified, from the markers on disk,  *)
(* the adapter's acknowledgement and declared state, and the exit status.  *)
MutDeclaredTrusted(stopped, ack, declared, ok) ==
  LET verified == stopped /\ (ExternalMode => ack)
  IN CASE timeoutFile -> [state |-> "timed_out", verified |-> verified]
       [] ~timeoutFile /\ cancelFile ->
            [state |-> IF verified THEN "cancelled" ELSE "failed", verified |-> verified]
       [] ~timeoutFile /\ ~cancelFile /\ declared # "none" ->
            [state |-> declared, verified |-> TRUE]
       [] OTHER ->
            [state |-> IF ok THEN "succeeded" ELSE "failed", verified |-> FALSE]
Outcome(stopped, ack, declared, ok) ==
  LET verified == stopped /\ (ExternalMode => ack)
  IN CASE timeoutFile -> [state |-> "timed_out", verified |-> verified]
       [] ~timeoutFile /\ cancelFile ->
            [state |-> IF verified THEN "cancelled" ELSE "failed", verified |-> verified]
       [] ~timeoutFile /\ ~cancelFile /\ declared # "none" ->
            [state |-> IF stopped THEN declared ELSE "failed", verified |-> stopped]
       [] OTHER ->
            [state |-> IF ok THEN "succeeded" ELSE "failed", verified |-> FALSE]

SupWait(s) ==
  /\ pc[s] = "running" /\ Reaped(s)
  /\ \E ok, ack \in BOOLEAN, declared \in {"none", "cancelled", "timed_out"} :
       LET out == Outcome(processGroupTerminationVerified(s), ack, declared, ok)
       IN /\ ~ExternalMode => ~ack /\ declared = "none"
          /\ Finish(s, out.state, out.verified)
  /\ UNCHANGED <<dir, job, tmp, outputLog, claim, cancelFile, timeoutFile, fresh,
                 group, children, server, rec, canc, reply, faults>>

(* The timer of a job with a timeout: the marker, TERM (which the command  *)
(* may ignore), then KILL unless the command was reaped first.             *)
TimerGuard(s) == HasTimeout /\ pc[s] \in {"running", "output_tmp", "output_rename"}

TimeoutMark(s) ==
  /\ TimerGuard(s) /\ ~timeoutFile
  /\ timeoutFile' = TRUE
  /\ UNCHANGED <<dir, job, tmp, stateLog, outputLog, claim, cancelFile, fresh,
                 procs, server, rec, canc, reply, faults>>

MutTermOnly(s) == FALSE
TimeoutKill(s) ==
  /\ TimerGuard(s) /\ timeoutFile /\ Running(s)
  /\ group' = [group EXCEPT ![s] = "gone"]
  /\ UNCHANGED <<files, fresh, pc, mem, children, server, rec, canc, reply, faults>>
-----------------------------------------------------------------------------
(***************************************************************************)
(* The command.  It may end by itself or on a signal, and it may leave     *)
(* members of its group running that have closed its output.               *)
(***************************************************************************)
CommandExits(s) ==
  /\ Running(s)
  /\ \/ group' = [group EXCEPT ![s] = "gone"]
     \/ group[s] = "live" /\ group' = [group EXCEPT ![s] = "stray"]
  /\ UNCHANGED <<files, fresh, pc, mem, children, server, rec, canc, reply, faults>>

(* SIGKILL or an out-of-memory kill of the supervisor; the group survives. *)
SupCrash(s) ==
  /\ Alive(s) /\ Fault("supervisor")
  /\ pc' = [pc EXCEPT ![s] = "done"]
  /\ UNCHANGED <<files, fresh, mem, group, children, server, rec, canc, reply>>

(* A failed write makes Supervise return; once the command runs and until  *)
(* its running state is on disk the group is killed first.  Errors of the  *)
(* output files and of writeJob after a chunk are swallowed.               *)
SupIOError(s) ==
  /\ pc[s] \in {"read", "claim", "claim_pid", "record_tmp", "record_rename",
                "running_append", "running_tmp", "running_rename",
                "finish_tmp", "finish_rename"}
  /\ Fault("io")
  /\ pc' = [pc EXCEPT ![s] = "done"]
  /\ group' = [group EXCEPT ![s] =
                 IF pc[s] \in {"running_append", "running_tmp", "running_rename"}
                   THEN "gone" ELSE @]
  /\ UNCHANGED <<files, fresh, mem, children, server, rec, canc, reply>>
-----------------------------------------------------------------------------
(***************************************************************************)
(* Reconcile.  ReconcileAll runs it before a starting server listens.      *)
(***************************************************************************)
NoRec == [pc |-> "idle", job |-> NewJob]

(* The server once this Reconcile has returned, with or without an error.  *)
MutServeReturns(ok) == server' = IF server = "starting" THEN "down" ELSE server
Served(ok) == server' = IF server = "starting" THEN (IF ok THEN "up" ELSE "down") ELSE server

RecRead ==
  /\ server \in {"up", "starting"} /\ ~StoreLocked
  /\ \/ /\ dir = "present" /\ job.state \in Active
        /\ rec' = [pc |-> "decide", job |-> job]
        /\ UNCHANGED server
     \/ /\ server = "starting"
        /\ dir = "absent" \/ (dir = "present" /\ job.state \in Terminal)
        /\ Served(TRUE) /\ UNCHANGED rec
     \/ /\ server = "starting" /\ dir = "empty"     \* readJob fails
        /\ Served(FALSE) /\ UNCHANGED rec
  /\ UNCHANGED <<files, fresh, procs, canc, reply, faults>>

(* readSupervisorClaim, processExists and the age of the job.              *)
RecDecide ==
  /\ rec.pc = "decide"
  /\ \/ /\ claim \in Sups /\ processExists(claim)
        /\ \/ /\ rec.job.pid # claim
              /\ rec' = [pc |-> "tmp", job |-> [rec.job EXCEPT !.pid = claim]]
              /\ UNCHANGED server
           \/ /\ rec.job.pid = claim
              /\ rec' = NoRec
              /\ Served(TRUE)
     \/ /\ claim = None /\ rec.job.state = "queued" /\ fresh
        /\ rec' = NoRec
        /\ Served(TRUE)
     \/ /\ ~(claim \in Sups /\ processExists(claim))
        /\ ~(claim = None /\ rec.job.state = "queued" /\ fresh)
        /\ rec' = [pc |-> "append", job |-> Finished(rec.job, "lost", FALSE)]
        /\ UNCHANGED server
  /\ UNCHANGED <<files, fresh, procs, canc, reply, faults>>

RecAppend ==
  /\ rec.pc = "append"
  /\ stateLog' = Append(stateLog, [seq |-> rec.job.seq, state |-> "lost"])
  /\ rec' = [rec EXCEPT !.pc = "tmp"]
  /\ UNCHANGED <<dir, job, tmp, outputLog, claim, cancelFile, timeoutFile, fresh,
                 procs, server, canc, reply, faults>>

RecTmp ==
  /\ rec.pc = "tmp"
  /\ tmp' = {rec.job}
  /\ rec' = [rec EXCEPT !.pc = "rename"]
  /\ UNCHANGED <<dir, job, stateLog, outputLog, claim, cancelFile, timeoutFile, fresh,
                 procs, server, canc, reply, faults>>

RecRename ==
  /\ rec.pc = "rename"
  /\ rec' = NoRec
  /\ \/ /\ \E j \in tmp : job' = j
        /\ tmp' = {}
        /\ Served(TRUE)
     \/ /\ tmp = {}
        /\ Served(FALSE)
        /\ UNCHANGED <<job, tmp>>
  /\ UNCHANGED <<dir, stateLog, outputLog, claim, cancelFile, timeoutFile, fresh,
                 procs, canc, reply, faults>>

(* Five seconds pass since the job was created.                            *)
Age ==
  /\ dir = "present" /\ fresh
  /\ fresh' = FALSE
  /\ UNCHANGED <<files, procs, server, rec, canc, reply, faults>>
-----------------------------------------------------------------------------
(***************************************************************************)
(* The cancel RPC.  It reads job.json without store.mu, and gives up at    *)
(* its deadlines.                                                          *)
(***************************************************************************)
NoCancel  == [pc |-> "idle", pgid |-> None]
Answer(r) == reply' = r /\ canc' = NoCancel
Stopped   == job.state = "cancelled" /\ Verified(job)

CancelBegin ==
  /\ server = "up" /\ canc.pc = "idle" /\ dir = "present"
  /\ \/ /\ job.state \in Terminal
        /\ Answer(CASE Stopped -> "cancelled"
                    [] job.state = "cancelled" /\ ~Verified(job) -> "unverified"
                    [] OTHER -> "terminal")
     \/ /\ job.state \in Active
        /\ canc' = [pc |-> "mark", pgid |-> job.pgid]
        /\ reply' = "none"
  /\ UNCHANGED <<files, fresh, procs, server, rec, faults>>

CancelMark ==
  /\ canc.pc = "mark"
  /\ cancelFile' = TRUE
  /\ canc' = [canc EXCEPT !.pc = IF canc.pgid # None THEN "term" ELSE "await_group"]
  /\ UNCHANGED <<dir, job, tmp, stateLog, outputLog, claim, timeoutFile, fresh,
                 procs, server, rec, reply, faults>>

CancelAwaitGroup ==
  /\ canc.pc = "await_group"
  /\ \/ job.state \in Terminal /\ Answer(IF Stopped THEN "cancelled" ELSE "unverified")
     \/ /\ job.state \in Active /\ job.pgid # None
        /\ canc' = [pc |-> "term", pgid |-> job.pgid] /\ UNCHANGED reply
     \/ job.state \in Active /\ job.pgid = None /\ Answer("unverified")    \* 3 seconds
  /\ UNCHANGED <<files, fresh, procs, server, rec, faults>>

(* TERM: the command may end (CommandExits) or ignore it.                  *)
CancelTerm ==
  /\ canc.pc = "term"
  /\ canc' = [canc EXCEPT !.pc = "poll"]
  /\ UNCHANGED <<files, fresh, procs, server, rec, reply, faults>>

CancelPoll ==
  /\ canc.pc \in {"poll", "last_poll"}
  /\ job.state \in Terminal
  /\ Answer(IF Stopped THEN "cancelled" ELSE "unverified")
  /\ UNCHANGED <<files, fresh, procs, server, rec, faults>>

(* 5 seconds without a terminal record: KILL; 3 more: give up.             *)
CancelKill ==
  /\ canc.pc = "poll"
  /\ group' = [group EXCEPT ![canc.pgid] = "gone"]
  /\ canc' = [canc EXCEPT !.pc = "last_poll"]
  /\ UNCHANGED <<files, fresh, pc, mem, children, server, rec, reply, faults>>

CancelGiveUp ==
  /\ canc.pc = "last_poll"
  /\ Answer("unverified")
  /\ UNCHANGED <<files, fresh, procs, server, rec, faults>>
-----------------------------------------------------------------------------
(***************************************************************************)
(* The server stops (crash, upgrade); KillMode=process leaves supervisors  *)
(* alive and init adopts and reaps them.  RPCs in flight are lost.         *)
(***************************************************************************)
ServerCrash ==
  /\ server # "down" /\ Fault("server")
  /\ server' = "down"
  /\ children' = {}
  /\ rec' = NoRec
  /\ canc' = NoCancel
  /\ pc' = [s \in Sups |-> IF pc[s] \in Creating \cup {"submit"} THEN "done" ELSE pc[s]]
  /\ UNCHANGED <<files, fresh, mem, group, reply>>

ServerStart ==
  /\ server = "down"
  /\ server' = "starting"
  /\ UNCHANGED <<files, fresh, procs, rec, canc, reply, faults>>
-----------------------------------------------------------------------------
Init ==
  /\ dir = "absent" /\ job = NewJob /\ tmp = {}
  /\ stateLog = <<>> /\ outputLog = {}
  /\ claim = None /\ cancelFile = FALSE /\ timeoutFile = FALSE /\ fresh = TRUE
  /\ pc = [s \in Sups |-> "idle"]
  /\ mem = [s \in Sups |-> NewJob]
  /\ group = [s \in Sups |-> "none"]
  /\ children = {} /\ server = "up"
  /\ rec = NoRec
  /\ canc = NoCancel
  /\ reply = "none" /\ faults = 0

Submit(s) == SubmitCreate(s) \/ CreateRecord(s) \/ CreateEvent(s) \/ StartSupervisor(s)

Supervise(s) ==
  \/ SupRead(s) \/ SupClaim(s) \/ SupClaimPid(s) \/ SupCheckCancel(s)
  \/ SupTmp(s) \/ SupRename(s) \/ SupStart(s) \/ SupRunning(s)
  \/ SupOutput(s) \/ SupWait(s)

Timer(s) == TimeoutMark(s) \/ TimeoutKill(s)

Reconcile == RecRead \/ RecDecide \/ RecAppend \/ RecTmp \/ RecRename

Cancel == \/ CancelBegin \/ CancelMark \/ CancelAwaitGroup \/ CancelTerm
          \/ CancelPoll \/ CancelKill \/ CancelGiveUp

Environment == \/ Age \/ ServerCrash \/ ServerStart
               \/ \E s \in Sups : CommandExits(s) \/ SupCrash(s) \/ SupIOError(s)

Next == \/ \E s \in Sups : Submit(s) \/ Supervise(s) \/ Timer(s)
        \/ Reconcile \/ Cancel \/ Environment

Spec == Init /\ [][Next]_vars

(* Processes that run keep running; a client watches the job, so Reconcile *)
(* is polled every 100 ms; the service manager restarts the server; time   *)
(* passes.  Nothing makes a command end, a client submit or cancel, or a   *)
(* fault happen.                                                           *)
Fairness ==
  /\ \A s \in Sups : /\ WF_vars(CreateRecord(s) \/ CreateEvent(s) \/ StartSupervisor(s))
                     /\ WF_vars(Supervise(s))
                     /\ WF_vars(TimeoutMark(s)) /\ WF_vars(TimeoutKill(s))
  /\ WF_vars(Reconcile) /\ WF_vars(Age) /\ WF_vars(ServerStart)

FairSpec == Spec /\ Fairness
-----------------------------------------------------------------------------
(***************************************************************************)
(* Properties.                                                             *)
(***************************************************************************)
(* Whatever submits are retried or overlap, whichever processes die and    *)
(* whatever Reconcile declares, the command of a job is started by at most *)
(* one supervisor.                                                         *)
AtMostOnce ==
  /\ TypeOK
  /\ \A s, t \in Sups : group[s] # "none" /\ group[t] # "none" => s = t

(* job.json says cancellationVerified only when no member of the process   *)
(* group runs, also when the record was overwritten meanwhile by a server  *)
(* that had read an older one.                                             *)
VerifiedMeansStopped == Verified(job) => ~AnyRunning

(* Of the terminal states only "lost" leaves it open whether the command   *)
(* still runs: under any other one its output is closed and it was reaped. *)
OnlyLostIsAmbiguous ==
  job.state \in Terminal \ {"lost"} => \A s \in Sups : group[s] # "live"

(* A cancel RPC that answered success with a cancelled job was right: the  *)
(* command does not run, and never starts afterwards.                      *)
CancelAnswerHolds == reply = "cancelled" => ~AnyRunning

(* The event of a state is on disk before job.json shows the state, so a   *)
(* watch that sees the record finds the event (store.go, readEvents).      *)
RecordFollowsEvent ==
  job.state # "queued" =>
    \E i \in DOMAIN stateLog :
      stateLog[i].state = job.state /\ stateLog[i].seq <= job.seq

(* The claim holder died and its parent is gone.                           *)
Orphaned(s) == claim = s /\ ~Alive(s) /\ s \notin children
               /\ dir = "present" /\ job.state \in Active

(* A job whose claimed supervisor no longer exists gets a terminal record. *)
OrphanEnds == \A s \in Sups : Orphaned(s) ~> job.state \in Terminal

(* The claim holder died and its parent, the server, never reaps it.       *)
Zombie == \E s \in Sups : claim = s /\ ~Alive(s) /\ s \in children

(* A job with a timeout reaches a terminal record however long its command *)
(* ignores TERM, also across a server restart between submit and start;    *)
(* the one exception is a claim holder left as a zombie.                   *)
JobEnds == dir = "present" ~> (job.state \in Terminal \/ Zombie)

(* After a stop the server listens again, also when ReconcileAll fails     *)
(* because a supervisor renamed job.json.tmp under it; the one exception   *)
(* is a job directory that was created but never got its record.           *)
ServerReturns == server = "down" ~> (server = "up" \/ dir = "empty")

-----------------------------------------------------------------------------
(* Statements of the repository that the code does not keep: the README    *)
(* tells how.  They are not invariants.                                    *)

(* "A Runner supervisor that disappears before a terminal record also      *)
(* becomes lost" (docs/REMOTE_JOB_MONITOR_ARCHITECTURE.md).                *)
DeadSupervisorBecomesLost ==
  \A s \in Sups : (claim = s /\ ~Alive(s) /\ job.state \in Active) ~> job.state \in Terminal

(* Reconcile declares lost "an active record without a live claimed        *)
(* supervisor" (store.go).                                                 *)
LostMeansNoSupervisor ==
  job.state = "lost" => \A s \in Sups : pc[s] \notin Claimed
=============================================================================
