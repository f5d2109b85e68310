------------------------------ MODULE RunnerLog ------------------------------
(***************************************************************************)
(* How the output of a Runner job reaches the coordinator.                 *)
(*                                                                         *)
(* The supervisor numbers its events and appends them to two files,        *)
(* events.jsonl for states and output.jsonl for output, the latter bounded *)
(* by the job's output policy, and writes job.json after each one.  The    *)
(* server's watch RPC reads job.json, then one file, then the other,       *)
(* starting where its cached cursor says, and answers with at most Batch   *)
(* events; the coordinator asks again from the last sequence it got, until *)
(* it has them all.  Answers get lost, the server restarts without its     *)
(* cursors, the supervisor dies between an append and its job.json, and    *)
(* Prune removes the directory of a finished job.                          *)
(*                                                                         *)
(* A record has the size 1, so a length is also a byte count.  A file is   *)
(* identified by its inode, which compaction changes and the file system   *)
(* may give out again, and which is all that SameFile compares.  No file   *)
(* has a record twice, so what is read of it is a set; its order is that   *)
(* of the sequence numbers.                                                *)
(***************************************************************************)
EXTENDS Naturals, Sequences, FiniteSetsExt, Functions

CONSTANTS Rpcs,       \* watch RPCs the server may be serving at once
          NoRpc,      \* no RPC
          Policies,   \* jobs to consider: output mode and limit, see Policy
          Batch,      \* most events of one answer (128 in the code)
          MaxRetries, \* bound: failed calls before the deadline has passed
          Faults,     \* kinds of fault the environment may produce
          MaxFaults   \* bound: how many of them

(* OutputPolicy; how many chunks the command may print (a bound); do Batch *)
(* chunks exceed 8 MiB as JSON; does the file system reuse a free inode?   *)
Policy == [mode : {"tail", "full", "none"}, maxBytes : Nat, prints : Nat,
           heavy : BOOLEAN, reuse : BOOLEAN]

ASSUME LogAssumption ==
  /\ NoRpc \notin Rpcs /\ Policies \subseteq Policy
  /\ Batch \in Nat \ {0}
  /\ Faults \subseteq {"killed", "torn", "lost_answer", "server"} /\ MaxFaults \in Nat /\ MaxRetries \in Nat

VARIABLES policy,  \* the job's policy, and what its environment does
          dir,     \* the job directory exists
          job,     \* job.json
          log,     \* the two files: sequences of records
          ino,     \* the inode of each file
          partial, \* events.jsonl ends in an unfinished line
          sup,     \* the supervisor: program counter and its copy of the record
          cursors, \* store.eventCursors
          rpc,     \* the watch RPCs in progress
          coord,   \* the coordinator's watchRunnerJob
          faults   \* faults so far

vars == <<policy, dir, job, log, ino, partial, sup, cursors, rpc, coord, faults>>

Files    == {"state", "output"}

Terminal == {"done", "lost"}
Record   == [seq : Nat, kind : {"state", "lost", "output", "garbled"}]
Job      == [state : {"queued", "running"} \cup Terminal, seq : Nat, truncated : BOOLEAN]
Cursor   == [ino : Nat, offset : Nat, last : Nat]

TypeOK ==
  /\ policy \in Policies
  /\ dir \in BOOLEAN /\ job \in Job
  /\ log \in [Files -> Seq(Record)]
  /\ ino \in [Files -> Nat]
  /\ partial \in BOOLEAN
  /\ sup \in [pc : {"start", "running", "compact", "write", "gone"}, job : Job, printed : Nat]
  /\ cursors \in [Files -> SUBSET Cursor] /\ \A f \in Files : \A c, d \in cursors[f] : c = d
  /\ rpc \in [Rpcs -> [pc : {"idle", "check", "state", "output", "answer"}, after : Nat,
                       job : Job, events : SUBSET Record, truncated : BOOLEAN, error : BOOLEAN]]
  /\ coord \in [pc : {"watch", "waiting", "done", "lost"}, rpc : Rpcs \cup {NoRpc}, after : Nat,
                remote : Job, truncated : BOOLEAN, got : Seq(Nat), retries : 0..MaxRetries]
  /\ faults \in 0..MaxFaults

Fault(kind) == kind \in Faults /\ faults < MaxFaults /\ faults' = faults + 1

NewJob == [state |-> "queued", seq |-> 1, truncated |-> FALSE]
IdleRpc == [pc |-> "idle", after |-> 0, job |-> NewJob, events |-> {},
            truncated |-> FALSE, error |-> FALSE]

(* Create has returned and the submit was answered.                        *)
Init ==
  /\ policy \in Policies
  /\ dir = TRUE /\ job = NewJob
  /\ log = [state |-> <<[seq |-> 1, kind |-> "state"]>>, output |-> <<>>]
  /\ ino = [f \in Files |-> 0]
  /\ partial = FALSE
  /\ sup = [pc |-> "start", job |-> NewJob, printed |-> 0]
  /\ cursors = [f \in Files |-> {}]
  /\ rpc = [r \in Rpcs |-> IdleRpc]
  /\ coord = [pc |-> "watch", rpc |-> NoRpc, after |-> 0, remote |-> NewJob,
              truncated |-> FALSE, got |-> <<>>, retries |-> 0]
  /\ faults = 0
-----------------------------------------------------------------------------
(***************************************************************************)
(* The supervisor.                                                         *)
(***************************************************************************)
server == <<cursors, rpc>>

(* A line appended to an unfinished one makes a line nobody can parse.     *)
StateAppended(seq, kind) ==
  [log EXCEPT !["state"] = Append(@, [seq |-> seq, kind |-> IF partial THEN "garbled" ELSE kind])]

Advance(j, state) == [j EXCEPT !.state = state, !.seq = @ + 1]

SupState(from, to) ==
  /\ sup.pc = from
  /\ sup' = [sup EXCEPT !.pc = "write", !.job = Advance(@, to)]
  /\ log' = StateAppended(sup.job.seq + 1, "state")
  /\ UNCHANGED <<policy, dir, job, ino, partial, server, coord, faults>>

Started  == SupState("start", "running")
Finished == SupState("running", "done")

(* copyOutput and appendOutput: in mode full a chunk past the limit is     *)
(* dropped, in mode tail the file is compacted once it is past the limit.  *)
Full == policy.mode = "full" /\ Len(log["output"]) >= policy.maxBytes

PrintDropped ==
  /\ Full
  /\ sup' = [sup EXCEPT !.pc = "write", !.printed = @ + 1,
                        !.job = [Advance(@, "running") EXCEPT !.truncated = TRUE]]
  /\ UNCHANGED log

PrintAppended ==
  /\ policy.mode # "none" /\ ~Full
  /\ sup' = [sup EXCEPT !.job = Advance(@, "running"), !.printed = @ + 1,
       !.pc = IF policy.mode = "tail" /\ Len(log["output"]) >= policy.maxBytes THEN "compact" ELSE "write"]
  /\ log' = [log EXCEPT !["output"] = Append(@, [seq |-> sup.job.seq + 1, kind |-> "output"])]

Prints ==
  /\ sup.pc = "running" /\ sup.printed < policy.prints
  /\ PrintDropped \/ PrintAppended
  /\ UNCHANGED <<policy, dir, job, ino, partial, server, coord, faults>>

(* compactTailFile keeps the last three quarters, less the record that the *)
(* cut runs through, in a new file renamed over the old one.               *)
Retained(s, n) == SubSeq(s, Len(s) - n + 1, Len(s))
Kept == policy.maxBytes - policy.maxBytes \div 4

Compacts ==
  /\ sup.pc = "compact"
  /\ \E n \in {Kept - 1, Kept} : log' = [log EXCEPT !["output"] = Retained(@, n)]
  /\ ino' = [ino EXCEPT !["output"] = IF policy.reuse THEN 1 - @ ELSE @ + 1]
  /\ sup' = [sup EXCEPT !.pc = "write", !.job.truncated = TRUE]
  /\ UNCHANGED <<policy, dir, job, partial, server, coord, faults>>

(* writeJob, by rename.                                                    *)
WritesJob ==
  /\ sup.pc = "write"
  /\ job' = sup.job
  /\ sup' = [sup EXCEPT !.pc = IF sup.job.state = "done" THEN "gone" ELSE "running"]
  /\ UNCHANGED <<policy, dir, log, ino, partial, server, coord, faults>>

(* The supervisor is killed between two steps, or in the middle of writing *)
(* the record of a state.                                                  *)
Killed ==
  /\ sup.pc # "gone"
  /\ sup' = [sup EXCEPT !.pc = "gone"]
  /\ \/ Fault("killed") /\ UNCHANGED partial
     \/ sup.pc \in {"start", "running"} /\ Fault("torn") /\ partial' = TRUE
  /\ UNCHANGED <<policy, dir, job, log, ino, server, coord>>
-----------------------------------------------------------------------------
(***************************************************************************)
(* The server: Reconcile, Prune and the watch RPC.                         *)
(***************************************************************************)
supervisor == <<policy, sup>>

LostRecord(j) == Advance(j, "lost")

(* Reconcile finds the record active and no live supervisor.  Nobody else  *)
(* writes now; job.json follows the event.                                 *)
Reconciles ==
  /\ dir /\ job.state \notin Terminal /\ sup.pc = "gone"
  /\ job' = LostRecord(job)
  /\ log' = StateAppended(LostRecord(job).seq, "lost")
  /\ partial' = FALSE
  /\ UNCHANGED <<supervisor, dir, ino, server, coord, faults>>

(* Prune: a terminal job is past its retention, or the global limit needs  *)
(* its bytes.  The cursors go with the directory.                          *)
PrunableOnceRunning == job.state # "queued"
Prunable == job.state \in Terminal

Prune ==
  /\ dir /\ Prunable
  /\ dir' = FALSE
  /\ cursors' = [f \in Files |-> {}]
  /\ UNCHANGED <<supervisor, job, log, ino, partial, rpc, coord, faults>>

(* One poll of watch: the record, and whether there is anything to read.   *)
(* After Reconcile the record of a job without a supervisor is terminal.   *)
Fails(r) == rpc' = [rpc EXCEPT ![r].pc = "answer", ![r].error = TRUE]

Reconciled == job.state \in Terminal \/ sup.pc # "gone"

Check(r) ==
  /\ rpc[r].pc = "check"
  /\ \/ ~dir /\ Fails(r)
     \/ /\ dir /\ Reconciled
        /\ job.seq > rpc[r].after \/ job.state \in Terminal
        /\ \A q \in Rpcs : rpc[q].pc \notin {"state", "output"}
        /\ rpc' = [rpc EXCEPT ![r].pc = "state", ![r].job = job]
     \/ /\ dir /\ Reconciled /\ job.seq <= rpc[r].after /\ job.state \notin Terminal
        /\ rpc' = [rpc EXCEPT ![r].pc = "answer", ![r].job = job]
  /\ UNCHANGED <<supervisor, dir, job, log, ino, partial, cursors, coord, faults>>

(* readEvents: the cached cursor is used when it is of the same file and   *)
(* the caller has all it stands for; otherwise the file is read again.     *)
UsableAnyFile(f, after) ==
  {c \in cursors[f] : after >= c.last /\ c.offset <= Len(log[f])}
Usable(f, after) ==
  {c \in cursors[f] : c.ino = ino[f] /\ after >= c.last /\ c.offset <= Len(log[f])}

Start(f, after) == Max({c.offset : c \in Usable(f, after)} \cup {0})
Unread(f, after) ==
  {e \in {log[f][i] : i \in Start(f, after) + 1 .. Len(log[f])} : e.kind # "garbled"}
NewEventsFromLast(f, after) == {e \in Unread(f, after) : e.seq >= after}
NewEvents(f, after) == {e \in Unread(f, after) : e.seq > after}

CursorAfter(f, after) ==
  [ino |-> ino[f], offset |-> Len(log[f]),
   last |-> Max({c.last : c \in Usable(f, after)} \cup {e.seq : e \in Unread(f, after)} \cup {0})]

Reads(r, f) ==
  cursors' = [cursors EXCEPT ![f] = IF dir THEN {CursorAfter(f, rpc[r].after)} ELSE {}]

(* EventsAfter reads events.jsonl first ...                                *)
ReadState(r) ==
  /\ rpc[r].pc = "state"
  /\ Reads(r, "state")
  /\ rpc' = [rpc EXCEPT ![r].pc = "output",
               ![r].events = IF dir THEN NewEvents("state", rpc[r].after) ELSE {}]
  /\ UNCHANGED <<supervisor, dir, job, log, ino, partial, coord, faults>>

(* ... then output.jsonl, sorts the two together and looks for a gap       *)
(* before it cuts the list to Batch; which of two events with one number   *)
(* comes first the sort leaves open.                                       *)
GapInBatch(events, after) ==
  \E e \in events : (\E d \in events : d.seq < e.seq) /\ \A d \in events : d.seq # e.seq - 1
Gap(events, after) ==
  \E e \in events : e.seq > after + 1 /\ \A d \in events : d.seq # e.seq - 1
Limited(events) ==
  {first \in SUBSET events :
     /\ Cardinality(first) = Min({Cardinality(events), Batch})
     /\ \A e \in first, d \in events \ first : e.seq <= d.seq}

(* watch: nothing to show for a truncated job counts as a gap too.         *)
Truncated(events, r) ==
  Gap(events, rpc[r].after) \/ (events = {} /\ rpc[r].job.truncated /\ rpc[r].job.seq > rpc[r].after)

ReadOutput(r) ==
  /\ rpc[r].pc = "output"
  /\ Reads(r, "output")
  /\ LET events == rpc[r].events \cup (IF dir THEN NewEvents("output", rpc[r].after) ELSE {})
     IN  \E first \in Limited(events) :
           rpc' = [rpc EXCEPT ![r].pc = "answer", ![r].events = first,
                              ![r].truncated = Truncated(events, r)]
  /\ UNCHANGED <<supervisor, dir, job, log, ino, partial, coord, faults>>

(* The server is restarted: its cursors and the calls it serves are gone.  *)
Restart ==
  /\ Fault("server")
  /\ cursors' = [f \in Files |-> {}]
  /\ rpc' = [r \in Rpcs |-> IdleRpc]
  /\ UNCHANGED <<supervisor, dir, job, log, ino, partial, coord>>
-----------------------------------------------------------------------------
(***************************************************************************)
(* The coordinator: the loop of watchRunnerJob.                            *)
(***************************************************************************)
runner == <<policy, dir, job, log, ino, partial, sup, cursors>>

DrainedPast == coord.remote.state \in Terminal /\ coord.after > coord.remote.seq
Drained == coord.remote.state \in Terminal /\ coord.after >= coord.remote.seq

Idle == {r \in Rpcs : rpc[r].pc = "idle"}

Call ==
  /\ coord.pc = "watch" /\ ~Drained /\ Idle # {}
  /\ LET r == CHOOSE r \in Idle : TRUE IN
       /\ rpc' = [rpc EXCEPT ![r] = [IdleRpc EXCEPT !.pc = "check", !.after = coord.after]]
       /\ coord' = [coord EXCEPT !.pc = "waiting", !.rpc = r]
  /\ UNCHANGED <<runner, faults>>

Completes ==
  /\ coord.pc = "watch" /\ Drained
  /\ coord' = [coord EXCEPT !.pc = "done"]
  /\ UNCHANGED <<runner, rpc, faults>>

(* The catch branch: give up at the deadline, which may pass at any time   *)
(* and has passed after MaxRetries failures; otherwise ask again.          *)
Fail ==
  \/ coord' = [coord EXCEPT !.pc = "lost", !.rpc = NoRpc]
  \/ /\ coord.retries < MaxRetries
     /\ coord' = [coord EXCEPT !.pc = "watch", !.rpc = NoRpc, !.retries = @ + 1]

Outputs(events) == {e.seq : e \in {d \in events : d.kind = "output"}}

(* The chunks of an answer are appended in the order of their numbers.     *)
InOrder(seqs) ==
  {s \in [1 .. Cardinality(seqs) -> seqs] :
     Range(s) = seqs /\ \A i, j \in DOMAIN s : i < j => s[i] < s[j]}

(* RUNNER_RESPONSE_TOO_LARGE: a full batch of heavy chunks.                *)
TooLarge(events) == policy.heavy /\ Cardinality(Outputs(events)) >= Batch
Unacceptable(a) == a.error \/ TooLarge(a.events)

AdvancedTo(a) == Max({coord.after} \cup {e.seq : e \in a.events}
                     \cup (IF a.truncated /\ a.events = {} THEN {a.job.seq} ELSE {}))

Accept(a) ==
  \E chunks \in InOrder(Outputs(a.events)) :
    coord' = [coord EXCEPT !.pc = "watch", !.rpc = NoRpc, !.after = AdvancedTo(a), !.remote = a.job,
                           !.truncated = @ \/ a.truncated, !.got = @ \o chunks]

Answer(r) ==
  /\ rpc[r].pc = "answer"
  /\ rpc' = [rpc EXCEPT ![r] = IdleRpc]
  /\ \/ coord.rpc = r /\ Unacceptable(rpc[r]) /\ Fail
     \/ coord.rpc = r /\ ~Unacceptable(rpc[r]) /\ Accept(rpc[r])
     \/ coord.rpc # r /\ UNCHANGED coord
  /\ UNCHANGED <<runner, faults>>

(* The connection breaks or the 40 s pass; the server goes on regardless.  *)
LosesAnswer ==
  /\ coord.pc = "waiting"
  /\ \/ Fault("lost_answer")
     \/ rpc[coord.rpc].pc = "idle" /\ UNCHANGED faults
  /\ Fail
  /\ UNCHANGED <<runner, rpc>>

-----------------------------------------------------------------------------
Supervisor == Started \/ Finished \/ Prints \/ Compacts \/ WritesJob
Serve(r)   == Check(r) \/ ReadState(r) \/ ReadOutput(r)

Stopped == coord.pc \in {"done", "lost"} /\ UNCHANGED vars

Next ==
  \/ Supervisor \/ Killed \/ Reconciles \/ Prune \/ Restart
  \/ \E r \in Rpcs : Serve(r) \/ Answer(r)
  \/ Call \/ Completes \/ LosesAnswer \/ Stopped

Spec == Init /\ [][Next]_vars

(* The processes run; a call is answered or times out.                     *)
FairSpec ==
  /\ Spec
  /\ WF_vars(Supervisor) /\ WF_vars(Reconciles) /\ WF_vars(Completes) /\ WF_vars(LosesAnswer)
  /\ \A r \in Rpcs : WF_vars(Serve(r)) /\ WF_vars(Answer(r))
  /\ WF_vars(Call)
-----------------------------------------------------------------------------
(* The chunks the command printed, by sequence number; the last one may    *)
(* share its number with the lost event, which Reconcile numbers from      *)
(* job.json.                                                               *)
Printed == 3..(2 + sup.printed)
Renumbered == IF job.state = "lost" THEN {job.seq} ELSE {}

(* Output is lost only with notice: once the coordinator has drained the   *)
(* job, it has appended every chunk the command printed or has marked the  *)
(* output truncated, whatever was compacted, dropped, retried, cut to a    *)
(* batch or read through a stale cursor (readEvents, EventsAfter, watch).  *)
(* The one exception is a chunk whose number the lost event took.          *)
NoSilentLoss ==
  coord.pc = "done" /\ policy.mode # "none" =>
    coord.truncated \/ Printed \subseteq Range(coord.got) \cup Renumbered

(* No chunk is appended twice or out of order, although a lost answer is   *)
(* asked for again while the first call still moves the server's cursors.  *)
OutputInOrder ==
  TypeOK /\ \A i, j \in 1..Len(coord.got) : i < j => coord.got[i] < coord.got[j]

(* What a cursor lets readEvents skip, its next caller has: the cursor's   *)
(* sequence is not below that of any record in front of it, although calls *)
(* that nobody waits for any more move the cursors, and compaction         *)
(* replaces the file.  The exception is a file system that gives a         *)
(* compacted file the inode of an earlier one.                             *)
CursorsComplete ==
  \A f \in Files : \A c \in cursors[f] :
    c.ino = ino[f] /\ ~(f = "output" /\ policy.reuse) =>
      /\ c.offset <= Len(log[f])
      /\ \A i \in 1..c.offset : log[f][i].kind = "garbled" \/ log[f][i].seq <= c.last

(* REMOTE_STATE_LOST is reported only with a cause: a finished job was     *)
(* pruned, calls failed, or a batch is too large to send.  Pruning removes *)
(* terminal jobs only (docs/REMOTE_JOB_MONITOR_ARCHITECTURE.md).           *)
LostIsExplained ==
  coord.pc = "lost" =>
    policy.heavy \/ faults > 0 \/ (~dir /\ job.state \in Terminal)

Unparsable == \E i \in 1..Len(log["state"]) : log["state"][i].kind = "garbled"

(* The loop of watchRunnerJob ends once the supervisor is gone, unless the *)
(* last state was appended to an unfinished line.                          *)
WatchEnds == (sup.pc = "gone") ~> (coord.pc \in {"done", "lost"} \/ Unparsable)

-----------------------------------------------------------------------------
(* Statements of the repository that the code does not keep: the README    *)
(* tells how.  They are not invariants.                                    *)

(* "Runner output retention omitted older events": the coordinator says so *)
(* only of a job some record of which was dropped or never written.        *)
TruncatedIsTrue == coord.truncated => sup.job.truncated \/ faults > 0 \/ ~dir

(* WatchEnds whatever the files contain.                                   *)
WatchAlwaysEnds == (sup.pc = "gone") ~> (coord.pc \in {"done", "lost"})
=============================================================================
