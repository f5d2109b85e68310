------------------------------ MODULE Approvals ------------------------------
(***************************************************************************)
(* What is decided, announced and recorded about jobs that need approval.  *)
(*                                                                         *)
(* The MCP server hands out a capability for a pending job and takes it    *)
(* back in job_approval; each of the two asks the daemon in between, so    *)
(* calls overlap.  The daemon decides, lets grants expire, ends jobs, and  *)
(* announces ends to event subscriptions.  Decisions and deliveries go to  *)
(* the audit log, which refuses everything once its chain is broken.       *)
(*                                                                         *)
(* The daemon's queue and slots are those of Lifecycle: here a queued job  *)
(* is drained at any time.  A job runs in the daemon's own process tree,   *)
(* so a restart loses it.                                                  *)
(***************************************************************************)
EXTENDS Naturals, Sequences, FiniteSets, SequencesExt

CONSTANTS Jobs,
          Ids, Push,       \* subscriptions; those of kind desktop or webhook, the rest is codex
          Calls,           \* tool calls in flight at the MCP server
          CapTtl,          \* APPROVAL_CAPABILITY_TTL_MS
          GrantTtls,       \* values of approvalTtlSeconds
          MaxTime,         \* bound: clock
          Plans,           \* what to explore together, see Plan
          None

(* The jobs there are, the subscriptions each names, the approvalTtlSeconds *)
(* the daemon starts with, MAX_APPROVAL_CAPABILITIES, whether jobs are also *)
(* decided on the command line and cancelled, and bounds: how many          *)
(* capabilities are issued, how often policy or subscriptions change, which *)
(* faults happen (a daemon or MCP server that dies, an audit log or a file  *)
(* that cannot be written).                                                 *)
Plan == [jobs : SUBSET Jobs, subscribed : [Jobs -> Seq(Ids)], ttl : GrantTtls,
         maxCaps : Nat \ {0}, others : BOOLEAN, tokens : Nat, edits : Nat, faults : SUBSET {"crash", "server", "audit", "io"}]

ASSUME ApprovalsAssumption ==
  /\ Push \subseteq Ids /\ Plans \subseteq Plan
  /\ \A p \in Plans, j \in Jobs : IsInjective(p.subscribed[j])
  /\ {CapTtl} \cup GrantTtls \subseteq Nat \ {0} /\ MaxTime \in Nat /\ None \notin Jobs
  /\ IsFiniteSet(Calls)

VARIABLES plan,    \* the plan of this behaviour
          job,     \* of each job: state, policy.approval and grantExpiresAt
          stored,  \* its state in the job store, "active" until it is terminal
          conf,    \* policy and subscriptions in the daemon's memory
          disk,    \* and in their files
          chain,   \* the audit log's hash chain is intact
          audit,   \* its records
          news,    \* of each ended job: the delivery to each subscription
          up,      \* the daemon runs
          caps,    \* approvalCapabilities: the Map's order of insertion is that of the tokens
          tokens,  \* the job of each capability issued
          call,    \* the tool calls in flight
          now, edits, faults,
          decided, \* history: the decisions applied to each job
          told,    \* history: the decisions callers were told are recorded
          heard,   \* history: the states each subscriber was told of a job
          unsaved  \* history: jobs whose terminal record was not written

manager == <<job, stored, conf, disk, chain, audit, news, up>>
history == <<decided, told, heard, unsaved>>
vars == <<plan, manager, caps, tokens, call, now, edits, faults, history>>

Terminal == {"succeeded", "failed", "cancelled", "lost"}
IdleCall == [pc |-> "idle", op |-> "none", job |-> None, token |-> 0]
Quiet == [i \in Ids |-> "none"]

(* Each kind of fault happens at most once. *)
Fault(kind) == kind \in plan.faults \ faults /\ faults' = faults \cup {kind}

Subscribed == plan.subscribed

Init ==
  /\ plan \in Plans
  /\ job = [j \in Jobs |-> [st |-> "awaiting", approval |-> "pending", grant |-> 0]]
  /\ stored = [j \in Jobs |-> "active"]
  /\ conf = [ttl |-> plan.ttl, subs |-> [i \in Ids |-> "enabled"]] /\ disk = conf
  /\ chain = TRUE /\ audit = {} /\ news = [j \in Jobs |-> Quiet] /\ up = TRUE
  /\ caps = {} /\ tokens = <<>> /\ call = [c \in Calls |-> IdleCall]
  /\ now = 0 /\ edits = 0 /\ faults = {}
  /\ decided = [j \in Jobs |-> <<>>] /\ told = {} /\ heard = [j \in Jobs |-> [i \in Ids |-> <<>>]]
  /\ unsaved = {}

-----------------------------------------------------------------------------
(* AuditLog.append verifies the whole chain, then writes: it throws if the *)
(* chain is broken, or when the write fails.                               *)
Append1(record) == chain /\ audit' = audit \cup {record} /\ UNCHANGED faults
AppendThrows == UNCHANGED audit /\ ((~chain /\ UNCHANGED faults) \/ Fault("audit"))

(* A line of the log is edited, or is left incomplete. *)
ChainBreaks ==
  /\ chain /\ Fault("audit") /\ chain' = FALSE
  /\ UNCHANGED <<plan, job, stored, conf, disk, audit, news, up, caps, tokens, call, now, edits, history>>

-----------------------------------------------------------------------------
(* The daemon: LifecycleManager. *)

PendingIfWaiting(j) == job[j].st \in {"awaiting", "queued"}

(* Approval context and pending command exist as long as the job waits. *)
Pending(j) == job[j].st = "awaiting" /\ job[j].approval = "pending"

(* EventSubscriptionStore.dispatch, up to its first await.  A disabled     *)
(* subscription is not delivered; one deleted meanwhile throws.            *)
Dispatched(j) ==
  [i \in Ids |-> CASE i \notin Range(Subscribed[j]) -> "none"
                   [] conf.subs[i] = "absent" -> "unknown"
                   [] conf.subs[i] = "disabled" -> "failed"
                   [] i \notin Push -> "delivered"
                   [] OTHER -> "sending"]

SavedLater(j, st) == UNCHANGED <<stored, unsaved, faults>>

(* touch with an immediate save, whose error is only emitted. *)
Saved(j, st) ==
  \/ stored' = [stored EXCEPT ![j] = st] /\ UNCHANGED <<unsaved, faults>>
  \/ Fault("io") /\ unsaved' = unsaved \cup {j} /\ UNCHANGED stored

(* finish: the record is saved, audited (an error is caught), announced. *)
finish(j, st, approval, records) ==
  /\ job' = [job EXCEPT ![j].st = st, ![j].approval = approval]
  /\ Saved(j, st)
  /\ audit' = audit \cup records \cup (IF chain THEN {<<"terminal", j, st>>} ELSE {})
  /\ news' = [news EXCEPT ![j] = Dispatched(j)]

approveSwallows(j, ok) ==
  /\ job' = [job EXCEPT ![j] = [st |-> "queued", approval |-> "approved", grant |-> now + conf.ttl]]
  /\ Append1(<<"approval", j, "approve">>) \/ AppendThrows
  /\ UNCHANGED <<stored, news, unsaved>>

(* approve: the grant and the queue, then the audit record, whose error    *)
(* leaves the job queued.                                                  *)
approve(j, ok) ==
  /\ job' = [job EXCEPT ![j] = [st |-> "queued", approval |-> "approved", grant |-> now + conf.ttl]]
  /\ IF ok THEN Append1(<<"approval", j, "approve">>) ELSE AppendThrows
  /\ UNCHANGED <<stored, news, unsaved>>

(* rejectApproval: without its audit record the job is rejected, not ended. *)
rejectApproval(j, ok) ==
  IF ok THEN chain /\ finish(j, "cancelled", "rejected", {<<"approval", j, "reject">>})
  ELSE /\ job' = [job EXCEPT ![j].approval = "rejected"] /\ AppendThrows
       /\ UNCHANGED <<stored, news, unsaved>>

(* A decision reaches the daemon.  The caller is told of it, or of an      *)
(* error: the audit log's, or that of an answer that got lost.             *)
Decides(what, j) ==
  /\ up
  /\ \/ /\ Pending(j)
        /\ \E ok, answered \in BOOLEAN :
             /\ IF what = "approve" THEN approve(j, ok) ELSE rejectApproval(j, ok)
             /\ told' = IF ok /\ answered THEN told \cup {<<j, what>>} ELSE told
        /\ decided' = [decided EXCEPT ![j] = Append(@, what)]
     \/ /\ ~Pending(j)
        /\ UNCHANGED <<job, stored, news, unsaved, audit, faults, told, decided>>
  /\ UNCHANGED <<plan, conf, disk, chain, up, heard, now, edits, tokens, caps>>

(* runbeacon approve and reject need no capability. *)
Cli(j) == plan.others /\ \E what \in {"approve", "reject"} : Decides(what, j) /\ UNCHANGED call

(* job_cancel of a job that waits, for approval or in the queue. *)
Cancel(j) ==
  /\ plan.others /\ up /\ job[j].st \in {"awaiting", "queued"}
  /\ finish(j, "cancelled", job[j].approval, {})
  /\ UNCHANGED <<plan, conf, disk, chain, up, caps, tokens, call, now, edits, decided, told, heard>>

(* drain: a grant that has expired ends the job, after the audit record. *)
Drain(j) ==
  /\ up /\ job[j].st = "queued"
  /\ \/ /\ now < job[j].grant /\ job' = [job EXCEPT ![j].st = "running"]
        /\ UNCHANGED <<stored, audit, news, faults, unsaved>>
     \/ /\ job[j].grant <= now /\ chain
        /\ finish(j, "failed", "expired", {<<"approval", j, "expired">>})
  /\ UNCHANGED <<plan, conf, disk, chain, up, caps, tokens, call, now, edits, decided, told, heard>>

(* The command ends; Lifecycle tells how. *)
Ends(j) ==
  /\ up /\ job[j].st = "running"
  /\ \E st \in {"succeeded", "cancelled"} : finish(j, st, job[j].approval, {})
  /\ UNCHANGED <<plan, conf, disk, chain, up, caps, tokens, call, now, edits, decided, told, heard>>

(* What becomes of a message.  The notifier exits with 0, or the webhook   *)
(* answers 2xx: it has arrived.  Otherwise it is reported failed, which it *)
(* also is after 10 s, although it may have arrived.                       *)
Fates == {<<TRUE, "delivered">>, <<TRUE, "failed">>, <<FALSE, "failed">>}

Delivers(j, i) ==
  /\ up /\ news[j][i] = "sending"
  /\ \E fate \in Fates :
       /\ heard' = IF fate[1] THEN [heard EXCEPT ![j][i] = Append(@, job[j].st)] ELSE heard
       /\ news' = [news EXCEPT ![j][i] = fate[2]]
  /\ UNCHANGED <<plan, job, stored, conf, disk, chain, audit, up, caps, tokens, call, now, edits, faults,
                 decided, told, unsaved>>

(* Promise.all: once every delivery has a result, one record each; the     *)
(* first error drops the rest.  With an unknown subscription there is none. *)
Settled(j) == Range(Subscribed[j]) # {} /\ \A i \in Range(Subscribed[j]) : news[j][i] \in {"delivered", "failed"}

AuditDeliveries(j) ==
  LET records(n) == {<<"delivery", j, Subscribed[j][k], news[j][Subscribed[j][k]]>> : k \in 1..n} IN
  /\ up /\ Settled(j) /\ news' = [news EXCEPT ![j] = Quiet]
  /\ \/ chain /\ audit' = audit \cup records(Len(Subscribed[j])) /\ UNCHANGED faults
     \/ ~chain /\ UNCHANGED <<audit, faults>>
     \/ chain /\ Fault("audit") /\ \E n \in 0..(Len(Subscribed[j]) - 1) : audit' = audit \cup records(n)
  /\ UNCHANGED <<plan, job, stored, conf, disk, chain, up, caps, tokens, call, now, edits, history>>

(* A file is written aside and renamed. *)
Persisted(file, value) == disk' = [disk EXCEPT ![file] = value]

(* A change is made in the daemon's memory, then in the file, then in the  *)
(* audit log, and nothing is undone when a later step throws.              *)
Changed(file, value) ==
  /\ conf' = [conf EXCEPT ![file] = value]
  /\ \/ Persisted(file, value) /\ (Append1(<<"edit", file>>) \/ AppendThrows)
     \/ Fault("io") /\ UNCHANGED <<disk, audit>>

updatePolicy == \E ttl \in GrantTtls \ {conf.ttl} : Changed("ttl", ttl)

saveEventSubscription(i) ==
  \E to \in {"enabled", "disabled"} \ {conf.subs[i]} : Changed("subs", [conf.subs EXCEPT ![i] = to])

deleteEventSubscription(i) ==
  conf.subs[i] # "absent" /\ Changed("subs", [conf.subs EXCEPT ![i] = "absent"])

Edit ==
  /\ up /\ edits < plan.edits /\ edits' = edits + 1
  /\ updatePolicy \/ \E i \in Ids : saveEventSubscription(i) \/ deleteEventSubscription(i)
  /\ UNCHANGED <<plan, job, stored, chain, news, up, caps, tokens, call, now, history>>

(* The daemon's process ends, and with it what it sends and what it was    *)
(* asked.                                                                  *)
Stops ==
  /\ up' = FALSE /\ news' = [j \in Jobs |-> Quiet]
  /\ call' = [c \in Calls |-> IF call[c].pc \in {"context", "decide"} THEN IdleCall ELSE call[c]]

Crash ==
  /\ up /\ Fault("crash") /\ Stops
  /\ UNCHANGED <<plan, job, stored, conf, disk, chain, audit, caps, tokens, now, edits, history>>

(* drain of an expired grant without its audit record: the rejected        *)
(* promise is nobody's, which ends the daemon.                             *)
DrainRejects(j) ==
  /\ up /\ job[j].st = "queued" /\ job[j].grant <= now
  /\ AppendThrows /\ Stops
  /\ UNCHANGED <<plan, job, stored, conf, disk, chain, caps, tokens, now, edits, history>>

(* The files are read; a file that is missing or malformed is not modelled. *)
Loaded == conf' = disk

(* A new daemon: AuditLog verifies the chain, and what had not ended is    *)
(* lost, without finish and so without an announcement.                    *)
Restart ==
  /\ ~up /\ chain /\ up' = TRUE
  /\ stored' = [j \in Jobs |-> IF stored[j] = "active" THEN "lost" ELSE stored[j]]
  /\ job' = [j \in Jobs |-> [job[j] EXCEPT !.st = stored'[j]]]
  /\ Loaded
  /\ UNCHANGED <<plan, disk, chain, audit, news, caps, tokens, call, now, edits, faults, history>>

-----------------------------------------------------------------------------
(* The MCP server.  Every await on the daemon is two steps: the daemon     *)
(* answers, the server goes on.  A call that meets no daemon fails: the    *)
(* client would start one, for which no job is pending.                    *)

server == <<plan, manager, now, edits, faults, history>>
Go(c, pc) == call' = [call EXCEPT ![c].pc = pc]
Return(c) == call' = [call EXCEPT ![c] = IdleCall]

Without(j) == {r \in caps : r.job # j}

Live == {r \in caps : r.until > now}

(* pruneApprovalCapabilities: the expired ones go, then the oldest ones    *)
(* until there is room for one more.                                       *)
Pruned == {r \in Live : Cardinality({s \in Live : s.token > r.token}) + 1 < plan.maxCaps}

(* job_start or job_dashboard: the snapshot. *)
Show(c, j) ==
  /\ up /\ call[c] = IdleCall /\ Len(tokens) < plan.tokens
  /\ call' = [call EXCEPT ![c] = [pc |-> IF Pending(j) THEN "shown" ELSE "over", op |-> "issue",
                                   job |-> j, token |-> 0]]
  /\ UNCHANGED <<server, caps, tokens>>

(* issueApprovalMetadata, before and after approvalContext. *)
Issue(c) ==
  /\ \/ call[c].pc = "over" /\ caps' = Without(call[c].job) /\ Return(c)
     \/ call[c].pc = "shown" /\ caps' = Pruned /\ (IF up THEN Go(c, "context") ELSE Return(c))
  /\ UNCHANGED <<server, tokens>>

Grant(c) ==
  /\ call[c].pc = "issue" /\ Return(c)
  /\ tokens' = Append(tokens, call[c].job)
  /\ caps' = Without(call[c].job) \cup
               {[job |-> call[c].job, token |-> Len(tokens) + 1, until |-> now + CapTtl]}
  /\ UNCHANGED server

(* approvalContext at the daemon.  The context of a pending job does not   *)
(* change, so the digests of the two calls agree.                          *)
Context(c) ==
  /\ up /\ call[c].pc = "context"
  /\ IF Pending(call[c].job) THEN Go(c, IF call[c].op = "issue" THEN "issue" ELSE "accept")
                             ELSE Return(c)
  /\ UNCHANGED <<server, caps, tokens>>

(* job_approval: consumeApprovalCapability, before and after               *)
(* approvalContext; then the decision.                                     *)
Consume(c, j, t, what) ==
  /\ call[c] = IdleCall /\ caps' = Pruned
  /\ IF up /\ \E r \in Pruned : r.job = j /\ r.token = t
     THEN call' = [call EXCEPT ![c] = [pc |-> "context", op |-> what, job |-> j, token |-> t]]
     ELSE UNCHANGED call
  /\ UNCHANGED <<server, tokens>>

Accept(c) ==
  /\ call[c].pc = "accept" /\ caps' = Without(call[c].job)
  /\ IF up THEN Go(c, "decide") ELSE Return(c)
  /\ UNCHANGED <<server, tokens>>

Decide(c) == call[c].pc = "decide" /\ Decides(call[c].op, call[c].job) /\ Return(c)

ServerCrash ==
  /\ Fault("server") /\ caps' = {} /\ call' = [c \in Calls |-> IdleCall]
  /\ UNCHANGED <<plan, manager, tokens, now, edits, history>>

Tick == now < MaxTime /\ now' = now + 1 /\ UNCHANGED <<plan, manager, caps, tokens, call, edits, faults, history>>

Next ==
  \/ \E j \in plan.jobs :
       \/ Cli(j) \/ Cancel(j) \/ Drain(j) \/ DrainRejects(j) \/ Ends(j) \/ AuditDeliveries(j)
       \/ \E i \in Ids : Delivers(j, i)
  \/ \E c \in Calls :
       \/ Issue(c) \/ Grant(c) \/ Context(c) \/ Accept(c) \/ Decide(c)
       \/ \E j \in plan.jobs : \/ Show(c, j)
                          \/ \E t \in DOMAIN tokens, what \in {"approve", "reject"} : Consume(c, j, t, what)
  \/ Edit \/ ChainBreaks \/ Crash \/ Restart \/ ServerCrash \/ Tick

Spec == Init /\ [][Next]_vars

-----------------------------------------------------------------------------
TypeOK ==
  /\ job \in [Jobs -> [st : {"awaiting", "queued", "running"} \cup Terminal,
                       approval : {"pending", "approved", "rejected", "expired"}, grant : Nat]]
  /\ stored \in [Jobs -> {"active"} \cup Terminal]
  /\ {conf, disk} \subseteq [ttl : GrantTtls, subs : [Ids -> {"enabled", "disabled", "absent"}]]
  /\ {chain, up} \subseteq BOOLEAN
  /\ news \in [Jobs -> [Ids -> {"none", "sending", "delivered", "failed", "unknown"}]]
  /\ caps \subseteq [job : Jobs, token : 1..Len(tokens), until : Nat] /\ tokens \in Seq(Jobs)
  /\ call \in [Calls -> [pc : {"idle", "shown", "over", "issue", "context", "accept", "decide"},
                         op : {"none", "issue", "approve", "reject"}, job : Jobs \cup {None}, token : Nat]]
  /\ now \in 0..MaxTime /\ edits \in 0..plan.edits /\ faults \subseteq plan.faults /\ plan \in Plans
  /\ decided \in [Jobs -> Seq({"approve", "reject"})] /\ told \subseteq Jobs \X {"approve", "reject"}
  /\ heard \in [Jobs -> [Ids -> Seq(Terminal)]] /\ unsaved \subseteq Jobs

(* A job is decided at most once, however many capabilities were issued    *)
(* for it, however often one is presented at the same time, and whatever   *)
(* the command line does meanwhile: consumeApprovalCapability awaits       *)
(* between its check and its delete, so approve and rejectApproval decide. *)
DecidedOnce == \A j \in Jobs : Len(decided[j]) <= 1

(* A caller who is told that its decision is recorded was the one to       *)
(* decide, the audit log has the decision, and a rejected job has ended    *)
(* and stays ended.                                                        *)
RecordedIsTrue ==
  \A j \in Jobs, what \in {"approve", "reject"} : <<j, what>> \in told =>
    /\ decided[j] = <<what>> /\ <<"approval", j, what>> \in audit
    /\ what = "reject" => job[j].st \in {"cancelled", "lost"}

(* MAX_APPROVAL_CAPABILITIES is kept up to the calls that were between     *)
(* pruneApprovalCapabilities and set at the same time; no job has two.     *)
CapsBounded ==
  /\ TypeOK
  /\ Cardinality(caps) <= plan.maxCaps - 1 + Cardinality(Calls)
  /\ \A r, s \in caps : r.job = s.job => r = s

(* A subscriber hears of the end of a job once, and what it heard is what  *)
(* the job store says, after any crash: finish saves before it announces.  *)
(* The exception is a save that failed.  A delivery that the audit log     *)
(* calls delivered has arrived, whatever was edited meanwhile.             *)
AnnouncedIsStored ==
  \A j \in Jobs, i \in Ids :
    /\ Len(heard[j][i]) <= 1
    /\ heard[j][i] # <<>> => j \in unsaved \/ heard[j][i] = <<stored[j]>>
    /\ i \in Push /\ <<"delivery", j, i, "delivered">> \in audit => heard[j][i] # <<>>
=============================================================================
