-------------------------- MODULE ApprovalsProofs --------------------------
(***************************************************************************)
(* Proofs about Approvals, for any jobs, subscriptions and tool calls in   *)
(* flight, any plan and any number of capabilities.  IInv leaves the       *)
(* capabilities out: that a job is decided once does not rest on them, but *)
(* on approve and rejectApproval, which decide in one turn of the daemon.  *)
(* That there are not too many of them is an invariant of its own, CapInv. *)
(***************************************************************************)
EXTENDS Approvals, FiniteSetTheorems, WellFoundedInduction, TLAPS

JobRecord == [st : {"awaiting", "queued", "running"} \cup Terminal,
              approval : {"pending", "approved", "rejected", "expired"}, grant : Nat]
Result == {"none", "sending", "delivered", "failed", "unknown"}
Decision == {"approve", "reject"}
CallRecord == [pc : {"idle", "shown", "over", "issue", "context", "accept", "decide"},
               op : {"none", "issue", "approve", "reject"}, job : Jobs \cup {None}, token : Nat]

Config == [ttl : GrantTtls, subs : [Ids -> {"enabled", "disabled", "absent"}]]

(* The type invariant without the capabilities. *)
Typed ==
  /\ plan \in Plans /\ chain \in BOOLEAN /\ now \in Nat
  /\ conf \in Config /\ disk \in Config
  /\ job \in [Jobs -> JobRecord] /\ stored \in [Jobs -> {"active"} \cup Terminal]
  /\ news \in [Jobs -> [Ids -> Result]] /\ heard \in [Jobs -> [Ids -> Seq(Terminal)]]
  /\ decided \in [Jobs -> Seq(Decision)]
  /\ tokens \in Seq(Jobs) /\ call \in [Calls -> CallRecord]

(* A tool call past its first step is about a job, and one that got a      *)
(* capability accepted is about a decision.                                *)
CallInv ==
  \A c \in Calls : /\ call[c].pc # "idle" => call[c].job \in Jobs /\ call[c].op # "none"
                   /\ call[c].pc \in {"accept", "decide"} => call[c].op \in Decision

(* What was decided is not pending again, and what a caller was told of is *)
(* the decision.  A rejection stays: the record that a restart reads is    *)
(* the terminal one, or none.                                              *)
DecisionInv(j) ==
  /\ Len(decided[j]) <= 1
  /\ decided[j] # <<>> => ~Pending(j)
  /\ stored[j] \in {"active", job[j].st}
  /\ \A what \in Decision : <<j, what>> \in told =>
       /\ decided[j] = <<what>> /\ <<"approval", j, what>> \in audit
       /\ what = "reject" => job[j].st \in {"cancelled", "lost"}

(* Only the end of a job is announced, once it is in the store or its save *)
(* has failed; an announcement under way has not arrived before.           *)
NewsInv(j, i) ==
  /\ news[j][i] # "none" => /\ job[j].st \in Terminal
                            /\ j \in unsaved \/ stored[j] = job[j].st
  /\ news[j][i] = "sending" => heard[j][i] = <<>>
  /\ news[j][i] = "delivered" /\ i \in Push => heard[j][i] # <<>>
  /\ heard[j][i] # <<>> => job[j].st \in Terminal
  /\ Len(heard[j][i]) <= 1
  /\ heard[j][i] # <<>> => j \in unsaved \/ heard[j][i] = <<stored[j]>>
  /\ i \in Push /\ <<"delivery", j, i, "delivered">> \in audit => heard[j][i] # <<>>

IInv == /\ Typed /\ CallInv
        /\ \A j \in Jobs : DecisionInv(j)
        /\ \A j \in Jobs, i \in Ids : NewsInv(j, i)
-----------------------------------------------------------------------------
(* The audit log only grows, and most records are not of a delivery.       *)
AuditGrows ==
  /\ audit \subseteq audit'
  /\ \A j \in Jobs, i \in Ids : <<"delivery", j, i, "delivered">> \in audit'
                                  => <<"delivery", j, i, "delivered">> \in audit

LEMMA RecordsDiffer ==
  \A a, b, c, d, e : /\ <<"delivery", a, b, c>> # <<"approval", d, e>>
                     /\ <<"delivery", a, b, c>> # <<"terminal", d, e>>
                     /\ <<"delivery", a, b, c>> # <<"edit", d>>
<1> TAKE a, b, c, d, e
<1>1. /\ <<"delivery", a, b, c>>[1] = "delivery" /\ <<"approval", d, e>>[1] = "approval"
      /\ <<"terminal", d, e>>[1] = "terminal" /\ <<"edit", d>>[1] = "edit"
  OBVIOUS
<1>2. "delivery" # "approval" /\ "delivery" # "terminal" /\ "delivery" # "edit"
  OBVIOUS
<1> QED BY <1>1, <1>2

LEMMA AppendGrows ==
  ASSUME NEW record, Append1(record) \/ AppendThrows,
         \A j \in Jobs, i \in Ids : <<"delivery", j, i, "delivered">> # record
  PROVE  AuditGrows
  BY DEF Append1, AppendThrows, AuditGrows

(* A step that moves no job, decision or announcement.                     *)
LEMMA Unmoved ==
  ASSUME IInv, AuditGrows, UNCHANGED <<job, stored, news, heard, decided, told, unsaved>>
  PROVE  /\ \A j \in Jobs : DecisionInv(j)'
         /\ \A j \in Jobs, i \in Ids : NewsInv(j, i)'
<1>1. \A j \in Jobs : DecisionInv(j)'
  BY DEF IInv, DecisionInv, Pending, AuditGrows
<1>2. \A j \in Jobs, i \in Ids : NewsInv(j, i)'
  BY DEF IInv, NewsInv, AuditGrows
<1> QED BY <1>1, <1>2

LEMMA DispatchedType ==
  ASSUME NEW j \in Jobs
  PROVE  /\ Dispatched(j) \in [Ids -> Result]
         /\ \A i \in Push : i \in Ids => Dispatched(j)[i] # "delivered"
  BY DEF Dispatched, Result

(* finish ends a job that has not ended: whatever was announced before is  *)
(* nothing, and what is announced now is saved or is known to be unsaved.  *)
LEMMA FinishKeeps ==
  ASSUME IInv, NEW j \in Jobs, NEW st \in Terminal,
         NEW approval \in {"pending", "approved", "rejected", "expired"},
         NEW records, finish(j, st, approval, records), job[j].st \notin Terminal,
         \A k \in Jobs, i \in Ids : <<"delivery", k, i, "delivered">> \notin records,
         UNCHANGED heard
  PROVE  /\ job' \in [Jobs -> JobRecord] /\ stored' \in [Jobs -> {"active"} \cup Terminal]
         /\ news' \in [Jobs -> [Ids -> Result]]
         /\ AuditGrows
         /\ \A k \in Jobs : k # j => job'[k] = job[k] /\ stored'[k] = stored[k]
         /\ job'[j].st = st /\ job'[j].approval = approval
         /\ stored[j] = "active" /\ stored'[j] \in {"active", st}
         /\ \A k \in Jobs, i \in Ids : NewsInv(k, i)'
<1>0. /\ Typed /\ job \in [Jobs -> JobRecord] /\ stored \in [Jobs -> {"active"} \cup Terminal]
      /\ news \in [Jobs -> [Ids -> Result]] /\ heard \in [Jobs -> [Ids -> Seq(Terminal)]]
      /\ "active" \notin Terminal
  BY DEF IInv, Typed, Terminal
<1>1. job' \in [Jobs -> JobRecord] /\ job'[j].st = st /\ job'[j].approval = approval
  BY <1>0 DEF finish, JobRecord
<1>2. \A k \in Jobs : k # j => job'[k] = job[k]
  BY <1>0 DEF finish
<1>3. stored[j] = "active"
  BY <1>0 DEF IInv, DecisionInv
<1>4. /\ stored' \in [Jobs -> {"active"} \cup Terminal]
      /\ \A k \in Jobs : k # j => stored'[k] = stored[k]
      /\ stored'[j] \in {"active", st}
      /\ unsaved \subseteq unsaved' /\ (stored'[j] = st \/ j \in unsaved')
      /\ \A k \in Jobs : k # j /\ k \in unsaved' => k \in unsaved
  BY <1>0, <1>3 DEF finish, Saved, Fault
<1>5. news' \in [Jobs -> [Ids -> Result]] /\ news'[j] = Dispatched(j)
      /\ \A k \in Jobs : k # j => news'[k] = news[k]
  BY <1>0, DispatchedType DEF finish
<1>6. AuditGrows
  <2>1. \A k \in Jobs, i \in Ids : <<"delivery", k, i, "delivered">> # <<"terminal", j, st>>
    BY RecordsDiffer
  <2> QED BY <2>1 DEF finish, AuditGrows
<1>7. ASSUME NEW k \in Jobs, NEW i \in Ids PROVE NewsInv(k, i)'
  <2>1. CASE k # j
    BY <1>0, <1>2, <1>4, <1>5, <1>6, <1>7, <2>1 DEF IInv, NewsInv, AuditGrows
  <2>2. CASE k = j
    <3>1. heard[j][i] = <<>> /\ heard'[j][i] = <<>>
      BY <1>7, <2>2 DEF IInv, NewsInv
    <3>2. <<"delivery", j, i, "delivered">> \in audit' => i \notin Push
      BY <1>6, <1>7, <3>1 DEF IInv, NewsInv, AuditGrows
    <3>3. i \in Push => news'[j][i] # "delivered"
      BY <1>5, DispatchedType
    <3>4. Len(<<>>) <= 1
      OBVIOUS
    <3> QED BY <1>1, <1>4, <2>2, <3>1, <3>2, <3>3, <3>4 DEF NewsInv
  <2> QED BY <2>1, <2>2
<1> QED BY <1>1, <1>2, <1>3, <1>4, <1>5, <1>6, <1>7
(* The end of a job is no decision: no caller was told that this job was   *)
(* rejected, for it would have ended.                                      *)
LEMMA FinishDecides ==
  ASSUME IInv, NEW j \in Jobs, job[j].st \notin Terminal,
         job' \in [Jobs -> JobRecord], AuditGrows, UNCHANGED <<decided, told>>,
         \A k \in Jobs : k # j => job'[k] = job[k] /\ stored'[k] = stored[k],
         job'[j].st \in Terminal, stored'[j] \in {"active", job'[j].st}
  PROVE  \A k \in Jobs : DecisionInv(k)'
<1> SUFFICES ASSUME NEW k \in Jobs PROVE DecisionInv(k)'
  OBVIOUS
<1>1. CASE k # j
  BY <1>1 DEF IInv, DecisionInv, Pending, AuditGrows
<1>2. CASE k = j
  BY <1>2 DEF IInv, DecisionInv, Pending, AuditGrows, Terminal
<1> QED BY <1>1, <1>2

(* A step of the MCP server: the daemon is left alone.                     *)
LEMMA ServerKeeps ==
  ASSUME IInv, UNCHANGED server, tokens' \in Seq(Jobs), call' \in [Calls -> CallRecord], CallInv'
  PROVE  IInv'
<1>1. Typed'
  BY DEF IInv, Typed, server, manager, history
<1>2. AuditGrows /\ UNCHANGED <<job, stored, news, heard, decided, told, unsaved>>
  BY DEF server, manager, history, AuditGrows
<1> QED BY <1>1, <1>2, Unmoved DEF IInv

(* A call that goes on keeps its job and its operation.                    *)
LEMMA GoKeeps ==
  ASSUME IInv, NEW c \in Calls, call[c].pc # "idle", Go(c, "issue") \/ Go(c, "context")
  PROVE  call' \in [Calls -> CallRecord] /\ CallInv'
<1>1. PICK pc \in {"issue", "context"} : Go(c, pc)
  OBVIOUS
<1>2. call \in [Calls -> CallRecord] /\ call[c] \in CallRecord
  BY DEF IInv, Typed
<1>3. /\ call'[c] = [call[c] EXCEPT !.pc = pc]
      /\ call' = [call EXCEPT ![c] = [call[c] EXCEPT !.pc = pc]]
      /\ \A b \in Calls : b # c => call'[b] = call[b]
  BY <1>1, <1>2 DEF Go
<1>4. /\ call'[c] \in CallRecord /\ call'[c].pc = pc
      /\ call'[c].job = call[c].job /\ call'[c].op = call[c].op
  BY <1>2, <1>3 DEF CallRecord
<1>5. call' \in [Calls -> CallRecord]
  BY <1>2, <1>3, <1>4
<1>6. CallInv'
  BY <1>3, <1>4 DEF IInv, CallInv
<1> QED BY <1>5, <1>6

LEMMA GoDecides ==
  ASSUME IInv, NEW c \in Calls, call[c].pc # "idle", call[c].op \in Decision,
         Go(c, "accept") \/ Go(c, "decide")
  PROVE  call' \in [Calls -> CallRecord] /\ CallInv'
<1>1. PICK pc \in {"accept", "decide"} : Go(c, pc)
  OBVIOUS
<1>2. call \in [Calls -> CallRecord] /\ call[c] \in CallRecord
  BY DEF IInv, Typed
<1>3. /\ call'[c] = [call[c] EXCEPT !.pc = pc]
      /\ call' = [call EXCEPT ![c] = [call[c] EXCEPT !.pc = pc]]
      /\ \A b \in Calls : b # c => call'[b] = call[b]
  BY <1>1, <1>2 DEF Go
<1>4. /\ call'[c] \in CallRecord /\ call'[c].pc = pc
      /\ call'[c].job = call[c].job /\ call'[c].op = call[c].op
  BY <1>2, <1>3 DEF CallRecord
<1>5. call' \in [Calls -> CallRecord]
  BY <1>2, <1>3, <1>4
<1>6. CallInv'
  BY <1>3, <1>4 DEF IInv, CallInv
<1> QED BY <1>5, <1>6

LEMMA ReturnKeeps ==
  ASSUME IInv, NEW c \in Calls, Return(c)
  PROVE  call' \in [Calls -> CallRecord] /\ CallInv'
<1>1. IdleCall \in CallRecord /\ IdleCall.pc = "idle"
  BY DEF IdleCall, CallRecord
<1> QED BY <1>1 DEF IInv, Typed, Return, CallInv

LEMMA StopsKeeps ==
  ASSUME IInv, Stops
  PROVE  /\ call' \in [Calls -> CallRecord] /\ CallInv' /\ news' \in [Jobs -> [Ids -> Result]]
         /\ \A j \in Jobs, i \in Ids : news'[j][i] = "none"
<1>1. IdleCall \in CallRecord /\ IdleCall.pc = "idle"
  BY DEF IdleCall, CallRecord
<1>2. Quiet \in [Ids -> Result] /\ \A i \in Ids : Quiet[i] = "none"
  BY DEF Quiet, Result
<1> QED BY <1>1, <1>2 DEF IInv, Typed, Stops, CallInv

(* The daemon ends between two turns, with nothing but what it was sending *)
(* and was asked lost.                                                     *)
LEMMA StopKeeps ==
  ASSUME IInv, Stops, AuditGrows,
         UNCHANGED <<plan, chain, now, conf, disk, job, stored, heard, decided, told, unsaved, tokens>>
  PROVE  IInv'
<1>1. Typed' /\ CallInv'
  BY StopsKeeps DEF IInv, Typed
<1>2. \A j \in Jobs : DecisionInv(j)'
  BY DEF IInv, DecisionInv, Pending, AuditGrows
<1>3. \A j \in Jobs, i \in Ids : NewsInv(j, i)'
  BY StopsKeeps DEF IInv, NewsInv, AuditGrows
<1> QED BY <1>1, <1>2, <1>3 DEF IInv
-----------------------------------------------------------------------------
LEMMA InitIInv == Init => IInv
<1> SUFFICES ASSUME Init PROVE IInv
  OBVIOUS
<1>0. /\ plan \in Plans /\ plan.ttl \in GrantTtls /\ conf \in Config /\ disk = conf
  BY ApprovalsAssumption DEF Init, Plan, Config
<1>1. Quiet \in [Ids -> Result] /\ \A i \in Ids : Quiet[i] = "none"
  BY DEF Quiet, Result
<1>2. IdleCall \in CallRecord /\ IdleCall.pc = "idle"
  BY DEF IdleCall, CallRecord
<1>3. [st |-> "awaiting", approval |-> "pending", grant |-> 0] \in JobRecord
  BY DEF JobRecord
<1>4. Typed
  BY <1>0, <1>1, <1>2, <1>3 DEF Init, Typed
<1>5. CallInv
  BY <1>2 DEF Init, CallInv
<1>6. \A j \in Jobs : DecisionInv(j)
  BY DEF Init, DecisionInv
<1>7. \A j \in Jobs, i \in Ids : NewsInv(j, i)
  BY <1>1 DEF Init, NewsInv
<1> QED BY <1>4, <1>5, <1>6, <1>7 DEF IInv
-----------------------------------------------------------------------------
(* A decision is taken on a pending job only, which has none: one turn of  *)
(* the daemon looks at the job and changes it.                             *)
LEMMA DecidesKeeps ==
  ASSUME IInv, NEW j \in Jobs, NEW what \in Decision, Decides(what, j),
         call' \in [Calls -> CallRecord], CallInv'
  PROVE  IInv'
<1>0. /\ Typed /\ job \in [Jobs -> JobRecord] /\ job[j] \in JobRecord
      /\ decided \in [Jobs -> Seq(Decision)] /\ now + conf.ttl \in Nat
      /\ stored \in [Jobs -> {"active"} \cup Terminal]
      /\ UNCHANGED <<plan, conf, disk, chain, heard, now, tokens>>
  BY ApprovalsAssumption DEF IInv, Typed, Decides, Config
<1>1. CASE ~Pending(j)
  <2>1. UNCHANGED <<job, stored, news, unsaved, audit, told, decided>>
    BY <1>1 DEF Decides
  <2>2. AuditGrows
    BY <2>1 DEF AuditGrows
  <2>3. Typed'
    BY <1>0, <2>1 DEF Typed
  <2> QED BY <1>0, <2>1, <2>2, <2>3, Unmoved DEF IInv
<1>2. CASE Pending(j)
  <2>1. PICK ok, answered \in BOOLEAN :
          /\ IF what = "approve" THEN approve(j, ok) ELSE rejectApproval(j, ok)
          /\ told' = IF ok /\ answered THEN told \cup {<<j, what>>} ELSE told
    BY <1>2 DEF Decides
  <2>2. decided' = [decided EXCEPT ![j] = Append(@, what)]
    BY <1>2 DEF Decides
  <2>3. decided[j] = <<>> /\ \A w \in Decision : <<j, w>> \notin told
    <3>1. decided[j] = <<>>
      BY <1>2 DEF IInv, DecisionInv
    <3>2. \A w : <<w>> # <<>>
      OBVIOUS
    <3> QED BY <3>1, <3>2 DEF IInv, DecisionInv
  <2>4. /\ decided' \in [Jobs -> Seq(Decision)] /\ decided'[j] = <<what>> /\ Len(decided'[j]) <= 1
        /\ \A k \in Jobs : k # j => decided'[k] = decided[k]
    BY <1>0, <2>2, <2>3
  <2>5. \A k \in Jobs, i \in Ids : <<"delivery", k, i, "delivered">> # <<"approval", j, what>>
    BY RecordsDiffer
  <2>6. /\ job' \in [Jobs -> JobRecord] /\ stored' \in [Jobs -> {"active"} \cup Terminal]
        /\ news' \in [Jobs -> [Ids -> Result]]
        /\ AuditGrows
        /\ \A k \in Jobs : k # j => job'[k] = job[k] /\ stored'[k] = stored[k]
        /\ ~Pending(j)' /\ stored'[j] \in {"active", job'[j].st}
        /\ ok => <<"approval", j, what>> \in audit'
        /\ ok /\ what = "reject" => job'[j].st = "cancelled"
        /\ \A k \in Jobs, i \in Ids : NewsInv(k, i)'
    <3>1. CASE what = "approve"
      <4> DEFINE r == [st |-> "queued", approval |-> "approved", grant |-> now + conf.ttl]
      <4>1. r \in JobRecord /\ r.st = "queued"
        BY <1>0 DEF JobRecord
      <4>2. /\ job' = [job EXCEPT ![j] = r] /\ UNCHANGED <<stored, news, unsaved>>
            /\ IF ok THEN Append1(<<"approval", j, "approve">>) ELSE AppendThrows
        BY <2>1, <3>1 DEF approve
      <4> HIDE DEF r
      <4>3. /\ job' \in [Jobs -> JobRecord] /\ job'[j] = r
            /\ \A k \in Jobs : k # j => job'[k] = job[k]
        BY <1>0, <4>1, <4>2
      <4>4. AuditGrows
        BY <2>5, <3>1, <4>2, AppendGrows
      <4>5. ok => <<"approval", j, what>> \in audit'
        BY <3>1, <4>2 DEF Append1
      <4>6. stored[j] = "active" /\ stored' = stored /\ news' = news /\ unsaved' = unsaved
        BY <1>2, <4>2 DEF IInv, DecisionInv, Pending, Typed, Terminal
      <4>7. ASSUME NEW k \in Jobs, NEW i \in Ids PROVE NewsInv(k, i)'
        <5>1. k = j => news[k][i] = "none" /\ heard[k][i] = <<>>
          BY <1>2, <4>7 DEF IInv, NewsInv, Pending, Terminal
        <5> QED BY <1>0, <4>3, <4>4, <4>6, <4>7, <5>1 DEF IInv, NewsInv, AuditGrows
      <4>8. news' \in [Jobs -> [Ids -> Result]] /\ stored' \in [Jobs -> {"active"} \cup Terminal]
        BY <1>0, <4>6 DEF Typed
      <4> QED BY <3>1, <4>1, <4>3, <4>4, <4>5, <4>6, <4>7, <4>8 DEF Pending
    <3>2. CASE what = "reject" /\ ok
      <4>1. finish(j, "cancelled", "rejected", {<<"approval", j, "reject">>})
        BY <2>1, <3>2 DEF rejectApproval
      <4>2. job[j].st \notin Terminal
        BY <1>2 DEF Pending, Terminal
      <4>3. \A k \in Jobs, i \in Ids :
              <<"delivery", k, i, "delivered">> \notin {<<"approval", j, "reject">>}
        BY <2>5, <3>2
      <4>4. <<"approval", j, "reject">> \in audit'
        BY <4>1 DEF finish
      <4>5. "cancelled" \in Terminal
        BY DEF Terminal
      <4> QED BY <1>0, <3>2, <4>1, <4>2, <4>3, <4>4, <4>5, FinishKeeps DEF Pending
    <3>3. CASE what = "reject" /\ ~ok
      <4>1. /\ job' = [job EXCEPT ![j].approval = "rejected"] /\ AppendThrows
            /\ UNCHANGED <<stored, news, unsaved>>
        BY <2>1, <3>3 DEF rejectApproval
      <4>2. /\ job' \in [Jobs -> JobRecord] /\ job'[j].approval = "rejected"
            /\ job'[j].st = job[j].st
            /\ \A k \in Jobs : k # j => job'[k] = job[k]
        BY <1>0, <4>1 DEF JobRecord
      <4>3. AuditGrows
        BY <2>5, <4>1, AppendGrows
      <4>4. \A k \in Jobs, i \in Ids : NewsInv(k, i)'
        <5>1. \A k \in Jobs : job'[k].st = job[k].st
          BY <4>2
        <5>2. UNCHANGED <<stored, news, unsaved, heard>>
          BY <1>0, <4>1
        <5>3. ASSUME NEW k \in Jobs, NEW i \in Ids PROVE NewsInv(k, i)'
          <6>1. NewsInv(k, i)
            BY DEF IInv
          <6> QED BY <4>3, <5>1, <5>2, <6>1 DEF NewsInv, AuditGrows
        <5> QED BY <5>3
      <4>5. stored'[j] \in {"active", job'[j].st}
        BY <4>1, <4>2 DEF IInv, DecisionInv
      <4>6. news' \in [Jobs -> [Ids -> Result]] /\ stored' \in [Jobs -> {"active"} \cup Terminal]
        BY <1>0, <4>1 DEF Typed
      <4> QED BY <3>3, <4>1, <4>2, <4>3, <4>4, <4>5, <4>6 DEF Pending
    <3> QED BY <3>1, <3>2, <3>3 DEF Decision
  <2>7. ASSUME NEW k \in Jobs PROVE DecisionInv(k)'
    <3>1. CASE k # j
      BY <1>0, <2>1, <2>4, <2>6, <3>1, <2>7 DEF IInv, DecisionInv, Pending, AuditGrows
    <3>2. CASE k = j
      <4>1. \A w \in Decision : <<j, w>> \in told' => w = what /\ ok
        BY <2>1, <2>3
      <4>2. Len(decided'[k]) <= 1 /\ ~Pending(k)' /\ stored'[k] \in {"active", job'[k].st}
        BY <2>4, <2>6, <3>2
      <4>3. ASSUME NEW w \in Decision, <<k, w>> \in told'
            PROVE  /\ decided'[k] = <<w>> /\ <<"approval", k, w>> \in audit'
                   /\ w = "reject" => job'[k].st \in {"cancelled", "lost"}
        BY <2>4, <2>6, <3>2, <4>1, <4>3
      <4> QED BY <4>2, <4>3 DEF DecisionInv
    <3> QED BY <3>1, <3>2
  <2>8. Typed'
    BY <1>0, <2>4, <2>6 DEF Typed
  <2> QED BY <2>6, <2>7, <2>8 DEF IInv
<1> QED BY <1>1, <1>2
(* A daemon step that ends a job without a decision.                       *)
LEMMA EndKeeps ==
  ASSUME IInv, NEW j \in Jobs, NEW st \in Terminal,
         NEW approval \in {"pending", "approved", "rejected", "expired"},
         NEW records, finish(j, st, approval, records), job[j].st \notin Terminal,
         \A k \in Jobs, i \in Ids : <<"delivery", k, i, "delivered">> \notin records,
         UNCHANGED <<plan, conf, disk, chain, tokens, call, now, decided, told, heard>>
  PROVE  IInv'
<1>0. Typed /\ CallInv
  BY DEF IInv
<1>1. /\ job' \in [Jobs -> JobRecord] /\ stored' \in [Jobs -> {"active"} \cup Terminal]
      /\ news' \in [Jobs -> [Ids -> Result]]
      /\ AuditGrows
      /\ \A k \in Jobs : k # j => job'[k] = job[k] /\ stored'[k] = stored[k]
      /\ job'[j].st = st /\ stored'[j] \in {"active", st}
      /\ \A k \in Jobs, i \in Ids : NewsInv(k, i)'
  BY FinishKeeps
<1>2. \A k \in Jobs : DecisionInv(k)'
  BY <1>1, FinishDecides
<1>3. Typed' /\ CallInv'
  BY <1>0, <1>1 DEF Typed, CallInv
<1> QED BY <1>1, <1>2, <1>3 DEF IInv

LEMMA CancelKeeps ==
  ASSUME IInv, NEW j \in Jobs, Cancel(j)
  PROVE  IInv'
<1>1. job[j].st \notin Terminal /\ "cancelled" \in Terminal
  BY DEF Cancel, Terminal
<1>2. job[j].approval \in {"pending", "approved", "rejected", "expired"}
  BY DEF IInv, Typed, JobRecord
<1> QED BY <1>1, <1>2, EndKeeps DEF Cancel

LEMMA EndsKeeps ==
  ASSUME IInv, NEW j \in Jobs, Ends(j)
  PROVE  IInv'
<1>1. PICK st \in {"succeeded", "cancelled"} : finish(j, st, job[j].approval, {})
  BY DEF Ends
<1>2. job[j].st \notin Terminal /\ st \in Terminal
  BY DEF Ends, Terminal
<1>3. job[j].approval \in {"pending", "approved", "rejected", "expired"}
  BY DEF IInv, Typed, JobRecord
<1> QED BY <1>1, <1>2, <1>3, EndKeeps DEF Ends

LEMMA DrainKeeps ==
  ASSUME IInv, NEW j \in Jobs, Drain(j)
  PROVE  IInv'
<1>0. /\ Typed /\ CallInv /\ job \in [Jobs -> JobRecord] /\ job[j] \in JobRecord
      /\ job[j].st = "queued" /\ job[j].st \notin Terminal /\ "failed" \in Terminal
  BY DEF IInv, Typed, Drain, Terminal
<1>1. CASE finish(j, "failed", "expired", {<<"approval", j, "expired">>})
  <2>1. \A k \in Jobs, i \in Ids :
          <<"delivery", k, i, "delivered">> \notin {<<"approval", j, "expired">>}
    BY RecordsDiffer
  <2> QED BY <1>0, <1>1, <2>1, EndKeeps DEF Drain
<1>2. CASE /\ job' = [job EXCEPT ![j].st = "running"]
           /\ UNCHANGED <<stored, audit, news, faults, unsaved>>
  <2>1. UNCHANGED <<stored, audit, news, unsaved, plan, conf, disk, chain, tokens, call, now,
                    decided, told, heard>>
    BY <1>2 DEF Drain
  <2>2. /\ job' \in [Jobs -> JobRecord] /\ job'[j].st = "running"
        /\ \A k \in Jobs : k # j => job'[k] = job[k]
    BY <1>0, <1>2 DEF JobRecord
  <2>3. stored[j] = "active"
    BY <1>0 DEF IInv, DecisionInv, Typed
  <2>4. Typed' /\ CallInv'
    BY <1>0, <2>1, <2>2 DEF Typed, CallInv
  <2>5. ASSUME NEW k \in Jobs PROVE DecisionInv(k)'
    <3>1. DecisionInv(k)
      BY DEF IInv
    <3>2. k # j => job'[k] = job[k]
      BY <2>2
    <3> QED BY <1>0, <2>1, <2>2, <2>3, <3>1, <3>2 DEF DecisionInv, Pending
  <2>6. ASSUME NEW k \in Jobs, NEW i \in Ids PROVE NewsInv(k, i)'
    <3>1. NewsInv(k, i)
      BY DEF IInv
    <3>2. k # j => job'[k] = job[k]
      BY <2>2
    <3>3. k = j => news[k][i] = "none" /\ heard[k][i] = <<>>
      BY <1>0, <3>1 DEF NewsInv
    <3> QED BY <2>1, <3>1, <3>2, <3>3 DEF NewsInv
  <2> QED BY <2>4, <2>5, <2>6 DEF IInv
<1> QED BY <1>1, <1>2 DEF Drain

LEMMA DrainRejectsKeeps ==
  ASSUME IInv, NEW j \in Jobs, DrainRejects(j)
  PROVE  IInv'
<1>1. AuditGrows
  BY DEF DrainRejects, AppendThrows, AuditGrows
<1> QED BY <1>1, StopKeeps DEF DrainRejects, history

(* The message arrives before its result is known, and once only.          *)
LEMMA DeliversKeeps ==
  ASSUME IInv, NEW j \in Jobs, NEW i \in Ids, Delivers(j, i)
  PROVE  IInv'
<1>0. /\ Typed /\ CallInv /\ heard \in [Jobs -> [Ids -> Seq(Terminal)]]
      /\ news \in [Jobs -> [Ids -> Result]] /\ news[j][i] = "sending"
      /\ NewsInv(j, i) /\ job[j].st \in Terminal /\ heard[j][i] = <<>>
      /\ UNCHANGED <<plan, job, stored, conf, disk, chain, audit, tokens, call, now,
                     decided, told, unsaved>>
  BY DEF IInv, Typed, Delivers, NewsInv
<1>1. PICK fate \in Fates :
        /\ heard' = IF fate[1] THEN [heard EXCEPT ![j][i] = Append(@, job[j].st)] ELSE heard
        /\ news' = [news EXCEPT ![j][i] = fate[2]]
  BY DEF Delivers
<1>2. /\ fate[2] \in {"delivered", "failed"} /\ fate[1] \in BOOLEAN
      /\ fate[2] = "delivered" => fate[1] = TRUE
  <2>1. \/ fate = <<TRUE, "delivered">> \/ fate = <<TRUE, "failed">> \/ fate = <<FALSE, "failed">>
    BY DEF Fates
  <2>2. CASE fate = <<TRUE, "delivered">>
    BY <2>2
  <2>3. CASE fate = <<TRUE, "failed">>
    BY <2>3
  <2>4. CASE fate = <<FALSE, "failed">>
    BY <2>4
  <2> QED BY <2>1, <2>2, <2>3, <2>4
<1>3. /\ news' \in [Jobs -> [Ids -> Result]] /\ news'[j][i] = fate[2]
      /\ \A k \in Jobs, l \in Ids : k # j \/ l # i => news'[k][l] = news[k][l]
  <2> DEFINE f == fate[2]
  <2>1. f \in Result /\ news' = [news EXCEPT ![j][i] = f]
    BY <1>1, <1>2 DEF Result
  <2> HIDE DEF f
  <2>2. /\ news' \in [Jobs -> [Ids -> Result]] /\ news'[j][i] = f
        /\ \A k \in Jobs, l \in Ids : k # j \/ l # i => news'[k][l] = news[k][l]
    BY <1>0, <2>1
  <2> QED BY <2>2 DEF f
<1>4. /\ heard' \in [Jobs -> [Ids -> Seq(Terminal)]]
      /\ heard'[j][i] \in {<<>>, <<job[j].st>>}
      /\ fate[2] = "delivered" => heard'[j][i] = <<job[j].st>>
      /\ \A k \in Jobs, l \in Ids : k # j \/ l # i => heard'[k][l] = heard[k][l]
  <2>1. CASE fate[1] = TRUE
    <3>1. heard' = [heard EXCEPT ![j][i] = <<job[j].st>>]
      BY <1>0, <1>1, <2>1
    <3>2. <<job[j].st>> \in Seq(Terminal)
      BY <1>0
    <3> QED BY <1>0, <3>1, <3>2
  <2>2. CASE fate[1] = FALSE
    BY <1>0, <1>1, <1>2, <2>2
  <2> QED BY <1>2, <2>1, <2>2
<1>5. Typed' /\ CallInv'
  BY <1>0, <1>3, <1>4 DEF Typed, CallInv
<1>6. \A k \in Jobs : DecisionInv(k)'
  BY <1>0 DEF IInv, DecisionInv, Pending
<1>7. ASSUME NEW k \in Jobs, NEW l \in Ids PROVE NewsInv(k, l)'
  <2>1. CASE k # j \/ l # i
    <3>1. NewsInv(k, l) /\ news'[k][l] = news[k][l] /\ heard'[k][l] = heard[k][l]
      BY <1>3, <1>4, <2>1 DEF IInv
    <3> QED BY <1>0, <3>1 DEF NewsInv
  <2>2. CASE k = j /\ l = i
    <3>1. \A s : <<s>> # <<>> /\ Len(<<s>>) = 1 /\ Len(<<>>) = 0
      OBVIOUS
    <3>2. news'[j][i] \in {"delivered", "failed"} /\ job'[j].st \in Terminal
      BY <1>0, <1>2, <1>3
    <3>3. j \in unsaved' \/ stored'[j] = job'[j].st
      BY <1>0 DEF NewsInv
    <3>4. /\ news'[j][i] = "delivered" => heard'[j][i] # <<>>
          /\ Len(heard'[j][i]) <= 1
          /\ heard'[j][i] # <<>> => j \in unsaved' \/ heard'[j][i] = <<stored'[j]>>
      <4>1. CASE heard'[j][i] = <<>>
        BY <1>3, <1>4, <3>1, <4>1
      <4>2. CASE heard'[j][i] = <<job[j].st>>
        <5>1. Len(heard'[j][i]) <= 1 /\ heard'[j][i] # <<>>
          BY <3>1, <4>2
        <5> QED BY <1>0, <3>3, <4>2, <5>1
      <4> QED BY <1>4, <4>1, <4>2
    <3>5. i \in Push => <<"delivery", j, i, "delivered">> \notin audit'
      BY <1>0 DEF NewsInv
    <3> QED BY <2>2, <3>2, <3>3, <3>4, <3>5 DEF NewsInv
  <2> QED BY <2>1, <2>2
<1> QED BY <1>5, <1>6, <1>7 DEF IInv
(* A record of a delivery is written from the result at hand.              *)
LEMMA AuditDeliveriesKeeps ==
  ASSUME IInv, NEW j \in Jobs, AuditDeliveries(j)
  PROVE  IInv'
<1> DEFINE records(n) == {<<"delivery", j, Subscribed[j][k], news[j][Subscribed[j][k]]>> : k \in 1..n}
<1>0. /\ Typed /\ CallInv /\ news \in [Jobs -> [Ids -> Result]]
      /\ UNCHANGED <<plan, job, stored, conf, disk, chain, tokens, call, now, decided, told, heard, unsaved>>
      /\ news' = [news EXCEPT ![j] = Quiet]
  BY DEF IInv, Typed, AuditDeliveries, history
<1>1. Quiet \in [Ids -> Result] /\ \A i \in Ids : Quiet[i] = "none"
  BY DEF Quiet, Result
<1>2. /\ news' \in [Jobs -> [Ids -> Result]] /\ \A i \in Ids : news'[j][i] = "none"
      /\ \A k \in Jobs : k # j => news'[k] = news[k]
  BY <1>0, <1>1
<1>3. ASSUME NEW n, NEW k \in Jobs, NEW i \in Ids, <<"delivery", k, i, "delivered">> \in records(n)
      PROVE  k = j /\ news[k][i] = "delivered"
  BY <1>3
<1>4. /\ audit \subseteq audit'
      /\ \A r \in audit' : r \in audit \/ \E n : r \in records(n)
  <2>1. \/ \E n : audit' = audit \cup records(n)
        \/ audit' = audit
    BY DEF AuditDeliveries
  <2> HIDE DEF records
  <2> QED BY <2>1
<1>5. Typed' /\ CallInv'
  BY <1>0, <1>2 DEF Typed, CallInv
<1>6. \A k \in Jobs : DecisionInv(k)'
  BY <1>0, <1>4 DEF IInv, DecisionInv, Pending
<1>7. ASSUME NEW k \in Jobs, NEW i \in Ids PROVE NewsInv(k, i)'
  <2>1. NewsInv(k, i) /\ (news'[k][i] = "none" \/ news'[k][i] = news[k][i])
    BY <1>2 DEF IInv
  <2>2. i \in Push /\ <<"delivery", k, i, "delivered">> \in audit' => heard[k][i] # <<>>
    <3>1. CASE <<"delivery", k, i, "delivered">> \in audit
      BY <2>1, <3>1 DEF NewsInv
    <3>2. CASE \E n : <<"delivery", k, i, "delivered">> \in records(n)
      BY <1>3, <2>1, <3>2 DEF NewsInv
    <3> QED BY <1>4, <3>1, <3>2
  <2> QED BY <1>0, <2>1, <2>2 DEF NewsInv
<1> QED BY <1>5, <1>6, <1>7 DEF IInv

LEMMA ChangedKeeps ==
  ASSUME IInv, NEW file \in {"ttl", "subs"}, NEW value, Changed(file, value),
         file = "ttl" => value \in GrantTtls,
         file = "subs" => value \in [Ids -> {"enabled", "disabled", "absent"}]
  PROVE  conf' \in Config /\ disk' \in Config /\ AuditGrows
<1>1. conf \in Config /\ disk \in Config
  BY DEF IInv, Typed
<1>2. conf' \in Config
  BY <1>1 DEF Changed, Config
<1>3. disk' = disk \/ disk' = [disk EXCEPT ![file] = value]
  BY DEF Changed, Persisted
<1>4. disk' \in Config
  BY <1>1, <1>3 DEF Config
<1>5. \A k \in Jobs, i \in Ids : <<"delivery", k, i, "delivered">> # <<"edit", file>>
  BY RecordsDiffer
<1>6. AuditGrows
  <2>1. CASE Append1(<<"edit", file>>) \/ AppendThrows
    BY <1>5, <2>1, AppendGrows
  <2>2. CASE UNCHANGED audit
    BY <2>2 DEF AuditGrows
  <2> QED BY <2>1, <2>2 DEF Changed
<1> QED BY <1>2, <1>4, <1>6

LEMMA EditKeeps ==
  ASSUME IInv, Edit
  PROVE  IInv'
<1>0. /\ Typed /\ CallInv /\ conf \in Config /\ conf.subs \in [Ids -> {"enabled", "disabled", "absent"}]
      /\ UNCHANGED <<plan, job, stored, chain, news, tokens, call, now, decided, told, heard, unsaved>>
  BY DEF IInv, Typed, Config, Edit, history
<1>1. conf' \in Config /\ disk' \in Config /\ AuditGrows
  <2>1. CASE updatePolicy
    BY <2>1, ChangedKeeps DEF updatePolicy
  <2>2. ASSUME NEW i \in Ids, saveEventSubscription(i) \/ deleteEventSubscription(i)
        PROVE  conf' \in Config /\ disk' \in Config /\ AuditGrows
    <3>1. PICK to \in {"enabled", "disabled", "absent"} : Changed("subs", [conf.subs EXCEPT ![i] = to])
      BY <2>2 DEF saveEventSubscription, deleteEventSubscription
    <3>2. [conf.subs EXCEPT ![i] = to] \in [Ids -> {"enabled", "disabled", "absent"}]
      BY <1>0
    <3> QED BY <3>1, <3>2, ChangedKeeps
  <2> QED BY <2>1, <2>2 DEF Edit
<1>2. Typed' /\ CallInv'
  BY <1>0, <1>1 DEF Typed, CallInv
<1>3. UNCHANGED <<job, stored, news, heard, decided, told, unsaved>>
  BY <1>0
<1> QED BY <1>1, <1>2, <1>3, Unmoved DEF IInv

(* A restart reads the terminal record of a job that has one.  A job that  *)
(* had ended without one is lost, and whoever heard otherwise is excused   *)
(* by the save that failed.                                                *)
LEMMA RestartKeeps ==
  ASSUME IInv, Restart
  PROVE  IInv'
<1>0. /\ Typed /\ CallInv /\ job \in [Jobs -> JobRecord]
      /\ stored \in [Jobs -> {"active"} \cup Terminal] /\ "lost" \in Terminal
      /\ conf' = disk
      /\ UNCHANGED <<plan, disk, chain, audit, news, tokens, call, now, decided, told, heard, unsaved>>
  BY DEF IInv, Typed, Restart, history, Terminal, Loaded
<1>1. /\ stored' \in [Jobs -> {"active"} \cup Terminal]
      /\ \A j \in Jobs : stored'[j] = IF stored[j] = "active" THEN "lost" ELSE stored[j]
  BY <1>0 DEF Restart
<1>2. \A j \in Jobs : stored'[j] \in Terminal
  BY <1>0, <1>1
<1>3. /\ job' \in [Jobs -> JobRecord]
      /\ \A j \in Jobs : job'[j].st = stored'[j] /\ job'[j].approval = job[j].approval
  BY <1>0, <1>2 DEF Restart, JobRecord
<1>4. Typed' /\ CallInv'
  BY <1>0, <1>1, <1>3 DEF Typed, CallInv
<1>5. ASSUME NEW j \in Jobs PROVE DecisionInv(j)'
  <2>1. DecisionInv(j) /\ job'[j].st # "awaiting"
    BY <1>2, <1>3 DEF IInv, Terminal
  <2>2. job[j].st \in {"cancelled", "lost"} => job'[j].st \in {"cancelled", "lost"}
    BY <1>1, <1>3, <2>1 DEF DecisionInv
  <2>3. stored'[j] = job'[j].st
    BY <1>3
  <2> QED BY <1>0, <2>1, <2>2, <2>3 DEF DecisionInv, Pending
<1>6. ASSUME NEW j \in Jobs, NEW i \in Ids PROVE NewsInv(j, i)'
  <2>1. NewsInv(j, i) /\ job'[j].st \in Terminal /\ stored'[j] = job'[j].st
    BY <1>2, <1>3 DEF IInv
  <2>2. heard[j][i] = <<stored[j]>> => stored'[j] = stored[j]
    <3>1. heard[j][i] = <<stored[j]>> => stored[j] \in Terminal
      <4>1. heard[j][i] \in Seq(Terminal)
        BY <1>0 DEF Typed
      <4>2. ASSUME NEW s \in Seq(Terminal), NEW x, s = <<x>> PROVE x \in Terminal
        <5>1. Len(s) = 1 /\ s[1] = x
          BY <4>2
        <5> QED BY <4>2, <5>1
      <4> QED BY <4>1, <4>2
    <3> QED BY <1>0, <1>1, <3>1 DEF Terminal
  <2> QED BY <1>0, <2>1, <2>2 DEF NewsInv
<1> QED BY <1>4, <1>5, <1>6 DEF IInv
-----------------------------------------------------------------------------
LEMMA ServerStep ==
  ASSUME IInv, NEW c \in Calls,
         \/ Issue(c) \/ Grant(c) \/ Context(c) \/ Accept(c)
         \/ \E j \in Jobs : \/ Show(c, j)
                            \/ \E t \in DOMAIN tokens, what \in Decision : Consume(c, j, t, what)
  PROVE  IInv'
<1>0. /\ CallInv /\ call \in [Calls -> CallRecord] /\ call[c] \in CallRecord /\ tokens \in Seq(Jobs)
  BY DEF IInv, Typed
<1>1. CASE Issue(c)
  <2>1. UNCHANGED server /\ tokens' \in Seq(Jobs)
    BY <1>0, <1>1 DEF Issue
  <2>2. \/ Return(c) \/ (call[c].pc # "idle" /\ Go(c, "context"))
    BY <1>1 DEF Issue
  <2>3. call' \in [Calls -> CallRecord] /\ CallInv'
    BY <2>2, ReturnKeeps, GoKeeps
  <2> QED BY <2>1, <2>3, ServerKeeps
<1>2. CASE Grant(c)
  <2>1. UNCHANGED server /\ Return(c)
    BY <1>2 DEF Grant
  <2>2. tokens' \in Seq(Jobs)
    <3>1. call[c].job \in Jobs
      BY <1>0, <1>2 DEF Grant, CallInv
    <3> QED BY <1>0, <1>2, <3>1 DEF Grant
  <2> QED BY <2>1, <2>2, ReturnKeeps, ServerKeeps
<1>3. CASE Context(c)
  <2>1. UNCHANGED server /\ tokens' \in Seq(Jobs) /\ call[c].pc # "idle"
    BY <1>0, <1>3 DEF Context
  <2>2. call' \in [Calls -> CallRecord] /\ CallInv'
    <3>1. CASE Return(c)
      BY <3>1, ReturnKeeps
    <3>2. CASE Go(c, "issue")
      BY <2>1, <3>2, GoKeeps
    <3>3. CASE call[c].op # "issue" /\ Go(c, "accept")
      <4>1. call[c].op \in Decision
        BY <1>0, <2>1, <3>3 DEF CallInv, CallRecord, Decision
      <4> QED BY <2>1, <3>3, <4>1, GoDecides
    <3> QED BY <1>3, <3>1, <3>2, <3>3 DEF Context
  <2> QED BY <2>1, <2>2, ServerKeeps
<1>4. CASE Accept(c)
  <2>1. /\ UNCHANGED server /\ tokens' \in Seq(Jobs)
        /\ call[c].pc # "idle" /\ call[c].op \in Decision
    BY <1>0, <1>4 DEF Accept, CallInv
  <2>2. Return(c) \/ Go(c, "decide")
    BY <1>4 DEF Accept
  <2> QED BY <2>1, <2>2, ReturnKeeps, GoDecides, ServerKeeps
<1>5. ASSUME NEW r \in CallRecord, r.job \in Jobs, r.op # "none", r.pc \notin {"accept", "decide"},
             call' = [call EXCEPT ![c] = r]
      PROVE  call' \in [Calls -> CallRecord] /\ CallInv'
  BY <1>0, <1>5 DEF CallInv
<1>6. ASSUME NEW j \in Jobs, Show(c, j) PROVE IInv'
  <2>1. UNCHANGED server /\ tokens' \in Seq(Jobs)
    BY <1>0, <1>6 DEF Show
  <2>2. PICK step \in {"shown", "over"} :
          call' = [call EXCEPT ![c] = [pc |-> step, op |-> "issue", job |-> j, token |-> 0]]
    BY <1>6 DEF Show
  <2> DEFINE r == [pc |-> step, op |-> "issue", job |-> j, token |-> 0]
  <2>3. r \in CallRecord /\ r.job \in Jobs /\ r.op # "none" /\ r.pc \notin {"accept", "decide"}
    BY DEF CallRecord
  <2>4. call' = [call EXCEPT ![c] = r]
    BY <2>2
  <2> HIDE DEF r
  <2> QED BY <1>5, <2>1, <2>3, <2>4, ServerKeeps
<1>7. ASSUME NEW j \in Jobs, NEW t \in DOMAIN tokens, NEW what \in Decision, Consume(c, j, t, what)
      PROVE  IInv'
  <2>1. UNCHANGED server /\ tokens' \in Seq(Jobs)
    BY <1>0, <1>7 DEF Consume
  <2> DEFINE r == [pc |-> "context", op |-> what, job |-> j, token |-> t]
  <2>2. r \in CallRecord /\ r.job \in Jobs /\ r.op # "none" /\ r.pc \notin {"accept", "decide"}
    <3>1. t \in Nat /\ what \in {"approve", "reject"}
      BY <1>0 DEF Decision
    <3> QED BY <3>1 DEF CallRecord
  <2>3. call' = call \/ call' = [call EXCEPT ![c] = r]
    BY <1>7 DEF Consume
  <2> HIDE DEF r
  <2>4. call' \in [Calls -> CallRecord] /\ CallInv'
    <3>1. CASE call' = call
      BY <1>0, <3>1 DEF CallInv
    <3> QED BY <1>5, <2>2, <2>3, <3>1
  <2> QED BY <2>1, <2>4, ServerKeeps
<1> QED BY <1>1, <1>2, <1>3, <1>4, <1>6, <1>7

LEMMA ServerCrashKeeps ==
  ASSUME IInv, ServerCrash
  PROVE  IInv'
<1>1. IdleCall \in CallRecord /\ IdleCall.pc = "idle"
  BY DEF IdleCall, CallRecord
<1>2. call' \in [Calls -> CallRecord] /\ CallInv'
  BY <1>1 DEF ServerCrash, CallInv
<1>3. /\ UNCHANGED <<plan, conf, disk, chain, now, tokens, job, stored, news, heard, decided, told, unsaved>>
      /\ AuditGrows
  BY DEF ServerCrash, manager, history, AuditGrows
<1>4. Typed'
  BY <1>2, <1>3 DEF IInv, Typed
<1> QED BY <1>2, <1>3, <1>4, Unmoved DEF IInv

(* The step of the inductive invariant, one action at a time.              *)
LEMMA NextIInv == IInv /\ [Next]_vars => IInv'
<1> SUFFICES ASSUME IInv, [Next]_vars PROVE IInv'
  OBVIOUS
<1>0. Typed /\ CallInv /\ plan.jobs \subseteq Jobs
  BY ApprovalsAssumption DEF IInv, Typed, Plan
<1>1. ASSUME NEW j \in plan.jobs,
             \/ Cli(j) \/ Cancel(j) \/ Drain(j) \/ DrainRejects(j) \/ Ends(j) \/ AuditDeliveries(j)
             \/ \E i \in Ids : Delivers(j, i)
      PROVE  IInv'
  <2>1. j \in Jobs
    BY <1>0
  <2>2. CASE Cli(j)
    <3>1. PICK what \in Decision : Decides(what, j) /\ UNCHANGED call
      BY <2>2 DEF Cli, Decision
    <3>2. call' \in [Calls -> CallRecord] /\ CallInv'
      BY <1>0, <3>1 DEF Typed, CallInv
    <3> QED BY <2>1, <3>1, <3>2, DecidesKeeps
  <2> QED BY <1>1, <2>1, <2>2, CancelKeeps, DrainKeeps, DrainRejectsKeeps, EndsKeeps,
             AuditDeliveriesKeeps, DeliversKeeps
<1>2. ASSUME NEW c \in Calls, Decide(c) PROVE IInv'
  <2>1. /\ call[c].op \in Decision /\ call[c].job \in Jobs
        /\ Decides(call[c].op, call[c].job) /\ Return(c)
    BY <1>0, <1>2 DEF Decide, CallInv
  <2>2. call' \in [Calls -> CallRecord] /\ CallInv'
    BY <2>1, ReturnKeeps
  <2> QED BY <2>1, <2>2, DecidesKeeps
<1>3. ASSUME NEW c \in Calls,
             \/ Issue(c) \/ Grant(c) \/ Context(c) \/ Accept(c)
             \/ \E j \in plan.jobs :
                  \/ Show(c, j)
                  \/ \E t \in DOMAIN tokens, what \in {"approve", "reject"} : Consume(c, j, t, what)
      PROVE  IInv'
  <2>1. \/ Issue(c) \/ Grant(c) \/ Context(c) \/ Accept(c)
        \/ \E j \in Jobs : \/ Show(c, j)
                           \/ \E t \in DOMAIN tokens, what \in Decision : Consume(c, j, t, what)
    BY <1>0, <1>3 DEF Decision
  <2> QED BY <2>1, ServerStep
<1>4. CASE ChainBreaks \/ Tick \/ UNCHANGED vars
  <2>1. /\ UNCHANGED <<plan, conf, disk, tokens, call, job, stored, news, heard, decided, told, unsaved>>
        /\ UNCHANGED audit /\ chain' \in BOOLEAN /\ now' \in Nat
    <3>1. CASE ChainBreaks
      BY <1>0, <3>1 DEF ChainBreaks, history, Typed
    <3>2. CASE Tick
      BY <1>0, <3>2 DEF Tick, manager, history, Typed
    <3>3. CASE UNCHANGED vars
      BY <1>0, <3>3 DEF vars, manager, history, Typed
    <3> QED BY <1>4, <3>1, <3>2, <3>3
  <2>2. AuditGrows /\ Typed' /\ CallInv'
    BY <1>0, <2>1 DEF AuditGrows, Typed, CallInv
  <2> QED BY <2>1, <2>2, Unmoved DEF IInv
<1>5. CASE Crash
  <2>1. AuditGrows
    BY <1>5 DEF Crash, AuditGrows
  <2> QED BY <1>5, <2>1, StopKeeps DEF Crash, history
<1> QED BY <1>1, <1>2, <1>3, <1>4, <1>5, EditKeeps, RestartKeeps, ServerCrashKeeps DEF Next

(* The inductive invariant holds in every reachable state.                 *)
THEOREM Invariant == Spec => []IInv
  BY InitIInv, NextIInv, PTL DEF Spec

(* However many calls of job_approval overlap on a job, and whatever the   *)
(* command line does meanwhile, approve and rejectApproval together act on *)
(* it at most once.                                                        *)
THEOREM OneDecision == Spec => []DecidedOnce
<1>1. IInv => DecidedOnce
  BY DEF IInv, DecisionInv, DecidedOnce
<1> QED BY <1>1, Invariant, PTL

(* A caller of approve or rejectApproval who gets a result rather than an  *)
(* error made the decision, finds it in the audit log, and a rejected job  *)
(* has ended for good, over every crash and restart of the daemon.         *)
THEOREM Recorded == Spec => []RecordedIsTrue
<1>1. IInv => RecordedIsTrue
  BY DEF IInv, DecisionInv, RecordedIsTrue, Decision
<1> QED BY <1>1, Invariant, PTL

(* A subscriber hears once of the end of a job, and what it hears is what  *)
(* the job store keeps: finish saves before it dispatches.  The audit log  *)
(* never calls a message delivered that did not arrive.                    *)
THEOREM Announced == Spec => []AnnouncedIsStored
<1>1. IInv => AnnouncedIsStored
  BY DEF IInv, NewsInv, AnnouncedIsStored
<1> QED BY <1>1, Invariant, PTL
-----------------------------------------------------------------------------
(* The capabilities.  A call that has pruned the table and not yet set its *)
(* capability holds a place in it.                                         *)
Room == {c \in Calls : call[c].op = "issue" /\ call[c].pc \in {"context", "issue"}}

Capability == [job : Jobs, token : 1..Len(tokens), until : Nat]

IssueInv == \A c \in Calls : call[c].pc \in {"shown", "over", "issue"} => call[c].op = "issue"

(* The places held count with the capabilities.  A prune makes room for    *)
(* one more, whatever other calls hold places then.                        *)
CapInv ==
  /\ caps \subseteq Capability /\ IsFiniteSet(caps)
  /\ \A r, s \in caps : r.job = s.job \/ r.token = s.token => r = s
  /\ Cardinality(caps) + Cardinality(Room) <= plan.maxCaps - 1 + Cardinality(Calls)
  /\ IssueInv

(* The rest of the type invariant.                                         *)
RestInv ==
  /\ up \in BOOLEAN /\ now \in 0..MaxTime /\ edits \in 0..plan.edits /\ faults \subseteq plan.faults
  /\ told \subseteq Jobs \X Decision /\ unsaved \subseteq Jobs

LEMMA LeastNumber ==
  ASSUME NEW T \in SUBSET Nat, T # {}
  PROVE  \E n \in T : \A m \in T : n <= m
<1> DEFINE R == OpToRel(<, Nat)
<1>1. IsWellFoundedOn(R, Nat)
  BY NatLessThanWellFounded, Zenon
<1>2. \A m, n \in Nat : m < n => <<m, n>> \in R
  BY DEF OpToRel
<1> HIDE DEF R
<1>3. PICK x \in T : \A y \in T : ~(<<y, x>> \in R)
  BY <1>1, WFMin
<1>4. ASSUME NEW y \in T PROVE x <= y
  <2>1. x \in Nat /\ y \in Nat /\ ~(<<y, x>> \in R)
    BY <1>3
  <2>2. ~(y < x)
    BY <1>2, <2>1
  <2> QED BY <2>1, <2>2
<1> QED BY <1>4

(* pruneApprovalCapabilities leaves room for one: the oldest it keeps has  *)
(* fewer than maxCaps - 1 newer ones, and all the others it keeps are.     *)
LEMMA PrunedHasRoom ==
  ASSUME CapInv, plan.maxCaps \in Nat \ {0}, tokens \in Seq(Jobs)
  PROVE  /\ Pruned \subseteq caps /\ IsFiniteSet(Pruned)
         /\ Cardinality(Pruned) \in Nat /\ Cardinality(Pruned) <= plan.maxCaps - 1
<1>1. Pruned \subseteq Live /\ Live \subseteq caps /\ IsFiniteSet(caps)
  BY DEF Pruned, Live, CapInv
<1>2. IsFiniteSet(Live) /\ IsFiniteSet(Pruned)
  BY <1>1, FS_Subset
<1>3. Cardinality(Pruned) \in Nat
  BY <1>2, FS_CardinalityType
<1>4. CASE Pruned = {}
  <2>1. Cardinality(Pruned) = 0
    BY <1>4, FS_EmptySet
  <2> QED BY <1>1, <1>2, <1>3, <2>1
<1>5. CASE Pruned # {}
  <2> DEFINE T == {r.token : r \in Pruned}
  <2>1. \A r \in caps : r.token \in Nat
    BY DEF CapInv, Capability
  <2>2. PICK n \in T : \A m \in T : n <= m
    <3>1. T \in SUBSET Nat /\ T # {}
      BY <1>1, <1>5, <2>1
    <3> HIDE DEF T
    <3> QED BY <3>1, LeastNumber
  <2>3. PICK oldest \in Pruned : oldest.token = n
    OBVIOUS
  <2> DEFINE Newer == {s \in Live : s.token > oldest.token}
  <2>4. IsFiniteSet(Newer) /\ Cardinality(Newer) \in Nat
    <3>1. Newer \subseteq Live
      OBVIOUS
    <3> HIDE DEF Newer
    <3> QED BY <1>2, <3>1, FS_Subset, FS_CardinalityType
  <2>5. Cardinality(Newer) + 1 < plan.maxCaps
    BY <2>3 DEF Pruned
  <2>6. Pruned \ {oldest} \subseteq Newer
    <3> SUFFICES ASSUME NEW s \in Pruned, s # oldest PROVE s \in Newer
      OBVIOUS
    <3>1. s \in Live /\ s \in caps /\ oldest \in caps
      BY <1>1, <2>3
    <3>2. s.token # oldest.token
      BY <3>1 DEF CapInv
    <3>3. oldest.token <= s.token
      BY <2>2, <2>3
    <3>4. s.token \in Nat /\ oldest.token \in Nat
      BY <2>1, <3>1
    <3>5. s.token > oldest.token
      BY <3>2, <3>3, <3>4
    <3> QED BY <3>1, <3>5
  <2> HIDE DEF Newer
  <2>7. Cardinality(Pruned \ {oldest}) = Cardinality(Pruned) - 1
    BY <1>2, <2>3, FS_RemoveElement
  <2>8. Cardinality(Pruned \ {oldest}) <= Cardinality(Newer)
    BY <2>4, <2>6, FS_Subset
  <2> QED BY <1>1, <1>2, <1>3, <2>4, <2>5, <2>7, <2>8
<1> QED BY <1>4, <1>5

LEMMA RoomFinite ==
  /\ IsFiniteSet(Calls) /\ Cardinality(Calls) \in Nat
  /\ IsFiniteSet(Room) /\ Cardinality(Room) \in Nat /\ Cardinality(Room) <= Cardinality(Calls)
<1>1. Room \subseteq Calls /\ IsFiniteSet(Calls)
  BY ApprovalsAssumption DEF Room
<1> QED BY <1>1, FS_Subset, FS_CardinalityType

LEMMA RoomFiniteNext ==
  IsFiniteSet(Room') /\ Cardinality(Room') \in Nat /\ Cardinality(Room') <= Cardinality(Calls)
<1>1. Room' \subseteq Calls /\ IsFiniteSet(Calls)
  BY ApprovalsAssumption DEF Room
<1> QED BY <1>1, FS_Subset, FS_CardinalityType

(* Steps that set no capability and hold no further place.                 *)
LEMMA CapsShrink ==
  ASSUME CapInv, plan.maxCaps \in Nat \ {0}, UNCHANGED <<plan, tokens>>, caps' \subseteq caps,
         Room' \subseteq Room, IssueInv'
  PROVE  CapInv'
<1>1. IsFiniteSet(caps) /\ Cardinality(caps) \in Nat
  BY FS_CardinalityType DEF CapInv
<1>2. IsFiniteSet(caps') /\ Cardinality(caps') \in Nat /\ Cardinality(caps') <= Cardinality(caps)
  BY <1>1, FS_Subset, FS_CardinalityType
<1>3. Cardinality(Room') \in Nat /\ Cardinality(Room') <= Cardinality(Room) /\ Cardinality(Room) \in Nat
  BY RoomFinite, RoomFiniteNext, FS_Subset
<1>4. Cardinality(caps') + Cardinality(Room') <= plan'.maxCaps - 1 + Cardinality(Calls)
  <2>1. Cardinality(caps) + Cardinality(Room) <= plan.maxCaps - 1 + Cardinality(Calls)
    BY DEF CapInv
  <2>2. Cardinality(Calls) \in Nat
    BY RoomFinite
  <2> QED BY <1>1, <1>2, <1>3, <2>1, <2>2
<1> QED BY <1>2, <1>4 DEF CapInv, Capability
(* What a step does to a call in flight.                                   *)
LEMMA ReturnRoom ==
  ASSUME IInv, CapInv, NEW c \in Calls, Return(c)
  PROVE  Room' = Room \ {c} /\ IssueInv'
<1>1. call \in [Calls -> CallRecord] /\ call' = [call EXCEPT ![c] = IdleCall]
  BY DEF IInv, Typed, Return
<1>2. /\ call'[c].pc = "idle"
      /\ \A d \in Calls : d # c => call'[d] = call[d]
  BY <1>1 DEF IdleCall
<1> QED BY <1>2 DEF Room, CapInv, IssueInv

LEMMA GoRoom ==
  ASSUME IInv, CapInv, NEW c \in Calls,
         NEW to \in {"context", "issue", "accept", "decide"}, Go(c, to),
         to = "issue" => call[c].op = "issue"
  PROVE  /\ IssueInv'
         /\ c \in Room \/ call[c].op # "issue" \/ to \notin {"context", "issue"} => Room' \subseteq Room
<1>1. call \in [Calls -> CallRecord] /\ call' = [call EXCEPT ![c].pc = to]
  BY DEF IInv, Typed, Go
<1>2. /\ call'[c].pc = to /\ call'[c].op = call[c].op
      /\ \A d \in Calls : d # c => call'[d] = call[d]
  BY <1>1 DEF CallRecord
<1> QED BY <1>2 DEF Room, CapInv, IssueInv

LEMMA CallRoom ==
  ASSUME IInv, CapInv, NEW c \in Calls, NEW r, call' = [call EXCEPT ![c] = r],
         \/ r.pc \in {"shown", "over"} /\ r.op = "issue"
         \/ r.pc = "context" /\ r.op \in Decision
  PROVE  Room' \subseteq Room /\ IssueInv'
<1>1. /\ call'[c] = r
      /\ \A d \in Calls : d # c => call'[d] = call[d]
  BY DEF IInv, Typed
<1> QED BY <1>1 DEF Room, CapInv, IssueInv, Decision

(* One capability more, one place less.                                    *)
LEMMA GrantCaps ==
  ASSUME IInv, CapInv, NEW c \in Calls, Grant(c)
  PROVE  CapInv'
<1>0. /\ plan.maxCaps \in Nat \ {0} /\ tokens \in Seq(Jobs) /\ now \in Nat /\ CapTtl \in Nat
      /\ call[c].pc = "issue" /\ call[c].op = "issue" /\ call[c].job \in Jobs
      /\ plan' = plan /\ Return(c)
  BY ApprovalsAssumption DEF IInv, Typed, CallInv, Plan, Grant, server, CapInv, IssueInv
<1>1. PICK job1 \in Jobs : job1 = call[c].job
  BY <1>0
<1> DEFINE new == [job |-> job1, token |-> Len(tokens) + 1, until |-> now + CapTtl]
<1>2. /\ caps' = {r \in caps : r.job # job1} \cup {new}
      /\ tokens' = Append(tokens, job1)
  BY <1>1 DEF Grant, Without
<1>3. Len(tokens') = Len(tokens) + 1 /\ Len(tokens) \in Nat
  BY <1>0, <1>2
<1>4. caps' \subseteq Capability'
  <2>1. new \in Capability'
    BY <1>0, <1>3 DEF Capability
  <2>2. caps \subseteq Capability'
    BY <1>3 DEF CapInv, Capability
  <2> QED BY <1>2, <2>1, <2>2
<1>5. \A r, s \in caps' : r.job = s.job \/ r.token = s.token => r = s
  <2>1. \A r \in caps : r.token \in 1..Len(tokens)
    BY DEF CapInv, Capability
  <2>2. \A r \in caps : r.token # new.token
    BY <1>3, <2>1
  <2>3. \A r \in caps : r.job # job1 => r.job # new.job
    OBVIOUS
  <2> HIDE DEF new
  <2> QED BY <1>2, <2>2, <2>3 DEF CapInv
<1> HIDE DEF new
<1>6. /\ IsFiniteSet(caps') /\ Cardinality(caps') \in Nat /\ Cardinality(caps) \in Nat
      /\ Cardinality(caps') <= Cardinality(caps) + 1
  <2>1. IsFiniteSet(caps) /\ Cardinality(caps) \in Nat
    BY FS_CardinalityType DEF CapInv
  <2>2. /\ IsFiniteSet(caps \cup {new}) /\ Cardinality(caps \cup {new}) \in Nat
        /\ Cardinality(caps \cup {new}) <= Cardinality(caps) + 1
    <3>1. /\ IsFiniteSet(caps \cup {new})
          /\ \/ Cardinality(caps \cup {new}) = Cardinality(caps)
             \/ Cardinality(caps \cup {new}) = Cardinality(caps) + 1
      BY <2>1, FS_AddElement
    <3> QED BY <2>1, <3>1
  <2>3. caps' \subseteq caps \cup {new}
    BY <1>2
  <2>4. /\ IsFiniteSet(caps') /\ Cardinality(caps') \in Nat
        /\ Cardinality(caps') <= Cardinality(caps \cup {new})
    BY <2>2, <2>3, FS_Subset, FS_CardinalityType
  <2> QED BY <2>1, <2>2, <2>4
<1>7. Room' = Room \ {c} /\ IssueInv' /\ c \in Room
  BY <1>0, ReturnRoom DEF Room
<1>8. Cardinality(Room') = Cardinality(Room) - 1 /\ Cardinality(Room) \in Nat /\ Cardinality(Calls) \in Nat
  BY <1>7, RoomFinite, FS_RemoveElement
<1>9. Cardinality(caps) + Cardinality(Room) <= plan.maxCaps - 1 + Cardinality(Calls)
  BY DEF CapInv
<1>10. Cardinality(caps') + Cardinality(Room') <= plan'.maxCaps - 1 + Cardinality(Calls)
  BY <1>0, <1>6, <1>8, <1>9
<1> QED BY <1>4, <1>5, <1>6, <1>7, <1>10 DEF CapInv

LEMMA ServerCaps ==
  ASSUME IInv, CapInv, NEW c \in Calls,
         \/ Issue(c) \/ Grant(c) \/ Context(c) \/ Accept(c) \/ Decide(c)
         \/ \E j \in Jobs : \/ Show(c, j)
                            \/ \E t \in DOMAIN tokens, what \in Decision : Consume(c, j, t, what)
  PROVE  CapInv'
<1>0. plan.maxCaps \in Nat \ {0} /\ tokens \in Seq(Jobs)
  BY ApprovalsAssumption DEF IInv, Typed, Plan
<1>1. Without(call[c].job) \subseteq caps /\ Pruned \subseteq caps
  BY <1>0, PrunedHasRoom DEF Without
<1>2. CASE Issue(c)
  <2>1. UNCHANGED <<plan, tokens>>
    BY <1>2 DEF Issue, server
  <2>2. CASE Return(c) /\ caps' \subseteq caps
    <3>1. Room' \subseteq Room /\ IssueInv'
      BY <2>2, ReturnRoom
    <3> QED BY <1>0, <2>1, <2>2, <3>1, CapsShrink
  <2>3. CASE caps' = Pruned /\ Go(c, "context")
    <3>1. /\ caps' \subseteq caps /\ IsFiniteSet(caps')
          /\ Cardinality(caps') \in Nat /\ Cardinality(caps') <= plan'.maxCaps - 1
      BY <1>0, <2>1, <2>3, PrunedHasRoom
    <3>2. IssueInv'
      BY <2>3, GoRoom
    <3>3. Cardinality(caps') + Cardinality(Room') <= plan'.maxCaps - 1 + Cardinality(Calls)
      <4>1. Cardinality(Room') \in Nat /\ Cardinality(Room') <= Cardinality(Calls) /\ Cardinality(Calls) \in Nat
        BY RoomFinite, RoomFiniteNext
      <4> QED BY <1>0, <2>1, <3>1, <4>1
    <3> QED BY <2>1, <3>1, <3>2, <3>3 DEF CapInv, Capability
  <2> QED BY <1>1, <1>2, <2>2, <2>3 DEF Issue
<1>3. CASE Grant(c)
  BY <1>3, GrantCaps
<1>4. CASE Context(c)
  <2>1. UNCHANGED <<plan, tokens, caps>> /\ call[c].pc = "context"
    BY <1>4 DEF Context, server
  <2>2. Room' \subseteq Room /\ IssueInv'
    <3>1. CASE Return(c)
      BY <3>1, ReturnRoom
    <3>2. CASE call[c].op = "issue" /\ Go(c, "issue")
      <4>1. c \in Room
        BY <2>1, <3>2 DEF Room
      <4> QED BY <3>2, <4>1, GoRoom
    <3>3. CASE call[c].op # "issue" /\ Go(c, "accept")
      BY <3>3, GoRoom
    <3> QED BY <1>4, <3>1, <3>2, <3>3 DEF Context
  <2> QED BY <1>0, <2>1, <2>2, CapsShrink
<1>5. CASE Accept(c)
  <2>1. UNCHANGED <<plan, tokens>> /\ caps' \subseteq caps
    BY <1>1, <1>5 DEF Accept, server
  <2>2. Return(c) \/ Go(c, "decide")
    BY <1>5 DEF Accept
  <2>3. Room' \subseteq Room /\ IssueInv'
    BY <2>2, ReturnRoom, GoRoom
  <2> QED BY <1>0, <2>1, <2>3, CapsShrink
<1>6. CASE Decide(c)
  <2>1. UNCHANGED <<plan, tokens, caps>> /\ Return(c)
    BY <1>6 DEF Decide, Decides
  <2>2. Room' \subseteq Room /\ IssueInv'
    BY <2>1, ReturnRoom
  <2> QED BY <1>0, <2>1, <2>2, CapsShrink
<1>7. ASSUME NEW j \in Jobs, Show(c, j) PROVE CapInv'
  <2>1. UNCHANGED <<plan, tokens, caps>>
    BY <1>7 DEF Show, server
  <2>2. PICK step \in {"shown", "over"} :
          call' = [call EXCEPT ![c] = [pc |-> step, op |-> "issue", job |-> j, token |-> 0]]
    BY <1>7 DEF Show
  <2>3. PICK r : r = [pc |-> step, op |-> "issue", job |-> j, token |-> 0]
    OBVIOUS
  <2>4. r.pc \in {"shown", "over"} /\ r.op = "issue"
    BY <2>3
  <2>5. call' = [call EXCEPT ![c] = r]
    BY <2>2, <2>3
  <2>6. Room' \subseteq Room /\ IssueInv'
    BY <2>4, <2>5, CallRoom
  <2> QED BY <1>0, <2>1, <2>6, CapsShrink
<1>8. ASSUME NEW j \in Jobs, NEW t \in DOMAIN tokens, NEW what \in Decision, Consume(c, j, t, what)
      PROVE  CapInv'
  <2>1. UNCHANGED <<plan, tokens>> /\ caps' \subseteq caps
    BY <1>1, <1>8 DEF Consume, server
  <2>2. PICK r : r = [pc |-> "context", op |-> what, job |-> j, token |-> t]
    OBVIOUS
  <2>3. CASE call' = call
    <3>1. Room' \subseteq Room /\ IssueInv'
      BY <2>3 DEF Room, CapInv, IssueInv
    <3> QED BY <1>0, <2>1, <3>1, CapsShrink
  <2>4. CASE call' = [call EXCEPT ![c] = r]
    <3>1. r.pc = "context" /\ r.op \in Decision
      BY <2>2
    <3>2. Room' \subseteq Room /\ IssueInv'
      BY <2>4, <3>1, CallRoom
    <3> QED BY <1>0, <2>1, <3>2, CapsShrink
  <2> QED BY <1>8, <2>2, <2>3, <2>4 DEF Consume
<1> QED BY <1>2, <1>3, <1>4, <1>5, <1>6, <1>7, <1>8
LEMMA NextCaps ==
  ASSUME IInv, CapInv, [Next]_vars
  PROVE  CapInv'
<1>0. plan.maxCaps \in Nat \ {0} /\ plan.jobs \subseteq Jobs
  BY ApprovalsAssumption DEF IInv, Typed, Plan
<1>1. ASSUME UNCHANGED <<plan, caps, tokens, call>> PROVE CapInv'
  <2>1. Room' \subseteq Room /\ IssueInv'
    BY <1>1 DEF Room, CapInv, IssueInv
  <2> QED BY <1>0, <1>1, <2>1, CapsShrink
<1>2. ASSUME UNCHANGED <<plan, caps, tokens>>, Stops PROVE CapInv'
  <2>1. \A c \in Calls : call'[c] = IdleCall \/ call'[c] = call[c]
    BY <1>2 DEF Stops
  <2>2. IdleCall.pc = "idle"
    BY DEF IdleCall
  <2>3. Room' \subseteq Room /\ IssueInv'
    BY <2>1, <2>2 DEF Room, CapInv, IssueInv
  <2> QED BY <1>0, <1>2, <2>3, CapsShrink
<1>3. ASSUME NEW j \in plan.jobs,
             \/ Cli(j) \/ Cancel(j) \/ Drain(j) \/ Ends(j) \/ AuditDeliveries(j)
             \/ \E i \in Ids : Delivers(j, i)
      PROVE  CapInv'
  <2>1. CASE Cli(j)
    BY <1>1, <2>1 DEF Cli, Decides
  <2>2. CASE Cancel(j)
    BY <1>1, <2>2 DEF Cancel
  <2>3. CASE Drain(j)
    BY <1>1, <2>3 DEF Drain
  <2>4. CASE Ends(j)
    BY <1>1, <2>4 DEF Ends
  <2>5. CASE AuditDeliveries(j)
    BY <1>1, <2>5 DEF AuditDeliveries
  <2>6. ASSUME NEW i \in Ids, Delivers(j, i) PROVE CapInv'
    BY <1>1, <2>6 DEF Delivers
  <2> QED BY <1>3, <2>1, <2>2, <2>3, <2>4, <2>5, <2>6
<1>4. ASSUME NEW j \in plan.jobs, DrainRejects(j) PROVE CapInv'
  BY <1>2, <1>4 DEF DrainRejects
<1>5. ASSUME NEW c \in Calls,
             \/ Issue(c) \/ Grant(c) \/ Context(c) \/ Accept(c) \/ Decide(c)
             \/ \E j \in plan.jobs :
                  \/ Show(c, j)
                  \/ \E t \in DOMAIN tokens, what \in {"approve", "reject"} : Consume(c, j, t, what)
      PROVE  CapInv'
  <2>1. \/ Issue(c) \/ Grant(c) \/ Context(c) \/ Accept(c) \/ Decide(c)
        \/ \E j \in Jobs : \/ Show(c, j)
                           \/ \E t \in DOMAIN tokens, what \in Decision : Consume(c, j, t, what)
    BY <1>0, <1>5 DEF Decision
  <2> QED BY <2>1, ServerCaps
<1>6. CASE Edit
  BY <1>1, <1>6 DEF Edit
<1>7. CASE ChainBreaks
  BY <1>1, <1>7 DEF ChainBreaks
<1>8. CASE Crash
  BY <1>2, <1>8 DEF Crash
<1>9. CASE Restart
  BY <1>1, <1>9 DEF Restart
<1>10. CASE ServerCrash
  <2>1. /\ UNCHANGED <<plan, tokens>> /\ caps' \subseteq caps
        /\ call' = [c \in Calls |-> IdleCall]
    BY <1>10 DEF ServerCrash
  <2>2. Room' \subseteq Room /\ IssueInv'
    BY <2>1 DEF Room, IssueInv, IdleCall
  <2> QED BY <1>0, <2>1, <2>2, CapsShrink
<1>11. CASE Tick
  BY <1>1, <1>11 DEF Tick
<1>12. CASE UNCHANGED vars
  BY <1>1, <1>12 DEF vars
<1> QED BY <1>3, <1>4, <1>5, <1>6, <1>7, <1>8, <1>9, <1>10, <1>11, <1>12 DEF Next

LEMMA InitCaps ==
  ASSUME Init
  PROVE  CapInv /\ RestInv
<1>1. plan \in Plan
  BY ApprovalsAssumption DEF Init
<1>2. plan.maxCaps \in Nat \ {0} /\ plan.edits \in Nat
  BY <1>1 DEF Plan
<1>3. Cardinality(caps) = 0 /\ IsFiniteSet(caps)
  BY FS_EmptySet DEF Init
<1>4. Room = {}
  BY DEF Init, Room, IdleCall
<1>5. Cardinality(Room) = 0
  BY <1>4, FS_EmptySet
<1>6. Cardinality(Calls) \in Nat
  BY RoomFinite
<1>7. CapInv
  BY <1>2, <1>3, <1>5, <1>6 DEF Init, CapInv, IssueInv, IdleCall
<1>8. RestInv
  BY <1>2, ApprovalsAssumption DEF Init, RestInv
<1> QED BY <1>7, <1>8

LEMMA NextRest ==
  ASSUME IInv, RestInv, [Next]_vars
  PROVE  RestInv'
<1>0. plan.jobs \subseteq Jobs /\ plan.edits \in Nat /\ MaxTime \in Nat
  BY ApprovalsAssumption DEF IInv, Typed, Plan
<1>1. ASSUME UNCHANGED <<plan, now, edits, told>>, up' \in BOOLEAN, unsaved' \subseteq Jobs,
             faults' = faults \/ \E kind : Fault(kind)
      PROVE  RestInv'
  BY <1>1 DEF RestInv, Fault
<1>2. ASSUME NEW j \in Jobs, NEW st, NEW approval, NEW records, finish(j, st, approval, records)
      PROVE  unsaved' \subseteq Jobs /\ (faults' = faults \/ \E kind : Fault(kind))
  BY <1>2 DEF finish, Saved, RestInv
<1>3. ASSUME NEW what \in Decision, NEW j \in Jobs, Decides(what, j)
      PROVE  RestInv'
  <2>1. UNCHANGED <<plan, now, edits, up>>
    BY <1>3 DEF Decides
  <2>2. told' \subseteq Jobs \X Decision
    BY <1>3 DEF Decides, RestInv
  <2>3. unsaved' \subseteq Jobs /\ (faults' = faults \/ \E kind : Fault(kind))
    <3>1. CASE ~Pending(j)
      BY <1>3, <3>1 DEF Decides, RestInv
    <3>2. ASSUME NEW ok \in BOOLEAN, approve(j, ok)
          PROVE  unsaved' \subseteq Jobs /\ (faults' = faults \/ \E kind : Fault(kind))
      BY <3>2 DEF approve, Append1, AppendThrows, RestInv
    <3>3. ASSUME NEW ok \in BOOLEAN, rejectApproval(j, ok)
          PROVE  unsaved' \subseteq Jobs /\ (faults' = faults \/ \E kind : Fault(kind))
      <4>1. CASE ok
        BY <1>2, <3>3, <4>1 DEF rejectApproval
      <4>2. CASE ~ok
        BY <3>3, <4>2 DEF rejectApproval, AppendThrows, RestInv
      <4> QED BY <4>1, <4>2
    <3> QED BY <1>3, <3>1, <3>2, <3>3 DEF Decides
  <2> QED BY <2>1, <2>2, <2>3 DEF RestInv, Fault
<1>4. ASSUME NEW j \in plan.jobs,
             \/ Cli(j) \/ Cancel(j) \/ Drain(j) \/ DrainRejects(j) \/ Ends(j) \/ AuditDeliveries(j)
             \/ \E i \in Ids : Delivers(j, i)
      PROVE  RestInv'
  <2>0. j \in Jobs /\ up \in BOOLEAN /\ unsaved \subseteq Jobs
    BY <1>0 DEF RestInv
  <2>1. CASE Cli(j)
    BY <1>3, <2>0, <2>1 DEF Cli, Decision
  <2>2. CASE Cancel(j)
    BY <1>1, <1>2, <2>0, <2>2 DEF Cancel
  <2>3. CASE Drain(j)
    <3>1. UNCHANGED <<plan, now, edits, told, up>>
      BY <2>3 DEF Drain
    <3>2. CASE UNCHANGED <<faults, unsaved>>
      BY <1>1, <2>0, <3>1, <3>2
    <3>3. CASE finish(j, "failed", "expired", {<<"approval", j, "expired">>})
      BY <1>1, <1>2, <2>0, <3>1, <3>3
    <3> QED BY <2>3, <3>2, <3>3 DEF Drain
  <2>4. CASE Ends(j)
    BY <1>1, <1>2, <2>0, <2>4 DEF Ends
  <2>5. CASE AuditDeliveries(j)
    BY <1>1, <2>0, <2>5 DEF AuditDeliveries, history
  <2>6. ASSUME NEW i \in Ids, Delivers(j, i) PROVE RestInv'
    BY <1>1, <2>0, <2>6 DEF Delivers
  <2>7. CASE DrainRejects(j)
    BY <1>1, <2>0, <2>7 DEF DrainRejects, AppendThrows, Stops, history
  <2> QED BY <1>4, <2>1, <2>2, <2>3, <2>4, <2>5, <2>6, <2>7
<1>5. ASSUME UNCHANGED server PROVE RestInv'
  BY <1>5 DEF server, manager, history, RestInv
<1>6. ASSUME NEW c \in Calls,
             \/ Issue(c) \/ Grant(c) \/ Context(c) \/ Accept(c)
             \/ \E j \in plan.jobs :
                  \/ Show(c, j)
                  \/ \E t \in DOMAIN tokens, what \in {"approve", "reject"} : Consume(c, j, t, what)
      PROVE  RestInv'
  <2>1. UNCHANGED server
    BY <1>6 DEF Issue, Grant, Context, Accept, Show, Consume
  <2> QED BY <1>5, <2>1
<1>7. ASSUME NEW c \in Calls, Decide(c) PROVE RestInv'
  <2>1. call[c].op \in Decision /\ call[c].job \in Jobs /\ Decides(call[c].op, call[c].job)
    BY <1>7 DEF Decide, IInv, CallInv
  <2> QED BY <1>3, <2>1
<1>8. CASE Edit
  <2>1. UNCHANGED <<plan, now, told, up, unsaved>> /\ edits < plan.edits /\ edits' = edits + 1
    BY <1>8 DEF Edit, history
  <2>2. faults' = faults \/ \E kind : Fault(kind)
    BY <1>8 DEF Edit, updatePolicy, saveEventSubscription, deleteEventSubscription, Changed,
                Append1, AppendThrows
  <2>3. edits' \in 0..plan.edits
    BY <1>0, <2>1 DEF RestInv
  <2> QED BY <2>1, <2>2, <2>3 DEF RestInv, Fault
<1>9. CASE ChainBreaks \/ Crash \/ Restart \/ ServerCrash
  <2>1. UNCHANGED <<plan, now, edits, told, unsaved>> /\ up' \in BOOLEAN
    BY <1>9 DEF ChainBreaks, Crash, Stops, Restart, ServerCrash, manager, history, RestInv
  <2>2. faults' = faults \/ \E kind : Fault(kind)
    BY <1>9 DEF ChainBreaks, Crash, Restart, ServerCrash
  <2> QED BY <1>1, <2>1, <2>2 DEF RestInv
<1>10. CASE Tick
  <2>1. now' \in 0..MaxTime
    BY <1>0, <1>10 DEF Tick, RestInv
  <2> QED BY <1>10, <2>1 DEF Tick, manager, history, RestInv
<1>11. CASE UNCHANGED vars
  BY <1>11 DEF vars, manager, history, RestInv
<1> QED BY <1>4, <1>6, <1>7, <1>8, <1>9, <1>10, <1>11 DEF Next

(* However many calls are between pruneApprovalCapabilities and set at the *)
(* same time, they exceed MAX_APPROVAL_CAPABILITIES by less than their     *)
(* number; and a job never has two capabilities.                           *)
THEOREM CapsLimited == Spec => []CapsBounded
<1>1. IInv /\ CapInv /\ RestInv /\ [Next]_vars => (CapInv /\ RestInv)'
  BY NextCaps, NextRest
<1>2. IInv /\ CapInv /\ RestInv => CapsBounded
  <2> SUFFICES ASSUME IInv, CapInv, RestInv PROVE CapsBounded
    OBVIOUS
  <2>1. TypeOK
    BY DEF IInv, Typed, CapInv, RestInv, TypeOK, JobRecord, Result, Decision, CallRecord, Config, Capability
  <2>2. Cardinality(caps) <= plan.maxCaps - 1 + Cardinality(Calls)
    <3>1. Cardinality(caps) \in Nat /\ Cardinality(Room) \in Nat /\ Cardinality(Calls) \in Nat
      BY RoomFinite, FS_CardinalityType DEF CapInv
    <3>2. plan.maxCaps \in Nat \ {0}
      BY ApprovalsAssumption DEF IInv, Typed, Plan
    <3> QED BY <3>1, <3>2 DEF CapInv
  <2> QED BY <2>1, <2>2 DEF CapsBounded, CapInv
<1>3. Init => CapInv /\ RestInv
  BY InitCaps
<1> QED BY <1>1, <1>2, <1>3, Invariant, PTL DEF Spec
=============================================================================
