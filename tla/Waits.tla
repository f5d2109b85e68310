-------------------------------- MODULE Waits --------------------------------
(***************************************************************************)
(* The callers that LifecycleManager keeps waiting: waitForTerminal, with  *)
(* one coordinator and one timer per job, and watchForChange, with a timer *)
(* per caller.                                                             *)
(*                                                                         *)
(* Every action is one turn of the coordinator's event loop.  A job is     *)
(* reduced to what the callers wait for: whether it is live, terminal or   *)
(* pruned, and its version.  A timer fires at its time or later.  A caller *)
(* passes versions that some answer showed it (known), possibly an answer  *)
(* of a coordinator that has crashed since.                                *)
(***************************************************************************)
EXTENDS Naturals, FiniteSets, FiniteSetsExt, TLC

CONSTANTS Jobs,
          Callers,       \* calls of waitForTerminal and watchForChange
          Timeout,       \* of each call, after its normalisation
          PerJob,        \* MAX_WAITERS_PER_JOB
          Global,        \* MAX_WAITERS_GLOBAL
          Retained,      \* maxRetainedJobs
          MaxVersion,    \* bound: version of a job
          MaxTime,       \* bound: clock
          MaxCrashes     \* bound: crashes of the coordinator

ASSUME WaitsAssumption ==
  /\ Timeout \in [Callers -> Nat \ {0}] /\ PerJob \in Nat \ {0} /\ Global \in Nat \ {0}
  /\ Retained \in Nat /\ MaxVersion \in Nat /\ MaxTime \in Nat /\ MaxCrashes \in Nat

VARIABLES state,    \* of each job: "live", "terminal" or "gone" (not in the table)
          version,  \* of each job record
          saved,    \* version of each job in the store
          known,    \* highest version that any answer showed
          ended,    \* clock at which each terminal job was last updated
          coord,    \* waiters of each job's wait coordinator
          timer,    \* time of each coordinator's timer, 0: none
          total,    \* totalWaiters
          watchers, \* change waiters of each job
          call,     \* the promise of each caller
          now,      \* clock
          up,       \* "up", "crashed", "killed" (by an uncaught exception) or "disposed"
          crashes   \* crashes so far

jobVars  == <<state, version, saved, known, ended>>
waitVars == <<coord, timer, total, watchers, call>>
vars     == <<jobVars, waitVars, now, up, crashes>>

Idle == [op |-> "idle"]
Pending(c) == call[c].op \in {"wait", "watch"}

Init ==
  /\ state = [j \in Jobs |-> "live"] /\ version = [j \in Jobs |-> 1]
  /\ saved = version /\ known = version /\ ended = [j \in Jobs |-> 0]
  /\ coord = [j \in Jobs |-> {}] /\ timer = [j \in Jobs |-> 0] /\ total = 0
  /\ watchers = [j \in Jobs |-> {}]
  /\ call = [c \in Callers |-> Idle]
  /\ now = 1 /\ up = "up" /\ crashes = 0

Answer(result) == [op |-> "settled", result |-> result]

(* Settling the promises of a set of callers, all with one result. *)
Settled(cs, result) ==
  call' = [c \in Callers |-> IF c \in cs THEN Answer(result) ELSE call[c]]

(* A call that is answered in the turn in which it is made. *)
Answered(c, result) == call' = [call EXCEPT ![c] = Answer(result)]

(* armWaitTimer: the earliest expiry, no timer and no coordinator without waiters. *)
Armed(cs) == IF cs = {} THEN 0 ELSE Min({call[c].until : c \in cs})

RemovedUnarmed(j, cs) ==
  /\ coord' = [coord EXCEPT ![j] = @ \ cs]
  /\ total' = total - Cardinality(cs)
  /\ UNCHANGED timer

(* removeWaiter for a set of waiters of job j, then armWaitTimer. *)
Removed(j, cs) ==
  /\ coord' = [coord EXCEPT ![j] = @ \ cs]
  /\ total' = total - Cardinality(cs)
  /\ timer' = [timer EXCEPT ![j] = Armed(coord[j] \ cs)]

-----------------------------------------------------------------------------
(* The calls. *)

waitForTerminal(c, j) ==
  /\ up = "up" /\ call[c] = Idle /\ now + Timeout[c] <= MaxTime
  /\ \/ /\ state[j] = "gone" /\ Answered(c, "rejected")
        /\ UNCHANGED <<coord, timer, total>>
     \/ /\ state[j] = "terminal" /\ Answered(c, "terminal")
        /\ UNCHANGED <<coord, timer, total>>
     \/ /\ state[j] = "live" /\ (Cardinality(coord[j]) >= PerJob \/ total >= Global)
        /\ Answered(c, "rejected")
        /\ UNCHANGED <<coord, timer, total>>
     \/ /\ state[j] = "live" /\ Cardinality(coord[j]) < PerJob /\ total < Global
        /\ call' = [call EXCEPT ![c] = [op |-> "wait", job |-> j, until |-> now + Timeout[c]]]
        /\ coord' = [coord EXCEPT ![j] = @ \cup {c}]
        /\ total' = total + 1
        /\ timer' = [timer EXCEPT ![j] = Min({now + Timeout[c]} \cup {call[d].until : d \in coord[j]})]
  /\ UNCHANGED <<jobVars, watchers, now, up, crashes>>

(* The number of change waiters is counted over all jobs at each call. *)
Watching == UNION {watchers[j] : j \in Jobs}

(* Past the early returns of watchForChange. *)
Watchable(j, v) == state[j] = "live" /\ version[j] <= v

watchForChange(c, j, v) ==
  /\ up = "up" /\ call[c] = Idle /\ now + Timeout[c] <= MaxTime
  /\ \/ /\ state[j] = "gone" /\ Answered(c, "rejected")
        /\ UNCHANGED watchers
     \/ /\ state[j] # "gone" /\ (version[j] > v \/ state[j] = "terminal")
        /\ Answered(c, "changed")
        /\ UNCHANGED watchers
     \/ /\ Watchable(j, v)
        /\ Cardinality(watchers[j]) >= PerJob \/ Cardinality(Watching) >= Global
        /\ Answered(c, "rejected")
        /\ UNCHANGED watchers
     \/ /\ Watchable(j, v)
        /\ Cardinality(watchers[j]) < PerJob /\ Cardinality(Watching) < Global
        /\ call' = [call EXCEPT ![c] = [op |-> "watch", job |-> j, until |-> now + Timeout[c], after |-> v]]
        /\ watchers' = [watchers EXCEPT ![j] = @ \cup {c}]
  /\ UNCHANGED <<jobVars, coord, timer, total, now, up, crashes>>

(* The client's signal aborts: rejectWaiter, or finish with an error. *)
Abort(c) ==
  /\ up = "up" /\ Pending(c)
  /\ \/ /\ call[c].op = "wait" /\ Removed(call[c].job, {c})
        /\ UNCHANGED watchers
     \/ /\ call[c].op = "watch"
        /\ watchers' = [watchers EXCEPT ![call[c].job] = @ \ {c}]
        /\ UNCHANGED <<coord, timer, total>>
  /\ UNCHANGED <<jobVars, now, up, crashes>>
  /\ Settled({c}, "rejected")

DueAll(j) == coord[j]

Due(j) == {c \in coord[j] : call[c].until <= now}

(* The coordinator's one timer: everyone whose time has come, then the next one. *)
expireWaiters(j) ==
  /\ up = "up" /\ timer[j] # 0 /\ timer[j] <= now
  /\ Removed(j, Due(j))
  /\ Settled(Due(j), "timed out")
  /\ UNCHANGED <<jobVars, watchers, now, up, crashes>>

(* A process that ends takes its promises with it. *)
ProcessEnds(how) ==
  /\ up' = how
  /\ coord' = [j \in Jobs |-> {}] /\ timer' = [j \in Jobs |-> 0] /\ total' = 0
  /\ watchers' = [j \in Jobs |-> {}]
  /\ Settled({c \in Callers : Pending(c)}, "rejected")

(* A watcher's own timer: finish resolves with a snapshot, and snapshot    *)
(* throws, in a timer callback, for a job that is no longer in the table.  *)
WatchTimer(c) ==
  /\ up = "up" /\ call[c].op = "watch" /\ call[c].until <= now
  /\ UNCHANGED <<jobVars, now, crashes>>
  /\ \/ /\ state[call[c].job] # "gone"
        /\ watchers' = [watchers EXCEPT ![call[c].job] = @ \ {c}]
        /\ UNCHANGED <<coord, timer, total, up>>
        /\ Settled({c}, "unchanged")
     \/ /\ state[call[c].job] = "gone"
        /\ ProcessEnds("killed")

-----------------------------------------------------------------------------
(* What happens to the jobs. *)

WokenLate(j) == {c \in watchers[j] : version[j] > call[c].after}

(* changed: the change waiters whose version is passed, and every waiter   *)
(* of a terminal job.                                                      *)
Woken(j) == {c \in watchers[j] : version[j] + 1 > call[c].after}

(* append and changed for a job that goes on, or a late changed of a       *)
(* terminal one (the answer to its cancel call).                           *)
changed(j) ==
  /\ up = "up" /\ state[j] # "gone" /\ version[j] < MaxVersion
  /\ version' = [version EXCEPT ![j] = @ + 1]
  /\ known' = [known EXCEPT ![j] = IF @ > version[j] THEN @ ELSE version[j] + 1]
  /\ ended' = IF state[j] = "terminal" THEN [ended EXCEPT ![j] = now] ELSE ended
  /\ watchers' = [watchers EXCEPT ![j] = @ \ Woken(j)]
  /\ UNCHANGED <<state, saved, coord, timer, total, now, up, crashes>>
  /\ Settled(Woken(j), "changed")

(* A late changed of a record that was pruned wakes whoever still watches  *)
(* it, and snapshot throws: once in the cancel call's continuation, once   *)
(* more in its error handler, which nothing catches.                       *)
LateChange(j) ==
  /\ up = "up" /\ state[j] = "gone" /\ Woken(j) # {}
  /\ UNCHANGED <<jobVars, now, crashes>>
  /\ ProcessEnds("killed")

(* resolveCoordinator: every waiter of the job that became terminal. *)
Released(j) == coord[j]

(* pruneHistory: the newest terminal jobs stay. *)
Expired(st, en) ==
  LET terminal == {k \in Jobs : st[k] = "terminal"} IN
  {S \in SUBSET terminal :
     /\ Cardinality(S) = IF Cardinality(terminal) > Retained
                         THEN Cardinality(terminal) - Retained ELSE 0
     /\ \A k \in S, l \in terminal \ S : en[k] <= en[l]}

(* finish: the terminal state, changed, then persistNow with pruneHistory. *)
finish(j) ==
  /\ up = "up" /\ state[j] = "live" /\ version[j] < MaxVersion
  /\ version' = [version EXCEPT ![j] = @ + 1]
  /\ known' = [known EXCEPT ![j] = IF @ > version[j] THEN @ ELSE version[j] + 1]
  /\ ended' = [ended EXCEPT ![j] = now]
  /\ watchers' = [watchers EXCEPT ![j] = @ \ Woken(j)]
  /\ Removed(j, Released(j))
  /\ \E gone \in Expired([state EXCEPT ![j] = "terminal"], ended') :
       state' = [k \in Jobs |-> IF k \in gone THEN "gone" ELSE IF k = j THEN "terminal" ELSE state[k]]
  /\ saved' = version'
  /\ UNCHANGED <<now, up, crashes>>
  /\ call' = [c \in Callers |-> IF c \in Released(j) THEN Answer("terminal")
                              ELSE IF c \in Woken(j) THEN Answer("changed") ELSE call[c]]

(* The debounced persistNow: everything is saved, history is pruned, and   *)
(* a wait coordinator of a pruned job is rejected.                         *)
persistNow ==
  /\ up = "up" /\ saved # version
  /\ saved' = version
  /\ \E gone \in Expired(state, ended) :
       /\ state' = [k \in Jobs |-> IF k \in gone THEN "gone" ELSE state[k]]
       /\ coord' = [k \in Jobs |-> IF k \in gone THEN {} ELSE coord[k]]
       /\ timer' = [k \in Jobs |-> IF k \in gone THEN 0 ELSE timer[k]]
       /\ LET rejected == UNION {coord[k] : k \in gone} IN
            /\ total' = total - Cardinality(rejected)
            /\ UNCHANGED <<version, known, ended, watchers, now, up, crashes>>
            /\ Settled(rejected, "rejected")

(* dispose rejects every caller. *)
dispose ==
  /\ up = "up" /\ crashes = MaxCrashes
  /\ UNCHANGED <<state, version, known, ended, now, crashes>>
  /\ saved' = version
  /\ ProcessEnds("disposed")

Crash ==
  /\ up = "up" /\ crashes < MaxCrashes
  /\ crashes' = crashes + 1
  /\ UNCHANGED <<jobVars, now>>
  /\ ProcessEnds("crashed")

(* A new coordinator loads the saved records.  A job that was live is      *)
(* reattached or becomes lost, with one version more than was saved.       *)
Restart ==
  /\ up \in {"crashed", "killed"}
  /\ \E lost \in SUBSET {j \in Jobs : state[j] = "live"} :
       /\ state' = [j \in Jobs |-> IF j \in lost THEN "terminal" ELSE state[j]]
       /\ ended' = [j \in Jobs |-> IF j \in lost THEN now ELSE ended[j]]
  /\ version' = [j \in Jobs |-> IF state[j] = "live" THEN saved[j] + 1 ELSE saved[j]]
  /\ known' = [j \in Jobs |-> IF version'[j] > known[j] THEN version'[j] ELSE known[j]]
  /\ saved' = version'
  /\ up' = "up"
  /\ UNCHANGED <<waitVars, now, crashes>>

Tick ==
  /\ now < MaxTime /\ now' = now + 1
  /\ UNCHANGED <<jobVars, waitVars, up, crashes>>

Timers ==
  \/ \E j \in Jobs : expireWaiters(j)
  \/ \E c \in Callers : WatchTimer(c)

Next ==
  \/ \E c \in Callers, j \in Jobs :
       \/ waitForTerminal(c, j)
       \/ \E v \in {0, version[j], known[j]} : watchForChange(c, j, v)
  \/ \E c \in Callers : Abort(c)
  \/ \E j \in Jobs : changed(j) \/ LateChange(j) \/ finish(j)
  \/ persistNow \/ dispose \/ Crash \/ Restart \/ Tick \/ Timers

Spec == Init /\ [][Next]_vars

-----------------------------------------------------------------------------
TypeOK ==
  /\ state \in [Jobs -> {"live", "terminal", "gone"}]
  /\ version \in [Jobs -> Nat] /\ saved \in [Jobs -> Nat] /\ known \in [Jobs -> Nat]
  /\ ended \in [Jobs -> Nat] /\ timer \in [Jobs -> Nat] /\ total \in Nat
  /\ coord \in [Jobs -> SUBSET Callers] /\ watchers \in [Jobs -> SUBSET Callers]
  /\ now \in Nat /\ crashes \in Nat
  /\ \A c \in Callers : call[c].op \in {"idle", "wait", "watch", "settled"}
  /\ up \in {"up", "crashed", "killed", "disposed"}

(* The bookkeeping of waitForTerminal is exact: a coordinator holds the    *)
(* callers that wait for its job, its one timer stands at their earliest   *)
(* expiry, there is none without waiters, and totalWaiters, which guards   *)
(* the global limit, counts them all.  A leaked count would lock every     *)
(* later caller out.  Nobody waits for a job that has ended or was pruned: *)
(* finish, a late change and pruneHistory leave no waiter behind.          *)
WaitersAccounted ==
  /\ TypeOK
  /\ \A j \in Jobs : /\ coord[j] = {c \in Callers : call[c].op = "wait" /\ call[c].job = j}
                     /\ timer[j] = Armed(coord[j])
                     /\ coord[j] # {} => state[j] = "live"
  /\ total = Cardinality(UNION {coord[j] : j \in Jobs})

(* A change waiter outlives its job only when its version is one that the  *)
(* present coordinator has not reached: changed wakes by version alone,    *)
(* even when the job becomes terminal.  Hence the coordinator is killed by *)
(* a watcher's timer (snapshot of a pruned job throws in the callback)     *)
(* only after an earlier coordinator lost versions it had shown.           *)
OnlyStaleVersionsHurt ==
  /\ \A j \in Jobs : state[j] # "live" => \A c \in watchers[j] : call[c].after >= version[j]
  /\ up = "killed" => crashes > 0

(* An answer tells the truth at the moment it is given, whatever the order *)
(* of terminal transition, timer, abort and pruning: "terminal" comes with *)
(* the end of the job, "timed out" and "unchanged" only when the caller's  *)
(* time is over, "timed out" never for a job that has ended.  A settled    *)
(* promise is not settled again.                                           *)
AnswersAreTrue ==
  [][\A c \in Callers :
       /\ Pending(c) /\ call'[c].op = "settled" =>
            LET j == call[c].job IN
            /\ call'[c].result = "terminal" => state'[j] # "live"
            /\ call'[c].result = "timed out" => call[c].until <= now /\ state[j] = "live"
            /\ call'[c].result = "unchanged" => call[c].until <= now
            /\ call'[c].result = "changed" => version'[j] > call[c].after
       /\ call[c].op = "settled" => call'[c] = call[c]]_vars
=============================================================================
