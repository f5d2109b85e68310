--------------------------- MODULE PublishProofs ---------------------------
(***************************************************************************)
(* Proofs about Publish, for any workflow files, timeouts, delays and      *)
(* numbers of attempts.  Past the push the commit is on the remote; what   *)
(* the monitor holds of a completed run is what GitHub has, for a run that *)
(* is completed stays so.                                                  *)
(***************************************************************************)
EXTENDS Publish, WellFoundedInduction, TLAPS

Past == {"pushed", "eligible", "pulls", "discover", "watch", "judge"}

(* The first commit is the publisher's if there is a message for it.       *)
HeadInv == pc \in {"preflight", "commit"} => head <= MaxCommits + 1

PushInv ==
  /\ pc \in {"preflight", "commit", "sha"} => sha = 0
  /\ pc \in Past \/ told \notin {"none", "error"} => \E t \in tips : sha <= t

(* Only an ended runner has told anything.                                 *)
ToldInv == told # "none" <=> pc = "ended"

(* A list of runs that is no more than out of date.                        *)
KnownInv ==
  /\ \A w \in Workflows : known[w] \in {"success", "failure"} => runs[w] = known[w]
  /\ pc \in {"judge", "watch"} \/ told \in {"passed", "failed", "timed-out"} => known # NoRuns
  /\ told = "passed" => \A w \in Workflows : known[w] \in {"absent", "success"}
  /\ told = "failed" => \E w \in Workflows : known[w] = "failure"

(* What requireActions makes of the ends without a verdict.                *)
GateInv ==
  /\ told = "timed-out" => ~lastError
  /\ told = "complete" => ~opts.watch
  /\ told \in {"no-workflows", "degraded"} => ~opts.require
  /\ pc \in Past \ {"pushed"} => opts.watch /\ opts.github

IInv == TypeOK /\ HeadInv /\ PushInv /\ ToldInv /\ KnownInv /\ GateInv
-----------------------------------------------------------------------------
LEMMA Params ==
  /\ DiscoveryTimeout \in Nat \ {0} /\ ActionsTimeout \in Nat \ {0} /\ PollInterval \in Nat \ {0}
  /\ AttemptTimeout \in Nat \ {0} /\ MaxAttempts \in Nat \ {0}
  /\ Backoff \subseteq Nat \ {0} /\ RetryAfters \subseteq Nat
  /\ MaxRetryAfter \in Nat /\ MaxCommits \in Nat
<1>1. {DiscoveryTimeout, ActionsTimeout, PollInterval, AttemptTimeout, MaxAttempts} \subseteq Nat \ {0}
  BY PublishAssumption
<1>2. {MaxRetryAfter, MaxCommits} \subseteq Nat
  BY PublishAssumption
<1>3. Backoff \subseteq Nat \ {0} /\ RetryAfters \subseteq Nat
  BY PublishAssumption
<1> QED BY <1>1, <1>2, <1>3

LEMMA LeastOfTwo ==
  ASSUME NEW a \in Nat, NEW b \in Nat
  PROVE  /\ Least({a, b}) \in {a, b} /\ Least({a, b}) \in Nat
         /\ Least({a, b}) <= a /\ Least({a, b}) <= b
<1>1. \E x \in {a, b} : \A y \in {a, b} : x <= y
  <2>1. CASE a <= b
    BY <2>1
  <2>2. CASE b <= a
    BY <2>2
  <2> QED BY <2>1, <2>2
<1>2. Least({a, b}) \in {a, b} /\ \A y \in {a, b} : Least({a, b}) <= y
  BY <1>1 DEF Least
<1> QED BY <1>2

LEMMA MonusType ==
  ASSUME NEW a \in Nat, NEW b \in Nat
  PROVE  Monus(a, b) \in Nat /\ Monus(a, b) <= a
  BY DEF Monus

LEMMA DelayType ==
  ASSUME NEW answer, NEW asked \in parseRetryAfter(answer)
  PROVE  asked \subseteq Nat
<1>1. asked = {} \/ \E a \in RetryAfters : asked = {Least({a, MaxRetryAfter})}
  BY DEF parseRetryAfter
<1>2. CASE \E a \in RetryAfters : asked = {Least({a, MaxRetryAfter})}
  <2>1. PICK a \in RetryAfters : asked = {Least({a, MaxRetryAfter})}
    BY <1>2
  <2>2. Least({a, MaxRetryAfter}) \in Nat
    BY LeastOfTwo, Params
  <2> QED BY <2>1, <2>2
<1> QED BY <1>1, <1>2

Reach == DiscoveryTimeout + ActionsTimeout
Counters == /\ attempt \in 1..MaxAttempts /\ left \in 0..Reach /\ hold \in Nat
            /\ reply \in {"none", "ok", "retryable", "fatal"}

(* Every wait, whichever side chose it, ends before the deadline.          *)
LEMMA RetryKeeps ==
  ASSUME Counters, NEW spent \in Nat, NEW asked, asked \subseteq Nat, RetryOrThrow(spent, asked)
  PROVE  Counters'
<1> DEFINE rest == Monus(left, spent)
           fits == {a \in asked : a < rest}
           held == IF asked = {} THEN Monus(hold, spent) ELSE CHOOSE a \in asked : TRUE
<1>1. rest \in 0..Reach /\ rest \in Nat
  BY Params DEF Counters, Reach, Monus
<1>2. held \in Nat
  BY MonusType DEF Counters
<1>3. PICK wait \in IF fits = {} THEN Backoff ELSE fits :
        IF attempt = MaxAttempts \/ wait >= rest
        THEN left' = rest /\ hold' = held /\ reply' = "retryable" /\ UNCHANGED attempt
        ELSE left' = rest - wait /\ hold' = Monus(held, wait) /\ attempt' = attempt + 1
             /\ UNCHANGED reply
  BY DEF RetryOrThrow
<1>4. wait \in Nat
  BY Params
<1> HIDE DEF rest, held, fits
<1>5. CASE attempt = MaxAttempts \/ wait >= rest
  BY <1>1, <1>2, <1>3, <1>5 DEF Counters
<1>6. CASE ~(attempt = MaxAttempts \/ wait >= rest)
  <2>1. Monus(held, wait) \in Nat
    BY <1>2, <1>4, MonusType
  <2>2. rest - wait \in 0..Reach
    BY <1>1, <1>4, <1>6, Params DEF Reach
  <2>3. attempt + 1 \in 1..MaxAttempts
    BY <1>6, Params DEF Counters
  <2> QED BY <1>3, <1>6, <2>1, <2>2, <2>3 DEF Counters
<1> QED BY <1>5, <1>6

LEMMA PassKeeps ==
  ASSUME Counters, NEW ticks \in Nat, Pass(ticks)
  PROVE  left' \in 0..Reach /\ hold' \in Nat
  BY Params DEF Counters, Pass, Monus, Reach

LEMMA CallKeeps ==
  ASSUME Counters, NEW which, NEW ticks \in Nat, Call(which, ticks)
  PROVE  Counters'
  BY PassKeeps, Params DEF Counters, Call

LEMMA StartKeeps ==
  ASSUME Counters, StartDiscovery, UNCHANGED hold
  PROVE  Counters'
  BY Params DEF Counters, StartDiscovery, Reach
-----------------------------------------------------------------------------
(* What the steps leave alone together: everything but one part of the     *)
(* invariant follows.                                                      *)
LEMMA TypeCounters == TypeOK => Counters
  BY DEF TypeOK, Counters, Reach

LEMMA InitIInv == Init => IInv
<1> SUFFICES ASSUME Init PROVE IInv
  OBVIOUS
<1>1. NoRuns \in [Workflows -> RunStates] /\ \A w \in Workflows : NoRuns[w] = "absent"
  BY DEF NoRuns, RunStates
<1>2. TypeOK
  <2>1. {pulls, foreign, lastError} \subseteq BOOLEAN
    BY Zenon DEF Init
  <2>2. /\ head \in 1..(MaxCommits + 2) /\ tips \subseteq 1..head /\ sha \in 0..head
        /\ attempt \in 1..MaxAttempts /\ left \in 0..(DiscoveryTimeout + ActionsTimeout)
    BY Params DEF Init
  <2>3. {runs, known} \subseteq [Workflows -> RunStates]
    BY <1>1 DEF Init
  <2> QED BY <2>1, <2>2, <2>3 DEF Init, TypeOK
<1>3. HeadInv /\ PushInv /\ ToldInv /\ GateInv
  BY Params DEF Init, HeadInv, PushInv, ToldInv, GateInv, Past
<1>4. KnownInv
  BY <1>1 DEF Init, KnownInv
<1> QED BY <1>2, <1>3, <1>4 DEF IInv

LEMMA PreflightKeeps == ASSUME IInv, Preflight PROVE IInv'
<1>1. TypeOK'
  BY DEF IInv, TypeOK, Preflight, End, input, git, quiet
<1>2. HeadInv' /\ PushInv' /\ ToldInv' /\ GateInv'
  BY DEF IInv, HeadInv, PushInv, ToldInv, GateInv, Past, Preflight, End, input, git, quiet
<1>3. KnownInv'
  BY DEF IInv, KnownInv, Preflight, End, input, git, quiet, NoRuns
<1> QED BY <1>1, <1>2, <1>3 DEF IInv

LEMMA CommitKeeps == ASSUME IInv, Commit PROVE IInv'
<1>0. /\ head \in Nat /\ head' \in {head, head + 1} /\ head' \in 1..(MaxCommits + 2)
      /\ UNCHANGED <<tips, sha>> /\ sha = 0
  BY Params DEF IInv, TypeOK, HeadInv, PushInv, Commit, quiet
<1>1. TypeOK'
  <2>1. tips' \subseteq 1..head' /\ sha' \in 0..head'
    BY <1>0 DEF IInv, TypeOK
  <2> QED BY <1>0, <2>1 DEF IInv, TypeOK, Commit, End, input, quiet
<1>2. HeadInv' /\ PushInv' /\ ToldInv' /\ GateInv'
  BY <1>0 DEF IInv, HeadInv, PushInv, ToldInv, GateInv, Past, Commit, End, input, quiet
<1>3. KnownInv'
  BY DEF IInv, KnownInv, Commit, End, input, quiet, NoRuns
<1> QED BY <1>1, <1>2, <1>3 DEF IInv

LEMMA ReadShaKeeps == ASSUME IInv, ReadSha PROVE IInv'
<1>1. TypeOK'
  BY DEF IInv, TypeOK, ReadSha, input, git
<1>2. HeadInv' /\ PushInv' /\ ToldInv' /\ GateInv'
  BY DEF IInv, HeadInv, PushInv, ToldInv, GateInv, Past, ReadSha, input, git
<1>3. KnownInv'
  BY DEF IInv, KnownInv, ReadSha, input, git, NoRuns
<1> QED BY <1>1, <1>2, <1>3 DEF IInv

(* What is pushed is HEAD, which is the commit or builds on it.            *)
LEMMA PushKeeps == ASSUME IInv, Push PROVE IInv'
<1>0. /\ tips \subseteq 1..head /\ head \in 1..(MaxCommits + 2) /\ sha \in 0..head /\ pc = "push"
      /\ told = "none"
      /\ UNCHANGED <<opts, flow, pulls, head, foreign, runs, sha, left, hold, reply, known, lastError>>
  BY DEF IInv, TypeOK, ToldInv, Push, input
<1>1. /\ tips' \subseteq 1..head
      /\ \/ pc' = "pushed" /\ attempt' = attempt /\ told' = told /\ head \in tips'
         \/ pc' = "push" /\ attempt' = attempt + 1 /\ attempt < MaxAttempts /\ told' = told
         \/ pc' = "ended" /\ told' = "error" /\ attempt' = attempt
  <2>1. CASE ~foreign /\ tips' = tips \cup {head} /\ pc' = "pushed" /\ UNCHANGED <<attempt, told>>
    BY <1>0, <2>1, Params
  <2>2. ASSUME NEW network \in BOOLEAN, PushFails(network)
        PROVE  \/ pc' = "push" /\ attempt' = attempt + 1 /\ attempt < MaxAttempts /\ told' = told
               \/ pc' = "ended" /\ told' = "error" /\ attempt' = attempt
    BY <1>0, <2>2 DEF PushFails, End
  <2>3. CASE tips' = tips \cup {head} /\ PushFails(TRUE)
    BY <1>0, <2>3, Params DEF PushFails, End
  <2>4. CASE \E output \in SUBSET Range(Symptoms) :
               UNCHANGED tips /\ PushFails(classifyGitPushFailure(output) = "network")
    <3>1. PICK output \in SUBSET Range(Symptoms) :
               UNCHANGED tips /\ PushFails(classifyGitPushFailure(output) = "network")
      BY <2>4
    <3> DEFINE network == classifyGitPushFailure(output) = "network"
    <3>2. network \in BOOLEAN
      OBVIOUS
    <3>3. PushFails(network)
      BY <3>1
    <3> HIDE DEF network
    <3> QED BY <1>0, <2>2, <3>1, <3>2, <3>3
  <2> QED BY <2>1, <2>3, <2>4 DEF Push
<1>2. TypeOK'
  <2>1. attempt' \in 1..MaxAttempts
    BY <1>1, Params DEF IInv, TypeOK
  <2>2. /\ pc' \in {"pushed", "push", "ended"} /\ told' \in {"none", "error"}
    BY <1>0, <1>1
  <2> QED BY <1>0, <1>1, <2>1, <2>2 DEF IInv, TypeOK
<1>3. HeadInv' /\ PushInv' /\ ToldInv' /\ GateInv'
  BY <1>0, <1>1 DEF IInv, HeadInv, PushInv, ToldInv, GateInv, Past
<1>4. KnownInv'
  BY <1>0, <1>1 DEF IInv, KnownInv, NoRuns
<1> QED BY <1>2, <1>3, <1>4 DEF IInv
Ending == {"error", "complete", "no-workflows", "required", "degraded", "passed", "failed", "timed-out"}

(* The runner's steps after the push leave the repository and GitHub alone. *)
Watches ==
  /\ pc \in Past /\ told = "none"
  /\ UNCHANGED <<opts, flow, pulls, head, tips, foreign, runs, sha>>
  /\ Counters' /\ lastError' \in BOOLEAN /\ known' \in [Workflows -> RunStates]
  /\ \/ pc' \in Past /\ told' = "none"
     \/ pc' = "ended" /\ told' \in Ending

LEMMA WatchesKeeps ==
  ASSUME IInv, Watches
  PROVE  TypeOK' /\ HeadInv' /\ PushInv' /\ ToldInv'
<1>1. TypeOK'
  BY DEF IInv, TypeOK, Watches, Past, Ending, Counters, Reach
<1>2. HeadInv' /\ PushInv' /\ ToldInv'
  BY DEF IInv, HeadInv, PushInv, ToldInv, Watches, Past, Ending
<1> QED BY <1>1, <1>2

(* A step that ends without a verdict, or goes on in front of the monitor. *)
LEMMA NoVerdictKeeps ==
  ASSUME IInv, Watches, known' = known, told' \notin {"passed", "failed", "timed-out"},
         pc' \in {"judge", "watch"} => known # NoRuns
  PROVE  KnownInv'
  BY DEF IInv, KnownInv, Watches, NoRuns, Past

LEMMA PushedKeeps == ASSUME IInv, Pushed PROVE IInv'
<1>0. pc \in Past /\ told = "none" /\ Counters
  BY TypeCounters DEF IInv, TypeOK, ToldInv, Pushed, Past
<1>1. Watches
  BY <1>0, Params DEF IInv, TypeOK, Watches, Pushed, End, input, git, Past, Ending, Counters, Reach
<1>2. KnownInv'
  <2>1. known' = known /\ told' \notin {"passed", "failed", "timed-out"} /\ pc' \notin {"judge", "watch"}
    BY <1>0 DEF Pushed, End
  <2> QED BY <1>1, <2>1, NoVerdictKeeps
<1>3. GateInv'
  BY <1>0 DEF GateInv, Pushed, End, input, git, Past
<1> QED BY <1>1, <1>2, <1>3, WatchesKeeps DEF IInv

LEMMA EligibleKeeps == ASSUME IInv, Eligible PROVE IInv'
<1>0. /\ pc \in Past /\ told = "none" /\ Counters /\ pc = "eligible" /\ opts.watch /\ opts.github
      /\ UNCHANGED <<opts, flow, pulls, head, tips, foreign, runs, sha, known, lastError>>
      /\ lastError \in BOOLEAN /\ known \in [Workflows -> RunStates]
  BY TypeCounters DEF IInv, TypeOK, ToldInv, GateInv, Eligible, input, git, Past
<1>1. \/ StartDiscovery /\ UNCHANGED <<hold, told>>
      \/ NoWorkflows /\ UNCHANGED <<attempt, reply, left, hold>>
      \/ Call("pulls", 0) /\ UNCHANGED told
  BY DEF Eligible
<1>2. Counters'
  <2>1. CASE NoWorkflows /\ UNCHANGED <<attempt, reply, left, hold>>
    BY <1>0, <2>1 DEF Counters
  <2> QED BY <1>0, <1>1, <2>1, StartKeeps, CallKeeps
<1>3. \/ pc' \in {"discover", "pulls"} /\ told' = "none"
      \/ pc' = "ended" /\ told' = "required"
      \/ pc' = "ended" /\ told' = "no-workflows" /\ ~opts.require
  BY <1>0, <1>1 DEF StartDiscovery, NoWorkflows, End, Call
<1>4. Watches
  BY <1>0, <1>2, <1>3 DEF Watches, Past, Ending
<1>5. KnownInv'
  BY <1>0, <1>3, <1>4, NoVerdictKeeps
<1>6. GateInv'
  BY <1>0, <1>3 DEF GateInv, Past
<1> QED BY <1>4, <1>5, <1>6, WatchesKeeps DEF IInv

(* The client reads what GitHub has at the moment, or nothing new.         *)
LEMMA getJsonKeeps == ASSUME IInv, getJson PROVE IInv'
<1>0. /\ pc \in Past /\ told = "none" /\ Counters
      /\ UNCHANGED <<opts, flow, pulls, head, tips, foreign, runs, sha, pc, lastError, told>>
      /\ lastError \in BOOLEAN
      /\ known \in [Workflows -> RunStates] /\ runs \in [Workflows -> RunStates]
  BY TypeCounters DEF IInv, TypeOK, ToldInv, getJson, Calling, input, git, Past
<1>1. Counters'
  <2>1. ASSUME NEW spent \in Nat, NEW what \in {"ok", "retryable", "fatal"}, Reply(spent, what)
        PROVE  Counters'
    BY <1>0, <2>1, PassKeeps DEF Reply, Counters
  <2>2. CASE left = 0
    BY <2>1, <2>2 DEF getJson
  <2>3. CASE left # 0
    <3>1. PICK spent \in 0..Least({AttemptTimeout, left}), answer \in Answers :
            \/ answer = "json" /\ Reply(spent, "ok")
            \/ answer \notin Retryable \cup {"json"} /\ Reply(spent, "fatal")
            \/ answer \in Retryable /\ \E asked \in parseRetryAfter(answer) : RetryOrThrow(spent, asked)
      BY <2>3 DEF getJson
    <3>2. spent \in Nat
      <4>1. left \in Nat
        BY <1>0 DEF Counters
      <4>2. Least({AttemptTimeout, left}) \in Nat
        BY <4>1, Params, LeastOfTwo
      <4> QED BY <4>2
    <3>3. ASSUME NEW asked \in parseRetryAfter(answer), RetryOrThrow(spent, asked) PROVE Counters'
      <4>1. asked \subseteq Nat
        BY DelayType
      <4> QED BY <1>0, <3>2, <3>3, <4>1, RetryKeeps
    <3> QED BY <2>1, <3>1, <3>2, <3>3
  <2> QED BY <2>2, <2>3
<1>2. known' \in {known, runs} /\ (known' # known => known' # NoRuns)
  BY DEF getJson, Keep
<1>3. Watches
  BY <1>0, <1>1, <1>2 DEF Watches
<1>4. KnownInv'
  BY <1>0, <1>2 DEF IInv, KnownInv, NoRuns
<1>5. GateInv'
  BY <1>0 DEF IInv, GateInv
<1> QED BY <1>3, <1>4, <1>5, WatchesKeeps DEF IInv

LEMMA PullsKeeps == ASSUME IInv, Pulls PROVE IInv'
<1>0. /\ pc \in Past /\ told = "none" /\ Counters /\ pc = "pulls" /\ opts.watch /\ opts.github
      /\ UNCHANGED <<opts, flow, pulls, head, tips, foreign, runs, sha, known, lastError>>
      /\ lastError \in BOOLEAN /\ known \in [Workflows -> RunStates]
  BY TypeCounters DEF IInv, TypeOK, ToldInv, GateInv, Pulls, input, git, Past
<1>1. \/ StartDiscovery /\ UNCHANGED <<hold, told>>
      \/ (NoWorkflows \/ Unavailable) /\ UNCHANGED <<attempt, reply, left, hold>>
      \/ Call("pulls", 1) /\ UNCHANGED told
  BY DEF Pulls
<1>2. Counters'
  <2>1. CASE UNCHANGED <<attempt, reply, left, hold>>
    BY <1>0, <2>1 DEF Counters
  <2> QED BY <1>0, <1>1, <2>1, StartKeeps, CallKeeps
<1>3. \/ pc' \in {"discover", "pulls"} /\ told' = "none"
      \/ pc' = "ended" /\ told' = "required"
      \/ pc' = "ended" /\ told' \in {"no-workflows", "degraded"} /\ ~opts.require
  BY <1>0, <1>1 DEF StartDiscovery, NoWorkflows, Unavailable, End, Call
<1>4. Watches
  BY <1>0, <1>2, <1>3 DEF Watches, Past, Ending
<1>5. KnownInv'
  BY <1>0, <1>3, <1>4, NoVerdictKeeps
<1>6. GateInv'
  BY <1>0, <1>3 DEF GateInv, Past
<1> QED BY <1>4, <1>5, <1>6, WatchesKeeps DEF IInv

LEMMA DiscoverKeeps == ASSUME IInv, Discover PROVE IInv'
<1>0. /\ pc \in Past /\ told = "none" /\ Counters /\ pc = "discover" /\ opts.watch /\ opts.github
      /\ UNCHANGED <<opts, flow, pulls, head, tips, foreign, runs, sha, known>>
      /\ lastError \in BOOLEAN /\ known \in [Workflows -> RunStates]
  BY TypeCounters DEF IInv, TypeOK, ToldInv, GateInv, Discover, input, git, Past
<1>1. \/ Unavailable /\ UNCHANGED <<attempt, reply, left, hold>>
      \/ /\ known # NoRuns /\ pc' = "judge" /\ left' = ActionsTimeout
         /\ UNCHANGED <<attempt, reply, hold, told>>
      \/ Call("discover", PollInterval) /\ UNCHANGED told
  BY DEF Discover
<1>2. Counters'
  <2>1. CASE UNCHANGED <<attempt, reply, left, hold>>
    BY <1>0, <2>1 DEF Counters
  <2>2. CASE left' = ActionsTimeout /\ UNCHANGED <<attempt, reply, hold>>
    BY <1>0, <2>2, Params DEF Counters, Reach
  <2> QED BY <1>0, <1>1, <2>1, <2>2, CallKeeps, Params
<1>3. \/ pc' = "discover" /\ told' = "none"
      \/ pc' = "judge" /\ told' = "none" /\ known # NoRuns
      \/ pc' = "ended" /\ told' = "required"
      \/ pc' = "ended" /\ told' = "degraded" /\ ~opts.require
  BY <1>0, <1>1 DEF Unavailable, End, Call
<1>4. lastError' \in BOOLEAN
  BY <1>0, Zenon DEF Discover
<1>5. Watches
  BY <1>0, <1>2, <1>3, <1>4 DEF Watches, Past, Ending
<1>6. KnownInv'
  BY <1>0, <1>3, <1>5, NoVerdictKeeps
<1>7. GateInv'
  BY <1>0, <1>3 DEF GateInv, Past
<1> QED BY <1>5, <1>6, <1>7, WatchesKeeps DEF IInv

(* A verdict needs every run completed; the deadline counts as a timeout   *)
(* only when the last answer was one.                                      *)
LEMMA JudgeKeeps == ASSUME IInv, Judge PROVE IInv'
<1>0. /\ pc \in Past /\ told = "none" /\ Counters /\ pc = "judge" /\ opts.watch /\ opts.github
      /\ UNCHANGED <<opts, flow, pulls, head, tips, foreign, runs, sha, known, lastError>>
      /\ lastError \in BOOLEAN /\ known \in [Workflows -> RunStates] /\ known # NoRuns
  BY TypeCounters DEF IInv, TypeOK, ToldInv, GateInv, KnownInv, Judge, input, git, Past
<1>1. \/ /\ \A w \in Workflows : Completed(known[w])
         /\ End(IF \E w \in Workflows : known[w] = "failure" THEN "failed" ELSE "passed")
         /\ UNCHANGED <<attempt, reply, left, hold>>
      \/ /\ IF lastError THEN Unavailable ELSE End("timed-out")
         /\ UNCHANGED <<attempt, reply, left, hold>>
      \/ Call("watch", Least({PollInterval, left})) /\ UNCHANGED told
  BY DEF Judge
<1>2. Counters'
  <2>1. CASE UNCHANGED <<attempt, reply, left, hold>>
    BY <1>0, <2>1 DEF Counters
  <2>2. Least({PollInterval, left}) \in Nat
    <3>1. left \in Nat
      BY <1>0 DEF Counters
    <3> QED BY <3>1, Params, LeastOfTwo
  <2> QED BY <1>0, <1>1, <2>1, <2>2, CallKeeps
<1>3. \/ pc' = "watch" /\ told' = "none"
      \/ /\ pc' = "ended" /\ told' = "failed" /\ \E w \in Workflows : known[w] = "failure"
      \/ /\ pc' = "ended" /\ told' = "passed" /\ \A w \in Workflows : known[w] \in {"absent", "success"}
      \/ pc' = "ended" /\ told' = "timed-out" /\ ~lastError
      \/ pc' = "ended" /\ told' = "required"
      \/ pc' = "ended" /\ told' = "degraded" /\ ~opts.require
  <2>1. CASE /\ \A w \in Workflows : Completed(known[w])
             /\ End(IF \E w \in Workflows : known[w] = "failure" THEN "failed" ELSE "passed")
    BY <2>1 DEF Completed, End
  <2>2. CASE IF lastError THEN Unavailable ELSE End("timed-out")
    BY <1>0, <2>2 DEF Unavailable, End
  <2>3. CASE Call("watch", Least({PollInterval, left})) /\ UNCHANGED told
    BY <1>0, <2>3 DEF Call
  <2> QED BY <1>1, <2>1, <2>2, <2>3
<1>4. Watches
  BY <1>0, <1>2, <1>3 DEF Watches, Past, Ending
<1>5. KnownInv'
  <2>1. CASE told' \in {"passed", "failed", "timed-out"}
    BY <1>0, <1>3, <2>1 DEF IInv, KnownInv, NoRuns
  <2> QED BY <1>0, <1>4, <2>1, NoVerdictKeeps
<1>6. GateInv'
  BY <1>0, <1>3 DEF GateInv, Past
<1> QED BY <1>4, <1>5, <1>6, WatchesKeeps DEF IInv

LEMMA RefreshedKeeps == ASSUME IInv, Refreshed PROVE IInv'
<1>0. /\ pc \in Past /\ told = "none" /\ Counters /\ pc = "watch" /\ opts.watch /\ opts.github
      /\ UNCHANGED <<opts, flow, pulls, head, tips, foreign, runs, sha, known, attempt, left, hold, reply>>
      /\ lastError \in BOOLEAN /\ known \in [Workflows -> RunStates] /\ known # NoRuns
  BY TypeCounters DEF IInv, TypeOK, ToldInv, GateInv, KnownInv, Refreshed, input, git, Past
<1>1. Counters'
  BY <1>0 DEF Counters
<1>2. lastError' \in BOOLEAN
  BY <1>0, Zenon DEF Refreshed
<1>3. \/ pc' = "judge" /\ told' = "none"
      \/ pc' = "ended" /\ told' = "required"
      \/ pc' = "ended" /\ told' = "degraded" /\ ~opts.require
  BY <1>0 DEF Refreshed, Unavailable, End
<1>4. Watches
  BY <1>0, <1>1, <1>2, <1>3 DEF Watches, Past, Ending
<1>5. KnownInv'
  BY <1>0, <1>3, <1>4, NoVerdictKeeps
<1>6. GateInv'
  BY <1>0, <1>3 DEF GateInv, Past
<1> QED BY <1>4, <1>5, <1>6, WatchesKeeps DEF IInv
-----------------------------------------------------------------------------
(* The rest of the world: the user's commits build on HEAD, somebody else's *)
(* push takes nothing back, and a run that is completed stays so.          *)
LEMMA WorldKeeps ==
  ASSUME IInv, UserCommits \/ SomebodyPushes \/ \E w \in Workflows : RunAppears(w) \/ RunEnds(w)
  PROVE  IInv'
<1>1. CASE UserCommits
  <2>1. head' \in 1..(MaxCommits + 2) /\ head' = head + 1 /\ head \in Nat
    BY <1>1, Params DEF IInv, TypeOK, UserCommits
  <2>2. TypeOK'
    <3>1. tips' \subseteq 1..head' /\ sha' \in 0..head'
      BY <1>1, <2>1 DEF IInv, TypeOK, UserCommits, quiet
    <3> QED BY <1>1, <2>1, <3>1 DEF IInv, TypeOK, UserCommits, input, quiet
  <2>3. HeadInv' /\ PushInv' /\ ToldInv' /\ GateInv'
    BY <1>1, <2>1, Params DEF IInv, HeadInv, PushInv, ToldInv, GateInv, Past, UserCommits, input, quiet
  <2>4. KnownInv'
    BY <1>1 DEF IInv, KnownInv, NoRuns, UserCommits, input, quiet
  <2> QED BY <2>2, <2>3, <2>4 DEF IInv
<1>2. CASE SomebodyPushes
  <2>1. TypeOK'
    BY <1>2 DEF IInv, TypeOK, SomebodyPushes, input, quiet
  <2>2. HeadInv' /\ PushInv' /\ ToldInv' /\ GateInv'
    BY <1>2 DEF IInv, HeadInv, PushInv, ToldInv, GateInv, Past, SomebodyPushes, input, quiet
  <2>3. KnownInv'
    BY <1>2 DEF IInv, KnownInv, NoRuns, SomebodyPushes, input, quiet
  <2> QED BY <2>1, <2>2, <2>3 DEF IInv
<1>3. ASSUME NEW w \in Workflows, RunAppears(w) \/ RunEnds(w) PROVE IInv'
  <2>0. UNCHANGED <<opts, flow, pulls, head, tips, foreign, sha, attempt, left, hold, reply, known,
                    lastError, pc, told>>
    BY <1>3 DEF RunAppears, RunEnds, input, git, quiet
  <2>1. /\ runs[w] \in {"absent", "active"}
        /\ \E st \in RunStates : runs' = [runs EXCEPT ![w] = st]
    BY <1>3 DEF RunAppears, RunEnds, RunStates
  <2>2. runs \in [Workflows -> RunStates] /\ known \in [Workflows -> RunStates]
    BY DEF IInv, TypeOK
  <2>3. /\ runs' \in [Workflows -> RunStates]
        /\ \A v \in Workflows : v # w => runs'[v] = runs[v]
    BY <2>1, <2>2
  <2>4. TypeOK'
    BY <2>0, <2>2, <2>3 DEF IInv, TypeOK
  <2>5. HeadInv' /\ PushInv' /\ ToldInv' /\ GateInv'
    BY <2>0 DEF IInv, HeadInv, PushInv, ToldInv, GateInv
  <2>6. KnownInv'
    BY <2>0, <2>1, <2>3 DEF IInv, KnownInv, NoRuns
  <2> QED BY <2>4, <2>5, <2>6 DEF IInv
<1> QED BY <1>1, <1>2, <1>3

LEMMA NextIInv == IInv /\ [Next]_vars => IInv'
<1> SUFFICES ASSUME IInv, [Next]_vars PROVE IInv'
  OBVIOUS
<1>1. CASE UNCHANGED vars
  <2>1. UNCHANGED <<opts, flow, pulls, head, tips, foreign, runs, sha, attempt, left, hold, reply, known,
                    lastError, pc, told>>
    BY <1>1 DEF vars, input, git
  <2>2. TypeOK'
    BY <2>1 DEF IInv, TypeOK
  <2>3. HeadInv' /\ PushInv' /\ ToldInv' /\ GateInv'
    BY <2>1 DEF IInv, HeadInv, PushInv, ToldInv, GateInv
  <2>4. KnownInv'
    BY <2>1 DEF IInv, KnownInv, NoRuns
  <2> QED BY <2>2, <2>3, <2>4 DEF IInv
<1>2. CASE Runner
  BY <1>2, PreflightKeeps, CommitKeeps, ReadShaKeeps, PushKeeps, PushedKeeps, EligibleKeeps,
     getJsonKeeps, PullsKeeps, DiscoverKeeps, JudgeKeeps, RefreshedKeeps DEF Runner
<1> QED BY <1>1, <1>2, WorldKeeps DEF Next

(* The inductive invariant holds in every reachable state.                 *)
THEOREM Invariant == Spec => []IInv
  BY InitIInv, NextIInv, PTL DEF Spec

(* publish reports a push only with its commit on the remote branch: also  *)
(* when HEAD moved between rev-parse and push, or when an attempt of       *)
(* retryGitPush landed and its answer was lost.                            *)
THEOREM PushLanded == Spec => []PushIsConfirmed
<1>1. IInv => PushIsConfirmed
  BY DEF IInv, PushInv, PushIsConfirmed, Succeeded
<1> QED BY <1>1, Invariant, PTL

(* What monitorGitHubActions says of the runs is what GitHub decided:      *)
(* errors of getJson and empty lists make no verdict and no timeout.       *)
THEOREM VerdictHolds == Spec => []VerdictIsTrue
<1>1. IInv => VerdictIsTrue
  BY DEF IInv, KnownInv, GateInv, VerdictIsTrue
<1> QED BY <1>1, Invariant, PTL

(* With requireActions a watched publish succeeds only if a run of the     *)
(* commit was seen to pass, and that run passed.                           *)
THEOREM RequireHolds == Spec => []RequireGates
<1>1. IInv => RequireGates
  <2> SUFFICES ASSUME IInv, Succeeded, opts.require, opts.watch
               PROVE  \E w \in Workflows : known[w] = "success" /\ runs[w] = "success"
    BY DEF RequireGates
  <2>1. told = "passed" /\ known # NoRuns /\ known \in [Workflows -> RunStates]
    BY DEF IInv, GateInv, KnownInv, Succeeded, TypeOK
  <2>2. PICK w \in Workflows : known[w] # "absent"
    BY <2>1 DEF NoRuns
  <2>3. known[w] = "success" /\ runs[w] = "success"
    BY <2>1, <2>2 DEF IInv, KnownInv
  <2> QED BY <2>3
<1> QED BY <1>1, Invariant, PTL
-----------------------------------------------------------------------------
(* The branch patterns.  matchesOrderedPatterns folds over them; GitHub    *)
(* asks for a positive match that no later negative one revokes.  The      *)
(* induction over the patterns is one over the least number at which a     *)
(* claim fails.                                                            *)
LEMMA LeastNumber ==
  ASSUME NEW T \in SUBSET Nat, T # {}
  PROVE  \E n \in T : \A m \in T : n <= m
<1> DEFINE R == OpToRel(<, Nat)
<1>1. IsWellFoundedOn(R, Nat)
  BY NatLessThanWellFounded, Zenon
<1>2. \A m, n \in Nat : m < n => <<m, n>> \in R
  BY DEF OpToRel
<1> HIDE DEF R
<1>3. PICK x \in T : \A y \in T : ~(<<y, x>> \in R)
  BY <1>1, WFMin
<1>4. ASSUME NEW y \in T PROVE x <= y
  <2>1. x \in Nat /\ y \in Nat /\ ~(<<y, x>> \in R)
    BY <1>3
  <2>2. ~(y < x)
    BY <1>2, <2>1
  <2> QED BY <2>1, <2>2
<1> QED BY <1>4

(* One step of the fold. *)
Folded(p, f, i) == IF i = 0 THEN FALSE ELSE IF p[i].hit THEN ~p[i].negative ELSE f[i - 1]

(* The recursive definition has a solution, so it computes one.            *)
LEMMA FoldExists ==
  ASSUME NEW p \in Seq(Patterns)
  PROVE  \A n \in Nat : n <= Len(p) => \E f : f = [i \in 0..n |-> Folded(p, f, i)]
<1> DEFINE Solved(n) == \E f : f = [i \in 0..n |-> Folded(p, f, i)]
           T == {n \in Nat : n <= Len(p) /\ ~Solved(n)}
<1> SUFFICES ASSUME T # {} PROVE FALSE
  OBVIOUS
<1>1. PICK n \in T : \A m \in T : n <= m
  <2>1. T \in SUBSET Nat
    OBVIOUS
  <2> HIDE DEF T
  <2> QED BY <2>1, LeastNumber
<1>2. n \in Nat /\ n <= Len(p) /\ ~Solved(n) /\ Len(p) \in Nat
  OBVIOUS
<1>3. CASE n = 0
  <2> DEFINE f == [i \in 0..0 |-> FALSE]
  <2>1. f = [i \in 0..0 |-> Folded(p, f, i)]
    BY DEF Folded
  <2> QED BY <1>2, <1>3, <2>1
<1>4. CASE n # 0
  <2>1. n - 1 \in Nat /\ n - 1 <= Len(p) /\ n - 1 < n
    BY <1>2, <1>4
  <2>2. Solved(n - 1)
    BY <1>1, <2>1
  <2>3. PICK g : g = [i \in 0..(n - 1) |-> Folded(p, g, i)]
    BY <2>2
  <2> DEFINE f == [i \in 0..n |-> IF i = n THEN Folded(p, g, n) ELSE g[i]]
  <2>4. ASSUME NEW i \in 0..n PROVE f[i] = Folded(p, f, i)
    <3>1. CASE i = 0
      <4>1. f[0] = g[0] /\ g[0] = Folded(p, g, 0)
        BY <1>2, <1>4, <2>1, <2>3
      <4> QED BY <3>1, <4>1 DEF Folded
    <3>2. CASE i # 0 /\ i # n
      <4>1. i \in 0..(n - 1) /\ i - 1 \in 0..(n - 1) /\ i - 1 \in 0..n /\ i - 1 # n
        BY <1>2, <2>1, <3>2
      <4>2. f[i] = g[i] /\ f[i - 1] = g[i - 1] /\ g[i] = Folded(p, g, i)
        BY <2>3, <3>2, <4>1
      <4> QED BY <4>2 DEF Folded
    <3>3. CASE i = n
      <4>1. n - 1 \in 0..n /\ n - 1 # n
        BY <1>2, <2>1
      <4>2. f[n] = Folded(p, g, n) /\ f[n - 1] = g[n - 1]
        BY <1>2, <3>3, <4>1
      <4> QED BY <3>3, <4>2 DEF Folded
    <3> QED BY <3>1, <3>2, <3>3
  <2>5. f = [i \in 0..n |-> Folded(p, f, i)]
    <3>1. f = [i \in 0..n |-> f[i]]
      OBVIOUS
    <3> HIDE DEF f
    <3> QED BY <2>4, <3>1
  <2>6. Solved(n)
    BY <2>5
  <2> QED BY <1>2, <2>6
<1> QED BY <1>3, <1>4

LEMMA FoldSteps ==
  ASSUME NEW p \in Seq(Patterns)
  PROVE  \E f : /\ matchesOrderedPatterns(p) = f[Len(p)]
                /\ \A i \in 0..Len(p) : f[i] = Folded(p, f, i)
<1> DEFINE f == CHOOSE g : g = [i \in 0..Len(p) |->
                  IF i = 0 THEN FALSE ELSE IF p[i].hit THEN ~p[i].negative ELSE g[i - 1]]
<1>1. matchesOrderedPatterns(p) = f[Len(p)]
  BY DEF matchesOrderedPatterns
<1>2. Len(p) \in Nat
  OBVIOUS
<1>3. \E g : g = [i \in 0..Len(p) |-> Folded(p, g, i)]
  BY <1>2, FoldExists
<1>4. f = [i \in 0..Len(p) |-> Folded(p, f, i)]
  BY <1>3 DEF Folded
<1> HIDE DEF f
<1>5. \A i \in 0..Len(p) : f[i] = Folded(p, f, i)
  BY <1>4
<1> QED BY <1>1, <1>5

(* A positive match of the branch that no later pattern revokes.           *)
Unrevoked(p) ==
  \E i \in DOMAIN p : /\ p[i].hit /\ ~p[i].negative
                      /\ \A k \in DOMAIN p : k > i => ~p[k].hit \/ ~p[k].negative

(* The reading of ordered branch patterns is GitHub's, for every list.     *)
THEOREM PatternsAgree ==
  \A p \in Seq(Patterns) : matchesOrderedPatterns(p) <=> Unrevoked(p)
<1> SUFFICES ASSUME NEW p \in Seq(Patterns) PROVE matchesOrderedPatterns(p) <=> Unrevoked(p)
  OBVIOUS
<1>0. PICK f : /\ matchesOrderedPatterns(p) = f[Len(p)]
               /\ \A i \in 0..Len(p) : f[i] = Folded(p, f, i)
  BY FoldSteps
<1>1. Len(p) \in Nat /\ DOMAIN p = 1..Len(p)
  OBVIOUS
<1>2. ASSUME Unrevoked(p) PROVE f[Len(p)]
  <2>1. PICK i \in 1..Len(p) : /\ p[i].hit /\ ~p[i].negative
                               /\ \A k \in 1..Len(p) : k > i => ~p[k].hit \/ ~p[k].negative
    BY <1>1, <1>2 DEF Unrevoked
  <2> DEFINE T == {k \in Nat : i <= k /\ k <= Len(p) /\ ~f[k]}
  <2>2. SUFFICES ASSUME T # {} PROVE FALSE
    BY <1>1, <2>1
  <2>3. PICK n \in T : \A m \in T : n <= m
    <3>1. T \in SUBSET Nat
      OBVIOUS
    <3> HIDE DEF T
    <3> QED BY <2>2, <3>1, LeastNumber
  <2>4. n \in 0..Len(p) /\ n # 0 /\ i <= n /\ ~f[n] /\ f[n] = Folded(p, f, n)
    BY <1>0, <1>1, <2>1
  <2>5. CASE n = i
    BY <2>1, <2>4, <2>5 DEF Folded
  <2>6. CASE n # i
    <3>1. n \in 1..Len(p) /\ n > i /\ n - 1 \in Nat /\ i <= n - 1 /\ n - 1 <= Len(p) /\ ~(n <= n - 1)
      BY <1>1, <2>1, <2>4, <2>6
    <3>2. f[n - 1]
      BY <2>3, <3>1
    <3>3. ~p[n].hit \/ ~p[n].negative
      BY <2>1, <3>1
    <3> QED BY <2>4, <3>2, <3>3 DEF Folded
  <2> QED BY <2>5, <2>6
<1>3. ASSUME f[Len(p)] PROVE Unrevoked(p)
  <2> DEFINE Last(i, n) == /\ i \in 1..n /\ p[i].hit /\ ~p[i].negative
                           /\ \A k \in 1..n : k > i => ~p[k].hit \/ ~p[k].negative
             T == {n \in Nat : n <= Len(p) /\ f[n] /\ ~\E i \in 1..n : Last(i, n)}
  <2>1. CASE T = {}
    <3>1. Len(p) \in Nat /\ Len(p) <= Len(p)
      BY <1>1
    <3>2. \E i \in 1..Len(p) : Last(i, Len(p))
      BY <1>3, <2>1, <3>1
    <3> QED BY <1>1, <3>2 DEF Unrevoked
  <2>2. CASE T # {}
    <3>1. PICK n \in T : \A m \in T : n <= m
      <4>1. T \in SUBSET Nat
        OBVIOUS
      <4> HIDE DEF T
      <4> QED BY <2>2, <4>1, LeastNumber
    <3>2. n \in 0..Len(p) /\ f[n] /\ f[n] = Folded(p, f, n) /\ ~\E i \in 1..n : Last(i, n)
      BY <1>0, <1>1
    <3>3. n # 0 /\ n \in 1..Len(p)
      <4>1. n # 0
        BY <3>2, Zenon DEF Folded
      <4> QED BY <1>1, <3>2, <4>1
    <3>4. CASE p[n].hit
      <4>1. ~p[n].negative
        BY <3>2, <3>3, <3>4 DEF Folded
      <4>2. n \in 1..n /\ \A k \in 1..n : ~(k > n)
        BY <1>1, <3>3
      <4> QED BY <3>2, <3>4, <4>1, <4>2
    <3>5. CASE ~p[n].hit
      <4>1. f[n - 1]
        BY <3>2, <3>3, <3>5 DEF Folded
      <4>2. n - 1 \in Nat /\ n - 1 <= Len(p) /\ ~(n <= n - 1)
        BY <1>1, <3>3
      <4>3. PICK i \in 1..(n - 1) : Last(i, n - 1)
        BY <3>1, <4>1, <4>2
      <4>4. i \in 1..n /\ \A k \in 1..n : k \in 1..(n - 1) \/ k = n
        BY <1>1, <3>3
      <4>5. Last(i, n)
        BY <3>5, <4>3, <4>4
      <4> QED BY <3>2, <4>4, <4>5
    <3> QED BY <3>4, <3>5
  <2> QED BY <2>1, <2>2
<1> QED BY <1>0, <1>2, <1>3
LEMMA SelectionAgrees ==
  ASSUME NEW e, IsEvent(e)
  PROVE  Selected(e) <=> branchMatchesEvent(e)
<1>1. matchesOrderedPatterns(e.branches) <=> Unrevoked(e.branches)
  BY PatternsAgree DEF IsEvent
<1> QED BY <1>1 DEF Selected, branchMatchesEvent, Unrevoked

(* What GitHub starts for a workflow file that can be read.                *)
LEMMA TriggerSplits ==
  ASSUME TypeOK, NEW w \in Workflows, Triggers(w), ~flow[w].uncertain, ~branchMatchesEvent(flow[w].push)
  PROVE  /\ pulls /\ w \in PullRequestWorkflows
         /\ branchMatchesEvent(flow[w].pullRequest) \/ branchMatchesEvent(flow[w].pullRequestTarget)
<1>1. /\ IsEvent(flow[w].push) /\ IsEvent(flow[w].pullRequest) /\ IsEvent(flow[w].pullRequestTarget)
  BY PublishAssumption DEF TypeOK
<1>2. PICK e \in {flow[w].pullRequest, flow[w].pullRequestTarget} : pulls /\ e.sync /\ Selected(e)
  BY <1>1, SelectionAgrees DEF Triggers
<1>3. IsEvent(e) /\ branchMatchesEvent(e)
  BY <1>1, <1>2, SelectionAgrees
<1>4. supportsSynchronize(e)
  BY <1>2 DEF supportsSynchronize, Selected
<1> QED BY <1>2, <1>3, <1>4 DEF PullRequestWorkflows

LEMMA NoneEligible ==
  ASSUME TypeOK, Eligibility = "no-workflows" \/ (Eligibility = "ask" /\ ~PullsMatch)
  PROVE  \A w \in Workflows : ~Triggers(w)
<1>1. /\ \A w \in Workflows : ~flow[w].uncertain /\ ~branchMatchesEvent(flow[w].push)
      /\ PullRequestWorkflows = {} \/ ~PullsMatch
  BY DEF Eligibility
<1>2. ASSUME NEW w \in Workflows, Triggers(w) PROVE FALSE
  BY <1>1, <1>2, TriggerSplits DEF PullsMatch
<1> QED BY <1>2

(* A run has a workflow that the commit triggers; the pull requests are    *)
(* asked for only if they decide; a commit reported to have no workflow    *)
(* triggers none.                                                          *)
FlowInv ==
  /\ \A w \in Workflows : runs[w] # "absent" => Triggers(w)
  /\ pc = "pulls" => Eligibility = "ask"
  /\ told = "no-workflows" => \A w \in Workflows : ~Triggers(w)

LEMMA FlowFixed ==
  ASSUME UNCHANGED <<flow, pulls>>
  PROVE  /\ \A w \in Workflows : Triggers(w)' <=> Triggers(w)
         /\ Eligibility' = Eligibility
<1>1. flow' = flow /\ pulls' = pulls
  OBVIOUS
<1>2. ASSUME NEW w \in Workflows PROVE Triggers(w)' <=> Triggers(w)
  BY <1>1 DEF Triggers, Selected
<1>3. Eligibility' = Eligibility
  BY <1>1 DEF Eligibility, PullRequestWorkflows, supportsSynchronize, branchMatchesEvent
<1> QED BY <1>2, <1>3

LEMMA NextFlow == IInv /\ FlowInv /\ [Next]_vars => FlowInv'
<1> SUFFICES ASSUME IInv, FlowInv, [Next]_vars PROVE FlowInv'
  OBVIOUS
<1>0. TypeOK /\ ToldInv /\ runs \in [Workflows -> RunStates]
  BY DEF IInv, TypeOK
<1>1. UNCHANGED <<flow, pulls>>
  BY DEF Next, Runner, Preflight, Commit, ReadSha, Push, Pushed, Eligible, getJson, Pulls, Discover, Judge,
         Refreshed, UserCommits, SomebodyPushes, RunAppears, RunEnds, vars, input
<1>2. /\ \A w \in Workflows : Triggers(w)' <=> Triggers(w)
      /\ Eligibility' = Eligibility
  BY <1>1, FlowFixed
<1>3. ASSUME UNCHANGED runs, pc' = "pulls" => pc = "pulls" \/ Eligibility = "ask",
             told' = "no-workflows" => told = "no-workflows" \/ \A w \in Workflows : ~Triggers(w)
      PROVE  FlowInv'
  BY <1>2, <1>3 DEF FlowInv
<1>4. CASE Eligible
  <2>1. UNCHANGED runs /\ told = "none"
    BY <1>0, <1>4 DEF Eligible, ToldInv
  <2>2. CASE Eligibility = "no-workflows"
    <3>1. pc' = "ended"
      BY <1>4, <2>2 DEF Eligible, NoWorkflows, End
    <3>2. \A w \in Workflows : ~Triggers(w)
      BY <1>0, <2>2, NoneEligible
    <3> QED BY <1>3, <2>1, <3>1, <3>2
  <2>3. CASE Eligibility \in {"uncertain", "push"}
    <3>1. pc' = "discover" /\ told' = "none"
      BY <1>4, <2>1, <2>3 DEF Eligible, StartDiscovery
    <3> QED BY <1>3, <2>1, <3>1
  <2>4. CASE Eligibility = "ask"
    <3>1. told' = "none"
      BY <1>4, <2>1, <2>4 DEF Eligible, Call
    <3> QED BY <1>3, <2>1, <2>4, <3>1
  <2> QED BY <2>2, <2>3, <2>4 DEF Eligibility
<1>5. CASE Pulls
  <2>1. UNCHANGED runs /\ pc = "pulls" /\ Eligibility = "ask"
    BY <1>5 DEF Pulls, FlowInv
  <2>2. told' = "no-workflows" => ~PullsMatch \/ told = "no-workflows"
    BY <1>5 DEF Pulls, StartDiscovery, Unavailable, NoWorkflows, Call, End
  <2>3. ~PullsMatch => \A w \in Workflows : ~Triggers(w)
    BY <1>0, <2>1, NoneEligible
  <2> QED BY <1>3, <2>1, <2>2, <2>3
<1>6. ASSUME NEW w \in Workflows, RunAppears(w) \/ RunEnds(w) PROVE FlowInv'
  <2>1. /\ UNCHANGED <<pc, told>> /\ Triggers(w)
        /\ \A v \in Workflows : v # w => runs'[v] = runs[v]
    BY <1>0, <1>6 DEF RunAppears, RunEnds, FlowInv
  <2> QED BY <1>2, <2>1 DEF FlowInv
<1>7. CASE Preflight \/ Commit \/ ReadSha \/ Push \/ Pushed
  <2>1. UNCHANGED runs /\ pc' # "pulls" /\ told' \in {told, "error", "complete"}
    BY <1>7 DEF Preflight, Commit, ReadSha, Push, PushFails, Pushed, End
  <2> QED BY <1>3, <2>1
<1>8. CASE getJson
  <2>1. UNCHANGED <<runs, pc, told>>
    BY <1>8 DEF getJson
  <2> QED BY <1>3, <2>1
<1>9. CASE Discover \/ Judge \/ Refreshed
  <2>1. UNCHANGED runs /\ pc' # "pulls" /\ (told' = "no-workflows" => told = "no-workflows")
    BY <1>9 DEF Discover, Judge, Refreshed, Unavailable, Call, End
  <2> QED BY <1>3, <2>1
<1>10. CASE UserCommits \/ SomebodyPushes \/ UNCHANGED vars
  <2>1. UNCHANGED <<runs, pc, told>>
    BY <1>10 DEF UserCommits, SomebodyPushes, vars
  <2> QED BY <1>3, <2>1
<1> QED BY <1>4, <1>5, <1>6, <1>7, <1>8, <1>9, <1>10 DEF Next, Runner

(* A commit that determineWorkflowEligibility reports to have no workflow  *)
(* never gets a run, whatever the workflow files say and whether or not    *)
(* pull requests are open.                                                 *)
THEOREM NoWorkflowHolds == Spec => []NoWorkflowIsTrue
<1>1. Init => FlowInv
  BY DEF Init, FlowInv, NoRuns
<1>2. IInv /\ FlowInv => NoWorkflowIsTrue
  <2> SUFFICES ASSUME IInv, FlowInv, told = "no-workflows" PROVE runs = NoRuns
    BY DEF NoWorkflowIsTrue
  <2>1. runs \in [Workflows -> RunStates] /\ \A w \in Workflows : runs[w] = "absent"
    BY DEF IInv, TypeOK, FlowInv
  <2> QED BY <2>1 DEF NoRuns
<1> QED BY <1>1, <1>2, Invariant, NextFlow, PTL DEF Spec
=============================================================================
