------------------------------ MODULE Publish ------------------------------
(***************************************************************************)
(* github_publish_start: the publish runner commits, pushes with retries,  *)
(* decides whether a workflow can run for the commit, and watches GitHub   *)
(* Actions over an API that fails, is slow or asks the client to wait.     *)
(*                                                                         *)
(* Time is what is left until the deadline of the running loop, in ticks.  *)
(* The user's repository, the remote branch and GitHub change by           *)
(* themselves between the runner's steps.                                  *)
(***************************************************************************)
EXTENDS Naturals, Sequences, FiniteSets, Functions

CONSTANTS Workflows,        \* workflow files, each with at most one run of the commit
          Configs,          \* what the on: section of a workflow file may say
          DiscoveryTimeout, ActionsTimeout, PollInterval, AttemptTimeout, \* in ticks
          Backoff,          \* jittered exponential delays, in ticks
          RetryAfters, MaxRetryAfter, \* delays a server asks for, and the longest that counts
          MaxAttempts,      \* maxAttempts of the API client, MAX_GIT_PUSH_ATTEMPTS
          MaxCommits        \* bound: commits the user makes meanwhile

(* Of a branch pattern, whether it starts with ! and whether it matches the *)
(* branch; of an event, whether it is listed, its branch patterns if any,  *)
(* whether branches-ignore has a match, and whether synchronize is among   *)
(* its types.                                                              *)
Patterns == [negative : BOOLEAN, hit : BOOLEAN]
IsEvent(e) == /\ DOMAIN e = {"on", "filtered", "branches", "ignored", "sync"}
              /\ e.branches \in Seq(Patterns) /\ {e.on, e.filtered, e.ignored, e.sync} \subseteq BOOLEAN

ASSUME PublishAssumption ==
  /\ \A c \in Configs : /\ DOMAIN c = {"uncertain", "push", "pullRequest", "pullRequestTarget"}
                        /\ IsEvent(c.push) /\ IsEvent(c.pullRequest) /\ IsEvent(c.pullRequestTarget)
  /\ {DiscoveryTimeout, ActionsTimeout, PollInterval, AttemptTimeout, MaxAttempts} \subseteq Nat \ {0}
  /\ Backoff \subseteq Nat \ {0} /\ RetryAfters \subseteq Nat /\ {MaxRetryAfter, MaxCommits} \subseteq Nat

VARIABLES opts,    \* the arguments, see Options
          flow,    \* the workflow files
          pulls,   \* an open pull request has the branch as its head
          head,    \* number of HEAD: commits build on each other
          tips,    \* every HEAD the remote branch received
          foreign, \* somebody else pushed a commit that the repository does not have
          runs,    \* on GitHub: the run of each workflow for the commit
          sha,     \* the commit that is watched
          pc, attempt, \* step of the runner, attempt of its retry loop
          left,    \* ticks to the deadline
          hold,    \* ticks the client owes a server that asked it to wait
          reply,   \* result of getJson: "none", "retryable", "fatal" or the runs
          known,   \* runs in the monitor's hands
          lastError, \* discoveryError, reconnectingError
          told     \* last phase of an ended runner

git  == <<head, tips, foreign>>
input == <<opts, flow, pulls>>
vars == <<input, git, runs, sha, pc, attempt, left, hold, reply, known, lastError, told>>

(* watchActions and requireActions, whether there is a commitMessage, and   *)
(* whether the remote is a repository on github.com.                       *)
Options == [watch : BOOLEAN, require : BOOLEAN, commit : BOOLEAN, github : BOOLEAN]

RunStates == {"absent", "active", "success", "failure"}
NoRuns == [w \in Workflows |-> "absent"]
Least(S) == CHOOSE x \in S : \A y \in S : x <= y

-----------------------------------------------------------------------------
(* Which workflows run: GitHubWorkflowEligibility. *)

matchesFirstPattern(patterns) ==
  \E i \in DOMAIN patterns : /\ patterns[i].hit /\ ~patterns[i].negative
                             /\ \A k \in 1..(i - 1) : ~patterns[k].hit

(* The fold over the patterns ends with what the last match says. *)
matchesOrderedPatterns(patterns) ==
  LET included[i \in 0..Len(patterns)] ==
        IF i = 0 THEN FALSE
        ELSE IF patterns[i].hit THEN ~patterns[i].negative ELSE included[i - 1]
  IN  included[Len(patterns)]

branchMatchesEvent(e) ==
  e.on /\ (e.filtered => matchesOrderedPatterns(e.branches)) /\ ~e.ignored

supportsSynchronize(e) == e.on /\ e.sync

PullRequestWorkflows ==
  {w \in Workflows : \/ supportsSynchronize(flow[w].pullRequest)
                     \/ supportsSynchronize(flow[w].pullRequestTarget)}

(* determineWorkflowEligibility before it needs the pull requests. *)
Eligibility ==
  IF \E w \in Workflows : flow[w].uncertain THEN "uncertain"
  ELSE IF \E w \in Workflows : branchMatchesEvent(flow[w].push) THEN "push"
  ELSE IF PullRequestWorkflows = {} THEN "no-workflows"
  ELSE "ask"

(* Whether the open pull requests make one run. *)
PullsMatch ==
  pulls /\ \E w \in PullRequestWorkflows : \/ branchMatchesEvent(flow[w].pullRequest)
                                           \/ branchMatchesEvent(flow[w].pullRequestTarget)

(* GitHub: an event starts a workflow if no later pattern revokes the match *)
(* of the branch, and a pull request also needs the synchronize type.      *)
Selected(e) ==
  /\ e.on /\ ~e.ignored
  /\ e.filtered => \E i \in DOMAIN e.branches :
                     /\ e.branches[i].hit /\ ~e.branches[i].negative
                     /\ \A k \in DOMAIN e.branches : k > i => ~e.branches[k].hit \/ ~e.branches[k].negative
Triggers(w) ==
  \/ flow[w].uncertain \/ Selected(flow[w].push)
  \/ pulls /\ \E e \in {flow[w].pullRequest, flow[w].pullRequestTarget} : e.sync /\ Selected(e)

-----------------------------------------------------------------------------
Init ==
  /\ opts \in Options
  /\ flow \in [Workflows -> Configs] /\ pulls \in BOOLEAN
  /\ head = 1 /\ tips = {} /\ foreign = FALSE /\ runs = NoRuns /\ sha = 0
  /\ pc = "preflight" /\ attempt = 1 /\ left = 0 /\ hold = 0 /\ reply = "none"
  /\ known = NoRuns /\ lastError = FALSE /\ told = "none"

Monus(a, b) == IF a > b THEN a - b ELSE 0

(* Ticks pass in the runner's loop. *)
Pass(ticks) == left' = Monus(left, ticks) /\ hold' = Monus(hold, ticks)

End(how) == pc' = "ended" /\ told' = how
CallAtOnce(which, ticks) == pc' = which /\ attempt' = 1 /\ reply' = "none" /\ UNCHANGED <<left, hold>>

Call(which, ticks) == pc' = which /\ attempt' = 1 /\ reply' = "none" /\ Pass(ticks)

UnavailableIsFine == End("degraded")

(* monitoringOutcomeFails of an unavailable outcome, and eligibility. *)
Unavailable == End(IF opts.require THEN "required" ELSE "degraded")

quiet == <<sha, attempt, left, hold, reply, known, lastError>>

-----------------------------------------------------------------------------
(* publish, up to the push *)

(* Repository, branch and remote are looked up; any of them may fail. *)
Preflight ==
  /\ pc = "preflight"
  /\ \/ pc' = "commit" /\ UNCHANGED told
     \/ End("error")
  /\ UNCHANGED <<input, git, runs, quiet>>

Commit ==
  /\ pc = "commit"
  /\ \/ opts.commit /\ head' = head + 1 /\ pc' = "sha" /\ UNCHANGED told
     \/ opts.commit /\ End("error") /\ UNCHANGED head
     \/ ~opts.commit /\ pc' = "sha" /\ UNCHANGED <<head, told>>
  /\ UNCHANGED <<input, tips, foreign, runs, quiet>>

ReadSha ==
  /\ pc = "sha" /\ sha' = head /\ pc' = "push"
  /\ UNCHANGED <<input, git, runs, attempt, left, hold, reply, known, lastError, told>>

PushFailsAnyway(network) ==
  IF network /\ attempt < MaxAttempts THEN attempt' = attempt + 1 /\ UNCHANGED <<pc, told>>
  ELSE pc' = "pushed" /\ UNCHANGED <<attempt, told>>

(* What the output of git may contain, in the order in which it is tried:  *)
(* a rejection with a sign of a broken connection counts as the latter.    *)
Symptoms == <<"network", "authentication", "non_fast_forward", "permission">>
classifyGitPushFailure(output) ==
  IF output = {} THEN "unknown"
  ELSE Symptoms[Least({i \in DOMAIN Symptoms : Symptoms[i] \in output})]

(* A failed push that classifyGitPushFailure calls network is repeated. *)
PushFails(network) ==
  IF network /\ attempt < MaxAttempts THEN attempt' = attempt + 1 /\ UNCHANGED <<pc, told>>
  ELSE End("error") /\ UNCHANGED attempt

(* One attempt of retryGitPush: what is pushed is the HEAD of the moment.  *)
(* The answer to a push that the remote took may get lost.                 *)
Push ==
  /\ pc = "push"
  /\ \/ ~foreign /\ tips' = tips \cup {head} /\ pc' = "pushed" /\ UNCHANGED <<attempt, told>>
     \/ ~foreign /\ tips' = tips \cup {head} /\ PushFails(TRUE)
     \/ \E output \in SUBSET Range(Symptoms) :
          UNCHANGED tips /\ PushFails(classifyGitPushFailure(output) = "network")
  /\ UNCHANGED <<input, head, foreign, runs, sha, left, hold, reply, known, lastError>>

(* The push is confirmed: eligibility is decided under its own deadline.   *)
(* That the remote is not on github.com is an error only now.              *)
Pushed ==
  /\ pc = "pushed"
  /\ \/ ~opts.watch /\ End("complete") /\ UNCHANGED <<attempt, reply, left, hold>>
     \/ opts.watch /\ ~opts.github /\ End("error") /\ UNCHANGED <<attempt, reply, left, hold>>
     \/ /\ opts.watch /\ opts.github /\ UNCHANGED told /\ pc' = "eligible"
        /\ left' = DiscoveryTimeout /\ UNCHANGED <<attempt, reply, hold>>
  /\ UNCHANGED <<input, git, runs, sha, known, lastError>>

NoWorkflows == End(IF opts.require THEN "required" ELSE "no-workflows")

(* monitorGitHubActions sets out with a deadline of its own. *)
StartDiscovery == pc' = "discover" /\ left' = DiscoveryTimeout /\ attempt' = 1 /\ reply' = "none"

Eligible ==
  /\ pc = "eligible"
  /\ CASE Eligibility \in {"uncertain", "push"} -> StartDiscovery /\ UNCHANGED <<hold, told>>
       [] Eligibility = "no-workflows" -> NoWorkflows /\ UNCHANGED <<attempt, reply, left, hold>>
       [] OTHER -> Call("pulls", 0) /\ UNCHANGED told
  /\ UNCHANGED <<input, git, runs, sha, known, lastError>>

-----------------------------------------------------------------------------
(* GitHubApiClient.getJson: one attempt, the wait after it included. *)

Calling == pc \in {"pulls", "discover", "watch"} /\ reply = "none"

(* What a request may come to, and which of it is worth another attempt. *)
Answers == {"json", "invalid_json", "http_4xx", "http_408", "http_429", "http_5xx", "timeout", "transport"}
Retryable == {"http_408", "http_429", "http_5xx", "timeout", "transport"}

(* Only an answer has a Retry-After header. *)
parseRetryAfter(answer) ==
  IF answer \in {"http_408", "http_429", "http_5xx"}
  THEN {{}} \cup {{Least({a, MaxRetryAfter})} : a \in RetryAfters}
  ELSE {{}}

(* waitBeforeRetry, for spent ticks of request already gone.  A delay that *)
(* the server asks for and that goes past the deadline is an error that    *)
(* the same catch clause answers with the client's own delay.              *)
RetryOrThrow(spent, asked) ==
  LET rest == Monus(left, spent)
      fits == {a \in asked : a < rest}
      held == IF asked = {} THEN Monus(hold, spent) ELSE CHOOSE a \in asked : TRUE
  IN  \E wait \in IF fits = {} THEN Backoff ELSE fits :
        IF attempt = MaxAttempts \/ wait >= rest
        THEN left' = rest /\ hold' = held /\ reply' = "retryable" /\ UNCHANGED attempt
        ELSE left' = rest - wait /\ hold' = Monus(held, wait) /\ attempt' = attempt + 1
             /\ UNCHANGED reply

Reply(spent, what) == Pass(spent) /\ reply' = what /\ UNCHANGED attempt

KeepAny(list) == list

(* An empty list never replaces a list of runs. *)
Keep(list) == IF list = NoRuns THEN known ELSE list

(* GitHub may also answer with a list that has no runs yet. *)
getJson ==
  /\ Calling
  /\ IF left = 0 THEN Reply(0, "retryable")
     ELSE \E spent \in 0..Least({AttemptTimeout, left}), answer \in Answers :
            \/ answer = "json" /\ Reply(spent, "ok")
            \/ answer \notin Retryable \cup {"json"} /\ Reply(spent, "fatal")
            \/ answer \in Retryable /\ \E asked \in parseRetryAfter(answer) : RetryOrThrow(spent, asked)
  /\ IF reply' = "ok" /\ pc # "pulls" THEN \E list \in {runs, NoRuns} : known' = Keep(list)
                                      ELSE UNCHANGED known
  /\ UNCHANGED <<input, git, runs, sha, pc, lastError, told>>

-----------------------------------------------------------------------------
(* fetchPullRequestsUntilDeadline *)
Pulls ==
  /\ pc = "pulls" /\ reply # "none"
  /\ \/ /\ reply = "ok" /\ UNCHANGED hold
        /\ IF PullsMatch THEN StartDiscovery /\ UNCHANGED told
           ELSE NoWorkflows /\ UNCHANGED <<attempt, reply, left>>
     \/ reply = "fatal" /\ Unavailable /\ UNCHANGED <<attempt, reply, left, hold>>
     \/ /\ reply = "retryable"
        /\ IF left <= 1 THEN Unavailable /\ UNCHANGED <<attempt, reply, left, hold>>
           ELSE Call("pulls", 1) /\ UNCHANGED told
  /\ UNCHANGED <<input, git, runs, sha, known, lastError>>

(* The discovery loop of monitorGitHubActions, after a request. *)
Discover ==
  /\ pc = "discover" /\ reply # "none"
  /\ \/ reply = "fatal" /\ Unavailable /\ UNCHANGED <<attempt, reply, left, hold, lastError>>
     \/ /\ reply = "ok" /\ known # NoRuns
        /\ pc' = "judge" /\ left' = ActionsTimeout /\ lastError' = FALSE
        /\ UNCHANGED <<attempt, reply, hold, told>>
     \/ /\ reply = "retryable" \/ (known = NoRuns /\ reply = "ok")
        /\ lastError' = (reply = "retryable")
        /\ IF left <= PollInterval
           THEN Unavailable /\ UNCHANGED <<attempt, reply, left, hold>>
           ELSE Call("discover", PollInterval) /\ UNCHANGED told
  /\ UNCHANGED <<input, git, runs, sha, known>>

Completed(r) == r \in {"absent", "success", "failure"}

(* The head of the monitor's loop and its sleep. *)
Judge ==
  /\ pc = "judge"
  /\ CASE \A w \in Workflows : Completed(known[w]) ->
            /\ End(IF \E w \in Workflows : known[w] = "failure" THEN "failed" ELSE "passed")
            /\ UNCHANGED <<attempt, reply, left, hold>>
       [] left = 0 /\ \E w \in Workflows : ~Completed(known[w]) ->
            /\ IF lastError THEN Unavailable ELSE End("timed-out")
            /\ UNCHANGED <<attempt, reply, left, hold>>
       [] OTHER -> Call("watch", Least({PollInterval, left})) /\ UNCHANGED told
  /\ UNCHANGED <<input, git, runs, sha, known, lastError>>

(* A refresh: an error keeps the last state. *)
Refreshed ==
  /\ pc = "watch" /\ reply # "none"
  /\ \/ reply = "fatal" /\ Unavailable /\ UNCHANGED lastError
     \/ reply # "fatal" /\ lastError' = (reply = "retryable") /\ pc' = "judge" /\ UNCHANGED told
  /\ UNCHANGED <<input, git, runs, sha, attempt, left, hold, reply, known>>

-----------------------------------------------------------------------------
(* The rest of the world.  After the push nothing reads HEAD or the branch. *)

Unpushed == pc \in {"preflight", "commit", "sha", "push"}

UserCommits ==
  /\ head <= MaxCommits + (IF opts.commit /\ sha # 0 THEN 1 ELSE 0)
  /\ Unpushed /\ head' = head + 1
  /\ UNCHANGED <<input, tips, foreign, runs, quiet, pc, told>>

SomebodyPushes ==
  /\ ~foreign /\ Unpushed /\ foreign' = TRUE
  /\ UNCHANGED <<input, head, tips, runs, quiet, pc, told>>

(* A run of the watched commit appears if the commit was pushed as a tip. *)
RunAppears(w) ==
  /\ runs[w] = "absent" /\ sha \in tips /\ Triggers(w)
  /\ runs' = [runs EXCEPT ![w] = "active"]
  /\ UNCHANGED <<input, git, quiet, pc, told>>

RunEnds(w) ==
  /\ runs[w] = "active"
  /\ \E how \in {"success", "failure"} : runs' = [runs EXCEPT ![w] = how]
  /\ UNCHANGED <<input, git, quiet, pc, told>>

Runner ==
  \/ Preflight \/ Commit \/ ReadSha \/ Push \/ Pushed \/ Eligible
  \/ getJson \/ Pulls \/ Discover \/ Judge \/ Refreshed

Next ==
  \/ Runner \/ UserCommits \/ SomebodyPushes
  \/ \E w \in Workflows : RunAppears(w) \/ RunEnds(w)

Spec == Init /\ [][Next]_vars

(* The runner is one process: it goes on as long as it can.  Every request *)
(* and every sleep of it ends by its own timer.                            *)
FairSpec == Spec /\ WF_vars(Runner)

-----------------------------------------------------------------------------
TypeOK ==
  /\ opts \in Options
  /\ flow \in [Workflows -> Configs] /\ {pulls, foreign, lastError} \subseteq BOOLEAN
  /\ head \in 1..(MaxCommits + 2) /\ tips \subseteq 1..head /\ sha \in 0..head
  /\ {runs, known} \subseteq [Workflows -> RunStates]
  /\ pc \in {"preflight", "commit", "sha", "push", "pushed", "eligible", "pulls", "discover",
             "watch", "judge", "ended"}
  /\ attempt \in 1..MaxAttempts /\ left \in 0..(DiscoveryTimeout + ActionsTimeout)
  /\ hold \in Nat /\ reply \in {"none", "ok", "retryable", "fatal"}
  /\ told \in {"none", "error", "complete", "no-workflows", "required", "degraded", "passed",
               "failed", "timed-out"}

Succeeded == told \in {"complete", "no-workflows", "degraded", "passed"}

(* A job that reports a push has its commit on the remote branch: also     *)
(* when HEAD moved meanwhile, or when an attempt landed and its answer was *)
(* lost.                                                                   *)
PushIsConfirmed ==
  Succeeded \/ told \in {"failed", "timed-out"} => \E t \in tips : sha <= t

(* What the monitor says of the runs it has is what GitHub decided: no     *)
(* lost contact and no empty list turns into a verdict.                    *)
VerdictIsTrue ==
  /\ TypeOK
  /\ told = "passed" => /\ known # NoRuns
                        /\ \A w \in Workflows : known[w] # "absent" => runs[w] = "success"
  /\ told = "failed" => \E w \in Workflows : runs[w] = "failure"
  /\ told = "timed-out" => ~lastError

(* A commit reported to have no workflow never gets a run: the reading of  *)
(* the branch patterns agrees with GitHub's.                               *)
NoWorkflowIsTrue == told = "no-workflows" => runs = NoRuns

(* With requireActions a watched publish succeeds only if runs of this     *)
(* commit were seen to pass, whatever failed on the way.                   *)
RequireGates ==
  Succeeded /\ opts.require /\ opts.watch =>
    \E w \in Workflows : known[w] = "success" /\ runs[w] = "success"

(* Every publish ends, whatever the API answers. *)
Ends == <>(pc = "ended")

-----------------------------------------------------------------------------
(* Statements of the repository that the code does not keep: the README    *)
(* tells how.  They are not invariants.                                    *)

(* A request is due only after the delay the server asked for: the test of *)
(* the API client says that Retry-After is honored.                        *)
RetryAfterHonored == Calling /\ left > 0 => hold = 0

(* A workflow of the commit that fails fails the job: what the skill says. *)
FailuresFail == told = "passed" => \A w \in Workflows : runs[w] # "failure"
=============================================================================
