------------------------------- MODULE Daemon -------------------------------
(***************************************************************************)
(* The resident daemon and its clients: DaemonClient, lifecycle-daemon,    *)
(* DaemonPaths and BuildIdentity on a Unix host.                           *)
(*                                                                         *)
(* Every MCP server and CLI process is a client.  It obtains the shared    *)
(* token, pings the socket, replaces an older daemon, starts one when none *)
(* answers, and then starts jobs and waits for them.  One request and its  *)
(* answer is one step; what a client learnt from a ping may be stale when  *)
(* it acts on it.  The manager inside a daemon is reduced to the jobs it   *)
(* runs and the records it knows; the store to one record per job, written *)
(* by whichever daemon changes it.                                         *)
(***************************************************************************)
EXTENDS Naturals, FiniteSets

CONSTANTS Clients, Daemons, DaemonJobs,
          BuildOf,   \* build of each client: protocol, core version, prerelease, cachebuster
          MaxPolls,  \* attempts of a polling loop, 50 in the code
          Faults,    \* kinds of fault: "client", "daemon" (a crash), "slow" (a ping timeout)
          MaxFaults, \* bound: how many of them
          None

(* A prerelease or cachebuster of 0 is one that the version does not have. *)
Builds == [protocol : {1, 2}, core : {1, 2}, pre : 0..2, cache : 0..2]

ASSUME DaemonAssumption ==
  /\ BuildOf \in [Clients -> Builds] /\ MaxPolls \in Nat \ {0} /\ MaxFaults \in Nat
  /\ Faults \subseteq {"client", "daemon", "slow"}
  /\ None \notin Clients \cup Daemons \cup DaemonJobs \cup Builds
  /\ {"absent", "empty"} \cap Clients = {}

VARIABLES file,    \* the token file: "absent", "empty" or the client that wrote it
          client,  \* pc, token, pings left, build last seen, job waited for and its daemon
          daemon,  \* of each daemon process: st, token, build
          socket,  \* daemon that bound the socket path last
          running, \* activeJobs and queue of each daemon's manager
          table,   \* job records of each daemon's manager
          disk,    \* job records in the store
          told,    \* what each client's waitForTerminal returned
          faults

daemonVars == <<file, client, daemon, socket, running, table, disk, told, faults>>

States == {"none", "running", "ended", "lost"}
Records == [DaemonJobs -> States]

-----------------------------------------------------------------------------
(* compareBuildVersions, as the sign of its result plus one: 0, 1 or 2. *)

compareOptionalIdentifierEager(left, right, missingIsNewer) ==
  IF left < right THEN 0 ELSE IF left = right THEN 1 ELSE 2

compareOptionalIdentifier(left, right, missingIsNewer) ==
  IF left = right THEN 1
  ELSE IF left = 0 THEN (IF missingIsNewer THEN 2 ELSE 0)
  ELSE IF right = 0 THEN (IF missingIsNewer THEN 0 ELSE 2)
  ELSE IF left < right THEN 0 ELSE 2

compareBuildVersions(left, right) ==
  LET pre == compareOptionalIdentifier(left.pre, right.pre, TRUE) IN
  IF left.core # right.core THEN (IF left.core < right.core THEN 0 ELSE 2)
  ELSE IF pre # 1 THEN pre
  ELSE compareOptionalIdentifier(left.cache, right.cache, FALSE)

(* The daemon's condition on a replacement. *)
IsNewer(new, old) ==
  \/ new.protocol > old.protocol
  \/ new.protocol = old.protocol /\ compareBuildVersions(new, old) > 1

(* What a client makes of the ping of a daemon. *)
Verdict(mine, theirs) ==
  CASE theirs.protocol > mine.protocol -> "incompatible"
    [] theirs.protocol < mine.protocol -> "upgrade"
    [] theirs = mine -> "ok"
    [] OTHER -> IF compareBuildVersions(mine, theirs) = 2 THEN "upgrade" ELSE "incompatible"

-----------------------------------------------------------------------------
NewClient == [pc |-> "token", token |-> None, left |-> 0, saw |-> None, job |-> None, on |-> None]
NoDaemon  == [st |-> "unused", token |-> None, build |-> None]

DaemonInit ==
  /\ file = "absent" /\ client = [c \in Clients |-> NewClient]
  /\ daemon = [d \in Daemons |-> NoDaemon] /\ socket = None
  /\ running = [d \in Daemons |-> {}] /\ table = [d \in Daemons |-> [j \in DaemonJobs |-> "none"]]
  /\ disk = [j \in DaemonJobs |-> "none"] /\ told = [c \in Clients |-> "nothing"] /\ faults = 0

Go(c, pc) == client' = [client EXCEPT ![c].pc = pc]
Poll(c, pc) == client' = [client EXCEPT ![c].pc = pc, ![c].left = MaxPolls]

AgainForever(c) == UNCHANGED client

(* One more attempt of a polling loop, or its error. *)
Again(c) == client' = IF client[c].left > 1 THEN [client EXCEPT ![c].left = @ - 1]
                      ELSE [client EXCEPT ![c].pc = "failed"]

Fault(kind) == kind \in Faults /\ faults < MaxFaults /\ faults' = faults + 1

Up(d) == daemon[d].st \in {"starting", "loaded", "listening", "closing"}

(* A request of client c is handled by daemon d: tokenMatches. *)
Serves(c, d) == socket = d /\ daemon[d].st = "listening" /\ daemon[d].token = client[c].token
Silent(c) == \A d \in Daemons : ~Serves(c, d)

(* A ping fails: nobody listens, or the answer takes too long. *)
PingFails(c) == \/ Silent(c) /\ UNCHANGED faults
                \/ ~Silent(c) /\ Fault("slow")

others == <<file, daemon, socket, running, table, disk, told>>

-----------------------------------------------------------------------------
(* ensureDaemonToken *)

CreateTokenAnyway(c) ==
  /\ client[c].pc = "token"
  /\ file' = "empty" /\ Go(c, "write")
  /\ UNCHANGED <<daemon, socket, running, table, disk, told, faults>>

CreateToken(c) ==
  /\ client[c].pc = "token"
  /\ IF file = "absent" THEN file' = "empty" /\ Go(c, "write")
                        ELSE UNCHANGED file /\ Poll(c, "read")
  /\ UNCHANGED <<daemon, socket, running, table, disk, told, faults>>

WriteToken(c) ==
  /\ client[c].pc = "write"
  /\ file' = c /\ Poll(c, "read")
  /\ UNCHANGED <<daemon, socket, running, table, disk, told, faults>>

ReadToken(c) ==
  /\ client[c].pc = "read"
  /\ IF file = "empty" THEN Again(c)
     ELSE client' = [client EXCEPT ![c].pc = "ping", ![c].token = file]
  /\ UNCHANGED <<others, faults>>

(* ensureReady *)
Ping(c) ==
  /\ client[c].pc = "ping"
  /\ \/ PingFails(c) /\ Go(c, "spawn")
     \/ \E d \in Daemons :
          /\ Serves(c, d) /\ UNCHANGED faults
          /\ CASE Verdict(BuildOf[c], daemon[d].build) = "ok" -> Go(c, "ready")
               [] Verdict(BuildOf[c], daemon[d].build) = "incompatible" -> Go(c, "failed")
               [] OTHER -> IF running[d] # {} THEN Go(c, "failed")
                           ELSE client' = [client EXCEPT ![c].pc = "shutdown",
                                                         ![c].saw = daemon[d].build]
  /\ UNCHANGED others

StopsUnchecked(c, d) == client[c].saw = daemon[d].build /\ IsNewer(BuildOf[c], daemon[d].build)

(* The daemon's answer to a shutdown request that names a replacement. *)
Stops(c, d) ==
  /\ client[c].saw = daemon[d].build /\ IsNewer(BuildOf[c], daemon[d].build)
  /\ running[d] = {}

(* replaceOlderDaemon: a refusal is ignored like any error. *)
Shutdown(c) ==
  /\ client[c].pc = "shutdown" /\ Poll(c, "drain")
  /\ \/ \E d \in Daemons :
          /\ Serves(c, d) /\ Stops(c, d)
          /\ daemon' = [daemon EXCEPT ![d].st = "closing"]
          /\ socket' = None
     \/ (\A d \in Daemons : Serves(c, d) => ~Stops(c, d)) /\ UNCHANGED <<daemon, socket>>
  /\ UNCHANGED <<file, running, table, disk, told, faults>>

(* The shutdown tool: no replacement is named. *)
Stop(c) ==
  /\ client[c].pc = "ready" /\ Go(c, "done")
  /\ \E d \in Daemons :
       /\ Serves(c, d) /\ running[d] = {}
       /\ daemon' = [daemon EXCEPT ![d].st = "closing"]
  /\ socket' = None
  /\ UNCHANGED <<file, running, table, disk, told, faults>>

Drain(c) ==
  /\ client[c].pc = "drain"
  /\ \/ PingFails(c) /\ Go(c, "spawn")
     \/ ~Silent(c) /\ Again(c) /\ UNCHANGED faults
  /\ UNCHANGED others

Spawn(c) ==
  /\ client[c].pc = "spawn" /\ Poll(c, "poll")
  /\ LET free == {d \in Daemons : ~Up(d) /\ \A b \in Clients : client[b].on # d} IN
     /\ free # {}
     /\ daemon' = [daemon EXCEPT ![CHOOSE d \in free : TRUE] =
                     [st |-> "starting", token |-> None, build |-> BuildOf[c]]]
  /\ UNCHANGED <<file, socket, running, table, disk, told, faults>>

PollReady(c) ==
  /\ client[c].pc = "poll"
  /\ \/ PingFails(c) /\ Again(c)
     \/ \E d \in Daemons :
          /\ Serves(c, d) /\ UNCHANGED faults
          /\ CASE Verdict(BuildOf[c], daemon[d].build) = "ok" -> Go(c, "ready")
               [] Verdict(BuildOf[c], daemon[d].build) = "incompatible" -> Go(c, "failed")
               [] OTHER -> Again(c)
  /\ UNCHANGED others

-----------------------------------------------------------------------------
(* The daemon process. *)

(* Up to the new LifecycleManager: what the store has as running is lost. *)
Boot(d) ==
  /\ daemon[d].st = "starting" /\ file \in Clients
  /\ daemon' = [daemon EXCEPT ![d].st = "loaded", ![d].token = file]
  /\ disk' = [j \in DaemonJobs |-> IF disk[j] = "running" THEN "lost" ELSE disk[j]]
  /\ table' = [table EXCEPT ![d] = disk']
  /\ UNCHANGED <<file, client, socket, running, told, faults>>

(* An existing socket file is removed, whoever listens behind it. *)
Listen(d) ==
  /\ daemon[d].st = "loaded"
  /\ daemon' = [daemon EXCEPT ![d].st = "listening"]
  /\ socket' = d
  /\ UNCHANGED <<file, client, running, table, disk, told, faults>>

(* The last connection closed, or 500 ms are over. *)
Exit(d) ==
  /\ daemon[d].st = "closing"
  /\ daemon' = [daemon EXCEPT ![d].st = "exited"]
  /\ UNCHANGED <<file, client, socket, running, table, disk, told, faults>>

Finish(d, j) ==
  /\ Up(d) /\ j \in running[d]
  /\ running' = [running EXCEPT ![d] = @ \ {j}]
  /\ table' = [table EXCEPT ![d][j] = "ended"]
  /\ disk' = [disk EXCEPT ![j] = "ended"]
  /\ UNCHANGED <<file, client, daemon, socket, told, faults>>

DaemonCrash(d) ==
  /\ Up(d) /\ Fault("daemon")
  /\ daemon' = [daemon EXCEPT ![d].st = "exited"]
  /\ running' = [running EXCEPT ![d] = {}]
  /\ UNCHANGED <<file, client, socket, table, disk, told>>

ClientCrash(c) ==
  /\ client[c].pc \notin {"gone", "failed", "done"} /\ Fault("client")
  /\ client' = [client EXCEPT ![c].pc = "gone", ![c].on = None]
  /\ UNCHANGED others

-----------------------------------------------------------------------------
(* The jobs of a client that is ready. *)

StartJob(c, j) ==
  /\ client[c].pc = "ready" /\ client[c].job = None /\ disk[j] = "none"
  /\ \E d \in Daemons :
       /\ Serves(c, d)
       /\ running' = [running EXCEPT ![d] = @ \cup {j}]
       /\ table' = [table EXCEPT ![d][j] = "running"]
  /\ disk' = [disk EXCEPT ![j] = "running"]
  /\ client' = [client EXCEPT ![c].job = j]
  /\ UNCHANGED <<file, daemon, socket, told, faults>>

(* waitForTerminal: a transport error leads back to ensureReady, an error  *)
(* of the daemon ends the wait.                                            *)
Wait(c) ==
  /\ client[c].pc = "ready" /\ client[c].job # None
  /\ \/ /\ Silent(c) /\ Go(c, "ping") /\ UNCHANGED told
     \/ \E d \in Daemons :
          /\ Serves(c, d)
          /\ IF table[d][client[c].job] = "none"
             THEN Go(c, "done") /\ told' = [told EXCEPT ![c] = "unknown"]
             ELSE client' = [client EXCEPT ![c].pc = "waiting", ![c].on = d] /\ UNCHANGED told
  /\ UNCHANGED <<file, daemon, socket, running, table, disk, faults>>

WaitEnds(c) ==
  /\ client[c].pc = "waiting"
  /\ \/ /\ Up(client[c].on) /\ table[client[c].on][client[c].job] \in {"ended", "lost"}
        /\ client' = [client EXCEPT ![c].pc = "done", ![c].on = None]
        /\ told' = [told EXCEPT ![c] = table[client[c].on][client[c].job]]
     \/ /\ ~Up(client[c].on) /\ UNCHANGED told
        /\ client' = [client EXCEPT ![c].pc = "ping", ![c].on = None]
  /\ UNCHANGED <<file, daemon, socket, running, table, disk, faults>>

ClientStep(c) ==
  \/ CreateToken(c) \/ WriteToken(c) \/ ReadToken(c)
  \/ Ping(c) \/ Shutdown(c) \/ Drain(c) \/ Spawn(c) \/ PollReady(c)
  \/ Wait(c) \/ WaitEnds(c)

DaemonStep(d) == Boot(d) \/ Listen(d) \/ Exit(d) \/ \E j \in DaemonJobs : Finish(d, j)

DaemonNext ==
  \/ \E c \in Clients : ClientStep(c) \/ Stop(c) \/ ClientCrash(c) \/ \E j \in DaemonJobs : StartJob(c, j)
  \/ \E d \in Daemons : DaemonStep(d) \/ DaemonCrash(d)

DaemonSpec == DaemonInit /\ [][DaemonNext]_daemonVars

(* A process that can take a step of its own takes it. *)
DaemonFairSpec ==
  /\ DaemonSpec
  /\ \A c \in Clients : WF_daemonVars(ClientStep(c))
  /\ \A d \in Daemons : WF_daemonVars(DaemonStep(d))

-----------------------------------------------------------------------------
DaemonTypeOK ==
  /\ file \in {"absent", "empty"} \cup Clients
  /\ client \in [Clients -> [pc : {"token", "write", "read", "ping", "shutdown", "drain", "spawn",
                                   "poll", "ready", "waiting", "done", "failed", "gone"},
                             token : Clients \cup {None}, left : 0..MaxPolls,
                             saw : Builds \cup {None}, job : DaemonJobs \cup {None},
                             on : Daemons \cup {None}]]
  /\ daemon \in [Daemons -> [st : {"unused", "starting", "loaded", "listening", "closing", "exited"},
                             token : Clients \cup {None}, build : Builds \cup {None}]]
  /\ socket \in Daemons \cup {None} /\ running \in [Daemons -> SUBSET DaemonJobs]
  /\ table \in [Daemons -> Records] /\ disk \in Records
  /\ told \in [Clients -> {"nothing", "unknown", "ended", "lost"}] /\ faults \in 0..MaxFaults

(* A daemon on its way out runs nothing: the jobs are counted again when   *)
(* the shutdown is handled, and a closing daemon accepts no start.  An     *)
(* upgrade never ends a job.                                               *)
UpgradeSparesJobs == \A d \in Daemons : daemon[d].st = "closing" => running[d] = {}

(* Every process that has a token has the same one, the one in the file,   *)
(* although all of them may try to create it at once.                      *)
TokensAgree ==
  /\ DaemonTypeOK
  /\ \A c \in Clients : client[c].token # None => client[c].token = file
  /\ \A d \in Daemons : daemon[d].token # None => daemon[d].token = file

(* compareBuildVersions is the order of the versions: a release is newer   *)
(* than its prereleases, a cachebuster newer than none; of any client's    *)
(* build and the build of a daemon it meets at most one replaces the other. *)
Rank(b) == 100 * b.core + 10 * (IF b.pre = 0 THEN 3 ELSE b.pre) + b.cache
CompareIsOrder ==
  \A d \in Daemons, mine \in Builds :
    LET theirs == daemon[d].build IN
    theirs # None =>
      compareBuildVersions(mine, theirs) =
        IF Rank(mine) < Rank(theirs) THEN 0 ELSE IF Rank(mine) = Rank(theirs) THEN 1 ELSE 2

(* ensureReady ends: no loop of a client goes on for ever, whatever        *)
(* crashes, as long as the processes that are left run.                    *)
EnsureReadyEnds ==
  \A c \in Clients : client[c].pc = "ping" ~> client[c].pc \in {"ready", "failed", "gone", "done", "waiting"}

-----------------------------------------------------------------------------
(* Statements of the repository that the code does not keep: the README    *)
(* tells how.  They are not invariants.                                    *)

(* Once a build has been reachable at the socket, no older one is: what    *)
(* the change log says of the upgrades.                                    *)
MonotonicBuilds ==
  [][\A d, e \in Daemons : socket = d /\ daemon[d].st = "listening" /\ socket' = e /\ e # d =>
        ~IsNewer(daemon[d].build, daemon[e].build)]_daemonVars
=============================================================================
