---------------------------- MODULE DaemonProofs ----------------------------
(***************************************************************************)
(* Proofs about the two things the daemon process does for several clients *)
(* at once: Daemon, who starts and stops it, and Waits, the callers that   *)
(* wait in it.  The two models share nothing; each part below is about one *)
(* of them.                                                                *)
(***************************************************************************)
EXTENDS Daemon, Waits, FiniteSetTheorems, WellFoundedInduction, TLAPS

(***************************************************************************)
(* Daemon, for any number of clients, daemon processes, jobs and faults    *)
(* and any builds.  The token file is written once, by the one client that *)
(* created it, and is empty until then; only a daemon that listens has     *)
(* jobs.                                                                   *)
(***************************************************************************)
ClientRecord ==
  [pc : {"token", "write", "read", "ping", "shutdown", "drain", "spawn",
         "poll", "ready", "waiting", "done", "failed", "gone"},
   token : Clients \cup {None}, left : 0..MaxPolls,
   saw : Builds \cup {None}, job : DaemonJobs \cup {None}, on : Daemons \cup {None}]
DaemonRecord ==
  [st : {"unused", "starting", "loaded", "listening", "closing", "exited"},
   token : Clients \cup {None}, build : Builds \cup {None}]

(* Between open with O_EXCL and write the file is empty, and no other      *)
(* client writes it; a client that reads it knows that it exists.          *)
FileInv ==
  \A c \in Clients :
    /\ client[c].pc = "write" => file = "empty"
    /\ client[c].pc = "read" => file # "absent"
    /\ \A b \in Clients : client[b].pc = "write" /\ client[c].pc = "write" => b = c

IdleInv == \A d \in Daemons : daemon[d].st # "listening" => running[d] = {}

DaemonInv == TokensAgree /\ FileInv /\ IdleInv
-----------------------------------------------------------------------------
(* What the updates of a client's record leave alone.                      *)
Kept(c) == /\ \A b \in Clients : client'[b].token = client[b].token
           /\ \A b \in Clients : b # c => client'[b] = client[b]

LEMMA GoKeeps ==
  ASSUME DaemonTypeOK, NEW c \in Clients, NEW pc \in {"ping", "shutdown", "drain", "spawn",
         "poll", "ready", "waiting", "done", "failed", "gone", "write"}, Go(c, pc)
  PROVE  client' \in [Clients -> ClientRecord] /\ Kept(c) /\ client'[c].pc = pc
<1>1. client \in [Clients -> ClientRecord]
  BY DEF DaemonTypeOK, ClientRecord
<1> QED BY <1>1 DEF Go, Kept, ClientRecord

LEMMA PollKeeps ==
  ASSUME DaemonTypeOK, NEW c \in Clients, NEW pc \in {"read", "drain", "poll"}, Poll(c, pc)
  PROVE  client' \in [Clients -> ClientRecord] /\ Kept(c) /\ client'[c].pc = pc
<1>1. client \in [Clients -> ClientRecord]
  BY DEF DaemonTypeOK, ClientRecord
<1>2. MaxPolls \in 0..MaxPolls
  BY DaemonAssumption
<1>3. /\ client'[c] = [client[c] EXCEPT !.pc = pc, !.left = MaxPolls]
      /\ \A b \in Clients : b # c => client'[b] = client[b]
      /\ client' = [b \in Clients |-> client'[b]]
  BY <1>1 DEF Poll
<1>4. client[c] \in ClientRecord
  BY <1>1
<1>5. client'[c] \in ClientRecord
  BY <1>2, <1>3, <1>4 DEF ClientRecord
<1>6. client' \in [Clients -> ClientRecord]
  BY <1>1, <1>3, <1>5
<1>7. client'[c].token = client[c].token /\ client'[c].pc = pc
  BY <1>3, <1>4 DEF ClientRecord
<1> QED BY <1>6, <1>3, <1>7 DEF Kept

LEMMA AgainKeeps ==
  ASSUME DaemonTypeOK, NEW c \in Clients, Again(c)
  PROVE  /\ client' \in [Clients -> ClientRecord] /\ Kept(c)
         /\ client'[c].pc \in {client[c].pc, "failed"}
<1>1. client \in [Clients -> ClientRecord]
  BY DEF DaemonTypeOK, ClientRecord
<1> QED BY <1>1, DaemonAssumption DEF Again, Kept, ClientRecord

LEMMA FaultCount ==
  ASSUME DaemonTypeOK, NEW kind, Fault(kind) \/ UNCHANGED faults
  PROVE  faults' \in 0..MaxFaults
  BY DaemonAssumption DEF DaemonTypeOK, Fault
Agree ==
  /\ \A c \in Clients : client[c].token # None => client[c].token = file
  /\ \A d \in Daemons : daemon[d].token # None => daemon[d].token = file

(* A step of a client that leaves the token file alone.                    *)
LEMMA ClientMoves ==
  ASSUME DaemonInv, NEW c \in Clients, Kept(c), file' = file,
         client'[c].pc # "write", client'[c].pc = "read" => file # "absent",
         \A d \in Daemons : daemon'[d].token \in {daemon[d].token, None}
  PROVE  FileInv' /\ Agree'
<1>1. FileInv'
  BY DEF DaemonInv, FileInv, Kept
<1>2. Agree'
  BY DEF DaemonInv, TokensAgree, Agree, Kept
<1> QED BY <1>1, <1>2

(* A step of a client that changes nothing but its own record.             *)
LEMMA ClientOnly ==
  ASSUME DaemonInv, NEW c \in Clients, client' \in [Clients -> ClientRecord], Kept(c),
         client'[c].pc # "write", client'[c].pc = "read" => file # "absent",
         UNCHANGED <<file, daemon, socket, running, table, disk>>,
         told' \in [Clients -> {"nothing", "unknown", "ended", "lost"}],
         faults' \in 0..MaxFaults
  PROVE  DaemonInv'
<1>1. FileInv' /\ Agree'
  BY ClientMoves
<1>2. IdleInv'
  BY DEF DaemonInv, IdleInv
<1>3. DaemonTypeOK'
  BY DEF DaemonInv, TokensAgree, DaemonTypeOK, ClientRecord
<1> QED BY <1>1, <1>2, <1>3 DEF DaemonInv, TokensAgree, Agree

LEMMA CreateTokenStep ==
  ASSUME DaemonInv, NEW c \in Clients, CreateToken(c)
  PROVE  DaemonInv'
<1>0. DaemonTypeOK /\ faults' \in 0..MaxFaults /\ told' \in [Clients -> {"nothing", "unknown", "ended", "lost"}]
  BY DEF DaemonInv, TokensAgree, DaemonTypeOK, CreateToken
<1>1. CASE file = "absent"
  <2>1. client' \in [Clients -> ClientRecord] /\ Kept(c) /\ client'[c].pc = "write"
    BY <1>0, <1>1, GoKeeps DEF CreateToken
  <2>2. /\ \A b \in Clients : client[b].token = None /\ client[b].pc \notin {"write", "read"}
        /\ \A d \in Daemons : daemon[d].token = None
    BY <1>0, <1>1, DaemonAssumption DEF DaemonInv, TokensAgree, DaemonTypeOK, FileInv
  <2>3. FileInv'
    BY <1>1, <2>1, <2>2 DEF FileInv, CreateToken, Kept
  <2>4. Agree'
    BY <2>1, <2>2 DEF Agree, CreateToken, Kept
  <2>5. DaemonTypeOK'
    BY <1>0, <1>1, <2>1 DEF DaemonTypeOK, CreateToken, ClientRecord
  <2> QED BY <2>3, <2>4, <2>5 DEF DaemonInv, TokensAgree, Agree, IdleInv, CreateToken
<1>2. CASE file # "absent"
  <2>1. client' \in [Clients -> ClientRecord] /\ Kept(c) /\ client'[c].pc = "read"
    BY <1>0, <1>2, PollKeeps DEF CreateToken
  <2> QED BY <1>0, <1>2, <2>1, ClientOnly DEF CreateToken
<1> QED BY <1>1, <1>2

LEMMA WriteTokenStep ==
  ASSUME DaemonInv, NEW c \in Clients, WriteToken(c)
  PROVE  DaemonInv'
<1>0. DaemonTypeOK /\ file = "empty"
  BY DEF DaemonInv, TokensAgree, WriteToken, FileInv
<1>1. client' \in [Clients -> ClientRecord] /\ Kept(c) /\ client'[c].pc = "read"
  BY <1>0, PollKeeps DEF WriteToken
<1>2. /\ \A b \in Clients : client[b].token = None /\ (b # c => client[b].pc # "write")
      /\ \A d \in Daemons : daemon[d].token = None
  BY <1>0, DaemonAssumption DEF DaemonInv, TokensAgree, DaemonTypeOK, FileInv, WriteToken
<1>3. FileInv'
  BY <1>1, <1>2, DaemonAssumption DEF FileInv, WriteToken, Kept
<1>4. Agree'
  BY <1>1, <1>2 DEF Agree, WriteToken, Kept
<1>5. DaemonTypeOK'
  BY <1>0, <1>1 DEF DaemonTypeOK, WriteToken, ClientRecord
<1> QED BY <1>3, <1>4, <1>5 DEF DaemonInv, TokensAgree, Agree, IdleInv, WriteToken

LEMMA ReadTokenStep ==
  ASSUME DaemonInv, NEW c \in Clients, ReadToken(c)
  PROVE  DaemonInv'
<1>0. /\ DaemonTypeOK /\ client[c].pc = "read" /\ file # "absent"
      /\ UNCHANGED <<file, daemon, socket, running, table, disk>>
      /\ told' \in [Clients -> {"nothing", "unknown", "ended", "lost"}] /\ faults' \in 0..MaxFaults
  BY DEF DaemonInv, TokensAgree, DaemonTypeOK, ReadToken, FileInv, others
<1>1. CASE file = "empty"
  <2>1. client' \in [Clients -> ClientRecord] /\ Kept(c) /\ client'[c].pc \in {"read", "failed"}
    BY <1>0, <1>1, AgainKeeps DEF ReadToken
  <2> QED BY <1>0, <2>1, ClientOnly
<1>2. CASE file # "empty"
  <2>1. client \in [Clients -> ClientRecord] /\ file \in Clients
    BY <1>0, <1>2 DEF DaemonTypeOK, ClientRecord
  <2>2. client' = [client EXCEPT ![c].pc = "ping", ![c].token = file]
    BY <1>2 DEF ReadToken
  <2>3. /\ client'[c] = [client[c] EXCEPT !.pc = "ping", !.token = file]
        /\ \A b \in Clients : b # c => client'[b] = client[b]
        /\ client' = [b \in Clients |-> client'[b]]
    BY <2>1, <2>2
  <2>4. client[c] \in ClientRecord /\ file \in Clients
    BY <2>1
  <2>5. client'[c] \in ClientRecord
    BY <2>3, <2>4 DEF ClientRecord
  <2>6. client' \in [Clients -> ClientRecord]
    BY <2>1, <2>3, <2>5
  <2>7. client'[c].token = file /\ client'[c].pc = "ping"
    BY <2>3, <2>4 DEF ClientRecord
  <2>8. \A b \in Clients : b # c => client'[b] = client[b]
    BY <2>3
  <2>9. FileInv'
    BY <1>0, <2>7, <2>8 DEF FileInv, DaemonInv
  <2>10. Agree'
    BY <1>0, <2>7, <2>8 DEF Agree, DaemonInv, TokensAgree
  <2>11. DaemonTypeOK'
    BY <1>0, <2>6 DEF DaemonTypeOK, ClientRecord
  <2> QED BY <1>0, <2>9, <2>10, <2>11 DEF DaemonInv, TokensAgree, Agree, IdleInv
<1> QED BY <1>1, <1>2

LEMMA PingStep ==
  ASSUME DaemonInv, NEW c \in Clients, Ping(c)
  PROVE  DaemonInv'
<1>0. DaemonTypeOK
  BY DEF DaemonInv, TokensAgree
<1>1. faults' \in 0..MaxFaults
  BY <1>0, FaultCount DEF Ping, PingFails
<1>2. /\ client' \in [Clients -> ClientRecord] /\ Kept(c)
      /\ client'[c].pc \in {"spawn", "ready", "failed", "shutdown"}
  <2>1. CASE \E pc \in {"spawn", "ready", "failed"} : Go(c, pc)
    BY <1>0, <2>1, GoKeeps
  <2>2. CASE \E d \in Daemons : client' = [client EXCEPT ![c].pc = "shutdown",
                                                      ![c].saw = daemon[d].build]
    <3>1. PICK x \in Builds \cup {None} :
            client' = [client EXCEPT ![c].pc = "shutdown", ![c].saw = x]
      BY <1>0, <2>2 DEF DaemonTypeOK
    <3>2. client \in [Clients -> ClientRecord]
      BY <1>0 DEF DaemonTypeOK, ClientRecord
    <3>3. client' \in [Clients -> ClientRecord]
      <4> DEFINE Pc == {"token", "write", "read", "ping", "shutdown", "drain", "spawn",
                        "poll", "ready", "waiting", "done", "failed", "gone"}
                 S == Builds \cup {None}
                 T == Clients \cup {None}
                 J == DaemonJobs \cup {None}
                 O == Daemons \cup {None}
      <4>1. /\ ClientRecord = [pc : Pc, token : T, left : 0..MaxPolls, saw : S, job : J, on : O]
            /\ "shutdown" \in Pc /\ x \in S
        BY DEF ClientRecord
      <4> HIDE DEF Pc, S, T, J, O
      <4> QED BY <3>1, <3>2, <4>1
    <3>4. \A b \in Clients : b # c => client'[b] = client[b]
      BY <3>1, <3>2
    <3>5. client'[c].token = client[c].token /\ client'[c].pc = "shutdown"
      BY <3>1, <3>2 DEF ClientRecord
    <3> QED BY <3>3, <3>4, <3>5 DEF Kept
  <2> QED BY <2>1, <2>2 DEF Ping
<1> QED BY <1>0, <1>1, <1>2, ClientOnly DEF Ping, others, DaemonTypeOK

LEMMA DrainStep ==
  ASSUME DaemonInv, NEW c \in Clients, Drain(c)
  PROVE  DaemonInv'
<1>0. DaemonTypeOK /\ client[c].pc = "drain"
  BY DEF DaemonInv, TokensAgree, Drain
<1>1. faults' \in 0..MaxFaults
  BY <1>0, FaultCount DEF Drain, PingFails
<1>2. /\ client' \in [Clients -> ClientRecord] /\ Kept(c)
      /\ client'[c].pc \in {"spawn", "drain", "failed"}
  BY <1>0, GoKeeps, AgainKeeps DEF Drain
<1> QED BY <1>0, <1>1, <1>2, ClientOnly DEF Drain, others, DaemonTypeOK

LEMMA PollReadyStep ==
  ASSUME DaemonInv, NEW c \in Clients, PollReady(c)
  PROVE  DaemonInv'
<1>0. DaemonTypeOK /\ client[c].pc = "poll"
  BY DEF DaemonInv, TokensAgree, PollReady
<1>1. faults' \in 0..MaxFaults
  BY <1>0, FaultCount DEF PollReady, PingFails
<1>2. Go(c, "ready") \/ Go(c, "failed") \/ Again(c)
  BY DEF PollReady
<1>3. /\ client' \in [Clients -> ClientRecord] /\ Kept(c)
      /\ client'[c].pc \in {"ready", "failed", "poll"}
  BY <1>0, <1>2, GoKeeps, AgainKeeps
<1> QED BY <1>0, <1>1, <1>3, ClientOnly DEF PollReady, others, DaemonTypeOK

(* A daemon that runs nothing stops listening.                             *)
LEMMA DaemonStops ==
  ASSUME DaemonInv, NEW c \in Clients, client' \in [Clients -> ClientRecord], Kept(c),
         client'[c].pc \in {"drain", "done"}, NEW d \in Daemons, running[d] = {},
         daemon' = [daemon EXCEPT ![d].st = "closing"], socket' = None,
         UNCHANGED <<file, running, table, disk, told, faults>>
  PROVE  DaemonInv'
<1>0. DaemonTypeOK /\ daemon \in [Daemons -> DaemonRecord]
  BY DEF DaemonInv, TokensAgree, DaemonTypeOK, DaemonRecord
<1>1. /\ daemon' \in [Daemons -> DaemonRecord]
      /\ \A e \in Daemons : daemon'[e].token = daemon[e].token
      /\ \A e \in Daemons : e # d => daemon'[e] = daemon[e]
  BY <1>0 DEF DaemonRecord
<1>2. FileInv' /\ Agree'
  BY <1>1, ClientMoves
<1>3. IdleInv'
  BY <1>1 DEF DaemonInv, IdleInv
<1>4. DaemonTypeOK'
  BY <1>0, <1>1 DEF DaemonTypeOK, ClientRecord, DaemonRecord
<1> QED BY <1>2, <1>3, <1>4 DEF DaemonInv, TokensAgree, Agree

LEMMA ShutdownStep ==
  ASSUME DaemonInv, NEW c \in Clients, Shutdown(c)
  PROVE  DaemonInv'
<1>0. DaemonTypeOK
  BY DEF DaemonInv, TokensAgree
<1>1. client' \in [Clients -> ClientRecord] /\ Kept(c) /\ client'[c].pc = "drain"
  BY <1>0, PollKeeps DEF Shutdown
<1>2. CASE UNCHANGED <<daemon, socket>>
  BY <1>0, <1>1, <1>2, ClientOnly DEF Shutdown, DaemonTypeOK
<1>3. CASE \E d \in Daemons : /\ Stops(c, d) /\ daemon' = [daemon EXCEPT ![d].st = "closing"]
                              /\ socket' = None
  BY <1>1, <1>3, DaemonStops DEF Shutdown, Stops
<1> QED BY <1>2, <1>3 DEF Shutdown

LEMMA StopStep ==
  ASSUME DaemonInv, NEW c \in Clients, Stop(c)
  PROVE  DaemonInv'
<1>0. DaemonTypeOK
  BY DEF DaemonInv, TokensAgree
<1>1. client' \in [Clients -> ClientRecord] /\ Kept(c) /\ client'[c].pc = "done"
  BY <1>0, GoKeeps DEF Stop
<1> QED BY <1>1, DaemonStops DEF Stop

LEMMA SpawnStep ==
  ASSUME DaemonInv, NEW c \in Clients, Spawn(c)
  PROVE  DaemonInv'
<1>0. DaemonTypeOK /\ daemon \in [Daemons -> DaemonRecord]
  BY DEF DaemonInv, TokensAgree, DaemonTypeOK, DaemonRecord
<1>1. client' \in [Clients -> ClientRecord] /\ Kept(c) /\ client'[c].pc = "poll"
  BY <1>0, PollKeeps DEF Spawn
<1> DEFINE new  == [st |-> "starting", token |-> None, build |-> BuildOf[c]]
           free == {d \in Daemons : ~Up(d) /\ \A b \in Clients : client[b].on # d}
<1>2. PICK d \in Daemons : ~Up(d) /\ daemon' = [daemon EXCEPT ![d] = new]
  <2>1. free # {} /\ daemon' = [daemon EXCEPT ![CHOOSE d \in free : TRUE] = new]
    BY DEF Spawn
  <2>2. (CHOOSE d \in free : TRUE) \in free
    BY <2>1
  <2> HIDE DEF new
  <2> QED BY <2>1, <2>2
<1>3. BuildOf[c] \in Builds
  BY DaemonAssumption
<1>4. new \in DaemonRecord /\ new.token = None /\ new.st = "starting"
  BY <1>3 DEF DaemonRecord
<1>5. running[d] = {}
  BY <1>2 DEF DaemonInv, IdleInv, Up
<1> HIDE DEF new, free
<1>6. FileInv' /\ Agree'
  BY <1>0, <1>1, <1>2, <1>4, ClientMoves DEF Spawn
<1>7. IdleInv'
  BY <1>0, <1>2, <1>5 DEF DaemonInv, IdleInv, Spawn
<1>8. DaemonTypeOK'
  <2>1. daemon' \in [Daemons -> DaemonRecord]
    BY <1>0, <1>2, <1>4
  <2> QED BY <1>0, <1>1, <2>1 DEF DaemonTypeOK, ClientRecord, DaemonRecord, Spawn
<1> QED BY <1>6, <1>7, <1>8 DEF DaemonInv, TokensAgree, Agree

LEMMA WaitStep ==
  ASSUME DaemonInv, NEW c \in Clients, Wait(c)
  PROVE  DaemonInv'
<1>0. DaemonTypeOK /\ client \in [Clients -> ClientRecord]
  BY DEF DaemonInv, TokensAgree, DaemonTypeOK, ClientRecord
<1>1. told' \in [Clients -> {"nothing", "unknown", "ended", "lost"}] /\ faults' \in 0..MaxFaults
  BY <1>0 DEF Wait, DaemonTypeOK
<1>2. client' \in [Clients -> ClientRecord] /\ Kept(c) /\ client'[c].pc \in {"ping", "done", "waiting"}
  <2>1. CASE Go(c, "ping") \/ Go(c, "done")
    BY <1>0, <2>1, GoKeeps
  <2>2. CASE \E d \in Daemons : client' = [client EXCEPT ![c].pc = "waiting", ![c].on = d]
    <3>1. PICK d \in Daemons : client' = [client EXCEPT ![c].pc = "waiting", ![c].on = d]
      BY <2>2
    <3>2. /\ client'[c] = [client[c] EXCEPT !.pc = "waiting", !.on = d]
          /\ \A b \in Clients : b # c => client'[b] = client[b]
          /\ client' = [b \in Clients |-> client'[b]]
      BY <1>0, <3>1
    <3>3. client'[c] \in ClientRecord
      BY <1>0, <3>2 DEF ClientRecord
    <3>4. client' \in [Clients -> ClientRecord]
      BY <1>0, <3>2, <3>3
    <3>5. client'[c].token = client[c].token /\ client'[c].pc = "waiting"
      BY <1>0, <3>1 DEF ClientRecord
    <3> QED BY <3>4, <3>2, <3>5 DEF Kept
  <2> QED BY <2>1, <2>2 DEF Wait
<1> QED BY <1>0, <1>1, <1>2, ClientOnly DEF Wait

(* Updates of a client's record at the end of a wait or of the process.    *)
LEMMA LeaveKeeps ==
  ASSUME DaemonTypeOK, NEW c \in Clients, NEW pc \in {"done", "ping", "gone"},
         client' = [client EXCEPT ![c].pc = pc, ![c].on = None]
  PROVE  client' \in [Clients -> ClientRecord] /\ Kept(c) /\ client'[c].pc = pc
<1>1. client \in [Clients -> ClientRecord]
  BY DEF DaemonTypeOK, ClientRecord
<1>2. client' \in [Clients -> ClientRecord]
  <2> DEFINE Pc == {"token", "write", "read", "ping", "shutdown", "drain", "spawn",
                    "poll", "ready", "waiting", "done", "failed", "gone"}
             S == Builds \cup {None}
             T == Clients \cup {None}
             J == DaemonJobs \cup {None}
             O == Daemons \cup {None}
  <2>1. /\ ClientRecord = [pc : Pc, token : T, left : 0..MaxPolls, saw : S, job : J, on : O]
        /\ pc \in Pc /\ None \in O
    BY DEF ClientRecord
  <2> HIDE DEF Pc, S, T, J, O
  <2> QED BY <1>1, <2>1
<1>3. \A b \in Clients : b # c => client'[b] = client[b]
  BY <1>1
<1>4. client'[c].token = client[c].token /\ client'[c].pc = pc
  BY <1>1 DEF ClientRecord
<1> QED BY <1>2, <1>3, <1>4 DEF Kept

LEMMA WaitEndsStep ==
  ASSUME DaemonInv, NEW c \in Clients, WaitEnds(c)
  PROVE  DaemonInv'
<1>0. DaemonTypeOK
  BY DEF DaemonInv, TokensAgree
<1>1. told' \in [Clients -> {"nothing", "unknown", "ended", "lost"}] /\ faults' \in 0..MaxFaults
  BY <1>0 DEF WaitEnds, DaemonTypeOK
<1>2. client' \in [Clients -> ClientRecord] /\ Kept(c) /\ client'[c].pc \in {"ping", "done"}
  BY <1>0, LeaveKeeps DEF WaitEnds
<1> QED BY <1>1, <1>2, ClientOnly DEF WaitEnds

LEMMA ClientCrashStep ==
  ASSUME DaemonInv, NEW c \in Clients, ClientCrash(c)
  PROVE  DaemonInv'
<1>0. DaemonTypeOK
  BY DEF DaemonInv, TokensAgree
<1>1. faults' \in 0..MaxFaults
  BY <1>0, FaultCount DEF ClientCrash
<1>2. client' \in [Clients -> ClientRecord] /\ Kept(c) /\ client'[c].pc = "gone"
  BY <1>0, LeaveKeeps DEF ClientCrash
<1> QED BY <1>0, <1>1, <1>2, ClientOnly DEF ClientCrash, others, DaemonTypeOK

LEMMA StartJobStep ==
  ASSUME DaemonInv, NEW c \in Clients, NEW j \in DaemonJobs, StartJob(c, j)
  PROVE  DaemonInv'
<1>0. DaemonTypeOK /\ client \in [Clients -> ClientRecord]
  BY DEF DaemonInv, TokensAgree, DaemonTypeOK, ClientRecord
<1>1. client' \in [Clients -> ClientRecord] /\ Kept(c) /\ client'[c].pc = "ready"
  BY <1>0 DEF StartJob, ClientRecord, Kept
<1>2. FileInv' /\ Agree'
  BY <1>1, ClientMoves DEF StartJob
<1>3. PICK d \in Daemons : /\ daemon[d].st = "listening"
                           /\ running' = [running EXCEPT ![d] = @ \cup {j}]
                           /\ table' = [table EXCEPT ![d][j] = "running"]
  BY DEF StartJob, Serves
<1>4. IdleInv'
  BY <1>0, <1>3 DEF DaemonInv, IdleInv, StartJob, DaemonTypeOK
<1>5. DaemonTypeOK'
  <2>1. running' \in [Daemons -> SUBSET DaemonJobs] /\ table' \in [Daemons -> Records]
    BY <1>0, <1>3 DEF DaemonTypeOK, Records, States
  <2>2. disk' \in Records
    BY <1>0 DEF StartJob, DaemonTypeOK, Records, States
  <2> QED BY <1>0, <1>1, <2>1, <2>2 DEF DaemonTypeOK, StartJob, ClientRecord
<1> QED BY <1>2, <1>4, <1>5 DEF DaemonInv, TokensAgree, Agree
-----------------------------------------------------------------------------
(* The daemon process.                                                     *)
LEMMA DaemonMoves ==
  ASSUME DaemonInv, UNCHANGED <<file, client>>,
         \A d \in Daemons : daemon'[d].token \in {daemon[d].token, None, file}
  PROVE  FileInv' /\ Agree'
<1>1. FileInv'
  BY DEF DaemonInv, FileInv
<1>2. Agree'
  BY DEF DaemonInv, TokensAgree, Agree
<1> QED BY <1>1, <1>2

LEMMA BootStep ==
  ASSUME DaemonInv, NEW d \in Daemons, Boot(d)
  PROVE  DaemonInv'
<1>0. DaemonTypeOK /\ daemon \in [Daemons -> DaemonRecord] /\ file \in Clients
  BY DEF DaemonInv, TokensAgree, DaemonTypeOK, DaemonRecord, Boot
<1>1. daemon' \in [Daemons -> DaemonRecord]
  BY <1>0 DEF Boot, DaemonRecord
<1>2. \A e \in Daemons : e # d => daemon'[e] = daemon[e]
  BY <1>0 DEF Boot
<1>3. daemon'[d].token = file
  BY <1>0 DEF Boot, DaemonRecord
<1>4. FileInv' /\ Agree'
  BY <1>2, <1>3, DaemonMoves DEF Boot
<1>5. IdleInv'
  BY <1>0, <1>2 DEF DaemonInv, IdleInv, Boot
<1>6. DaemonTypeOK'
  <2>1. disk' \in Records
    BY <1>0 DEF Boot, DaemonTypeOK, Records, States
  <2>2. table' \in [Daemons -> Records]
    BY <1>0, <2>1 DEF Boot, DaemonTypeOK
  <2> QED BY <1>0, <1>1, <2>1, <2>2 DEF DaemonTypeOK, Boot, DaemonRecord
<1> QED BY <1>4, <1>5, <1>6 DEF DaemonInv, TokensAgree, Agree

LEMMA StateStep ==
  ASSUME DaemonInv, NEW d \in Daemons, Listen(d) \/ Exit(d) \/ DaemonCrash(d)
  PROVE  DaemonInv'
<1>0. DaemonTypeOK /\ daemon \in [Daemons -> DaemonRecord]
  BY DEF DaemonInv, TokensAgree, DaemonTypeOK, DaemonRecord
<1>1. /\ daemon' \in [Daemons -> DaemonRecord]
      /\ \A e \in Daemons : daemon'[e].token = daemon[e].token
      /\ \A e \in Daemons : e # d => daemon'[e] = daemon[e]
  BY <1>0 DEF Listen, Exit, DaemonCrash, DaemonRecord
<1>2. FileInv' /\ Agree'
  BY <1>1, DaemonMoves DEF Listen, Exit, DaemonCrash
<1>3. IdleInv'
  BY <1>0, <1>1 DEF DaemonInv, IdleInv, Listen, Exit, DaemonCrash, DaemonTypeOK
<1>4. DaemonTypeOK'
  <2>1. faults' \in 0..MaxFaults
    BY <1>0, FaultCount DEF Listen, Exit, DaemonCrash
  <2>2. socket' \in Daemons \cup {None} /\ running' \in [Daemons -> SUBSET DaemonJobs]
    BY <1>0 DEF DaemonTypeOK, Listen, Exit, DaemonCrash
  <2> QED BY <1>0, <1>1, <2>1, <2>2 DEF DaemonTypeOK, Listen, Exit, DaemonCrash, DaemonRecord
<1> QED BY <1>2, <1>3, <1>4 DEF DaemonInv, TokensAgree, Agree

LEMMA FinishStep ==
  ASSUME DaemonInv, NEW d \in Daemons, NEW j \in DaemonJobs, Finish(d, j)
  PROVE  DaemonInv'
<1>0. DaemonTypeOK
  BY DEF DaemonInv, TokensAgree
<1>1. FileInv' /\ Agree'
  BY DaemonMoves DEF Finish
<1>2. IdleInv'
  BY <1>0 DEF DaemonInv, IdleInv, Finish, DaemonTypeOK
<1>3. DaemonTypeOK'
  <2>1. disk' \in Records /\ table' \in [Daemons -> Records]
    BY <1>0 DEF Finish, DaemonTypeOK, Records, States
  <2> QED BY <1>0, <2>1 DEF DaemonTypeOK, Finish
<1> QED BY <1>1, <1>2, <1>3 DEF DaemonInv, TokensAgree, Agree
-----------------------------------------------------------------------------
LEMMA InitInv == DaemonInit => DaemonInv
<1> SUFFICES ASSUME DaemonInit PROVE DaemonInv
  OBVIOUS
<1>1. client \in [Clients -> ClientRecord]
  BY DaemonAssumption DEF DaemonInit, NewClient, ClientRecord
<1>2. daemon \in [Daemons -> DaemonRecord]
  BY DEF DaemonInit, NoDaemon, DaemonRecord
<1>3. DaemonTypeOK
  BY <1>1, <1>2, DaemonAssumption DEF DaemonInit, DaemonTypeOK, ClientRecord, DaemonRecord, Records, States
<1>4. FileInv /\ Agree /\ IdleInv
  BY DEF DaemonInit, NewClient, NoDaemon, FileInv, Agree, IdleInv
<1> QED BY <1>3, <1>4 DEF DaemonInv, TokensAgree, Agree

LEMMA NextInv ==
  ASSUME DaemonInv, [DaemonNext]_daemonVars
  PROVE  DaemonInv'
<1>1. CASE UNCHANGED daemonVars
  BY <1>1 DEF daemonVars, DaemonInv, TokensAgree, DaemonTypeOK, FileInv, IdleInv
<1>2. ASSUME NEW c \in Clients, ClientStep(c)
      PROVE  DaemonInv'
  BY <1>2, CreateTokenStep, WriteTokenStep, ReadTokenStep, PingStep, ShutdownStep, DrainStep,
     SpawnStep, PollReadyStep, WaitStep, WaitEndsStep DEF ClientStep
<1>3. ASSUME NEW d \in Daemons, DaemonStep(d)
      PROVE  DaemonInv'
  BY <1>3, BootStep, StateStep, FinishStep DEF DaemonStep
<1> QED BY <1>1, <1>2, <1>3, StopStep, ClientCrashStep, StartJobStep, StateStep DEF DaemonNext

(* The inductive invariant holds in every reachable state.                 *)
THEOREM DaemonInvariant == DaemonSpec => []DaemonInv
<1>1. DaemonInv /\ [DaemonNext]_daemonVars => DaemonInv'
  BY NextInv
<1> QED BY InitInv, <1>1, PTL DEF DaemonSpec

(* However many clients try to create the token at once (open with O_EXCL, *)
(* then write), and whichever of them dies in between, every client and    *)
(* every daemon that has a token has the one in the file.                  *)
THEOREM OneToken == DaemonSpec => []TokensAgree
<1>1. DaemonInv => TokensAgree
  BY DEF DaemonInv
<1> QED BY <1>1, DaemonInvariant, PTL

(* A daemon that was told to stop, by an upgrade or by the shutdown tool,  *)
(* runs no job, whatever was started since the client looked.              *)
THEOREM JobsSpared == DaemonSpec => []UpgradeSparesJobs
<1>1. DaemonInv => UpgradeSparesJobs
  BY DEF DaemonInv, IdleInv, UpgradeSparesJobs
<1> QED BY <1>1, DaemonInvariant, PTL

(* compareBuildVersions orders the builds of any two processes that meet   *)
(* as core version, release before prerelease, cachebuster.                *)
LEMMA ComparesRanks ==
  ASSUME NEW a \in Builds, NEW b \in Builds
  PROVE  compareBuildVersions(a, b) =
           IF Rank(a) < Rank(b) THEN 0 ELSE IF Rank(a) = Rank(b) THEN 1 ELSE 2
<1>1. /\ a.core \in {1, 2} /\ a.pre \in 0..2 /\ a.cache \in 0..2
      /\ b.core \in {1, 2} /\ b.pre \in 0..2 /\ b.cache \in 0..2
  BY DEF Builds
<1> QED BY <1>1 DEF compareBuildVersions, compareOptionalIdentifier, Rank

(* The order holds of every client's build and every daemon that runs.     *)
THEOREM BuildsOrdered == DaemonSpec => []CompareIsOrder
<1>1. ASSUME DaemonInv PROVE CompareIsOrder
  <2>1. ASSUME NEW d \in Daemons, daemon[d].build # None
        PROVE  daemon[d].build \in Builds
    BY <1>1, <2>1 DEF DaemonInv, TokensAgree, DaemonTypeOK
  <2> QED BY <2>1, ComparesRanks DEF CompareIsOrder
<1> QED BY <1>1, DaemonInvariant, PTL
-----------------------------------------------------------------------------
(***************************************************************************)
(* Waits, for any jobs, callers, timeouts and limits.  The table of        *)
(* waiters is compared with the promises that are pending: every turn of   *)
(* the event loop that settles a promise takes its caller out of the       *)
(* coordinator, the count and the timer, and no other turn touches them.   *)
(* The number of callers need not be finite: those that wait are.          *)
(***************************************************************************)
Results == {"terminal", "timed out", "changed", "unchanged", "rejected"}
Calls == {Idle} \cup [op : {"wait"}, job : Jobs, until : Nat]
                \cup [op : {"watch"}, job : Jobs, until : Nat, after : Nat]
                \cup [op : {"settled"}, result : Results]

CallInv == call \in [Callers -> Calls]

Waiting == {c \in Callers : call[c].op = "wait"}
Earliest(f, cs) == IF cs = {} THEN 0 ELSE Min({f[c].until : c \in cs})

(* Every pending wait is in the coordinator of its job, in the count and   *)
(* under the timer.                                                        *)
WaitInv ==
  /\ \A j \in Jobs : /\ coord[j] = {c \in Callers : call[c].op = "wait" /\ call[c].job = j}
                     /\ timer[j] = Earliest(call, coord[j])
                     /\ coord[j] # {} => state[j] = "live"
  /\ IsFiniteSet(Waiting) /\ total = Cardinality(Waiting)

(* A change waiter's version is not passed yet, and some answer showed it. *)
(* Until the first crash only the present version was ever shown.          *)
WatchInv ==
  /\ \A j \in Jobs :
       /\ watchers[j] = {c \in Callers : call[c].op = "watch" /\ call[c].job = j}
       /\ version[j] <= known[j]
       /\ \A c \in watchers[j] : version[j] <= call[c].after /\ call[c].after <= known[j]
  /\ crashes = 0 => \A j \in Jobs : /\ known[j] = version[j]
                                    /\ state[j] # "live" => watchers[j] = {}

(* Nobody waits for a process that has ended; it ends without a shutdown   *)
(* only once versions were lost.                                           *)
EndInv ==
  /\ up # "up" => \A c \in Callers : ~Pending(c)
  /\ up \in {"crashed", "killed"} => crashes > 0

IInv == TypeOK /\ CallInv /\ WaitInv /\ WatchInv /\ EndInv
-----------------------------------------------------------------------------
(* The timer: a set of times has an earliest one.                          *)
LEMMA LeastNumber ==
  ASSUME NEW T \in SUBSET Nat, T # {}
  PROVE  \E n \in T : \A m \in T : n <= m
<1> DEFINE R == OpToRel(<, Nat)
<1>1. IsWellFoundedOn(R, Nat)
  BY NatLessThanWellFounded, Zenon
<1>2. \A m, n \in Nat : m < n => <<m, n>> \in R
  BY DEF OpToRel
<1> HIDE DEF R
<1>3. PICK x \in T : \A y \in T : ~(<<y, x>> \in R)
  BY <1>1, WFMin
<1>4. ASSUME NEW y \in T PROVE x <= y
  <2>1. x \in Nat /\ y \in Nat /\ ~(<<y, x>> \in R)
    BY <1>3
  <2>2. ~(y < x)
    BY <1>2, <2>1
  <2> QED BY <2>1, <2>2
<1> QED BY <1>4

LEMMA MinType ==
  ASSUME NEW T \in SUBSET Nat, T # {}
  PROVE  Min(T) \in Nat /\ Min(T) \in T /\ \A m \in T : Min(T) <= m
<1>1. \E n \in T : \A m \in T : n <= m
  BY LeastNumber
<1> QED BY <1>1 DEF Min

LEMMA EarliestType ==
  ASSUME NEW f, NEW cs, \A c \in cs : f[c].until \in Nat
  PROVE  Earliest(f, cs) \in Nat
<1>1. CASE cs = {}
  BY <1>1 DEF Earliest
<1>2. CASE cs # {}
  <2> DEFINE T == {f[c].until : c \in cs}
  <2>1. T \in SUBSET Nat /\ T # {}
    BY <1>2
  <2>2. Earliest(f, cs) = Min(T)
    BY <1>2 DEF Earliest
  <2> HIDE DEF T
  <2> QED BY <2>1, <2>2, MinType
<1> QED BY <1>1, <1>2

LEMMA EarliestSame ==
  ASSUME NEW f, NEW g, NEW cs, \A c \in cs : f[c].until = g[c].until
  PROVE  Earliest(f, cs) = Earliest(g, cs)
<1>1. {f[c].until : c \in cs} = {g[c].until : c \in cs}
  OBVIOUS
<1> QED BY <1>1 DEF Earliest

LEMMA ArmedIsEarliest == \A cs : Armed(cs) = Earliest(call, cs)
  BY DEF Armed, Earliest
-----------------------------------------------------------------------------
(* The promises.                                                           *)
LEMMA CallFields ==
  ASSUME CallInv, NEW c \in Callers
  PROVE  /\ call[c] \in Calls
         /\ call[c].op \in {"idle", "wait", "watch", "settled"}
         /\ call[c].op \in {"wait", "watch"} => call[c].job \in Jobs /\ call[c].until \in Nat
         /\ call[c].op = "watch" => call[c].after \in Nat
  BY DEF CallInv, Calls, Idle

LEMMA AnswerType ==
  ASSUME NEW r \in Results
  PROVE  Answer(r) \in Calls /\ Answer(r).op = "settled" /\ Answer(r).result = r
  BY DEF Answer, Calls

LEMMA IdleType == Idle \in Calls /\ Idle.op = "idle"
  BY DEF Idle, Calls

LEMMA SettledType ==
  ASSUME CallInv, NEW cs, NEW r \in Results, Settled(cs, r)
  PROVE  /\ CallInv' /\ \A c \in Callers : c \notin cs => call'[c] = call[c]
         /\ \A c \in Callers : c \in cs => call'[c].op = "settled" /\ call'[c].result = r
<1>1. \A c \in Callers : call'[c] = IF c \in cs THEN Answer(r) ELSE call[c]
  BY DEF Settled
<1>2. \A c \in Callers : call'[c] \in Calls
  BY <1>1, AnswerType DEF CallInv
<1>3. CallInv'
  BY <1>2 DEF CallInv, Settled
<1> QED BY <1>1, <1>3, AnswerType

LEMMA AnsweredType ==
  ASSUME CallInv, NEW c \in Callers, NEW r \in Results, Answered(c, r)
  PROVE  /\ CallInv' /\ \A d \in Callers : d # c => call'[d] = call[d]
         /\ call'[c].op = "settled" /\ call'[c].result = r
  BY AnswerType DEF CallInv, Answered

(* A turn that leaves the waits alone.                                     *)
LEMMA WaitSame ==
  ASSUME IInv, CallInv', UNCHANGED <<coord, timer, total>>,
         \A c \in Callers : call[c].op = "wait" \/ call'[c].op = "wait" => call'[c] = call[c],
         \A j \in Jobs : state[j] = "live" /\ coord[j] # {} => state'[j] = "live"
  PROVE  WaitInv'
<1>0. WaitInv
  BY DEF IInv
<1>1. \A j \in Jobs : coord'[j] = {c \in Callers : call'[c].op = "wait" /\ call'[c].job = j}
  BY <1>0 DEF WaitInv
<1>2. ASSUME NEW j \in Jobs
      PROVE  timer'[j] = Earliest(call', coord'[j]) /\ (coord'[j] # {} => state'[j] = "live")
  <2>1. \A c \in coord[j] : call[c].until = call'[c].until
    BY <1>0 DEF WaitInv
  <2>2. Earliest(call, coord[j]) = Earliest(call', coord[j])
    BY <2>1, EarliestSame
  <2> QED BY <1>0, <2>2 DEF WaitInv
<1>3. Waiting' = Waiting
  BY DEF Waiting
<1> QED BY <1>0, <1>1, <1>2, <1>3 DEF WaitInv

(* removeWaiter for some waiters of one job, whose promises are settled.   *)
LEMMA WaitRemoved ==
  ASSUME IInv, CallInv', NEW j \in Jobs, NEW cs \in SUBSET coord[j], Removed(j, cs),
         \A c \in Callers : c \in cs => call'[c].op = "settled",
         \A c \in Callers : c \notin cs /\ (call[c].op = "wait" \/ call'[c].op = "wait") => call'[c] = call[c],
         \A k \in Jobs : state[k] = "live" /\ coord[k] # {} /\ (k = j => coord[j] # cs) => state'[k] = "live"
  PROVE  /\ WaitInv' /\ coord' \in [Jobs -> SUBSET Callers] /\ timer' \in [Jobs -> Nat] /\ total' \in Nat
<1>0. /\ WaitInv /\ TypeOK /\ coord \in [Jobs -> SUBSET Callers] /\ timer \in [Jobs -> Nat] /\ total \in Nat
      /\ CallInv
  BY DEF IInv, TypeOK
<1>1. /\ coord' \in [Jobs -> SUBSET Callers] /\ coord'[j] = coord[j] \ cs
      /\ \A k \in Jobs : k # j => coord'[k] = coord[k]
      /\ timer'[j] = Earliest(call, coord[j] \ cs) /\ \A k \in Jobs : k # j => timer'[k] = timer[k]
      /\ total' = total - Cardinality(cs)
  BY <1>0, ArmedIsEarliest DEF Removed
<1>2. \A k \in Jobs : coord'[k] = {c \in Callers : call'[c].op = "wait" /\ call'[c].job = k}
  <2> SUFFICES ASSUME NEW k \in Jobs, NEW c \in Callers
               PROVE  c \in coord'[k] <=> call'[c].op = "wait" /\ call'[c].job = k
    BY <1>1
  <2>1. c \in coord[k] <=> call[c].op = "wait" /\ call[c].job = k
    BY <1>0 DEF WaitInv
  <2>2. CASE c \in cs
    <3>1. call[c].job = j
      BY <1>0, <2>2 DEF WaitInv
    <3> QED BY <1>1, <2>1, <2>2, <3>1
  <2>3. CASE c \notin cs
    BY <1>1, <2>1, <2>3
  <2> QED BY <2>2, <2>3
<1>3. ASSUME NEW k \in Jobs
      PROVE  /\ timer'[k] = Earliest(call', coord'[k]) /\ timer'[k] \in Nat
             /\ coord'[k] # {} => state'[k] = "live"
  <2>1. \A c \in coord'[k] : c \in Callers /\ c \in coord[k] /\ c \notin cs
    <3>1. CASE k = j
      BY <1>0, <1>1, <3>1
    <3>2. CASE k # j
      <4>1. \A c \in cs : call[c].job = j
        BY <1>0 DEF WaitInv
      <4>2. \A c \in coord[k] : call[c].job = k
        BY <1>0 DEF WaitInv
      <4> QED BY <1>0, <1>1, <3>2, <4>1, <4>2
    <3> QED BY <3>1, <3>2
  <2>2. \A c \in coord'[k] : call[c].op = "wait" /\ call[c].until = call'[c].until
    BY <1>0, <2>1 DEF WaitInv
  <2>3. \A c \in coord'[k] : call[c].until \in Nat
    BY <1>0, <2>1, <2>2, CallFields
  <2>4. timer'[k] = Earliest(call, coord'[k])
    BY <1>0, <1>1 DEF WaitInv
  <2>5. Earliest(call, coord'[k]) = Earliest(call', coord'[k]) /\ Earliest(call, coord'[k]) \in Nat
    BY <2>2, <2>3, EarliestSame, EarliestType
  <2>6. coord'[k] # {} => state'[k] = "live"
    BY <1>0, <1>1 DEF WaitInv
  <2> QED BY <2>4, <2>5, <2>6
<1>4. Waiting' = Waiting \ cs /\ cs \subseteq Waiting
  <2>1. cs \subseteq Waiting
    BY <1>0 DEF WaitInv, Waiting
  <2> QED BY <2>1 DEF Waiting
<1>5. Waiting \cap cs = cs /\ IsFiniteSet(Waiting) /\ total = Cardinality(Waiting)
  BY <1>0, <1>4 DEF WaitInv
<1>6. /\ IsFiniteSet(Waiting \ cs) /\ Cardinality(Waiting \ cs) = Cardinality(Waiting) - Cardinality(cs)
      /\ Cardinality(Waiting \ cs) \in Nat
  <2>1. /\ IsFiniteSet(Waiting \ cs)
        /\ Cardinality(Waiting \ cs) = Cardinality(Waiting) - Cardinality(Waiting \cap cs)
    BY <1>5, FS_Difference, Zenon
  <2>2. Cardinality(Waiting \ cs) \in Nat
    BY <2>1, FS_CardinalityType, Zenon
  <2> QED BY <1>5, <2>1, <2>2
<1>7. IsFiniteSet(Waiting') /\ total' = Cardinality(Waiting') /\ total' \in Nat
  BY <1>1, <1>4, <1>5, <1>6
<1>8. timer' \in [Jobs -> Nat]
  <2>1. PICK t : t = Armed(coord[j] \ cs) /\ timer' = [timer EXCEPT ![j] = t]
    BY DEF Removed
  <2>2. timer'[j] = t /\ timer'[j] \in Nat
    BY <1>0, <1>3, <2>1
  <2> QED BY <1>0, <2>1, <2>2
<1>9. WaitInv'
  BY <1>2, <1>3, <1>7 DEF WaitInv
<1> QED BY <1>1, <1>7, <1>8, <1>9
(* A turn that leaves the change waiters alone.                            *)
LEMMA WatchSame ==
  ASSUME IInv, CallInv', UNCHANGED <<watchers, version, known, crashes>>,
         \A c \in Callers : call[c].op = "watch" \/ call'[c].op = "watch" => call'[c] = call[c],
         \A j \in Jobs : state[j] = "live" /\ watchers[j] # {} => state'[j] = "live"
  PROVE  WatchInv'
<1>0. WatchInv
  BY DEF IInv
<1>1. \A j \in Jobs : watchers'[j] = {c \in Callers : call'[c].op = "watch" /\ call'[c].job = j}
  BY <1>0 DEF WatchInv
<1>2. \A j \in Jobs : \A c \in watchers[j] : call'[c] = call[c]
  BY <1>0 DEF WatchInv
<1>3. \A j \in Jobs : \A c \in watchers'[j] : version'[j] <= call'[c].after /\ call'[c].after <= known'[j]
  BY <1>0, <1>2 DEF WatchInv
<1>4. crashes' = 0 => \A j \in Jobs : known'[j] = version'[j] /\ (state'[j] # "live" => watchers'[j] = {})
  BY <1>0 DEF WatchInv
<1> QED BY <1>0, <1>1, <1>3, <1>4 DEF WatchInv

(* finish of one change waiter.                                            *)
LEMMA WatchRemoved ==
  ASSUME IInv, CallInv', NEW c \in Callers, call[c].op = "watch", call'[c].op = "settled",
         watchers' = [watchers EXCEPT ![call[c].job] = @ \ {c}],
         \A d \in Callers : d # c => call'[d] = call[d], UNCHANGED <<state, version, known, crashes>>
  PROVE  WatchInv' /\ watchers' \in [Jobs -> SUBSET Callers]
<1> DEFINE j == call[c].job
<1>0. WatchInv /\ CallInv /\ watchers \in [Jobs -> SUBSET Callers] /\ j \in Jobs
  BY CallFields DEF IInv, TypeOK
<1> HIDE DEF j
<1>1. /\ watchers' \in [Jobs -> SUBSET Callers] /\ watchers'[j] = watchers[j] \ {c}
      /\ \A k \in Jobs : k # j => watchers'[k] = watchers[k]
  BY <1>0 DEF j
<1>2. \A k \in Jobs : watchers'[k] = {d \in Callers : call'[d].op = "watch" /\ call'[d].job = k}
  <2> SUFFICES ASSUME NEW k \in Jobs, NEW d \in Callers
               PROVE  d \in watchers'[k] <=> call'[d].op = "watch" /\ call'[d].job = k
    BY <1>1
  <2>1. d \in watchers[k] <=> call[d].op = "watch" /\ call[d].job = k
    BY <1>0 DEF WatchInv
  <2> QED BY <1>1, <2>1 DEF j
<1>3. \A k \in Jobs : \A d \in watchers'[k] : d \in watchers[k] /\ d \in Callers /\ call'[d] = call[d]
  BY <1>0, <1>1, <1>2
<1>4. \A k \in Jobs : \A d \in watchers'[k] : version'[k] <= call'[d].after /\ call'[d].after <= known'[k]
  BY <1>0, <1>3 DEF WatchInv
<1>5. crashes' = 0 => \A k \in Jobs : known'[k] = version'[k] /\ (state'[k] # "live" => watchers'[k] = {})
  BY <1>0, <1>1 DEF WatchInv
<1> QED BY <1>0, <1>1, <1>2, <1>4, <1>5 DEF WatchInv

(* changed: whoever's version is passed is woken.  While no version was    *)
(* lost that is everyone.                                                  *)
LEMMA WatchWoken ==
  ASSUME IInv, CallInv', NEW j \in Jobs, version' = [version EXCEPT ![j] = @ + 1],
         known' = [known EXCEPT ![j] = IF @ > version[j] THEN @ ELSE version[j] + 1],
         watchers' = [watchers EXCEPT ![j] = @ \ Woken(j)],
         \A c \in Callers : c \in Woken(j) => call'[c].op = "settled",
         \A c \in Callers : c \notin Woken(j) /\ (call[c].op = "watch" \/ call'[c].op = "watch")
           => call'[c] = call[c],
         \A k \in Jobs : k # j /\ state[k] = "live" => state'[k] = "live", UNCHANGED crashes
  PROVE  /\ WatchInv' /\ watchers' \in [Jobs -> SUBSET Callers]
         /\ version' \in [Jobs -> Nat] /\ known' \in [Jobs -> Nat]
<1>0. /\ WatchInv /\ CallInv /\ watchers \in [Jobs -> SUBSET Callers]
      /\ version \in [Jobs -> Nat] /\ known \in [Jobs -> Nat]
  BY DEF IInv, TypeOK
<1>1. /\ watchers' \in [Jobs -> SUBSET Callers] /\ watchers'[j] = watchers[j] \ Woken(j)
      /\ \A k \in Jobs : k # j => watchers'[k] = watchers[k] /\ version'[k] = version[k] /\ known'[k] = known[k]
      /\ version' \in [Jobs -> Nat] /\ known' \in [Jobs -> Nat] /\ version'[j] = version[j] + 1
      /\ known'[j] = IF known[j] > version[j] THEN known[j] ELSE version[j] + 1
  BY <1>0
<1>2. \A c \in Callers : c \in Woken(j) <=> c \in watchers[j] /\ version[j] + 1 > call[c].after
  BY <1>0 DEF Woken
<1>3. \A k \in Jobs : watchers'[k] = {d \in Callers : call'[d].op = "watch" /\ call'[d].job = k}
  <2> SUFFICES ASSUME NEW k \in Jobs, NEW d \in Callers
               PROVE  d \in watchers'[k] <=> call'[d].op = "watch" /\ call'[d].job = k
    BY <1>1
  <2>1. /\ d \in watchers[k] <=> call[d].op = "watch" /\ call[d].job = k
        /\ d \in watchers[j] => call[d].job = j
    BY <1>0 DEF WatchInv
  <2>2. CASE d \in Woken(j)
    BY <1>1, <1>2, <2>1, <2>2
  <2>3. CASE d \notin Woken(j)
    BY <1>1, <2>1, <2>3
  <2> QED BY <2>2, <2>3
<1>4. ASSUME NEW k \in Jobs, NEW d \in watchers'[k]
      PROVE  version'[k] <= call'[d].after /\ call'[d].after <= known'[k]
  <2>1. /\ d \in watchers[k] /\ d \in Callers /\ d \notin Woken(j) /\ call[d].op = "watch"
        /\ version[k] <= call[d].after /\ call[d].after <= known[k] /\ call[d].after \in Nat
    <3>1. d \in Callers /\ call'[d].op = "watch"
      BY <1>3, <1>4
    <3>2. d \notin Woken(j)
      BY <3>1
    <3>3. d \in watchers[k]
      BY <1>1, <1>4
    <3>4. call[d].op = "watch"
      BY <1>0, <3>3 DEF WatchInv
    <3> QED BY <1>0, <3>1, <3>2, <3>3, <3>4, CallFields DEF WatchInv
  <2>2. call'[d] = call[d]
    BY <2>1
  <2>3. CASE k = j
    BY <1>0, <1>1, <1>2, <2>1, <2>2, <2>3
  <2>4. CASE k # j
    BY <1>1, <2>1, <2>2, <2>4
  <2> QED BY <2>3, <2>4
<1>5. \A k \in Jobs : version'[k] <= known'[k]
  BY <1>0, <1>1 DEF WatchInv
<1>6. ASSUME crashes' = 0, NEW k \in Jobs
      PROVE  known'[k] = version'[k] /\ (state'[k] # "live" => watchers'[k] = {})
  <2>1. known[k] = version[k] /\ (state[k] # "live" => watchers[k] = {})
    BY <1>0, <1>6 DEF WatchInv
  <2>2. CASE k = j
    <3>1. \A d \in watchers[j] : d \in Callers /\ call[d].op = "watch" /\ call[d].after <= version[j]
      BY <1>0, <2>1, <2>2 DEF WatchInv
    <3>2. \A d \in watchers[j] : call[d].after \in Nat
      BY <1>0, <3>1, CallFields
    <3>3. \A d \in watchers[j] : d \in Woken(j)
      BY <1>0, <1>2, <3>1, <3>2
    <3> QED BY <1>0, <1>1, <2>1, <2>2, <3>3
  <2>3. CASE k # j
    BY <1>1, <2>1, <2>3
  <2> QED BY <2>2, <2>3
<1> QED BY <1>1, <1>3, <1>4, <1>5, <1>6 DEF WatchInv

(* The process ends, and all its promises with it.                         *)
LEMMA EndsKeep ==
  ASSUME IInv, NEW how, ProcessEnds(how), UNCHANGED <<version, known>>, crashes' = 0 => crashes = 0
  PROVE  /\ CallInv' /\ WaitInv' /\ WatchInv' /\ \A c \in Callers : call'[c].op \notin {"wait", "watch"}
         /\ coord' \in [Jobs -> SUBSET Callers] /\ watchers' \in [Jobs -> SUBSET Callers]
         /\ timer' \in [Jobs -> Nat] /\ total' = 0
<1> DEFINE cs == {c \in Callers : Pending(c)}
<1>0. WatchInv /\ CallInv /\ "rejected" \in Results
  BY DEF IInv, Results
<1>1. Settled(cs, "rejected")
  BY DEF ProcessEnds
<1>2. CallInv' /\ (\A c \in Callers : c \notin cs => call'[c] = call[c])
      /\ \A c \in Callers : c \in cs => call'[c].op = "settled"
  BY <1>0, <1>1, SettledType
<1>3. \A c \in Callers : call'[c].op \notin {"wait", "watch"}
  BY <1>2 DEF Pending
<1>4. /\ coord' = [j \in Jobs |-> {}] /\ timer' = [j \in Jobs |-> 0] /\ total' = 0
      /\ watchers' = [j \in Jobs |-> {}]
  BY DEF ProcessEnds
<1>5. Waiting' = {}
  BY <1>3 DEF Waiting
<1>6. IsFiniteSet(Waiting') /\ total' = Cardinality(Waiting')
  BY <1>4, <1>5, FS_EmptySet
<1>7. WaitInv'
  BY <1>3, <1>4, <1>6 DEF WaitInv, Earliest
<1>8. WatchInv'
  BY <1>0, <1>3, <1>4 DEF WatchInv
<1> QED BY <1>2, <1>3, <1>4, <1>7, <1>8
-----------------------------------------------------------------------------
(* One lemma for each turn of the event loop.                              *)
LEMMA OpsType ==
  ASSUME CallInv'
  PROVE  \A c \in Callers : call'[c].op \in {"idle", "wait", "watch", "settled"}
  BY DEF CallInv, Calls, Idle

LEMMA Parts == IInv <=> TypeOK /\ CallInv /\ WaitInv /\ WatchInv /\ EndInv
  BY DEF IInv

(* A caller that is answered at once.                                      *)
LEMMA AnsweredKeeps ==
  ASSUME IInv, NEW c \in Callers, call[c] = Idle, NEW r \in Results, Answered(c, r), up = "up",
         UNCHANGED <<jobVars, coord, timer, total, watchers, now, up, crashes>>
  PROVE  IInv'
<1>0. TypeOK /\ CallInv /\ EndInv /\ UNCHANGED <<state, version, saved, known, ended>> /\ call[c].op = "idle"
  BY Parts, IdleType DEF jobVars
<1>1. /\ CallInv' /\ \A d \in Callers : d # c => call'[d] = call[d]
      /\ call'[c].op = "settled"
  BY <1>0, AnsweredType
<1>2. WaitInv' /\ WatchInv'
  BY <1>0, <1>1, WaitSame, WatchSame
<1>3. TypeOK'
  BY <1>0, <1>1, OpsType DEF TypeOK
<1>4. EndInv'
  BY <1>0 DEF EndInv
<1> QED BY <1>1, <1>2, <1>3, <1>4 DEF IInv

LEMMA WaitAdded ==
  ASSUME IInv, NEW c \in Callers, NEW j \in Jobs, call[c] = Idle, up = "up", state[j] = "live",
         call' = [call EXCEPT ![c] = [op |-> "wait", job |-> j, until |-> now + Timeout[c]]],
         coord' = [coord EXCEPT ![j] = @ \cup {c}], total' = total + 1,
         timer' = [timer EXCEPT ![j] = Min({now + Timeout[c]} \cup {call[d].until : d \in coord[j]})],
         UNCHANGED <<jobVars, watchers, now, up, crashes>>
  PROVE  IInv'
<1>0. /\ TypeOK /\ CallInv /\ WaitInv /\ EndInv /\ UNCHANGED <<state, version, saved, known, ended>>
      /\ call[c].op = "idle" /\ coord \in [Jobs -> SUBSET Callers] /\ timer \in [Jobs -> Nat]
      /\ total \in Nat
  BY Parts, IdleType DEF jobVars, TypeOK
<1>1. PICK t : t = now + Timeout[c] /\ t \in Nat
  BY <1>0, WaitsAssumption DEF TypeOK
<1>2. PICK r : /\ r = [op |-> "wait", job |-> j, until |-> t] /\ call' = [call EXCEPT ![c] = r]
               /\ r \in Calls /\ r.op = "wait" /\ r.job = j /\ r.until = t
  <2>1. PICK r : r = [op |-> "wait", job |-> j, until |-> t]
    OBVIOUS
  <2>2. call' = [call EXCEPT ![c] = r]
    BY <1>1, <2>1
  <2>3. r \in Calls /\ r.op = "wait" /\ r.job = j /\ r.until = t
    BY <1>1, <2>1 DEF Calls
  <2> QED BY <2>1, <2>2, <2>3, Zenon
<1>3. /\ CallInv' /\ call'[c] = r /\ \A d \in Callers : d # c => call'[d] = call[d]
  BY <1>0, <1>2 DEF CallInv
<1>4. /\ coord' \in [Jobs -> SUBSET Callers] /\ coord'[j] = coord[j] \cup {c}
      /\ \A k \in Jobs : k # j => coord'[k] = coord[k]
  BY <1>0
<1>5. \A k \in Jobs : coord'[k] = {d \in Callers : call'[d].op = "wait" /\ call'[d].job = k}
  <2> SUFFICES ASSUME NEW k \in Jobs, NEW d \in Callers
               PROVE  d \in coord'[k] <=> call'[d].op = "wait" /\ call'[d].job = k
    BY <1>4
  <2>1. d \in coord[k] <=> call[d].op = "wait" /\ call[d].job = k
    BY <1>0 DEF WaitInv
  <2> QED BY <1>0, <1>2, <1>3, <1>4, <2>1
<1>6. \A k \in Jobs : \A d \in coord[k] : d \in Callers /\ d # c /\ call'[d] = call[d] /\ call[d].until \in Nat
  <2>1. \A k \in Jobs : \A d \in coord[k] : d \in Callers /\ call[d].op = "wait"
    BY <1>0 DEF WaitInv
  <2> QED BY <1>0, <1>3, <2>1, CallFields
<1>7. timer' \in [Jobs -> Nat] /\ \A k \in Jobs : timer'[k] = Earliest(call', coord'[k])
  <2> DEFINE U == {t} \cup {call[d].until : d \in coord[j]}
  <2>1. U = {call'[d].until : d \in coord'[j]}
    BY <1>2, <1>3, <1>4, <1>6
  <2>2. U \in SUBSET Nat /\ U # {}
    BY <1>1, <1>6
  <2>3. Min(U) \in Nat
    BY <2>2, MinType
  <2>4. timer' = [timer EXCEPT ![j] = Min(U)]
    BY <1>1
  <2>5. Earliest(call', coord'[j]) = Min(U)
    BY <1>4, <2>1 DEF Earliest
  <2> HIDE DEF U
  <2>6. \A k \in Jobs : k # j => Earliest(call', coord'[k]) = timer[k]
    <3> SUFFICES ASSUME NEW k \in Jobs, k # j PROVE Earliest(call', coord'[k]) = timer[k]
      OBVIOUS
    <3>1. \A d \in coord[k] : call[d].until = call'[d].until
      BY <1>6
    <3>2. Earliest(call, coord[k]) = Earliest(call', coord[k])
      <4>1. \A f, g, cs : (\A d \in cs : f[d].until = g[d].until) => Earliest(f, cs) = Earliest(g, cs)
        BY EarliestSame
      <4>2. PICK f, g, cs : f = call /\ g = call' /\ cs = coord[k]
        OBVIOUS
      <4>3. \A d \in cs : f[d].until = g[d].until
        BY <3>1, <4>2
      <4>4. Earliest(f, cs) = Earliest(g, cs)
        BY <4>1, <4>3
      <4> QED BY <4>2, <4>4
    <3> QED BY <1>0, <1>4, <3>2 DEF WaitInv
  <2> QED BY <1>0, <2>3, <2>4, <2>5, <2>6
<1>8. IsFiniteSet(Waiting') /\ total' = Cardinality(Waiting') /\ total' \in Nat
  <2>1. c \notin Waiting /\ Waiting' = Waiting \cup {c}
    BY <1>0, <1>2, <1>3 DEF Waiting
  <2>2. IsFiniteSet(Waiting) /\ total = Cardinality(Waiting)
    BY <1>0 DEF WaitInv
  <2>3. /\ IsFiniteSet(Waiting \cup {c})
        /\ Cardinality(Waiting \cup {c}) = IF c \in Waiting THEN Cardinality(Waiting) ELSE Cardinality(Waiting) + 1
    BY <2>2, FS_AddElement, Zenon
  <2> QED BY <1>0, <2>1, <2>2, <2>3
<1>9. WaitInv'
  <2>1. \A k \in Jobs : coord'[k] # {} => state'[k] = "live"
    BY <1>0, <1>4 DEF WaitInv
  <2> QED BY <1>5, <1>7, <1>8, <2>1 DEF WaitInv
<1>10. WatchInv'
  BY <1>0, <1>2, <1>3, WatchSame
<1>11. TypeOK'
  BY <1>0, <1>3, <1>4, <1>7, <1>8, OpsType DEF TypeOK
<1>12. EndInv'
  BY <1>0 DEF EndInv
<1> QED BY <1>3, <1>9, <1>10, <1>11, <1>12 DEF IInv

LEMMA WaitForTerminalKeeps ==
  ASSUME IInv, NEW c \in Callers, NEW j \in Jobs, waitForTerminal(c, j)
  PROVE  IInv'
<1>0. /\ up = "up" /\ call[c] = Idle /\ UNCHANGED <<jobVars, watchers, now, up, crashes>>
      /\ {"rejected", "terminal"} \subseteq Results
  BY DEF waitForTerminal, Results
<1>1. CASE \E r \in {"rejected", "terminal"} : Answered(c, r) /\ UNCHANGED <<coord, timer, total>>
  BY <1>0, <1>1, AnsweredKeeps
<1>2. CASE ~\E r \in {"rejected", "terminal"} : Answered(c, r) /\ UNCHANGED <<coord, timer, total>>
  <2>1. /\ state[j] = "live"
        /\ call' = [call EXCEPT ![c] = [op |-> "wait", job |-> j, until |-> now + Timeout[c]]]
        /\ coord' = [coord EXCEPT ![j] = @ \cup {c}] /\ total' = total + 1
        /\ timer' = [timer EXCEPT ![j] = Min({now + Timeout[c]} \cup {call[d].until : d \in coord[j]})]
    BY <1>2 DEF waitForTerminal
  <2> QED BY <1>0, <2>1, WaitAdded
<1> QED BY <1>1, <1>2
LEMMA WatchAdded ==
  ASSUME IInv, NEW c \in Callers, NEW j \in Jobs, call[c] = Idle, up = "up",
         NEW v \in {0, version[j], known[j]}, Watchable(j, v),
         call' = [call EXCEPT ![c] = [op |-> "watch", job |-> j, until |-> now + Timeout[c], after |-> v]],
         watchers' = [watchers EXCEPT ![j] = @ \cup {c}],
         UNCHANGED <<jobVars, coord, timer, total, now, up, crashes>>
  PROVE  IInv'
<1>0. /\ TypeOK /\ CallInv /\ WatchInv /\ EndInv /\ UNCHANGED <<state, version, saved, known, ended>>
      /\ call[c].op = "idle" /\ watchers \in [Jobs -> SUBSET Callers]
      /\ version \in [Jobs -> Nat] /\ known \in [Jobs -> Nat]
  BY Parts, IdleType DEF jobVars, TypeOK
<1>1. PICK t : t = now + Timeout[c] /\ t \in Nat
  BY <1>0, WaitsAssumption DEF TypeOK
<1>2. v \in Nat /\ version[j] <= v /\ v <= known[j] /\ state[j] = "live"
  BY <1>0 DEF Watchable, WatchInv
<1>3. PICK r : r = [op |-> "watch", job |-> j, until |-> t, after |-> v]
  OBVIOUS
<1>4. call' = [call EXCEPT ![c] = r]
  BY <1>1, <1>3
<1>5. r \in Calls /\ r.op = "watch" /\ r.job = j /\ r.after = v
  BY <1>1, <1>2, <1>3 DEF Calls
<1>6. CallInv' /\ call'[c] = r /\ \A d \in Callers : d # c => call'[d] = call[d]
  BY <1>0, <1>4, <1>5 DEF CallInv
<1>7. /\ watchers' \in [Jobs -> SUBSET Callers] /\ watchers'[j] = watchers[j] \cup {c}
      /\ \A k \in Jobs : k # j => watchers'[k] = watchers[k]
  BY <1>0
<1>8. \A k \in Jobs : watchers'[k] = {d \in Callers : call'[d].op = "watch" /\ call'[d].job = k}
  <2> SUFFICES ASSUME NEW k \in Jobs, NEW d \in Callers
               PROVE  d \in watchers'[k] <=> call'[d].op = "watch" /\ call'[d].job = k
    BY <1>7
  <2>1. d \in watchers[k] <=> call[d].op = "watch" /\ call[d].job = k
    BY <1>0 DEF WatchInv
  <2> QED BY <1>0, <1>5, <1>6, <1>7, <2>1
<1>9. ASSUME NEW k \in Jobs, NEW d \in watchers'[k]
      PROVE  version'[k] <= call'[d].after /\ call'[d].after <= known'[k]
  <2>1. CASE d = c
    <3>1. k = j
      BY <1>5, <1>6, <1>8, <1>9, <2>1
    <3> QED BY <1>0, <1>2, <1>5, <1>6, <2>1, <3>1
  <2>2. CASE d # c
    <3>1. d \in watchers[k] /\ d \in Callers
      BY <1>0, <1>7, <1>9, <2>2
    <3> QED BY <1>0, <1>6, <2>2, <3>1 DEF WatchInv
  <2> QED BY <2>1, <2>2
<1>10. crashes' = 0 => \A k \in Jobs : known'[k] = version'[k] /\ (state'[k] # "live" => watchers'[k] = {})
  BY <1>0, <1>2, <1>7 DEF WatchInv
<1>11. WatchInv'
  BY <1>0, <1>8, <1>9, <1>10 DEF WatchInv
<1>12. WaitInv'
  BY <1>0, <1>5, <1>6, WaitSame
<1>13. TypeOK'
  BY <1>0, <1>6, <1>7, OpsType DEF TypeOK
<1>14. EndInv'
  BY <1>0 DEF EndInv
<1> QED BY <1>6, <1>11, <1>12, <1>13, <1>14 DEF IInv

LEMMA WatchForChangeKeeps ==
  ASSUME IInv, NEW c \in Callers, NEW j \in Jobs, NEW v \in {0, version[j], known[j]}, watchForChange(c, j, v)
  PROVE  IInv'
<1>0. /\ up = "up" /\ call[c] = Idle /\ UNCHANGED <<jobVars, coord, timer, total, now, up, crashes>>
      /\ {"rejected", "changed"} \subseteq Results
  BY DEF watchForChange, Results
<1>1. CASE \E r \in {"rejected", "changed"} : Answered(c, r) /\ UNCHANGED watchers
  BY <1>0, <1>1, AnsweredKeeps
<1>2. CASE ~\E r \in {"rejected", "changed"} : Answered(c, r) /\ UNCHANGED watchers
  <2>1. /\ Watchable(j, v) /\ watchers' = [watchers EXCEPT ![j] = @ \cup {c}]
        /\ call' = [call EXCEPT ![c] = [op |-> "watch", job |-> j, until |-> now + Timeout[c], after |-> v]]
    BY <1>2 DEF watchForChange
  <2> QED BY <1>0, <2>1, WatchAdded
<1> QED BY <1>1, <1>2

LEMMA AbortKeeps ==
  ASSUME IInv, NEW c \in Callers, Abort(c)
  PROVE  IInv'
<1>0. /\ TypeOK /\ CallInv /\ WaitInv /\ EndInv /\ up = "up" /\ "rejected" \in Results
      /\ UNCHANGED <<state, version, saved, known, ended, now, up, crashes>> /\ Settled({c}, "rejected")
      /\ call[c].op \in {"wait", "watch"} /\ call[c].job \in Jobs
  BY Parts, CallFields DEF Abort, Pending, jobVars, Results
<1>1. /\ CallInv' /\ \A d \in Callers : d # c => call'[d] = call[d]
      /\ call'[c].op = "settled"
  BY <1>0, SettledType
<1>2. EndInv'
  BY <1>0 DEF EndInv
<1>3. CASE call[c].op = "wait"
  <2>1. Removed(call[c].job, {c}) /\ UNCHANGED watchers
    BY <1>3 DEF Abort
  <2>2. {c} \in SUBSET coord[call[c].job]
    BY <1>0, <1>3 DEF WaitInv
  <2>3. WaitInv' /\ coord' \in [Jobs -> SUBSET Callers] /\ timer' \in [Jobs -> Nat] /\ total' \in Nat
    BY <1>0, <1>1, <2>1, <2>2, WaitRemoved
  <2>4. WatchInv'
    BY <1>0, <1>1, <1>3, <2>1, WatchSame
  <2>5. TypeOK'
    BY <1>0, <1>1, <2>1, <2>3, OpsType DEF TypeOK
  <2> QED BY <1>1, <1>2, <2>3, <2>4, <2>5 DEF IInv
<1>4. CASE call[c].op = "watch"
  <2>1. watchers' = [watchers EXCEPT ![call[c].job] = @ \ {c}] /\ UNCHANGED <<coord, timer, total>>
    BY <1>4 DEF Abort
  <2>2. WatchInv' /\ watchers' \in [Jobs -> SUBSET Callers]
    BY <1>0, <1>1, <1>4, <2>1, WatchRemoved
  <2>3. WaitInv'
    BY <1>0, <1>1, <1>4, <2>1, WaitSame
  <2>4. TypeOK'
    BY <1>0, <1>1, <2>1, <2>2, OpsType DEF TypeOK
  <2> QED BY <1>1, <1>2, <2>2, <2>3, <2>4 DEF IInv
<1> QED BY <1>0, <1>3, <1>4

LEMMA ExpireKeeps ==
  ASSUME IInv, NEW j \in Jobs, expireWaiters(j)
  PROVE  IInv'
<1>0. /\ TypeOK /\ CallInv /\ WaitInv /\ EndInv /\ up = "up" /\ "timed out" \in Results
      /\ UNCHANGED <<state, version, saved, known, ended, now, up, crashes, watchers>>
      /\ Settled(Due(j), "timed out") /\ Removed(j, Due(j)) /\ Due(j) \in SUBSET coord[j]
  BY Parts DEF expireWaiters, jobVars, Results, Due
<1>1. /\ CallInv' /\ \A d \in Callers : d \notin Due(j) => call'[d] = call[d]
      /\ \A d \in Callers : d \in Due(j) => call'[d].op = "settled"
  BY <1>0, SettledType
<1>2. \A d \in Due(j) : call[d].op = "wait"
  BY <1>0 DEF WaitInv
<1>3. WaitInv' /\ coord' \in [Jobs -> SUBSET Callers] /\ timer' \in [Jobs -> Nat] /\ total' \in Nat
  BY <1>0, <1>1, WaitRemoved
<1>4. WatchInv'
  BY <1>0, <1>1, <1>2, WatchSame
<1>5. TypeOK' /\ EndInv'
  BY <1>0, <1>1, <1>3, OpsType DEF TypeOK, EndInv
<1> QED BY <1>1, <1>3, <1>4, <1>5 DEF IInv

(* A process that is killed by a timer or a late change has crashed once   *)
(* before: only then does a change waiter outlive its job.                 *)
LEMMA KilledKeeps ==
  ASSUME IInv, up = "up", NEW how \in {"killed", "crashed", "disposed"}, ProcessEnds(how),
         UNCHANGED <<state, version, known, ended, now>>, saved' \in [Jobs -> Nat], crashes' \in Nat,
         crashes' = 0 => crashes = 0, how \in {"crashed", "killed"} => crashes' > 0
  PROVE  IInv'
<1>0. TypeOK /\ up' = how
  BY Parts DEF ProcessEnds
<1>1. /\ CallInv' /\ WaitInv' /\ WatchInv' /\ \A c \in Callers : call'[c].op \notin {"wait", "watch"}
      /\ coord' \in [Jobs -> SUBSET Callers] /\ watchers' \in [Jobs -> SUBSET Callers]
      /\ timer' \in [Jobs -> Nat] /\ total' = 0
  BY EndsKeep
<1>2. TypeOK'
  BY <1>0, <1>1, OpsType DEF TypeOK
<1>3. EndInv'
  BY <1>0, <1>1 DEF EndInv, Pending
<1> QED BY <1>1, <1>2, <1>3 DEF IInv

LEMMA WatchTimerKeeps ==
  ASSUME IInv, NEW c \in Callers, WatchTimer(c)
  PROVE  IInv'
<1>0. /\ TypeOK /\ CallInv /\ WatchInv /\ EndInv /\ up = "up" /\ "unchanged" \in Results
      /\ UNCHANGED <<state, version, saved, known, ended, now, crashes>>
      /\ call[c].op = "watch" /\ call[c].job \in Jobs
  BY Parts, CallFields DEF WatchTimer, jobVars, Results
<1>1. CASE state[call[c].job] # "gone"
  <2>0. /\ Settled({c}, "unchanged") /\ UNCHANGED <<coord, timer, total, up>>
        /\ watchers' = [watchers EXCEPT ![call[c].job] = @ \ {c}]
    BY <1>1 DEF WatchTimer
  <2>1. /\ CallInv' /\ \A d \in Callers : d # c => call'[d] = call[d]
        /\ call'[c].op = "settled"
    BY <1>0, <2>0, SettledType
  <2>2. WatchInv' /\ watchers' \in [Jobs -> SUBSET Callers]
    BY <1>0, <2>0, <2>1, WatchRemoved
  <2>3. WaitInv'
    BY <1>0, <2>0, <2>1, WaitSame
  <2>4. TypeOK' /\ EndInv'
    BY <1>0, <2>0, <2>1, <2>2, OpsType DEF TypeOK, EndInv
  <2> QED BY <2>1, <2>2, <2>3, <2>4 DEF IInv
<1>2. CASE state[call[c].job] = "gone"
  <2>1. ProcessEnds("killed")
    BY <1>2 DEF WatchTimer
  <2>2. c \in watchers[call[c].job] /\ crashes \in Nat
    BY <1>0 DEF WatchInv, TypeOK
  <2>3. crashes # 0
    BY <1>0, <1>2, <2>2 DEF WatchInv
  <2>4. crashes' \in Nat /\ crashes' > 0 /\ saved' \in [Jobs -> Nat]
    BY <1>0, <2>2, <2>3 DEF TypeOK
  <2> QED BY <1>0, <2>1, <2>4, KilledKeeps
<1> QED BY <1>1, <1>2

LEMMA LateChangeKeeps ==
  ASSUME IInv, NEW j \in Jobs, LateChange(j)
  PROVE  IInv'
<1>0. /\ TypeOK /\ WatchInv /\ up = "up" /\ UNCHANGED <<state, version, saved, known, ended, now, crashes>>
      /\ ProcessEnds("killed") /\ state[j] = "gone" /\ Woken(j) # {} /\ crashes \in Nat
  BY Parts DEF LateChange, jobVars, TypeOK
<1>1. watchers[j] # {}
  BY <1>0 DEF Woken
<1>2. crashes # 0
  BY <1>0, <1>1 DEF WatchInv
<1>3. crashes' \in Nat /\ crashes' > 0 /\ saved' \in [Jobs -> Nat]
  BY <1>0, <1>2 DEF TypeOK
<1> QED BY <1>0, <1>3, KilledKeeps

LEMMA EndKeeps ==
  ASSUME IInv, dispose \/ Crash
  PROVE  IInv'
<1>0. /\ TypeOK /\ up = "up" /\ UNCHANGED <<state, version, known, ended, now>>
      /\ crashes \in Nat /\ version \in [Jobs -> Nat] /\ saved \in [Jobs -> Nat]
  BY Parts DEF dispose, Crash, jobVars, TypeOK
<1>1. CASE dispose
  BY <1>0, <1>1, KilledKeeps DEF dispose
<1>2. CASE Crash
  <2>1. crashes' \in Nat /\ crashes' > 0 /\ saved' \in [Jobs -> Nat] /\ ProcessEnds("crashed")
    BY <1>0, <1>2 DEF Crash, jobVars
  <2> QED BY <1>0, <2>1, KilledKeeps
<1> QED BY <1>1, <1>2
LEMMA ChangedKeeps ==
  ASSUME IInv, NEW j \in Jobs, changed(j)
  PROVE  IInv'
<1>0. /\ TypeOK /\ CallInv /\ WatchInv /\ EndInv /\ up = "up" /\ "changed" \in Results
      /\ UNCHANGED <<state, saved, coord, timer, total, now, up, crashes>>
      /\ version' = [version EXCEPT ![j] = @ + 1]
      /\ known' = [known EXCEPT ![j] = IF @ > version[j] THEN @ ELSE version[j] + 1]
      /\ watchers' = [watchers EXCEPT ![j] = @ \ Woken(j)]
      /\ Settled(Woken(j), "changed")
  BY Parts DEF changed, Results
<1>1. /\ CallInv' /\ \A d \in Callers : d \notin Woken(j) => call'[d] = call[d]
      /\ \A d \in Callers : d \in Woken(j) => call'[d].op = "settled"
  BY <1>0, SettledType
<1>2. \A d \in Woken(j) : call[d].op = "watch"
  BY <1>0 DEF WatchInv, Woken
<1>3. WaitInv'
  BY <1>0, <1>1, <1>2, WaitSame
<1>4. /\ WatchInv' /\ watchers' \in [Jobs -> SUBSET Callers]
      /\ version' \in [Jobs -> Nat] /\ known' \in [Jobs -> Nat]
  BY <1>0, <1>1, WatchWoken
<1>5. ended' \in [Jobs -> Nat]
  BY <1>0 DEF changed, TypeOK
<1>6. TypeOK' /\ EndInv'
  BY <1>0, <1>1, <1>4, <1>5, OpsType DEF TypeOK, EndInv
<1> QED BY <1>1, <1>3, <1>4, <1>6 DEF IInv

LEMMA ExpiredEnded ==
  ASSUME NEW st, NEW en, NEW S \in Expired(st, en)
  PROVE  \A k \in S : k \in Jobs /\ st[k] = "terminal"
  BY DEF Expired

LEMMA FinishCalls ==
  ASSUME IInv, NEW j \in Jobs, finish(j)
  PROVE  /\ CallInv'
         /\ \A c \in coord[j] : call'[c].op = "settled" /\ call'[c].result = "terminal"
         /\ \A c \in Woken(j) : call'[c].op = "settled" /\ call'[c].result = "changed"
         /\ \A c \in Callers : c \notin coord[j] \cup Woken(j) => call'[c] = call[c]
         /\ \A c \in coord[j] : c \in Callers /\ call[c].op = "wait" /\ call[c].job = j
         /\ \A c \in Woken(j) : c \in Callers /\ call[c].op = "watch" /\ call[c].job = j
<1>0. CallInv /\ WaitInv /\ WatchInv /\ {"terminal", "changed"} \subseteq Results
  BY Parts DEF Results
<1>1. /\ \A c \in coord[j] : c \in Callers /\ call[c].op = "wait" /\ call[c].job = j
      /\ \A c \in Woken(j) : c \in Callers /\ call[c].op = "watch" /\ call[c].job = j
  BY <1>0 DEF WaitInv, WatchInv, Woken
<1>2. call' = [c \in Callers |-> IF c \in coord[j] THEN Answer("terminal")
                               ELSE IF c \in Woken(j) THEN Answer("changed") ELSE call[c]]
  BY DEF finish, Released
<1>3. \A c \in Callers : call'[c] = IF c \in coord[j] THEN Answer("terminal")
                                    ELSE IF c \in Woken(j) THEN Answer("changed") ELSE call[c]
  BY <1>2
<1>4. /\ Answer("terminal") \in Calls /\ Answer("terminal").op = "settled"
      /\ Answer("terminal").result = "terminal"
      /\ Answer("changed") \in Calls /\ Answer("changed").op = "settled"
      /\ Answer("changed").result = "changed"
  BY <1>0, AnswerType
<1>5. \A c \in Callers : call'[c] \in Calls
  BY <1>0, <1>3, <1>4 DEF CallInv
<1>6. CallInv'
  BY <1>2, <1>5 DEF CallInv
<1>7. \A c \in coord[j] : call'[c].op = "settled" /\ call'[c].result = "terminal"
  BY <1>1, <1>3, <1>4
<1>8. \A c \in Woken(j) : c \notin coord[j]
  BY <1>1
<1>9. \A c \in Woken(j) : call'[c].op = "settled" /\ call'[c].result = "changed"
  BY <1>1, <1>3, <1>4, <1>8
<1>10. \A c \in Callers : c \notin coord[j] \cup Woken(j) => call'[c] = call[c]
  BY <1>3
<1> QED BY <1>1, <1>6, <1>7, <1>9, <1>10

LEMMA FinishStates ==
  ASSUME IInv, NEW j \in Jobs, finish(j)
  PROVE  /\ state' \in [Jobs -> {"live", "terminal", "gone"}] /\ state'[j] \in {"terminal", "gone"}
         /\ \A k \in Jobs : k # j /\ state[k] = "live" => state'[k] = "live"
<1>0. TypeOK /\ state \in [Jobs -> {"live", "terminal", "gone"}]
  BY Parts DEF TypeOK
<1> DEFINE st == [state EXCEPT ![j] = "terminal"]
<1>1. PICK gone \in Expired(st, ended') :
        state' = [k \in Jobs |-> IF k \in gone THEN "gone" ELSE IF k = j THEN "terminal" ELSE state[k]]
  BY DEF finish
<1>2. \A k \in gone : k \in Jobs /\ st[k] = "terminal"
  BY <1>1, ExpiredEnded
<1>3. \A k \in Jobs : k # j /\ state[k] = "live" => k \notin gone
  BY <1>0, <1>2
<1> HIDE DEF st
<1> QED BY <1>0, <1>1, <1>3

LEMMA FinishKeeps ==
  ASSUME IInv, NEW j \in Jobs, finish(j)
  PROVE  IInv'
<1>0. /\ TypeOK /\ EndInv /\ UNCHANGED <<now, up, crashes>> /\ up = "up"
      /\ version' = [version EXCEPT ![j] = @ + 1]
      /\ known' = [known EXCEPT ![j] = IF @ > version[j] THEN @ ELSE version[j] + 1]
      /\ ended' = [ended EXCEPT ![j] = now] /\ saved' = version'
      /\ watchers' = [watchers EXCEPT ![j] = @ \ Woken(j)]
      /\ Removed(j, coord[j])
  BY Parts DEF finish, Released
<1>1. /\ CallInv'
      /\ \A c \in coord[j] : call'[c].op = "settled"
      /\ \A c \in Woken(j) : call'[c].op = "settled"
      /\ \A c \in Callers : c \notin coord[j] \cup Woken(j) => call'[c] = call[c]
      /\ \A c \in coord[j] : call[c].op = "wait"
      /\ \A c \in Woken(j) : call[c].op = "watch"
  BY FinishCalls
<1>2. /\ state' \in [Jobs -> {"live", "terminal", "gone"}]
      /\ \A k \in Jobs : k # j /\ state[k] = "live" => state'[k] = "live"
  BY FinishStates
<1>3. \A c \in Callers : c \notin coord[j] /\ (call[c].op = "wait" \/ call'[c].op = "wait") => call'[c] = call[c]
  BY <1>1
<1>4. \A c \in Callers : c \notin Woken(j) /\ (call[c].op = "watch" \/ call'[c].op = "watch") => call'[c] = call[c]
  BY <1>1
<1>5. PICK cs \in SUBSET coord[j] : cs = coord[j]
  OBVIOUS
<1>6. WaitInv' /\ coord' \in [Jobs -> SUBSET Callers] /\ timer' \in [Jobs -> Nat] /\ total' \in Nat
  BY <1>0, <1>1, <1>2, <1>3, <1>5, WaitRemoved
<1>7. /\ WatchInv' /\ watchers' \in [Jobs -> SUBSET Callers]
      /\ version' \in [Jobs -> Nat] /\ known' \in [Jobs -> Nat]
  BY <1>0, <1>1, <1>2, <1>4, WatchWoken
<1>8. ended' \in [Jobs -> Nat]
  BY <1>0 DEF TypeOK
<1>9. TypeOK' /\ EndInv'
  BY <1>0, <1>1, <1>2, <1>6, <1>7, <1>8, OpsType DEF TypeOK, EndInv
<1> QED BY <1>1, <1>6, <1>7, <1>9 DEF IInv

(* Nobody waits for a job that has ended, so pruning rejects nobody.       *)
LEMMA PersistSame ==
  ASSUME IInv, persistNow
  PROVE  /\ UNCHANGED <<coord, timer, total, call>> /\ saved' = version
         /\ state' \in [Jobs -> {"live", "terminal", "gone"}]
         /\ \A k \in Jobs : state[k] = "live" => state'[k] = "live"
<1>0. /\ TypeOK /\ WaitInv /\ CallInv /\ state \in [Jobs -> {"live", "terminal", "gone"}] /\ total \in Nat
      /\ coord \in [Jobs -> SUBSET Callers] /\ timer \in [Jobs -> Nat]
  BY Parts DEF TypeOK
<1>1. PICK gone \in Expired(state, ended) :
        /\ state' = [k \in Jobs |-> IF k \in gone THEN "gone" ELSE state[k]]
        /\ coord' = [k \in Jobs |-> IF k \in gone THEN {} ELSE coord[k]]
        /\ timer' = [k \in Jobs |-> IF k \in gone THEN 0 ELSE timer[k]]
        /\ total' = total - Cardinality(UNION {coord[k] : k \in gone})
        /\ Settled(UNION {coord[k] : k \in gone}, "rejected")
  BY DEF persistNow
<1>2. \A k \in gone : k \in Jobs /\ state[k] = "terminal"
  BY <1>1, ExpiredEnded
<1>3. \A k \in gone : coord[k] = {} /\ timer[k] = 0
  BY <1>0, <1>2 DEF WaitInv, Earliest
<1>4. UNION {coord[k] : k \in gone} = {}
  BY <1>3
<1>5. total' = total
  BY <1>0, <1>1, <1>4, FS_EmptySet
<1>6. call' = call
  BY <1>0, <1>1, <1>4 DEF Settled, CallInv
<1>7. coord' = coord /\ timer' = timer
  BY <1>0, <1>1, <1>3
<1>8. saved' = version
  BY DEF persistNow
<1> QED BY <1>0, <1>1, <1>2, <1>5, <1>6, <1>7, <1>8

LEMMA PersistKeeps ==
  ASSUME IInv, persistNow
  PROVE  IInv'
<1>0. /\ TypeOK /\ CallInv /\ EndInv /\ UNCHANGED <<version, known, ended, watchers, now, up, crashes>>
      /\ UNCHANGED <<coord, timer, total, call>> /\ saved' = version
      /\ state' \in [Jobs -> {"live", "terminal", "gone"}]
      /\ \A k \in Jobs : state[k] = "live" => state'[k] = "live"
  BY Parts, PersistSame DEF persistNow
<1>1. CallInv'
  BY <1>0 DEF CallInv
<1>2. WaitInv' /\ WatchInv'
  BY <1>0, <1>1, WaitSame, WatchSame
<1>3. TypeOK' /\ EndInv'
  BY <1>0 DEF TypeOK, EndInv, Pending
<1> QED BY <1>1, <1>2, <1>3 DEF IInv

LEMMA RestartKeeps ==
  ASSUME IInv, Restart
  PROVE  IInv'
<1>0. /\ TypeOK /\ CallInv /\ WaitInv /\ WatchInv /\ EndInv
      /\ UNCHANGED <<coord, timer, total, watchers, call, now, crashes>> /\ up' = "up"
      /\ up \in {"crashed", "killed"} /\ crashes \in Nat
      /\ version \in [Jobs -> Nat] /\ known \in [Jobs -> Nat] /\ saved \in [Jobs -> Nat]
      /\ ended \in [Jobs -> Nat] /\ now \in Nat /\ state \in [Jobs -> {"live", "terminal", "gone"}]
  BY Parts DEF Restart, waitVars, TypeOK
<1>1. /\ \A c \in Callers : call[c].op \notin {"wait", "watch"}
      /\ crashes' # 0
  BY <1>0 DEF EndInv, Pending
<1>2. CallInv' /\ \A j \in Jobs : coord[j] = {} /\ watchers[j] = {}
  BY <1>0, <1>1 DEF CallInv, WaitInv, WatchInv
<1>3. /\ version' \in [Jobs -> Nat] /\ known' \in [Jobs -> Nat] /\ saved' \in [Jobs -> Nat]
      /\ ended' \in [Jobs -> Nat] /\ state' \in [Jobs -> {"live", "terminal", "gone"}]
      /\ \A j \in Jobs : version'[j] <= known'[j]
  BY <1>0 DEF Restart
<1>4. WaitInv'
  BY <1>0, <1>1, <1>2, WaitSame
<1>5. WatchInv'
  BY <1>0, <1>1, <1>2, <1>3 DEF WatchInv
<1>6. TypeOK' /\ EndInv'
  BY <1>0, <1>1, <1>2, <1>3 DEF TypeOK, EndInv
<1> QED BY <1>2, <1>4, <1>5, <1>6 DEF IInv

LEMMA TickKeeps ==
  ASSUME IInv, Tick \/ UNCHANGED vars
  PROVE  IInv'
<1>0. /\ TypeOK /\ CallInv /\ EndInv /\ now' \in Nat
      /\ UNCHANGED <<state, version, saved, known, ended, coord, timer, total, watchers, call, up, crashes>>
  BY Parts DEF Tick, vars, jobVars, waitVars, TypeOK
<1>1. CallInv'
  BY <1>0 DEF CallInv
<1>2. WaitInv' /\ WatchInv'
  BY <1>0, <1>1, WaitSame, WatchSame
<1>3. TypeOK' /\ EndInv'
  BY <1>0 DEF TypeOK, EndInv, Pending
<1> QED BY <1>1, <1>2, <1>3 DEF IInv
-----------------------------------------------------------------------------
LEMMA InitIInv == Init => IInv
<1> SUFFICES ASSUME Init PROVE IInv
  OBVIOUS
<1>1. /\ call \in [Callers -> Calls] /\ \A c \in Callers : call[c].op = "idle"
  BY IdleType DEF Init
<1>2. TypeOK
  BY <1>1 DEF Init, TypeOK
<1>3. Waiting = {}
  BY <1>1 DEF Waiting
<1>4. IsFiniteSet(Waiting) /\ total = Cardinality(Waiting)
  BY <1>3, FS_EmptySet DEF Init
<1>5. WaitInv
  BY <1>1, <1>4 DEF Init, WaitInv, Earliest
<1>6. WatchInv
  BY <1>1 DEF Init, WatchInv
<1>7. EndInv
  BY DEF Init, EndInv
<1> QED BY <1>1, <1>2, <1>5, <1>6, <1>7 DEF IInv, CallInv

LEMMA NextIInv == IInv /\ [Next]_vars => IInv'
<1> SUFFICES ASSUME IInv, [Next]_vars PROVE IInv'
  OBVIOUS
<1>1. ASSUME NEW c \in Callers, NEW j \in Jobs,
             \/ waitForTerminal(c, j)
             \/ \E v \in {0, version[j], known[j]} : watchForChange(c, j, v)
      PROVE  IInv'
  BY <1>1, WaitForTerminalKeeps, WatchForChangeKeeps
<1>2. ASSUME NEW c \in Callers, Abort(c) \/ WatchTimer(c)
      PROVE  IInv'
  BY <1>2, AbortKeeps, WatchTimerKeeps
<1>3. ASSUME NEW j \in Jobs, changed(j) \/ LateChange(j) \/ finish(j) \/ expireWaiters(j)
      PROVE  IInv'
  BY <1>3, ChangedKeeps, LateChangeKeeps, FinishKeeps, ExpireKeeps
<1>4. CASE persistNow \/ dispose \/ Crash \/ Restart
  BY <1>4, PersistKeeps, EndKeeps, RestartKeeps
<1>5. CASE Tick \/ UNCHANGED vars
  BY <1>5, TickKeeps
<1> QED BY <1>1, <1>2, <1>3, <1>4, <1>5 DEF Next, Timers

(* The inductive invariant holds in every reachable state.                 *)
THEOREM Invariant == Spec => []IInv
  BY InitIInv, NextIInv, PTL DEF Spec

(* The bookkeeping of waitForTerminal is exact, for any number of callers  *)
(* and jobs: coordinators, timers and totalWaiters agree with the promises *)
(* that are pending.                                                       *)
THEOREM Accounted == Spec => []WaitersAccounted
<1>1. IInv => WaitersAccounted
  <2> SUFFICES ASSUME IInv PROVE WaitersAccounted
    OBVIOUS
  <2>0. TypeOK /\ WaitInv
    BY Parts
  <2>1. UNION {coord[j] : j \in Jobs} = Waiting
    <3>1. \A c \in Waiting : call[c].job \in Jobs
      BY CallFields, Parts DEF Waiting
    <3> QED BY <2>0, <3>1 DEF WaitInv, Waiting
  <2> QED BY <2>0, <2>1, ArmedIsEarliest DEF WaitersAccounted, WaitInv
<1> QED BY <1>1, Invariant, PTL

(* Without a crash no change waiter outlives its job, so no timer and no   *)
(* late change kills the coordinator.                                      *)
THEOREM OnlyStale == Spec => []OnlyStaleVersionsHurt
<1>1. IInv => OnlyStaleVersionsHurt
  BY DEF IInv, WatchInv, EndInv, TypeOK, OnlyStaleVersionsHurt
<1> QED BY <1>1, Invariant, PTL
-----------------------------------------------------------------------------
(* What an answer says when it is given.                                   *)
Truthful(c) ==
  /\ Pending(c) /\ call'[c].op = "settled" =>
       /\ call'[c].result = "terminal" => state'[call[c].job] # "live"
       /\ call'[c].result = "timed out" => call[c].until <= now /\ state[call[c].job] = "live"
       /\ call'[c].result = "unchanged" => call[c].until <= now
       /\ call'[c].result = "changed" => version'[call[c].job] > call[c].after
  /\ call[c].op = "settled" => call'[c] = call[c]

LEMMA SameIsTruthful ==
  ASSUME NEW c, call'[c] = call[c]
  PROVE  Truthful(c)
  BY DEF Truthful, Pending

LEMMA RejectedIsTruthful ==
  ASSUME NEW c, Pending(c), call'[c].op = "settled", call'[c].result = "rejected"
  PROVE  Truthful(c)
  BY DEF Truthful, Pending

LEMMA NewIsTruthful ==
  ASSUME NEW c, call[c] = Idle
  PROVE  Truthful(c)
  BY IdleType DEF Truthful, Pending

LEMMA EndIsTruthful ==
  ASSUME IInv, NEW how, ProcessEnds(how), NEW c \in Callers
  PROVE  Truthful(c)
<1> DEFINE cs == {d \in Callers : Pending(d)}
<1>1. CallInv /\ "rejected" \in Results /\ Settled(cs, "rejected")
  BY Parts DEF ProcessEnds, Results
<1>2. /\ c \notin cs => call'[c] = call[c]
      /\ c \in cs => call'[c].op = "settled" /\ call'[c].result = "rejected"
  BY <1>1, SettledType
<1> QED BY <1>2, SameIsTruthful, RejectedIsTruthful

LEMMA StepIsTruthful ==
  ASSUME IInv, [Next]_vars, NEW c \in Callers
  PROVE  Truthful(c)
<1>0. TypeOK /\ CallInv /\ WaitInv /\ WatchInv /\ Results = {"terminal", "timed out", "changed", "unchanged", "rejected"}
  BY Parts DEF Results
<1>1. ASSUME NEW d \in Callers, NEW j \in Jobs,
             \/ waitForTerminal(d, j)
             \/ \E v \in {0, version[j], known[j]} : watchForChange(d, j, v)
      PROVE  Truthful(c)
  <2>1. call[d] = Idle /\ \E r : call' = [call EXCEPT ![d] = r]
    BY <1>1 DEF waitForTerminal, watchForChange, Answered
  <2>2. c # d => call'[c] = call[c]
    BY <1>0, <2>1 DEF CallInv
  <2> QED BY <2>1, <2>2, NewIsTruthful, SameIsTruthful
<1>2. ASSUME NEW d \in Callers, Abort(d)
      PROVE  Truthful(c)
  <2>1. Pending(d) /\ Settled({d}, "rejected") /\ "rejected" \in Results
    BY <1>0, <1>2 DEF Abort
  <2>2. /\ c \notin {d} => call'[c] = call[c]
        /\ c \in {d} => call'[c].op = "settled" /\ call'[c].result = "rejected"
    <3>1. CallInv /\ Settled({d}, "rejected") /\ "rejected" \in Results
      BY <1>0, <2>1
    <3> QED BY <3>1, SettledType
  <2> QED BY <2>1, <2>2, SameIsTruthful, RejectedIsTruthful
<1>3. ASSUME NEW d \in Callers, WatchTimer(d)
      PROVE  Truthful(c)
  <2>1. CASE Settled({d}, "unchanged")
    <3>1. call[d].op = "watch" /\ call[d].until <= now /\ "unchanged" \in Results
      BY <1>0, <1>3 DEF WatchTimer
    <3>2. (c # d => call'[c] = call[c]) /\ (c = d => call'[c].op = "settled" /\ call'[c].result = "unchanged")
      <4>1. CallInv /\ Settled({d}, "unchanged") /\ "unchanged" \in Results
        BY <1>0, <2>1, <3>1
      <4> QED BY <4>1, SettledType
    <3>3. CASE c = d
      BY <3>1, <3>2, <3>3 DEF Truthful
    <3>4. CASE c # d
      BY <3>2, <3>4, SameIsTruthful
    <3> QED BY <3>3, <3>4
  <2>2. CASE ProcessEnds("killed")
    BY <2>2, EndIsTruthful
  <2> QED BY <1>3, <2>1, <2>2 DEF WatchTimer
<1>4. ASSUME NEW j \in Jobs, changed(j)
      PROVE  Truthful(c)
  <2>1. Settled(Woken(j), "changed") /\ "changed" \in Results /\ version' = [version EXCEPT ![j] = @ + 1]
    BY <1>0, <1>4 DEF changed
  <2>2. /\ c \notin Woken(j) => call'[c] = call[c]
        /\ c \in Woken(j) => call'[c].op = "settled" /\ call'[c].result = "changed"
    <3>1. CallInv /\ Settled(Woken(j), "changed") /\ "changed" \in Results
      BY <1>0, <2>1
    <3> QED BY <3>1, SettledType
  <2>3. CASE c \in Woken(j)
    <3>1. call[c].op = "watch" /\ call[c].job = j /\ version[j] + 1 > call[c].after
      <4>1. c \in watchers[j] /\ version[j] + 1 > call[c].after
        BY <2>3 DEF Woken
      <4>2. WatchInv
        BY <1>0
      <4> QED BY <4>1, <4>2 DEF WatchInv
    <3>2. version'[j] = version[j] + 1
      BY <1>0, <2>1 DEF TypeOK
    <3> QED BY <2>2, <2>3, <3>1, <3>2 DEF Truthful
  <2>4. CASE c \notin Woken(j)
    BY <2>2, <2>4, SameIsTruthful
  <2> QED BY <2>3, <2>4
<1>5. ASSUME NEW j \in Jobs, expireWaiters(j)
      PROVE  Truthful(c)
  <2>1. Settled(Due(j), "timed out") /\ "timed out" \in Results
    BY <1>0, <1>5 DEF expireWaiters
  <2>2. /\ c \notin Due(j) => call'[c] = call[c]
        /\ c \in Due(j) => call'[c].op = "settled" /\ call'[c].result = "timed out"
    <3>1. CallInv /\ Settled(Due(j), "timed out") /\ "timed out" \in Results
      BY <1>0, <2>1
    <3> QED BY <3>1, SettledType
  <2>3. CASE c \in Due(j)
    <3>1. call[c].op = "wait" /\ call[c].job = j /\ call[c].until <= now /\ state[j] = "live"
      BY <1>0, <2>3 DEF Due, WaitInv
    <3> QED BY <2>2, <2>3, <3>1 DEF Truthful
  <2>4. CASE c \notin Due(j)
    BY <2>2, <2>4, SameIsTruthful
  <2> QED BY <2>3, <2>4
<1>6. ASSUME NEW j \in Jobs, finish(j)
      PROVE  Truthful(c)
  <2>1. /\ \A d \in coord[j] : call'[d].op = "settled" /\ call'[d].result = "terminal"
        /\ \A d \in Woken(j) : call'[d].op = "settled" /\ call'[d].result = "changed"
        /\ \A d \in Callers : d \notin coord[j] \cup Woken(j) => call'[d] = call[d]
        /\ \A d \in coord[j] : d \in Callers /\ call[d].op = "wait" /\ call[d].job = j
        /\ \A d \in Woken(j) : d \in Callers /\ call[d].op = "watch" /\ call[d].job = j
        /\ state'[j] \in {"terminal", "gone"}
    BY <1>6, FinishCalls, FinishStates
  <2>2. CASE c \in coord[j]
    BY <2>1, <2>2 DEF Truthful
  <2>3. CASE c \in Woken(j)
    <3>1. version'[j] = version[j] + 1
      BY <1>0, <1>6 DEF finish, TypeOK
    <3>2. version[j] + 1 > call[c].after
      BY <2>3 DEF Woken
    <3>3. call[c].op = "watch" /\ call[c].job = j /\ call'[c].op = "settled" /\ call'[c].result = "changed"
      BY <2>1, <2>3
    <3> QED BY <3>1, <3>2, <3>3 DEF Truthful
  <2>4. CASE c \notin coord[j] \cup Woken(j)
    BY <2>1, <2>4, SameIsTruthful
  <2> QED BY <2>2, <2>3, <2>4
<1>7. CASE dispose \/ Crash \/ \E j \in Jobs : LateChange(j)
  BY <1>7, EndIsTruthful DEF dispose, Crash, LateChange
<1>8. CASE persistNow \/ Restart \/ Tick \/ UNCHANGED vars
  <2>1. call' = call
    BY <1>8, PersistSame DEF Restart, Tick, vars, waitVars
  <2> QED BY <2>1, SameIsTruthful
<1> QED BY <1>1, <1>2, <1>3, <1>4, <1>5, <1>6, <1>7, <1>8 DEF Next, Timers

(* An answer of waitForTerminal or watchForChange tells the truth when it  *)
(* is given, and a promise is settled once.                                *)
THEOREM AnswersTrue == Spec => AnswersAreTrue
<1>1. IInv /\ [Next]_vars =>
        [\A c \in Callers :
           /\ Pending(c) /\ call'[c].op = "settled" =>
                LET j == call[c].job IN
                /\ call'[c].result = "terminal" => state'[j] # "live"
                /\ call'[c].result = "timed out" => call[c].until <= now /\ state[j] = "live"
                /\ call'[c].result = "unchanged" => call[c].until <= now
                /\ call'[c].result = "changed" => version'[j] > call[c].after
           /\ call[c].op = "settled" => call'[c] = call[c]]_vars
  <2>1. IInv /\ [Next]_vars => \A c \in Callers : Truthful(c)
    BY StepIsTruthful
  <2> QED BY <2>1 DEF Truthful
<1> QED BY <1>1, Invariant, PTL DEF Spec, AnswersAreTrue
=============================================================================
