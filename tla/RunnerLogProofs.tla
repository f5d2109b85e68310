--------------------------- MODULE RunnerLogProofs ---------------------------
(***************************************************************************)
(* Proofs about RunnerLog, for any number of watch RPCs, any output        *)
(* policies, batch size and number of faults.  No chunk is lost without    *)
(* notice because whatever was read is true of the job for good            *)
(* (Genuine), and an answer that does not say truncated leaves out no      *)
(* number up to its last one (Complete).                                   *)
(***************************************************************************)
EXTENDS RunnerLog, FiniteSetTheorems, SequenceTheorems, WellFoundedInduction, TLAPS

RpcRecord ==
  [pc : {"idle", "check", "state", "output", "answer"}, after : Nat,
   job : Job, events : SUBSET Record, truncated : BOOLEAN, error : BOOLEAN]
CoordRecord ==
  [pc : {"watch", "waiting", "done", "lost"}, rpc : Rpcs \cup {NoRpc}, after : Nat,
   remote : Job, truncated : BOOLEAN, got : Seq(Nat), retries : 0..MaxRetries]
SupRecord ==
  [pc : {"start", "running", "compact", "write", "gone"}, job : Job, printed : Nat]

(* How the supervisor numbers its events.                                  *)
Numbered ==
  /\ sup.job.state = "queued" => sup.job.seq = 1 /\ sup.printed = 0
  /\ sup.job.state = "running" => sup.job.seq = 2 + sup.printed
  /\ sup.job.state = "done" => sup.job.seq = 3 + sup.printed
  /\ sup.job.state # "lost"
  /\ sup.pc = "start" => sup.job.state = "queued"
  /\ sup.pc \in {"running", "compact"} => sup.job.state = "running"
  /\ sup.pc = "write" => sup.job.state \in {"running", "done"}

(* job.json is one event behind at most, and final once it is terminal.    *)
Behind ==
  /\ job.seq <= sup.job.seq + 1 /\ sup.job.seq <= job.seq + 1
  /\ sup.pc # "gone" => job.state \notin Terminal
  /\ job.state \notin Terminal => job.seq <= sup.job.seq
  /\ sup.pc \in {"start", "running"} => job.seq = sup.job.seq
  /\ job.state \in Terminal => sup.job.seq <= job.seq
  /\ job.state = "done" => sup.job.state = "done"
  /\ ~dir => job.state \in Terminal

SupInv == Numbered /\ Behind

(* The last number anything has.                                           *)
Top == IF job.seq > sup.job.seq THEN job.seq ELSE sup.job.seq

(* What a record says is true of the job, and stays so.                    *)
Genuine(e) ==
  /\ e.seq <= Top
  /\ e.kind = "state" => e.seq <= 2 \/ (sup.job.state = "done" /\ e.seq = 3 + sup.printed)
  /\ e.kind = "lost" => job.state = "lost" /\ e.seq = job.seq

FileInv ==
  /\ \A f \in Files : \A i \in 1..Len(log[f]) : Genuine(log[f][i])
  /\ sup.pc = "compact" => Len(log["output"]) > policy.maxBytes
  /\ policy.reuse => ino["output"] \in {0, 1}

(* A cursor is of this file or of an earlier one.                          *)
CursorInv ==
  /\ CursorsComplete
  /\ \A f \in Files : \A c \in cursors[f] :
       ~(f = "output" /\ policy.reuse) => c.ino <= ino[f]

(* A copy of job.json that shows the end of the job shows its end for good. *)
Seen(j) == j.seq <= Top /\ (j.state \in Terminal => j.state = job.state /\ j.seq = job.seq)

(* No number is left out between what the caller has and any event.        *)
Complete(events, after) ==
  \A e \in events : \A k \in after + 1 .. e.seq : \E d \in events : d.seq = k

RpcOK(c) ==
  /\ c.after <= Top /\ Seen(c.job)
  /\ \A e \in c.events : Genuine(e) /\ e.kind # "garbled" /\ e.seq > c.after
  /\ c.pc \in {"check", "state"} => c.events = {}
  /\ c.pc = "answer" /\ ~c.truncated => Complete(c.events, c.after)
  /\ c.error => ~dir

RpcInv == \A r \in Rpcs : RpcOK(rpc[r])

(* The coordinator and the RPC it waits for.                               *)
WaitInv ==
  /\ coord.pc = "waiting" =>
       /\ coord.rpc \in Rpcs
       /\ rpc[coord.rpc].pc # "idle" => rpc[coord.rpc].after = coord.after
       /\ rpc[coord.rpc].pc = "idle" => faults > 0
  /\ coord.pc # "waiting" => coord.rpc = NoRpc

(* Every chunk up to coord.after is accounted for.                         *)
Covered ==
  \A k \in Printed : k <= coord.after =>
    coord.truncated \/ k \in Range(coord.got) \cup Renumbered

CoordInv ==
  /\ coord.after <= Top /\ Seen(coord.remote)
  /\ \A i \in 1..Len(coord.got) : coord.got[i] <= coord.after
  /\ coord.pc = "done" => Drained
  /\ Covered

IInv ==
  /\ OutputInOrder /\ SupInv /\ FileInv /\ CursorInv /\ RpcInv
  /\ WaitInv /\ CoordInv /\ LostIsExplained
-----------------------------------------------------------------------------
(* Numbers.                                                                *)
LEMMA LeastNumber ==
  ASSUME NEW T \in SUBSET Nat, T # {}
  PROVE  \E n \in T : \A m \in T : n <= m
<1> DEFINE R == OpToRel(<, Nat)
<1>1. IsWellFoundedOn(R, Nat)
  BY NatLessThanWellFounded, Zenon
<1>2. \A m, n \in Nat : m < n => <<m, n>> \in R
  BY DEF OpToRel
<1> HIDE DEF R
<1>3. PICK x \in T : \A y \in T : ~(<<y, x>> \in R)
  BY <1>1, WFMin
<1>4. ASSUME NEW y \in T PROVE x <= y
  <2>1. x \in Nat /\ y \in Nat /\ ~(<<y, x>> \in R)
    BY <1>3
  <2>2. ~(y < x)
    BY <1>2, <2>1
  <2> QED BY <2>1, <2>2
<1> QED BY <1>4

(* A set of numbers with a bound has a greatest one, which Max returns.    *)
LEMMA GreatestNumber ==
  ASSUME NEW S \in SUBSET Nat, S # {}, NEW b \in Nat, \A x \in S : x <= b
  PROVE  Max(S) \in S /\ \A x \in S : x <= Max(S)
<1> DEFINE T == {b - x : x \in S}
<1>1. T \in SUBSET Nat /\ T # {}
  <2>1. \A x \in S : x \in Nat /\ b - x \in Nat
    OBVIOUS
  <2>2. T \subseteq Nat
    BY <2>1
  <2>3. PICK x \in S : TRUE
    OBVIOUS
  <2>4. b - x \in T
    OBVIOUS
  <2> HIDE DEF T
  <2> QED BY <2>2, <2>4
<1>2. PICK n \in T : \A m \in T : n <= m
  <2> HIDE DEF T
  <2> QED BY <1>1, LeastNumber
<1>3. PICK g \in S : n = b - g
  BY <1>2
<1>4. \A x \in S : g >= x
  <2> TAKE x \in S
  <2>1. b - x \in T
    OBVIOUS
  <2>2. b - g <= b - x
    BY <1>2, <1>3, <2>1
  <2>3. g \in Nat /\ x \in Nat
    OBVIOUS
  <2> QED BY <2>2, <2>3
<1>5. Max(S) \in S /\ \A y \in S : Max(S) >= y
  BY <1>4, Zenon DEF Max
<1>6. Max(S) \in Nat
  BY <1>5
<1> QED BY <1>5, <1>6

(* Without a gap, no number is left out: of the missing numbers the        *)
(* greatest would have a successor, and that one a gap in front of it.     *)
LEMMA NoGap ==
  ASSUME NEW events \in SUBSET Record, NEW after \in Nat, ~Gap(events, after)
  PROVE  Complete(events, after)
<1> SUFFICES ASSUME NEW e \in events, NEW k \in after + 1 .. e.seq, \A d \in events : d.seq # k
             PROVE  FALSE
  BY DEF Complete
<1>0. e.seq \in Nat /\ k \in Nat
  BY DEF Record
<1> DEFINE T == {n \in Nat : k <= n /\ \E d \in events : d.seq = n}
<1>1. PICK n \in T : \A m \in T : n <= m
  <2>1. T \in SUBSET Nat /\ e.seq \in T
    BY <1>0
  <2> HIDE DEF T
  <2> QED BY <2>1, LeastNumber
<1>2. PICK d \in events : d.seq = n
  BY <1>1
<1>3. n \in Nat /\ k < n
  BY <1>0, <1>1
<1>4. ASSUME NEW c \in events, c.seq = d.seq - 1 PROVE FALSE
  <2>1. c.seq \in Nat /\ c.seq = n - 1 /\ k <= c.seq
    BY <1>0, <1>2, <1>3, <1>4 DEF Record
  <2>2. c.seq \in T
    BY <2>1
  <2> QED BY <1>1, <1>3, <2>1, <2>2
<1>5. d.seq > after + 1
  BY <1>0, <1>2, <1>3
<1> QED BY <1>4, <1>5 DEF Gap

(* Nor does the cut to the first events leave one out.                     *)
LEMMA LimitedComplete ==
  ASSUME NEW events \in SUBSET Record, NEW after \in Nat, Complete(events, after),
         NEW first \in Limited(events)
  PROVE  first \subseteq events /\ Complete(first, after)
<1>1. first \in SUBSET events /\ \A e \in first, d \in events \ first : e.seq <= d.seq
  BY DEF Limited
<1>2. ASSUME NEW e \in first, NEW k \in after + 1 .. e.seq
      PROVE  \E d \in first : d.seq = k
  <2>1. PICK d \in events : d.seq = k
    BY <1>1, <1>2 DEF Complete
  <2>2. e.seq \in Nat /\ d.seq \in Nat /\ k \in Nat
    BY <1>1 DEF Record
  <2>3. CASE d \in first
    BY <2>1, <2>3
  <2>4. CASE d \notin first
    <3>1. e.seq <= d.seq
      BY <1>1, <2>4
    <3> QED BY <2>1, <2>2, <3>1
  <2> QED BY <2>3, <2>4
<1> QED BY <1>1, <1>2 DEF Complete
-----------------------------------------------------------------------------
(* Reading a file.                                                         *)
LEMMA FileTypes ==
  ASSUME TypeOK, NEW f \in Files
  PROVE  /\ log[f] \in Seq(Record) /\ Len(log[f]) \in Nat /\ ino[f] \in Nat
         /\ cursors[f] \subseteq Cursor
         /\ \A i \in 1..Len(log[f]) : log[f][i] \in Record
<1>1. log[f] \in Seq(Record) /\ ino[f] \in Nat /\ cursors[f] \subseteq Cursor
  BY DEF TypeOK
<1> QED BY <1>1

LEMMA StartsInFile ==
  ASSUME TypeOK, NEW f \in Files, NEW after \in Nat
  PROVE  /\ Start(f, after) \in Nat
         /\ Start(f, after) = 0 \/ \E c \in Usable(f, after) : Start(f, after) = c.offset
<1> DEFINE S == {c.offset : c \in Usable(f, after)} \cup {0}
<1>1. \A c \in Usable(f, after) : c.offset \in Nat /\ c.offset <= Len(log[f])
  BY FileTypes DEF Usable, Cursor
<1>2. S \in SUBSET Nat /\ S # {} /\ \A x \in S : x <= Len(log[f])
  BY <1>1, FileTypes
<1>3. Start(f, after) = Max(S)
  BY DEF Start
<1>4. Len(log[f]) \in Nat
  BY FileTypes
<1> HIDE DEF S
<1>5. Max(S) \in S
  BY <1>2, <1>4, GreatestNumber
<1> QED BY <1>1, <1>3, <1>5 DEF S

(* What is read is in the file, and all of it that the cursor stands       *)
(* before.                                                                 *)
LEMMA UnreadIsFile ==
  ASSUME TypeOK, NEW f \in Files, NEW after \in Nat
  PROVE  /\ Unread(f, after) \subseteq Record
         /\ \A e \in Unread(f, after) : e.kind # "garbled" /\ \E i \in 1..Len(log[f]) : e = log[f][i]
         /\ \A i \in 1..Len(log[f]) : i > Start(f, after) =>
              log[f][i].kind = "garbled" \/ log[f][i] \in Unread(f, after)
<1>1. Start(f, after) \in Nat /\ Len(log[f]) \in Nat
  BY StartsInFile, FileTypes
<1>2. ASSUME NEW e \in Unread(f, after)
      PROVE  e.kind # "garbled" /\ \E i \in 1..Len(log[f]) : e = log[f][i]
  <2>1. PICK i \in Start(f, after) + 1 .. Len(log[f]) : e = log[f][i]
    BY DEF Unread
  <2>2. i \in 1..Len(log[f])
    BY <1>1
  <2> QED BY <2>1, <2>2 DEF Unread
<1>3. Unread(f, after) \subseteq Record
  BY <1>2, FileTypes
<1>4. ASSUME NEW i \in 1..Len(log[f]), i > Start(f, after), log[f][i].kind # "garbled"
      PROVE  log[f][i] \in Unread(f, after)
  <2>1. i \in Start(f, after) + 1 .. Len(log[f])
    BY <1>1, <1>4
  <2> QED BY <1>4, <2>1 DEF Unread
<1> QED BY <1>2, <1>3, <1>4

LEMMA TopIsNat ==
  ASSUME TypeOK
  PROVE  Top \in Nat /\ job.seq \in Nat /\ sup.job.seq \in Nat /\ sup.printed \in Nat
         /\ job.seq <= Top /\ sup.job.seq <= Top /\ (Top = job.seq \/ Top = sup.job.seq)
<1>1. job.seq \in Nat /\ sup.job.seq \in Nat /\ sup.printed \in Nat
  BY DEF TypeOK, Job
<1> QED BY <1>1 DEF Top

LEMMA NewCursor ==
  ASSUME TypeOK, FileInv, NEW f \in Files, NEW after \in Nat
  PROVE  LET c == CursorAfter(f, after)
         IN  /\ c \in Cursor /\ c.ino = ino[f] /\ c.offset = Len(log[f])
             /\ \A d \in Usable(f, after) : d.last <= c.last
             /\ \A e \in Unread(f, after) : e.seq <= c.last
<1> DEFINE S == {c.last : c \in Usable(f, after)} \cup {e.seq : e \in Unread(f, after)} \cup {0}
<1>1. \A c \in Usable(f, after) : c.last \in Nat /\ c.last <= after
  BY FileTypes DEF Usable, Cursor
<1>2. \A e \in Unread(f, after) : e.seq \in Nat /\ e.seq <= Top
  BY UnreadIsFile DEF FileInv, Genuine, Record
<1>3. Top \in Nat /\ after + Top \in Nat
  BY TopIsNat
<1>4. S \in SUBSET Nat /\ S # {} /\ \A x \in S : x <= after + Top
  BY <1>1, <1>2, <1>3
<1>5. CursorAfter(f, after) = [ino |-> ino[f], offset |-> Len(log[f]), last |-> Max(S)]
  BY DEF CursorAfter
<1>6. ino[f] \in Nat /\ Len(log[f]) \in Nat
  BY FileTypes
<1>7. \A c \in Usable(f, after) : c.last \in S
  OBVIOUS
<1>8. \A e \in Unread(f, after) : e.seq \in S
  OBVIOUS
<1> HIDE DEF S
<1>9. Max(S) \in S /\ \A x \in S : x <= Max(S)
  BY <1>3, <1>4, GreatestNumber
<1>10. Max(S) \in Nat
  BY <1>4, <1>9
<1> QED BY <1>5, <1>6, <1>7, <1>8, <1>9, <1>10 DEF Cursor
(* Reading moves the cursor of the file, to one that skips nothing.        *)
LEMMA ReadsCursor ==
  ASSUME TypeOK, FileInv, CursorInv, NEW r \in Rpcs, NEW f \in Files, Reads(r, f),
         UNCHANGED <<log, ino, policy>>
  PROVE  /\ cursors' \in [Files -> SUBSET Cursor] /\ \A g \in Files : \A c, d \in cursors'[g] : c = d
         /\ CursorInv'
<1>0. rpc[r].after \in Nat
  BY DEF TypeOK
<1> DEFINE n == CursorAfter(f, rpc[r].after)
<1>1. /\ n \in Cursor /\ n.ino = ino[f] /\ n.offset = Len(log[f])
      /\ \A d \in Usable(f, rpc[r].after) : d.last <= n.last
      /\ \A e \in Unread(f, rpc[r].after) : e.seq <= n.last
  BY <1>0, NewCursor
<1>2. /\ cursors'[f] \subseteq {n} /\ cursors' = [g \in Files |-> cursors'[g]]
      /\ \A g \in Files : g # f => cursors'[g] = cursors[g]
  <2>1. cursors \in [Files -> SUBSET Cursor]
    BY DEF TypeOK
  <2>2. cursors' = [cursors EXCEPT ![f] = IF dir THEN {n} ELSE {}]
    BY DEF Reads
  <2> HIDE DEF n
  <2> QED BY <2>1, <2>2
<1>3. ASSUME NEW g \in Files
      PROVE  cursors'[g] \in SUBSET Cursor /\ \A c, d \in cursors'[g] : c = d
  <2> HIDE DEF n
  <2>1. CASE g = f
    BY <1>1, <1>2, <2>1
  <2>2. CASE g # f
    <3>1. cursors[g] \in SUBSET Cursor /\ \A c, d \in cursors[g] : c = d
      BY DEF TypeOK
    <3> QED BY <1>2, <2>2, <3>1
  <2> QED BY <2>1, <2>2
<1>4. ASSUME ~(f = "output" /\ policy.reuse)
      PROVE  \A i \in 1..Len(log[f]) : log[f][i].kind = "garbled" \/ log[f][i].seq <= n.last
  <2> SUFFICES ASSUME NEW i \in 1..Len(log[f]), log[f][i].kind # "garbled"
               PROVE  log[f][i].seq <= n.last
    OBVIOUS
  <2>0. log[f][i].seq \in Nat /\ n.last \in Nat /\ Start(f, rpc[r].after) \in Nat
    BY <1>0, <1>1, FileTypes, StartsInFile DEF Record, Cursor
  <2>1. CASE i > Start(f, rpc[r].after)
    BY <1>0, <1>1, <2>1, UnreadIsFile
  <2>2. CASE ~(i > Start(f, rpc[r].after))
    <3>0. Start(f, rpc[r].after) # 0
      BY <2>0, <2>2
    <3>1. PICK c \in Usable(f, rpc[r].after) : Start(f, rpc[r].after) = c.offset
      BY <1>0, <3>0, StartsInFile
    <3>2. c \in cursors[f] /\ c.ino = ino[f]
      BY <3>1 DEF Usable
    <3>3. i \in 1..c.offset
      BY <2>0, <2>2, <3>1
    <3>4. log[f][i].seq <= c.last
      BY <1>4, <3>2, <3>3 DEF CursorInv, CursorsComplete
    <3>5. c.last <= n.last /\ c.last \in Nat
      BY <1>1, <3>2, FileTypes DEF Cursor
    <3> QED BY <2>0, <3>4, <3>5
  <2> QED BY <2>1, <2>2
<1> HIDE DEF n
<1>5. Len(log[f]) \in Nat /\ ino[f] \in Nat
  BY FileTypes
<1>6. CursorsComplete'
  <2> SUFFICES ASSUME NEW g \in Files, NEW c \in cursors'[g], c.ino = ino[g], ~(g = "output" /\ policy.reuse)
               PROVE  /\ c.offset <= Len(log[g])
                      /\ \A i \in 1..c.offset : log[g][i].kind = "garbled" \/ log[g][i].seq <= c.last
    BY DEF CursorsComplete
  <2>1. CASE g = f
    <3>1. c = n
      BY <1>2, <2>1
    <3> QED BY <1>1, <1>4, <1>5, <2>1, <3>1
  <2>2. CASE g # f
    <3>1. c \in cursors[g]
      BY <1>2, <2>2
    <3> QED BY <3>1 DEF CursorInv, CursorsComplete
  <2> QED BY <2>1, <2>2
<1>7. ASSUME NEW g \in Files, NEW c \in cursors'[g], ~(g = "output" /\ policy.reuse)
      PROVE  c.ino <= ino[g]
  <2>1. CASE g = f
    <3>1. c = n
      BY <1>2, <2>1
    <3> QED BY <1>1, <1>5, <2>1, <3>1
  <2>2. CASE g # f
    <3>1. c \in cursors[g]
      BY <1>2, <2>2
    <3> QED BY <1>7, <3>1 DEF CursorInv
  <2> QED BY <2>1, <2>2
<1>8. cursors' \in [Files -> SUBSET Cursor]
  BY <1>2, <1>3
<1> QED BY <1>3, <1>6, <1>7, <1>8 DEF CursorInv

(* New events are genuine and new.                                         *)
LEMMA NewIsGenuine ==
  ASSUME TypeOK, FileInv, NEW f \in Files, NEW after \in Nat
  PROVE  /\ NewEvents(f, after) \subseteq Record
         /\ \A e \in NewEvents(f, after) : Genuine(e) /\ e.kind # "garbled" /\ e.seq > after
<1>1. ASSUME NEW e \in NewEvents(f, after)
      PROVE  e \in Record /\ Genuine(e) /\ e.kind # "garbled" /\ e.seq > after
  <2>1. e \in Unread(f, after) /\ e.seq > after
    BY DEF NewEvents
  <2> QED BY <2>1, UnreadIsFile DEF FileInv
<1> QED BY <1>1
-----------------------------------------------------------------------------
(* A step of the server for one RPC, as far as the RPC is concerned.       *)
RpcMoves(r) ==
  /\ rpc' = [q \in Rpcs |-> rpc'[q]]
  /\ \A q \in Rpcs : q # r => rpc'[q] = rpc[q]

(* What a read or a look at job.json may do, when the files stay.          *)
LEMMA RpcStep ==
  ASSUME IInv, NEW r \in Rpcs, RpcMoves(r), rpc'[r] \in RpcRecord, RpcOK(rpc[r])',
         rpc[r].pc # "idle", rpc'[r].pc # "idle", rpc'[r].after = rpc[r].after,
         cursors' \in [Files -> SUBSET Cursor], \A f \in Files : \A c, d \in cursors'[f] : c = d,
         CursorInv', UNCHANGED <<policy, dir, job, log, ino, partial, sup, coord, faults>>
  PROVE  IInv'
<1>0. TypeOK
  BY DEF IInv, OutputInOrder
<1>1. rpc' \in [Rpcs -> RpcRecord]
  <2>1. \A q \in Rpcs : rpc'[q] \in RpcRecord
    BY <1>0 DEF RpcMoves, TypeOK, RpcRecord
  <2> QED BY <2>1 DEF RpcMoves
<1>2. TypeOK'
  BY <1>0, <1>1 DEF TypeOK, RpcRecord
<1>3. OutputInOrder'
  BY <1>2 DEF IInv, OutputInOrder
<1>4. SupInv' /\ FileInv'
  BY DEF IInv, SupInv, Numbered, Behind, FileInv, Genuine, Top
<1>5. \A q \in Rpcs : q # r => RpcOK(rpc[q])'
  BY DEF RpcMoves, IInv, RpcInv, RpcOK, Genuine, Top, Seen, Complete
<1>6. RpcInv'
  BY <1>5 DEF RpcInv
<1>7. WaitInv'
  BY DEF IInv, WaitInv, RpcMoves
<1>8. CoordInv'
  BY DEF IInv, CoordInv, Top, Seen, Covered, Printed, Renumbered, Drained
<1>9. LostIsExplained'
  BY DEF IInv, LostIsExplained
<1> QED BY <1>3, <1>4, <1>6, <1>7, <1>8, <1>9 DEF IInv
LEMMA Parts ==
  ASSUME IInv, NEW r \in Rpcs
  PROVE  /\ TypeOK /\ SupInv /\ FileInv /\ CursorInv /\ RpcOK(rpc[r])
         /\ rpc[r] \in RpcRecord /\ rpc \in [Rpcs -> RpcRecord] /\ job \in Job
<1>1. TypeOK /\ SupInv /\ FileInv /\ CursorInv /\ RpcOK(rpc[r])
  BY DEF IInv, OutputInOrder, RpcInv
<1>2. rpc \in [Rpcs -> RpcRecord] /\ job \in Job
  BY <1>1 DEF TypeOK, RpcRecord
<1> QED BY <1>1, <1>2

LEMMA CheckStep ==
  ASSUME IInv, NEW r \in Rpcs, Check(r)
  PROVE  IInv'
<1>0. /\ TypeOK /\ CursorInv /\ RpcOK(rpc[r]) /\ rpc[r] \in RpcRecord
      /\ rpc \in [Rpcs -> RpcRecord] /\ job \in Job
  BY Parts
<1>1. rpc[r].pc = "check" /\ UNCHANGED <<policy, dir, job, log, ino, partial, sup, cursors, coord, faults>>
  BY DEF Check, supervisor
<1>2. rpc[r].events = {}
  BY <1>0, <1>1 DEF RpcOK
<1>3. CursorInv' /\ cursors' \in [Files -> SUBSET Cursor] /\ \A f \in Files : \A c, d \in cursors'[f] : c = d
  BY <1>0, <1>1 DEF TypeOK, CursorInv, CursorsComplete
<1>4. Seen(job)
  BY <1>0, TopIsNat DEF Seen
<1>5. CASE ~dir /\ Fails(r)
  <2>1. RpcMoves(r) /\ rpc'[r] = [rpc[r] EXCEPT !.pc = "answer", !.error = TRUE]
    BY <1>0, <1>5 DEF Fails, RpcMoves
  <2>2. rpc'[r] \in RpcRecord /\ rpc'[r].after = rpc[r].after /\ rpc'[r].pc # "idle"
    BY <1>0, <2>1 DEF RpcRecord
  <2>3. /\ rpc'[r].events = {} /\ rpc'[r].job = rpc[r].job /\ rpc'[r].pc = "answer"
        /\ rpc'[r].after = rpc[r].after
    BY <1>0, <1>2, <2>1 DEF RpcRecord
  <2>4. RpcOK(rpc[r])'
    BY <1>0, <1>1, <1>5, <2>3 DEF RpcOK, Complete, Seen, Top
  <2> QED BY <1>1, <1>3, <2>1, <2>2, <2>4, RpcStep
<1>6. CASE \E pc \in {"state", "answer"} : rpc' = [rpc EXCEPT ![r].pc = pc, ![r].job = job]
  <2>0. PICK pc \in {"state", "answer"} : rpc' = [rpc EXCEPT ![r].pc = pc, ![r].job = job]
    BY <1>6
  <2>1. RpcMoves(r) /\ rpc'[r] = [rpc[r] EXCEPT !.pc = pc, !.job = job]
    BY <1>0, <2>0 DEF RpcMoves
  <2>2. rpc'[r] \in RpcRecord /\ rpc'[r].after = rpc[r].after /\ rpc'[r].pc # "idle"
    BY <1>0, <2>1 DEF RpcRecord
  <2>3. /\ rpc'[r].events = {} /\ rpc'[r].job = job /\ rpc'[r].error = rpc[r].error
        /\ rpc'[r].after = rpc[r].after
    BY <1>0, <1>2, <2>1 DEF RpcRecord
  <2>4. RpcOK(rpc[r])'
    BY <1>0, <1>1, <1>4, <2>3 DEF RpcOK, Complete, Seen, Top
  <2> QED BY <1>1, <1>3, <2>1, <2>2, <2>4, RpcStep
<1> QED BY <1>5, <1>6 DEF Check

LEMMA ReadStateStep ==
  ASSUME IInv, NEW r \in Rpcs, ReadState(r)
  PROVE  IInv'
<1>0. /\ TypeOK /\ FileInv /\ CursorInv /\ RpcOK(rpc[r]) /\ rpc[r] \in RpcRecord
      /\ rpc \in [Rpcs -> RpcRecord]
  BY Parts
<1>1. /\ rpc[r].pc = "state" /\ Reads(r, "state") /\ "state" \in Files
      /\ UNCHANGED <<policy, dir, job, log, ino, partial, sup, coord, faults>>
  BY DEF ReadState, supervisor, Files
<1>2. /\ cursors' \in [Files -> SUBSET Cursor] /\ \A f \in Files : \A c, d \in cursors'[f] : c = d
      /\ CursorInv'
  BY <1>0, <1>1, ReadsCursor
<1> DEFINE E == IF dir THEN NewEvents("state", rpc[r].after) ELSE {}
<1>3. rpc' = [rpc EXCEPT ![r].pc = "output", ![r].events = E]
  BY DEF ReadState
<1>4. rpc[r].after \in Nat
  BY <1>0 DEF RpcRecord
<1>5. E \in SUBSET Record /\ \A e \in E : Genuine(e) /\ e.kind # "garbled" /\ e.seq > rpc[r].after
  BY <1>0, <1>1, <1>4, NewIsGenuine
<1> HIDE DEF E
<1>6. RpcMoves(r) /\ rpc'[r] = [rpc[r] EXCEPT !.pc = "output", !.events = E]
  BY <1>0, <1>3 DEF RpcMoves
<1>7. rpc'[r] \in RpcRecord
  BY <1>0, <1>5, <1>6 DEF RpcRecord
<1>8. /\ rpc'[r].events = E /\ rpc'[r].job = rpc[r].job /\ rpc'[r].error = rpc[r].error
      /\ rpc'[r].after = rpc[r].after /\ rpc'[r].pc = "output"
  BY <1>0, <1>6 DEF RpcRecord
<1>9. RpcOK(rpc[r])'
  BY <1>0, <1>1, <1>5, <1>8 DEF RpcOK, Genuine, Seen, Top
<1> QED BY <1>1, <1>2, <1>6, <1>7, <1>8, <1>9, RpcStep

LEMMA ReadOutputStep ==
  ASSUME IInv, NEW r \in Rpcs, ReadOutput(r)
  PROVE  IInv'
<1>0. /\ TypeOK /\ FileInv /\ CursorInv /\ RpcOK(rpc[r]) /\ rpc[r] \in RpcRecord
      /\ rpc \in [Rpcs -> RpcRecord]
  BY Parts
<1>1. /\ rpc[r].pc = "output" /\ Reads(r, "output") /\ "output" \in Files
      /\ UNCHANGED <<policy, dir, job, log, ino, partial, sup, coord, faults>>
  BY DEF ReadOutput, supervisor, Files
<1>2. /\ cursors' \in [Files -> SUBSET Cursor] /\ \A f \in Files : \A c, d \in cursors'[f] : c = d
      /\ CursorInv'
  BY <1>0, <1>1, ReadsCursor
<1> DEFINE E == rpc[r].events \cup (IF dir THEN NewEvents("output", rpc[r].after) ELSE {})
           T == Truncated(E, r)
<1>3. PICK first \in Limited(E) :
        rpc' = [rpc EXCEPT ![r].pc = "answer", ![r].events = first, ![r].truncated = T]
  BY DEF ReadOutput
<1>4. rpc[r].after \in Nat /\ rpc[r].events \in SUBSET Record
  BY <1>0 DEF RpcRecord
<1>5. E \in SUBSET Record /\ \A e \in E : Genuine(e) /\ e.kind # "garbled" /\ e.seq > rpc[r].after
  <2>1. \A e \in rpc[r].events : Genuine(e) /\ e.kind # "garbled" /\ e.seq > rpc[r].after
    BY <1>0 DEF RpcOK
  <2> QED BY <1>0, <1>1, <1>4, <2>1, NewIsGenuine
<1>6. T \in BOOLEAN /\ (~T => ~Gap(E, rpc[r].after))
  BY DEF Truncated, Gap
<1> HIDE DEF E, T
<1>7. first \subseteq E
  BY <1>3 DEF Limited
<1>8. ~T => Complete(first, rpc[r].after)
  BY <1>3, <1>4, <1>5, <1>6, NoGap, LimitedComplete
<1>9. RpcMoves(r) /\ rpc'[r] = [rpc[r] EXCEPT !.pc = "answer", !.events = first, !.truncated = T]
  BY <1>0, <1>3 DEF RpcMoves
<1>10. rpc'[r] \in RpcRecord
  BY <1>0, <1>5, <1>6, <1>7, <1>9 DEF RpcRecord
<1>11. /\ rpc'[r].events = first /\ rpc'[r].job = rpc[r].job /\ rpc'[r].error = rpc[r].error
       /\ rpc'[r].after = rpc[r].after /\ rpc'[r].pc = "answer" /\ rpc'[r].truncated = T
  BY <1>0, <1>9 DEF RpcRecord
<1>12. RpcOK(rpc[r])'
  BY <1>0, <1>1, <1>5, <1>7, <1>8, <1>11 DEF RpcOK, Genuine, Seen, Top, Complete
<1> QED BY <1>1, <1>2, <1>9, <1>10, <1>11, <1>12, RpcStep
-----------------------------------------------------------------------------
(* Steps that leave the Runner's files alone.                              *)
CoordOK == coord \in CoordRecord /\ \A i, j \in 1..Len(coord.got) : i < j => coord.got[i] < coord.got[j]

LEMMA CoordTypes ==
  ASSUME IInv
  PROVE  /\ TypeOK /\ CoordOK /\ rpc \in [Rpcs -> RpcRecord] /\ Top \in Nat /\ Top >= 1
         /\ RpcOK(IdleRpc) /\ IdleRpc \in RpcRecord /\ faults \in 0..MaxFaults
<1>1. TypeOK /\ CoordOK /\ faults \in 0..MaxFaults
  BY DEF IInv, OutputInOrder, TypeOK, CoordOK, CoordRecord
<1>2. rpc \in [Rpcs -> RpcRecord]
  BY <1>1 DEF TypeOK, RpcRecord
<1>3. Top \in Nat /\ sup.job.seq <= Top /\ sup.job.seq \in Nat /\ sup.printed \in Nat
  BY <1>1, TopIsNat
<1>4. sup.job.state \in {"queued", "running", "done", "lost"}
  BY <1>1 DEF TypeOK, Job, Terminal
<1>5. Top >= 1
  BY <1>3, <1>4 DEF IInv, SupInv, Numbered
<1>6. IdleRpc \in RpcRecord
  BY DEF IdleRpc, RpcRecord, NewJob, Job
<1>7. RpcOK(IdleRpc)
  BY <1>3, <1>5 DEF RpcOK, IdleRpc, NewJob, Seen, Terminal
<1> QED BY <1>1, <1>2, <1>3, <1>5, <1>6, <1>7

LEMMA CoordStep ==
  ASSUME IInv, UNCHANGED <<policy, dir, job, log, ino, partial, sup>>,
         cursors' \in [Files -> SUBSET Cursor], \A f \in Files : \A c, d \in cursors'[f] : c = d, CursorInv',
         rpc' \in [Rpcs -> RpcRecord], CoordOK', faults' \in 0..MaxFaults,
         RpcInv', WaitInv', CoordInv', LostIsExplained'
  PROVE  IInv'
<1>0. TypeOK
  BY CoordTypes
<1>1. TypeOK'
  BY <1>0 DEF TypeOK, CoordOK, CoordRecord, RpcRecord
<1>2. OutputInOrder'
  BY <1>1 DEF OutputInOrder, CoordOK
<1>3. SupInv' /\ FileInv'
  BY DEF IInv, SupInv, Numbered, Behind, FileInv, Genuine, Top
<1> QED BY <1>2, <1>3 DEF IInv

(* The same without a change of the cursors.                               *)
LEMMA RunnerStays ==
  ASSUME IInv, UNCHANGED runner, rpc' \in [Rpcs -> RpcRecord], CoordOK', faults' \in 0..MaxFaults,
         RpcInv', WaitInv', CoordInv', LostIsExplained'
  PROVE  IInv'
<1>1. /\ cursors' \in [Files -> SUBSET Cursor] /\ \A f \in Files : \A c, d \in cursors'[f] : c = d
      /\ CursorInv' /\ UNCHANGED <<policy, dir, job, log, ino, partial, sup>>
  BY CoordTypes DEF runner, TypeOK, IInv, CursorInv, CursorsComplete
<1> QED BY <1>1, CoordStep

(* An RPC is set up or ends, and the others stay.                          *)
LEMMA RpcSet ==
  ASSUME IInv, UNCHANGED <<policy, dir, job, sup>>, NEW r \in Rpcs, NEW c \in RpcRecord, RpcOK(c),
         rpc' = [rpc EXCEPT ![r] = c]
  PROVE  /\ rpc' \in [Rpcs -> RpcRecord] /\ RpcInv'
         /\ rpc'[r] = c /\ \A q \in Rpcs : q # r => rpc'[q] = rpc[q]
<1>1. rpc \in [Rpcs -> RpcRecord]
  BY CoordTypes
<1>2. rpc' \in [Rpcs -> RpcRecord] /\ rpc'[r] = c /\ \A q \in Rpcs : q # r => rpc'[q] = rpc[q]
  BY <1>1
<1>3. ASSUME NEW q \in Rpcs PROVE RpcOK(rpc[q])'
  <2>1. RpcOK(rpc'[q])
    BY <1>2 DEF IInv, RpcInv
  <2> QED BY <2>1 DEF RpcOK, Genuine, Seen, Top, Complete
<1> QED BY <1>2, <1>3 DEF RpcInv

LEMMA CallStep ==
  ASSUME IInv, Call
  PROVE  IInv'
<1>0. /\ coord \in CoordRecord /\ CoordOK /\ rpc \in [Rpcs -> RpcRecord] /\ Top \in Nat /\ Top >= 1
      /\ RpcOK(IdleRpc) /\ IdleRpc \in RpcRecord
  BY CoordTypes DEF CoordOK
<1> DEFINE r == CHOOSE r \in Idle : TRUE
           c == [IdleRpc EXCEPT !.pc = "check", !.after = coord.after]
<1>1. /\ coord.pc = "watch" /\ Idle # {} /\ UNCHANGED runner /\ UNCHANGED faults
      /\ rpc' = [rpc EXCEPT ![r] = c]
      /\ coord' = [coord EXCEPT !.pc = "waiting", !.rpc = r]
  BY DEF Call
<1>2. r \in Rpcs
  <2>1. r \in Idle
    BY <1>1
  <2> QED BY <2>1 DEF Idle
<1>3. c \in RpcRecord /\ c.after = coord.after /\ c.pc = "check" /\ c.events = {} /\ ~c.error /\ c.job = NewJob
  BY <1>0 DEF IdleRpc, RpcRecord, CoordRecord
<1>4. RpcOK(c)
  <2>1. coord.after <= Top
    BY DEF IInv, CoordInv
  <2>2. Seen(NewJob)
    BY <1>0 DEF RpcOK, IdleRpc
  <2> HIDE DEF c
  <2> QED BY <1>3, <2>1, <2>2 DEF RpcOK
<1> HIDE DEF r, c
<1>5. UNCHANGED <<policy, dir, job, sup>>
  BY <1>1 DEF runner
<1>6. rpc' \in [Rpcs -> RpcRecord] /\ RpcInv' /\ rpc'[r] = c
  BY <1>1, <1>2, <1>3, <1>4, <1>5, RpcSet
<1>7. /\ coord' \in CoordRecord /\ coord'.pc = "waiting" /\ coord'.rpc = r /\ coord'.after = coord.after
      /\ coord'.got = coord.got /\ coord'.truncated = coord.truncated /\ coord'.remote = coord.remote
  BY <1>0, <1>1, <1>2 DEF CoordRecord
<1>8. WaitInv'
  BY <1>2, <1>3, <1>6, <1>7 DEF WaitInv
<1>9. CoordInv' /\ CoordOK'
  BY <1>0, <1>5, <1>7 DEF IInv, CoordInv, Seen, Top, Covered, Printed, Renumbered, CoordOK
<1>10. LostIsExplained'
  BY <1>7 DEF LostIsExplained
<1> QED BY <1>1, <1>6, <1>8, <1>9, <1>10, CoordTypes, RunnerStays
LEMMA CompletesStep ==
  ASSUME IInv, Completes
  PROVE  IInv'
<1>0. coord \in CoordRecord /\ CoordOK /\ rpc \in [Rpcs -> RpcRecord] /\ faults \in 0..MaxFaults
  BY CoordTypes DEF CoordOK
<1>1. /\ coord.pc = "watch" /\ Drained /\ UNCHANGED <<runner, rpc, faults>>
      /\ coord' = [coord EXCEPT !.pc = "done"]
  BY DEF Completes
<1>2. /\ coord' \in CoordRecord /\ coord'.pc = "done" /\ coord'.rpc = coord.rpc /\ coord'.after = coord.after
      /\ coord'.got = coord.got /\ coord'.truncated = coord.truncated /\ coord'.remote = coord.remote
  BY <1>0, <1>1 DEF CoordRecord
<1>3. UNCHANGED <<policy, dir, job, sup>>
  BY <1>1 DEF runner
<1>4. RpcInv'
  BY <1>1, <1>3 DEF IInv, RpcInv, RpcOK, Genuine, Seen, Top, Complete
<1>5. WaitInv'
  BY <1>1, <1>2 DEF IInv, WaitInv
<1>6. CoordInv' /\ CoordOK'
  BY <1>0, <1>1, <1>2, <1>3 DEF IInv, CoordInv, Seen, Top, Covered, Printed, Renumbered, CoordOK, Drained
<1>7. LostIsExplained'
  BY <1>2 DEF LostIsExplained
<1> QED BY <1>0, <1>1, <1>4, <1>5, <1>6, <1>7, RunnerStays

(* A failed call changes neither what was got nor what was seen.           *)
LEMMA FailKeeps ==
  ASSUME IInv, Fail, UNCHANGED <<policy, dir, job, sup>>, faults' \in Nat, faults' >= faults,
         policy.heavy \/ faults' > 0 \/ (~dir /\ job.state \in Terminal)
  PROVE  CoordOK' /\ CoordInv' /\ WaitInv' /\ LostIsExplained'
<1>0. coord \in CoordRecord /\ CoordOK /\ LogAssumption
  BY CoordTypes, LogAssumption DEF CoordOK
<1>1. /\ coord' \in CoordRecord /\ coord'.pc \in {"lost", "watch"} /\ coord'.rpc = NoRpc
      /\ coord'.after = coord.after
      /\ coord'.got = coord.got /\ coord'.truncated = coord.truncated /\ coord'.remote = coord.remote
  <2>1. CASE coord' = [coord EXCEPT !.pc = "lost", !.rpc = NoRpc]
    BY <1>0, <2>1 DEF CoordRecord
  <2>2. CASE /\ coord.retries < MaxRetries
             /\ coord' = [coord EXCEPT !.pc = "watch", !.rpc = NoRpc, !.retries = @ + 1]
    <3>1. coord.retries + 1 \in 0..MaxRetries
      BY <1>0, <2>2 DEF CoordRecord, LogAssumption
    <3>2. coord' = [coord EXCEPT !.pc = "watch", !.rpc = NoRpc, !.retries = coord.retries + 1]
      BY <2>2
    <3> QED BY <1>0, <3>1, <3>2 DEF CoordRecord
  <2> QED BY <2>1, <2>2 DEF Fail
<1>2. WaitInv'
  BY <1>1 DEF WaitInv
<1>3. CoordInv' /\ CoordOK'
  BY <1>0, <1>1 DEF IInv, CoordInv, Seen, Top, Covered, Printed, Renumbered, CoordOK
<1>4. LostIsExplained'
  BY DEF LostIsExplained
<1> QED BY <1>2, <1>3, <1>4

LEMMA FaultCount ==
  ASSUME TypeOK, NEW kind, Fault(kind)
  PROVE  faults' \in 0..MaxFaults /\ faults' \in Nat /\ faults' > 0 /\ faults' >= faults
  BY LogAssumption DEF TypeOK, Fault

LEMMA LosesAnswerStep ==
  ASSUME IInv, LosesAnswer
  PROVE  IInv'
<1>0. TypeOK /\ rpc \in [Rpcs -> RpcRecord] /\ faults \in 0..MaxFaults /\ faults \in Nat
  BY CoordTypes, LogAssumption
<1>1. coord.pc = "waiting" /\ Fail /\ UNCHANGED <<runner, rpc>>
  BY DEF LosesAnswer
<1>2. faults' \in 0..MaxFaults /\ faults' \in Nat /\ faults' > 0 /\ faults' >= faults
  <2>1. CASE Fault("lost_answer")
    BY <1>0, <2>1, FaultCount
  <2>2. CASE rpc[coord.rpc].pc = "idle" /\ UNCHANGED faults
    BY <1>0, <1>1, <2>2 DEF IInv, WaitInv
  <2> QED BY <2>1, <2>2 DEF LosesAnswer
<1>3. UNCHANGED <<policy, dir, job, sup>>
  BY <1>1 DEF runner
<1>4. CoordOK' /\ CoordInv' /\ WaitInv' /\ LostIsExplained'
  BY <1>1, <1>2, <1>3, FailKeeps
<1>5. RpcInv'
  BY <1>1, <1>3 DEF IInv, RpcInv, RpcOK, Genuine, Seen, Top, Complete
<1> QED BY <1>0, <1>1, <1>2, <1>4, <1>5, RunnerStays

LEMMA RestartStep ==
  ASSUME IInv, Restart
  PROVE  IInv'
<1>0. /\ TypeOK /\ coord \in CoordRecord /\ CoordOK
      /\ RpcOK(IdleRpc) /\ IdleRpc \in RpcRecord
  BY CoordTypes DEF CoordOK
<1>1. /\ Fault("server") /\ cursors' = [f \in Files |-> {}] /\ rpc' = [r \in Rpcs |-> IdleRpc]
      /\ UNCHANGED <<policy, dir, job, log, ino, partial, sup, coord>>
  BY DEF Restart, supervisor
<1>2. faults' \in 0..MaxFaults /\ faults' > 0
  BY <1>0, <1>1, FaultCount
<1>3. /\ cursors' \in [Files -> SUBSET Cursor] /\ \A f \in Files : \A c, d \in cursors'[f] : c = d
      /\ CursorInv'
  BY <1>1 DEF CursorInv, CursorsComplete
<1>4. rpc' \in [Rpcs -> RpcRecord]
  BY <1>0, <1>1
<1>5. RpcInv'
  <2>1. RpcOK(IdleRpc)'
    BY <1>0, <1>1 DEF RpcOK, Genuine, Seen, Top, Complete, IdleRpc, NewJob
  <2>2. \A r \in Rpcs : rpc'[r] = IdleRpc
    BY <1>1
  <2> QED BY <2>1, <2>2 DEF RpcInv, RpcOK, IdleRpc, NewJob
<1>6. WaitInv'
  BY <1>1, <1>2 DEF IInv, WaitInv, IdleRpc
<1>7. CoordInv' /\ CoordOK'
  BY <1>0, <1>1 DEF IInv, CoordInv, Seen, Top, Covered, Printed, Renumbered, CoordOK, Drained
<1>8. LostIsExplained'
  BY <1>2 DEF LostIsExplained
<1> QED BY <1>1, <1>2, <1>3, <1>4, <1>5, <1>6, <1>7, <1>8, CoordStep
(* The chunks of an answer, in order.                                      *)
LEMMA ChunksInOrder ==
  ASSUME TypeOK, NEW events \in SUBSET Record, \A e \in events : Genuine(e),
         NEW chunks \in InOrder(Outputs(events))
  PROVE  /\ chunks \in Seq(Nat) /\ Range(chunks) = Outputs(events)
         /\ \A i, j \in 1..Len(chunks) : i < j => chunks[i] < chunks[j]
<1>1. Outputs(events) \in SUBSET Nat /\ Top \in Nat /\ \A x \in Outputs(events) : x <= Top
  BY TopIsNat DEF Outputs, Record, Genuine
<1>2. IsFiniteSet(Outputs(events))
  BY <1>1, FS_BoundedSetOfNaturals
<1>3. Cardinality(Outputs(events)) \in Nat
  BY <1>2, FS_CardinalityType
<1>4. /\ chunks \in [1 .. Cardinality(Outputs(events)) -> Outputs(events)]
      /\ Range(chunks) = Outputs(events)
      /\ \A i, j \in DOMAIN chunks : i < j => chunks[i] < chunks[j]
  BY DEF InOrder
<1>5. chunks \in [1 .. Cardinality(Outputs(events)) -> Nat]
  BY <1>1, <1>4
<1>6. chunks \in Seq(Nat) /\ Len(chunks) = Cardinality(Outputs(events)) /\ DOMAIN chunks = 1..Len(chunks)
  BY <1>3, <1>5
<1> QED BY <1>4, <1>6

(* Appending chunks that are all new keeps the output in order.            *)
LEMMA AppendedInOrder ==
  ASSUME NEW s \in Seq(Nat), NEW t \in Seq(Nat), NEW n \in Nat, NEW m \in Nat, n <= m,
         \A i, j \in 1..Len(s) : i < j => s[i] < s[j], \A i \in 1..Len(s) : s[i] <= n,
         \A i, j \in 1..Len(t) : i < j => t[i] < t[j], \A x \in Range(t) : n < x /\ x <= m
  PROVE  /\ s \o t \in Seq(Nat) /\ Range(s \o t) = Range(s) \cup Range(t)
         /\ \A i, j \in 1..Len(s \o t) : i < j => (s \o t)[i] < (s \o t)[j]
         /\ \A i \in 1..Len(s \o t) : (s \o t)[i] <= m
<1> DEFINE u == s \o t
<1>1. /\ u \in Seq(Nat) /\ Len(u) = Len(s) + Len(t) /\ Len(s) \in Nat /\ Len(t) \in Nat
      /\ \A i \in 1..Len(s) : u[i] = s[i] /\ s[i] \in Nat
      /\ \A i \in 1..Len(t) : u[Len(s) + i] = t[i] /\ t[i] \in Nat
      /\ DOMAIN s = 1..Len(s) /\ DOMAIN t = 1..Len(t) /\ DOMAIN u = 1..Len(u)
  OBVIOUS
<1>2. \A i \in 1..Len(t) : t[i] \in Range(t)
  BY <1>1 DEF Range
<1> HIDE DEF u
<1>3. ASSUME NEW i \in 1..Len(u), i > Len(s)
      PROVE  i - Len(s) \in 1..Len(t) /\ u[i] = t[i - Len(s)]
  <2>1. i - Len(s) \in 1..Len(t) /\ Len(s) + (i - Len(s)) = i
    BY <1>1, <1>3
  <2> QED BY <1>1, <2>1
<1>4. ASSUME NEW i \in 1..Len(u), ~(i > Len(s))
      PROVE  i \in 1..Len(s) /\ u[i] = s[i]
  BY <1>1, <1>4
<1>5. ASSUME NEW i \in 1..Len(u), NEW j \in 1..Len(u), i < j PROVE u[i] < u[j]
  <2>1. CASE i > Len(s)
    <3>1. j > Len(s)
      BY <1>1, <1>5, <2>1
    <3>2. i - Len(s) < j - Len(s)
      BY <1>1, <1>5
    <3> QED BY <1>3, <2>1, <3>1, <3>2
  <2>2. CASE ~(i > Len(s)) /\ j > Len(s)
    <3>1. u[i] <= n /\ u[i] \in Nat
      BY <1>1, <1>4, <2>2
    <3>2. n < u[j] /\ u[j] \in Nat
      BY <1>1, <1>2, <1>3, <2>2
    <3> QED BY <3>1, <3>2
  <2>3. CASE ~(i > Len(s)) /\ ~(j > Len(s))
    BY <1>4, <1>5, <2>3
  <2> QED BY <2>1, <2>2, <2>3
<1>6. ASSUME NEW i \in 1..Len(u) PROVE u[i] <= m
  <2>1. CASE i > Len(s)
    BY <1>2, <1>3, <2>1
  <2>2. CASE ~(i > Len(s))
    <3>1. u[i] <= n /\ u[i] \in Nat
      BY <1>1, <1>4, <2>2
    <3> QED BY <3>1
  <2> QED BY <2>1, <2>2
<1>7. Range(u) = Range(s) \cup Range(t)
  <2>1. ASSUME NEW x \in Range(u) PROVE x \in Range(s) \cup Range(t)
    <3>1. PICK i \in 1..Len(u) : x = u[i]
      BY <1>1 DEF Range
    <3>2. CASE i > Len(s)
      BY <1>2, <1>3, <3>1, <3>2
    <3>3. CASE ~(i > Len(s))
      BY <1>1, <1>4, <3>1, <3>3 DEF Range
    <3> QED BY <3>2, <3>3
  <2>2. ASSUME NEW x \in Range(s) PROVE x \in Range(u)
    <3>1. PICK i \in 1..Len(s) : x = s[i]
      BY <1>1 DEF Range
    <3>2. i \in 1..Len(u) /\ u[i] = x
      BY <1>1, <3>1
    <3> QED BY <1>1, <3>2 DEF Range
  <2>3. ASSUME NEW x \in Range(t) PROVE x \in Range(u)
    <3>1. PICK i \in 1..Len(t) : x = t[i]
      BY <1>1 DEF Range
    <3>2. Len(s) + i \in 1..Len(u) /\ u[Len(s) + i] = x
      BY <1>1, <3>1
    <3> QED BY <1>1, <3>2 DEF Range
  <2> QED BY <2>1, <2>2, <2>3
<1> QED BY <1>1, <1>5, <1>6, <1>7 DEF u
(* How far an answer takes the coordinator.                                *)
LEMMA AdvanceIs ==
  ASSUME TypeOK, coord.after <= Top, NEW a \in RpcRecord, RpcOK(a)
  PROVE  /\ AdvancedTo(a) \in Nat /\ AdvancedTo(a) <= Top /\ coord.after <= AdvancedTo(a)
         /\ \A e \in a.events : e.seq <= AdvancedTo(a)
         /\ \/ AdvancedTo(a) = coord.after
            \/ a.truncated
            \/ \E e \in a.events : AdvancedTo(a) = e.seq
<1> DEFINE S == {coord.after} \cup {e.seq : e \in a.events}
                \cup (IF a.truncated /\ a.events = {} THEN {a.job.seq} ELSE {})
<1>1. coord.after \in Nat /\ Top \in Nat /\ a.job.seq \in Nat /\ a.job.seq <= Top
  BY TopIsNat DEF TypeOK, RpcRecord, Job, RpcOK, Seen
<1>2. \A e \in a.events : e.seq \in Nat /\ e.seq <= Top
  BY DEF RpcRecord, Record, RpcOK, Genuine
<1>3. S \in SUBSET Nat /\ S # {} /\ \A x \in S : x <= Top
  BY <1>1, <1>2
<1>4. AdvancedTo(a) = Max(S)
  BY DEF AdvancedTo
<1>5. coord.after \in S /\ \A e \in a.events : e.seq \in S
  OBVIOUS
<1>6. Max(S) \in S /\ \A x \in S : x <= Max(S)
  <2> HIDE DEF S
  <2> QED BY <1>1, <1>3, GreatestNumber
<1>7. \A x \in S : x = coord.after \/ a.truncated \/ \E e \in a.events : x = e.seq
  OBVIOUS
<1> HIDE DEF S
<1> QED BY <1>3, <1>4, <1>5, <1>6, <1>7

(* An answer that does not say truncated has every chunk up to its last    *)
(* event.                                                                  *)
LEMMA AnswerCovers ==
  ASSUME TypeOK, NEW events \in SUBSET Record, NEW after \in Nat, Complete(events, after),
         \A e \in events : Genuine(e) /\ e.kind # "garbled",
         NEW last \in events, NEW k \in Printed, after < k, k <= last.seq
  PROVE  k \in Outputs(events) \cup Renumbered
<1>1. sup.printed \in Nat /\ k \in Nat /\ last.seq \in Nat /\ 3 <= k /\ k <= 2 + sup.printed
  BY TopIsNat DEF Printed, Record
<1>2. k \in after + 1 .. last.seq
  BY <1>1
<1>3. PICK d \in events : d.seq = k
  BY <1>2 DEF Complete
<1>4. Genuine(d) /\ d.kind \in {"state", "lost", "output"}
  BY DEF Record
<1>5. d.kind # "state"
  BY <1>1, <1>3, <1>4 DEF Genuine
<1>6. CASE d.kind = "lost"
  BY <1>3, <1>4, <1>6 DEF Genuine, Renumbered
<1>7. CASE d.kind = "output"
  BY <1>3, <1>7 DEF Outputs
<1> QED BY <1>4, <1>5, <1>6, <1>7

LEMMA AcceptKeeps ==
  ASSUME IInv, NEW r \in Rpcs, rpc[r].pc = "answer", coord.rpc = r, Accept(rpc[r]),
         UNCHANGED <<policy, dir, job, sup>>
  PROVE  CoordOK' /\ CoordInv' /\ WaitInv' /\ LostIsExplained'
<1>0. /\ TypeOK /\ coord \in CoordRecord /\ CoordOK /\ rpc[r] \in RpcRecord /\ RpcOK(rpc[r])
      /\ CoordInv /\ coord.after <= Top /\ coord.after \in Nat /\ LogAssumption
  BY CoordTypes, LogAssumption DEF CoordOK, CoordRecord, IInv, RpcInv, CoordInv
<1> DEFINE E == rpc[r].events
<1>1. rpc[r].after = coord.after
  BY <1>0 DEF IInv, WaitInv, LogAssumption
<1>2. E \in SUBSET Record /\ \A e \in E : Genuine(e) /\ e.kind # "garbled" /\ e.seq > coord.after
  BY <1>0, <1>1 DEF RpcRecord, RpcOK
<1>3. PICK chunks \in InOrder(Outputs(E)) :
        coord' = [coord EXCEPT !.pc = "watch", !.rpc = NoRpc, !.after = AdvancedTo(rpc[r]), !.remote = rpc[r].job,
                               !.truncated = @ \/ rpc[r].truncated, !.got = @ \o chunks]
  BY DEF Accept
<1>4. /\ chunks \in Seq(Nat) /\ Range(chunks) = Outputs(E)
      /\ \A i, j \in 1..Len(chunks) : i < j => chunks[i] < chunks[j]
  BY <1>0, <1>2, ChunksInOrder
<1> DEFINE n == AdvancedTo(rpc[r])
           u == coord.got \o chunks
<1>5. /\ n \in Nat /\ n <= Top /\ coord.after <= n /\ \A e \in E : e.seq <= n
      /\ n = coord.after \/ rpc[r].truncated \/ \E e \in E : n = e.seq
  BY <1>0, AdvanceIs
<1>6. \A x \in Range(chunks) : coord.after < x /\ x <= n
  <2> TAKE x \in Range(chunks)
  <2>1. PICK e \in E : x = e.seq
    BY <1>4 DEF Outputs
  <2>2. e.seq > coord.after /\ e.seq <= n /\ e.seq \in Nat
    BY <1>2, <1>5 DEF Record
  <2> QED BY <1>0, <2>1, <2>2
<1>7. /\ coord.got \in Seq(Nat) /\ \A i, j \in 1..Len(coord.got) : i < j => coord.got[i] < coord.got[j]
      /\ \A i \in 1..Len(coord.got) : coord.got[i] <= coord.after
  BY <1>0 DEF CoordOK, CoordRecord, CoordInv
<1>8. /\ u \in Seq(Nat) /\ Range(u) = Range(coord.got) \cup Range(chunks)
      /\ \A i, j \in 1..Len(u) : i < j => u[i] < u[j]
      /\ \A i \in 1..Len(u) : u[i] <= n
  <2> HIDE DEF E, n
  <2> QED BY <1>0, <1>4, <1>5, <1>6, <1>7, AppendedInOrder
<1>9. rpc[r].job \in Job /\ Seen(rpc[r].job) /\ rpc[r].truncated \in BOOLEAN /\ coord.truncated \in BOOLEAN
  BY <1>0 DEF RpcRecord, RpcOK, CoordRecord
<1> DEFINE t == coord.truncated \/ rpc[r].truncated
<1>10. coord' = [coord EXCEPT !.pc = "watch", !.rpc = NoRpc, !.after = n, !.remote = rpc[r].job,
                              !.truncated = t, !.got = u]
  BY <1>3
<1>11. t \in BOOLEAN
  OBVIOUS
<1> HIDE DEF n, u, t
<1>12. /\ coord' \in CoordRecord /\ coord'.pc = "watch" /\ coord'.rpc = NoRpc /\ coord'.after = n
       /\ coord'.remote = rpc[r].job /\ coord'.truncated = t /\ coord'.got = u
  BY <1>0, <1>5, <1>8, <1>9, <1>10, <1>11 DEF CoordRecord
<1>13. Covered'
  <2> SUFFICES ASSUME NEW k \in Printed, k <= n, ~t
               PROVE  k \in Range(u) \cup Renumbered
    BY <1>12 DEF Covered, Printed, Renumbered
  <2>1. ~coord.truncated /\ ~rpc[r].truncated
    BY DEF t
  <2>2. CASE k <= coord.after
    BY <1>0, <1>8, <2>1, <2>2 DEF CoordInv, Covered
  <2>3. CASE ~(k <= coord.after)
    <3>0. k \in Nat /\ coord.after < k
      BY <1>0, <2>3, TopIsNat DEF Printed
    <3>1. PICK e \in E : n = e.seq
      BY <1>0, <1>5, <2>1, <3>0
    <3>2. Complete(E, coord.after)
      BY <1>0, <1>1, <2>1 DEF RpcOK
    <3> HIDE DEF E
    <3>3. k \in Outputs(E) \cup Renumbered
      BY <1>0, <1>2, <3>0, <3>1, <3>2, AnswerCovers
    <3> QED BY <1>4, <1>8, <3>3
  <2> QED BY <2>2, <2>3
<1>14. CoordInv'
  <2>1. Top' = Top
    BY DEF Top
  <2>2. coord'.after <= Top' /\ Seen(coord.remote)'
    BY <1>5, <1>9, <1>12, <2>1 DEF Seen
  <2>3. \A i \in 1..Len(coord'.got) : coord'.got[i] <= coord'.after
    BY <1>8, <1>12
  <2> QED BY <1>12, <1>13, <2>2, <2>3 DEF CoordInv
<1>15. CoordOK'
  BY <1>8, <1>12 DEF CoordOK
<1>16. WaitInv' /\ LostIsExplained'
  BY <1>12 DEF WaitInv, LostIsExplained
<1> QED BY <1>14, <1>15, <1>16

LEMMA AnswerStep ==
  ASSUME IInv, NEW r \in Rpcs, Answer(r)
  PROVE  IInv'
<1>0. /\ TypeOK /\ RpcOK(IdleRpc) /\ IdleRpc \in RpcRecord /\ RpcOK(rpc[r])
      /\ CoordOK /\ faults \in 0..MaxFaults /\ faults \in Nat
  BY CoordTypes, LogAssumption DEF IInv, RpcInv
<1>1. /\ rpc[r].pc = "answer" /\ rpc' = [rpc EXCEPT ![r] = IdleRpc]
      /\ UNCHANGED runner /\ UNCHANGED faults /\ UNCHANGED <<policy, dir, job, sup>>
  BY DEF Answer, runner
<1>2. /\ rpc' \in [Rpcs -> RpcRecord] /\ RpcInv'
      /\ \A q \in Rpcs : q # r => rpc'[q] = rpc[q]
  BY <1>0, <1>1, RpcSet
<1>3. CASE coord.rpc = r /\ Unacceptable(rpc[r]) /\ Fail
  <2>1. policy.heavy \/ ~dir
    BY <1>0, <1>3 DEF Unacceptable, TooLarge, RpcOK
  <2>2. ~dir => job.state \in Terminal
    BY DEF IInv, SupInv, Behind
  <2>3. CoordOK' /\ CoordInv' /\ WaitInv' /\ LostIsExplained'
    BY <1>0, <1>1, <1>3, <2>1, <2>2, FailKeeps
  <2> QED BY <1>0, <1>1, <1>2, <2>3, RunnerStays
<1>4. CASE coord.rpc = r /\ Accept(rpc[r])
  <2>1. CoordOK' /\ CoordInv' /\ WaitInv' /\ LostIsExplained'
    BY <1>1, <1>4, AcceptKeeps
  <2> QED BY <1>0, <1>1, <1>2, <2>1, RunnerStays
<1>5. CASE coord.rpc # r /\ UNCHANGED coord
  <2>1. CoordInv' /\ LostIsExplained' /\ CoordOK'
    BY <1>0, <1>1, <1>5 DEF IInv, CoordInv, Seen, Top, Covered, Printed, Renumbered, Drained,
                            LostIsExplained, CoordOK
  <2>2. WaitInv'
    BY <1>1, <1>2, <1>5 DEF IInv, WaitInv
  <2> QED BY <1>0, <1>1, <1>2, <2>1, <2>2, RunnerStays
<1> QED BY <1>3, <1>4, <1>5 DEF Answer
-----------------------------------------------------------------------------
(* Steps of the Runner's files: time only moves forward, and what is known *)
(* of the job stays true.                                                  *)
Forward ==
  /\ Top <= Top'
  /\ \A e \in Record : Genuine(e) => Genuine(e)'
  /\ job.state \in Terminal => job' = job
  /\ \A k \in Printed' : k \in Printed \/ k > Top
  /\ policy' = policy /\ (dir' => dir)

FilesOK ==
  /\ dir \in BOOLEAN /\ job \in Job /\ log \in [Files -> Seq(Record)] /\ ino \in [Files -> Nat]
  /\ partial \in BOOLEAN /\ sup \in SupRecord
  /\ cursors \in [Files -> SUBSET Cursor] /\ \A f \in Files : \A c, d \in cursors[f] : c = d

LEMMA ForwardKeeps ==
  ASSUME IInv, Forward, FilesOK', SupInv', FileInv', CursorInv', UNCHANGED <<rpc, coord>>,
         faults' \in 0..MaxFaults, faults' >= faults
  PROVE  IInv'
<1>0. TypeOK /\ CoordOK /\ rpc \in [Rpcs -> RpcRecord] /\ faults \in 0..MaxFaults
  BY CoordTypes
<1>1. TypeOK'
  BY <1>0 DEF TypeOK, FilesOK, SupRecord, Forward
<1>2. OutputInOrder'
  BY <1>0, <1>1 DEF OutputInOrder, CoordOK
<1>3. Top \in Nat /\ Top' \in Nat
  <2>1. job'.seq \in Nat /\ sup'.job.seq \in Nat
    BY DEF FilesOK, Job, SupRecord
  <2> QED BY <1>0, <2>1, TopIsNat DEF Top
<1>4. ASSUME NEW j \in Job, Seen(j) PROVE Seen(j)'
  <2>1. j.seq \in Nat
    BY DEF Job
  <2> QED BY <1>3, <1>4, <2>1 DEF Forward, Seen
<1>5. ASSUME NEW r \in Rpcs PROVE RpcOK(rpc[r])'
  <2>1. rpc[r] \in RpcRecord /\ RpcOK(rpc[r]) /\ rpc' = rpc
    BY <1>0 DEF IInv, RpcInv
  <2>2. rpc[r].after \in Nat /\ rpc[r].job \in Job /\ rpc[r].events \in SUBSET Record
    BY <2>1 DEF RpcRecord
  <2>3. rpc[r].after <= Top'
    BY <1>3, <2>1, <2>2 DEF RpcOK, Forward
  <2>4. Seen(rpc[r].job)'
    <3>1. PICK j \in Job : j = rpc[r].job
      BY <2>2
    <3>2. Seen(j)'
      BY <1>4, <2>1, <3>1 DEF RpcOK
    <3> QED BY <2>1, <3>1, <3>2 DEF Seen
  <2>5. \A e \in rpc[r].events : Genuine(e)'
    BY <2>1, <2>2 DEF RpcOK, Forward
  <2> QED BY <2>1, <2>3, <2>4, <2>5 DEF RpcOK, Forward
<1>6. RpcInv'
  BY <1>5 DEF RpcInv
<1>7. WaitInv'
  BY <1>0, LogAssumption DEF IInv, WaitInv
<1>8. CoordInv'
  <2>1. coord \in CoordRecord /\ coord' = coord /\ CoordInv
    BY <1>0 DEF CoordOK, IInv
  <2>2. coord.after \in Nat /\ coord.remote \in Job
    BY <2>1 DEF CoordRecord
  <2>3. coord.after <= Top'
    BY <1>3, <2>1, <2>2 DEF CoordInv, Forward
  <2>4. Seen(coord.remote)'
    <3>1. PICK j \in Job : j = coord.remote
      BY <2>2
    <3>2. Seen(j)'
      BY <1>4, <2>1, <3>1 DEF CoordInv
    <3> QED BY <2>1, <3>1, <3>2 DEF Seen
  <2>5. Covered'
    <3> SUFFICES ASSUME NEW k \in Printed', k <= coord.after, ~coord.truncated
                 PROVE  k \in Range(coord.got) \cup Renumbered'
      BY <2>1 DEF Covered
    <3>1. k \in Nat
      <4>1. sup'.printed \in Nat
        BY DEF FilesOK, SupRecord
      <4> QED BY <4>1 DEF Printed
    <3>2. k \in Printed
      BY <1>3, <2>1, <2>2, <3>1 DEF Forward, CoordInv
    <3>3. k \in Range(coord.got) \cup Renumbered
      BY <2>1, <3>2 DEF CoordInv, Covered
    <3> QED BY <3>3 DEF Renumbered, Forward, Terminal
  <2> QED BY <2>1, <2>3, <2>4, <2>5 DEF CoordInv, Drained
<1>9. LostIsExplained'
  <2>1. faults \in Nat /\ faults' \in Nat
    BY <1>0, LogAssumption
  <2> QED BY <2>1 DEF IInv, LostIsExplained, Forward
<1> QED BY <1>2, <1>6, <1>7, <1>8, <1>9 DEF IInv

(* A record is appended to a file.                                         *)
LEMMA Appends ==
  ASSUME TypeOK, FileInv, CursorInv, NEW f \in Files, NEW e \in Record,
         log' = [log EXCEPT ![f] = Append(@, e)], UNCHANGED <<ino, cursors, policy>>,
         Genuine(e)', \A d \in Record : Genuine(d) => Genuine(d)',
         sup'.pc = "compact" => f = "output" /\ Len(log["output"]) >= policy.maxBytes
  PROVE  log' \in [Files -> Seq(Record)] /\ FileInv' /\ CursorInv'
<1>1. log \in [Files -> Seq(Record)] /\ log[f] \in Seq(Record) /\ Len(log[f]) \in Nat
  BY FileTypes DEF TypeOK
<1>2. /\ log'[f] = Append(log[f], e) /\ \A g \in Files : g # f => log'[g] = log[g]
      /\ log' = [g \in Files |-> log'[g]]
  BY <1>1
<1>3. /\ log'[f] \in Seq(Record) /\ Len(log'[f]) = Len(log[f]) + 1 /\ log'[f][Len(log[f]) + 1] = e
      /\ \A i \in 1..Len(log[f]) : log'[f][i] = log[f][i]
  BY <1>1, <1>2
<1>4. log' \in [Files -> Seq(Record)]
  <2>1. \A g \in Files : log'[g] \in Seq(Record)
    BY <1>1, <1>2, <1>3
  <2> QED BY <1>2, <2>1
<1>5. ASSUME NEW g \in Files, NEW i \in 1..Len(log'[g]) PROVE Genuine(log[g][i])'
  <2>1. PICK d \in Record : d = log'[g][i]
    BY <1>4
  <2>2. Genuine(d)'
    <3>1. CASE g = f /\ i = Len(log[f]) + 1
      BY <1>3, <2>1, <3>1
    <3>2. CASE g = f /\ i # Len(log[f]) + 1
      <4>1. i \in 1..Len(log[f]) /\ d = log[f][i]
        BY <1>1, <1>3, <2>1, <3>2
      <4> QED BY <4>1 DEF FileInv
    <3>3. CASE g # f
      <4>1. i \in 1..Len(log[g]) /\ d = log[g][i]
        BY <1>2, <2>1, <3>3
      <4> QED BY <4>1 DEF FileInv
    <3> QED BY <3>1, <3>2, <3>3
  <2> QED BY <2>1, <2>2 DEF Genuine
<1>6. FileInv'
  <2>1. sup'.pc = "compact" => Len(log'["output"]) > policy.maxBytes
    <3>1. policy.maxBytes \in Nat
      BY LogAssumption DEF TypeOK, Policy
    <3> QED BY <1>1, <1>3, <3>1
  <2>2. policy.reuse => ino["output"] \in {0, 1}
    BY DEF FileInv
  <2> QED BY <1>5, <2>1, <2>2 DEF FileInv
<1>7. CursorsComplete'
  <2> SUFFICES ASSUME NEW g \in Files, NEW c \in cursors[g], c.ino = ino[g], ~(g = "output" /\ policy.reuse)
               PROVE  /\ c.offset <= Len(log'[g])
                      /\ \A i \in 1..c.offset : log'[g][i].kind = "garbled" \/ log'[g][i].seq <= c.last
    BY DEF CursorsComplete
  <2>1. /\ c.offset <= Len(log[g])
        /\ \A i \in 1..c.offset : log[g][i].kind = "garbled" \/ log[g][i].seq <= c.last
    BY DEF CursorInv, CursorsComplete
  <2>2. CASE g # f
    BY <1>2, <2>1, <2>2
  <2>3. CASE g = f
    <3>1. c.offset \in Nat
      BY FileTypes DEF Cursor
    <3>2. \A i \in 1..c.offset : log'[f][i] = log[f][i]
      BY <1>1, <1>3, <2>1, <2>3, <3>1
    <3>3. c.offset <= Len(log'[f])
      BY <1>1, <1>3, <2>1, <2>3, <3>1
    <3> QED BY <2>1, <2>3, <3>2, <3>3
  <2> QED BY <2>2, <2>3
<1>8. CursorInv'
  BY <1>7 DEF CursorInv
<1> QED BY <1>4, <1>6, <1>8

(* Nothing is written.                                                     *)
LEMMA FilesStay ==
  ASSUME TypeOK, FileInv, CursorInv, UNCHANGED <<log, ino, policy>>,
         \A f \in Files : cursors'[f] \subseteq cursors[f],
         \A d \in Record : Genuine(d) => Genuine(d)', sup'.pc # "compact"
  PROVE  FileInv' /\ CursorInv'
<1>1. ASSUME NEW f \in Files, NEW i \in 1..Len(log[f]) PROVE Genuine(log[f][i])'
  <2>1. PICK d \in Record : d = log[f][i]
    BY FileTypes
  <2>2. Genuine(d)'
    BY <2>1 DEF FileInv
  <2> QED BY <2>1, <2>2 DEF Genuine
<1>2. FileInv'
  BY <1>1 DEF FileInv
<1>3. CursorInv'
  BY DEF CursorInv, CursorsComplete
<1> QED BY <1>2, <1>3

(* The Runner's state, with the ranges of its numbers.                     *)
LEMMA RunnerTypes ==
  ASSUME IInv
  PROVE  /\ TypeOK /\ FilesOK /\ SupInv /\ FileInv /\ CursorInv /\ LogAssumption
         /\ sup \in SupRecord /\ sup.job \in Job /\ sup.printed \in Nat /\ sup.job.seq \in Nat
         /\ sup.job.state \in {"queued", "running", "done", "lost"}
         /\ job \in Job /\ job.seq \in Nat /\ job.state \in {"queued", "running", "done", "lost"}
         /\ faults \in 0..MaxFaults /\ faults \in Nat
<1>1. TypeOK /\ SupInv /\ FileInv /\ CursorInv
  BY DEF IInv, OutputInOrder
<1>2. FilesOK /\ faults \in 0..MaxFaults /\ faults \in Nat
  BY <1>1, LogAssumption DEF TypeOK, FilesOK, SupRecord
<1>3. sup \in SupRecord /\ sup.job \in Job /\ sup.printed \in Nat /\ job \in Job
  BY <1>2 DEF FilesOK, SupRecord
<1>4. \A j \in Job : j.seq \in Nat /\ j.state \in {"queued", "running", "done", "lost"}
  BY DEF Job, Terminal
<1> QED BY <1>1, <1>2, <1>3, <1>4, LogAssumption

(* What the next event makes of the supervisor's record.                   *)
LEMMA AdvanceType ==
  ASSUME NEW j \in Job, NEW state \in {"queued", "running", "done", "lost"}
  PROVE  /\ Advance(j, state) \in Job /\ Advance(j, state).seq = j.seq + 1
         /\ Advance(j, state).state = state
<1>1. PICK n \in Nat : n = j.seq + 1
  BY DEF Job
<1>2. Advance(j, state) = [j EXCEPT !.state = state, !.seq = n]
  BY <1>1, Zenon DEF Advance
<1>3. /\ [j EXCEPT !.state = state, !.seq = n] \in Job /\ [j EXCEPT !.state = state, !.seq = n].seq = n
      /\ [j EXCEPT !.state = state, !.seq = n].state = state
  BY DEF Job, Terminal
<1> QED BY <1>1, <1>2, <1>3

LEMMA TruncatedType ==
  ASSUME NEW j \in Job
  PROVE  /\ [j EXCEPT !.truncated = TRUE] \in Job /\ [j EXCEPT !.truncated = TRUE].seq = j.seq
         /\ [j EXCEPT !.truncated = TRUE].state = j.state
  BY DEF Job

LEMMA RecordType ==
  ASSUME NEW seq \in Nat, NEW kind \in {"state", "lost", "output", "garbled"}
  PROVE  [seq |-> seq, kind |-> kind] \in Record
  BY DEF Record

LEMMA SupStateStep ==
  ASSUME IInv, NEW from \in {"start", "running"}, NEW to \in {"running", "done"},
         SupState(from, to), from = "start" <=> to = "running"
  PROVE  IInv'
<1>0. /\ TypeOK /\ FilesOK /\ SupInv /\ FileInv /\ CursorInv /\ LogAssumption
      /\ sup \in SupRecord /\ sup.job \in Job /\ sup.printed \in Nat /\ sup.job.seq \in Nat
      /\ sup.job.state \in {"queued", "running", "done", "lost"}
      /\ job \in Job /\ job.seq \in Nat /\ job.state \in {"queued", "running", "done", "lost"}
      /\ faults \in 0..MaxFaults /\ faults \in Nat
  BY RunnerTypes
<1>1. /\ sup.pc = from /\ sup' = [sup EXCEPT !.pc = "write", !.job = Advance(sup.job, to)]
      /\ log' = StateAppended(sup.job.seq + 1, "state")
      /\ UNCHANGED <<policy, dir, job, ino, partial, cursors, rpc, coord, faults>>
  BY DEF SupState, server
<1>2. /\ Advance(sup.job, to) \in Job /\ Advance(sup.job, to).seq = sup.job.seq + 1
      /\ Advance(sup.job, to).state = to
  BY <1>0, AdvanceType
<1>3. /\ sup' \in SupRecord /\ sup'.pc = "write" /\ sup'.job = Advance(sup.job, to) /\ sup'.printed = sup.printed
  BY <1>0, <1>1, <1>2 DEF SupRecord
<1>4. sup'.job.seq = sup.job.seq + 1 /\ sup'.job.state = to
  BY <1>2, <1>3
<1>5. /\ job.seq = sup.job.seq /\ job.state \notin Terminal
      /\ sup.job.seq = (IF from = "start" THEN 1 ELSE 2 + sup.printed)
      /\ from = "start" => sup.printed = 0
      /\ sup.job.state \notin {"done", "lost"}
  BY <1>0, <1>1 DEF SupInv, Numbered, Behind
<1>6. SupInv'
  BY <1>0, <1>1, <1>3, <1>4, <1>5 DEF SupInv, Numbered, Behind, Terminal
<1>7. Top = sup.job.seq /\ Top' = sup.job.seq + 1
  BY <1>0, <1>1, <1>4, <1>5 DEF Top
<1>8. \A d \in Record : Genuine(d) => Genuine(d)'
  <2> SUFFICES ASSUME NEW d \in Record, Genuine(d) PROVE Genuine(d)'
    OBVIOUS
  <2>1. d.seq \in Nat
    BY DEF Record
  <2> QED BY <1>0, <1>1, <1>4, <1>5, <1>7, <2>1 DEF Genuine
<1>9. Forward
  <2>1. Printed' = Printed
    BY <1>3 DEF Printed
  <2> QED BY <1>0, <1>1, <1>7, <1>8, <2>1 DEF Forward
<1>10. PICK e \in Record : e = [seq |-> sup.job.seq + 1, kind |-> IF partial THEN "garbled" ELSE "state"]
  <2>1. sup.job.seq + 1 \in Nat /\ (IF partial THEN "garbled" ELSE "state") \in {"state", "lost", "output", "garbled"}
    BY <1>0
  <2> QED BY <2>1, RecordType
<1>11. e.seq = sup.job.seq + 1 /\ e.kind \in {"garbled", "state"}
  BY <1>10
<1>12. Genuine(e)'
  BY <1>0, <1>3, <1>4, <1>5, <1>7, <1>11 DEF Genuine
<1>13. log' = [log EXCEPT !["state"] = Append(@, e)]
  BY <1>1, <1>10 DEF StateAppended
<1>14. log' \in [Files -> Seq(Record)] /\ FileInv' /\ CursorInv'
  BY <1>0, <1>1, <1>3, <1>8, <1>12, <1>13, Appends DEF Files
<1>15. FilesOK'
  BY <1>0, <1>1, <1>3, <1>14 DEF FilesOK
<1> QED BY <1>0, <1>1, <1>6, <1>9, <1>14, <1>15, ForwardKeeps

LEMMA PrintsStep ==
  ASSUME IInv, Prints
  PROVE  IInv'
<1>0. /\ TypeOK /\ FilesOK /\ SupInv /\ FileInv /\ CursorInv /\ LogAssumption
      /\ sup \in SupRecord /\ sup.job \in Job /\ sup.printed \in Nat /\ sup.job.seq \in Nat
      /\ sup.job.state \in {"queued", "running", "done", "lost"}
      /\ job \in Job /\ job.seq \in Nat /\ job.state \in {"queued", "running", "done", "lost"}
      /\ faults \in 0..MaxFaults /\ faults \in Nat
  BY RunnerTypes
<1>1. /\ sup.pc = "running" /\ (PrintDropped \/ PrintAppended)
      /\ UNCHANGED <<policy, dir, job, ino, partial, cursors, rpc, coord, faults>>
  BY DEF Prints, server
<1> DEFINE j == Advance(sup.job, "running")
<1>2. j \in Job /\ j.seq = sup.job.seq + 1 /\ j.state = "running"
  BY <1>0, AdvanceType
<1> HIDE DEF j
<1>3. \E jj \in {j, [j EXCEPT !.truncated = TRUE]} : \E pc \in {"write", "compact"} :
        sup' = [sup EXCEPT !.pc = pc, !.printed = sup.printed + 1, !.job = jj]
  BY <1>1 DEF PrintDropped, PrintAppended, j
<1>4. PICK jj \in {j, [j EXCEPT !.truncated = TRUE]}, pc \in {"write", "compact"} :
        sup' = [sup EXCEPT !.pc = pc, !.printed = sup.printed + 1, !.job = jj]
  BY <1>3
<1>5. jj \in Job /\ jj.seq = sup.job.seq + 1 /\ jj.state = "running"
  BY <1>2, <1>4, TruncatedType
<1>6. /\ sup' \in SupRecord /\ sup'.pc = pc /\ sup'.job = jj /\ sup'.printed = sup.printed + 1
  <2>1. PICK n \in Nat : n = sup.printed + 1
    BY <1>0
  <2>2. sup' = [sup EXCEPT !.pc = pc, !.printed = n, !.job = jj]
    BY <1>4, <2>1, Zenon
  <2> QED BY <1>0, <1>5, <2>1, <2>2 DEF SupRecord
<1>7. sup'.job.seq = sup.job.seq + 1 /\ sup'.job.state = "running"
  BY <1>5, <1>6
<1>8. /\ job.seq = sup.job.seq /\ job.state \notin Terminal /\ sup.job.seq = 2 + sup.printed
      /\ sup.job.state = "running"
  BY <1>0, <1>1 DEF SupInv, Numbered, Behind
<1>9. SupInv'
  BY <1>0, <1>1, <1>6, <1>7, <1>8 DEF SupInv, Numbered, Behind, Terminal
<1>10. Top = sup.job.seq /\ Top' = sup.job.seq + 1
  BY <1>0, <1>1, <1>7, <1>8 DEF Top
<1>11. \A d \in Record : Genuine(d) => Genuine(d)'
  <2> SUFFICES ASSUME NEW d \in Record, Genuine(d) PROVE Genuine(d)'
    OBVIOUS
  <2>1. d.seq \in Nat
    BY DEF Record
  <2> QED BY <1>0, <1>1, <1>7, <1>8, <1>10, <2>1 DEF Genuine
<1>12. Forward
  <2>1. \A k \in Printed' : k \in Printed \/ k > Top
    BY <1>0, <1>6, <1>8, <1>10 DEF Printed
  <2> QED BY <1>0, <1>1, <1>8, <1>10, <1>11, <2>1 DEF Forward
<1>13. CASE PrintDropped
  <2>1. log' = log /\ sup'.pc = "write"
    BY <1>0, <1>13 DEF PrintDropped, SupRecord
  <2>2. FileInv' /\ CursorInv'
    BY <1>0, <1>1, <1>11, <2>1, FilesStay
  <2>3. FilesOK'
    BY <1>0, <1>1, <1>6, <2>1 DEF FilesOK
  <2> QED BY <1>0, <1>1, <1>9, <1>12, <2>2, <2>3, ForwardKeeps
<1>14. CASE PrintAppended
  <2>1. PICK e \in Record : e = [seq |-> sup.job.seq + 1, kind |-> "output"]
    <3>1. sup.job.seq + 1 \in Nat
      BY <1>0
    <3> QED BY <3>1, RecordType
  <2>2. log' = [log EXCEPT !["output"] = Append(@, e)]
    BY <1>14, <2>1 DEF PrintAppended
  <2>3. Genuine(e)'
    BY <1>0, <1>10, <2>1 DEF Genuine
  <2>4. sup'.pc = "compact" => Len(log["output"]) >= policy.maxBytes
    BY <1>0, <1>14 DEF PrintAppended, SupRecord
  <2>5. log' \in [Files -> Seq(Record)] /\ FileInv' /\ CursorInv'
    BY <1>0, <1>1, <1>11, <2>2, <2>3, <2>4, Appends DEF Files
  <2>6. FilesOK'
    BY <1>0, <1>1, <1>6, <2>5 DEF FilesOK
  <2> QED BY <1>0, <1>1, <1>9, <1>12, <2>5, <2>6, ForwardKeeps
<1> QED BY <1>1, <1>13, <1>14
LEMMA WritesJobStep ==
  ASSUME IInv, WritesJob
  PROVE  IInv'
<1>0. /\ TypeOK /\ FilesOK /\ SupInv /\ FileInv /\ CursorInv /\ LogAssumption
      /\ sup \in SupRecord /\ sup.job \in Job /\ sup.printed \in Nat /\ sup.job.seq \in Nat
      /\ sup.job.state \in {"queued", "running", "done", "lost"}
      /\ job \in Job /\ job.seq \in Nat /\ job.state \in {"queued", "running", "done", "lost"}
      /\ faults \in 0..MaxFaults /\ faults \in Nat
  BY RunnerTypes
<1>1. /\ sup.pc = "write" /\ job' = sup.job
      /\ UNCHANGED <<policy, dir, log, ino, partial, cursors, rpc, coord, faults>>
  BY DEF WritesJob, server
<1>2. PICK pc \in {"gone", "running"} :
        (pc = "gone" <=> sup.job.state = "done") /\ sup' = [sup EXCEPT !.pc = pc]
  BY DEF WritesJob
<1>3. sup' \in SupRecord /\ sup'.pc = pc /\ sup'.job = sup.job /\ sup'.printed = sup.printed
  BY <1>0, <1>2 DEF SupRecord
<1>4. job.state \notin Terminal /\ job.seq <= sup.job.seq /\ sup.job.state \in {"running", "done"}
  BY <1>0, <1>1 DEF SupInv, Behind, Numbered
<1>5. SupInv'
  <2>1. Numbered'
    BY <1>0, <1>2, <1>3, <1>4 DEF SupInv, Numbered
  <2>2. Behind'
    BY <1>0, <1>1, <1>2, <1>3, <1>4 DEF SupInv, Behind, Terminal
  <2> QED BY <2>1, <2>2 DEF SupInv
<1>6. Top' = Top /\ Top = sup.job.seq
  BY <1>0, <1>1, <1>3, <1>4 DEF Top
<1>7. \A d \in Record : Genuine(d) => Genuine(d)'
  BY <1>3, <1>4, <1>6 DEF Genuine, Terminal
<1>8. Forward
  BY <1>0, <1>1, <1>3, <1>4, <1>6, <1>7 DEF Forward, Printed
<1>9. FileInv' /\ CursorInv'
  BY <1>0, <1>1, <1>2, <1>3, <1>7, FilesStay
<1>10. FilesOK'
  BY <1>0, <1>1, <1>3 DEF FilesOK
<1> QED BY <1>0, <1>1, <1>5, <1>8, <1>9, <1>10, ForwardKeeps

LEMMA KilledStep ==
  ASSUME IInv, Killed
  PROVE  IInv'
<1>0. /\ TypeOK /\ FilesOK /\ SupInv /\ FileInv /\ CursorInv /\ LogAssumption
      /\ sup \in SupRecord /\ job.seq \in Nat /\ sup.job.seq \in Nat
  BY RunnerTypes
<1>1. /\ sup.pc # "gone" /\ sup' = [sup EXCEPT !.pc = "gone"]
      /\ UNCHANGED <<policy, dir, job, log, ino, cursors, rpc, coord>>
  BY DEF Killed, server
<1>2. faults' \in 0..MaxFaults /\ faults' >= faults /\ partial' \in BOOLEAN
  <2>1. CASE Fault("killed") /\ UNCHANGED partial
    BY <1>0, <2>1, FaultCount DEF FilesOK
  <2>2. CASE Fault("torn") /\ partial' = TRUE
    BY <1>0, <2>2, FaultCount
  <2> QED BY <2>1, <2>2 DEF Killed
<1>3. sup' \in SupRecord /\ sup'.pc = "gone" /\ sup'.job = sup.job /\ sup'.printed = sup.printed
  BY <1>0, <1>1 DEF SupRecord
<1>4. SupInv'
  BY <1>0, <1>1, <1>3 DEF SupInv, Numbered, Behind
<1>5. Top' = Top
  BY <1>1, <1>3 DEF Top
<1>6. \A d \in Record : Genuine(d) => Genuine(d)'
  BY <1>1, <1>3, <1>5 DEF Genuine
<1>7. Forward
  <2>1. Top <= Top
    BY <1>0 DEF Top
  <2> QED BY <1>1, <1>3, <1>5, <1>6, <2>1 DEF Forward, Printed
<1>8. FileInv' /\ CursorInv'
  BY <1>0, <1>1, <1>3, <1>6, FilesStay
<1>9. FilesOK'
  BY <1>0, <1>1, <1>2, <1>3 DEF FilesOK
<1> QED BY <1>1, <1>2, <1>4, <1>7, <1>8, <1>9, ForwardKeeps

LEMMA PruneStep ==
  ASSUME IInv, Prune
  PROVE  IInv'
<1>0. /\ TypeOK /\ FilesOK /\ SupInv /\ FileInv /\ CursorInv /\ LogAssumption
      /\ job.seq \in Nat /\ sup.job.seq \in Nat /\ faults \in 0..MaxFaults /\ faults \in Nat
  BY RunnerTypes
<1>1. /\ job.state \in Terminal /\ dir' = FALSE /\ cursors' = [f \in Files |-> {}]
      /\ UNCHANGED <<policy, sup, job, log, ino, partial, rpc, coord, faults>>
  BY DEF Prune, Prunable, supervisor
<1>2. sup.pc # "compact"
  BY <1>0, <1>1 DEF SupInv, Behind
<1>3. SupInv'
  BY <1>0, <1>1 DEF SupInv, Numbered, Behind
<1>4. Top' = Top /\ Top <= Top
  BY <1>0, <1>1 DEF Top
<1>5. \A d \in Record : Genuine(d) => Genuine(d)'
  BY <1>1, <1>4 DEF Genuine
<1>6. Forward
  BY <1>1, <1>4, <1>5 DEF Forward, Printed
<1>7. FileInv' /\ CursorInv'
  BY <1>0, <1>1, <1>2, <1>5, FilesStay
<1>8. FilesOK'
  BY <1>0, <1>1 DEF FilesOK
<1> QED BY <1>0, <1>1, <1>3, <1>6, <1>7, <1>8, ForwardKeeps

(* Reconcile writes the last event; its number is that of no earlier one,  *)
(* or that of the one event the supervisor did not live to record.         *)
LEMMA ReconcilesStep ==
  ASSUME IInv, Reconciles
  PROVE  IInv'
<1>0. /\ TypeOK /\ FilesOK /\ SupInv /\ FileInv /\ CursorInv /\ LogAssumption
      /\ job \in Job /\ job.seq \in Nat /\ sup.job.seq \in Nat /\ faults \in 0..MaxFaults /\ faults \in Nat
  BY RunnerTypes
<1>1. /\ dir /\ job.state \notin Terminal /\ sup.pc = "gone"
      /\ job' = Advance(job, "lost") /\ partial' = FALSE
      /\ log' = StateAppended(Advance(job, "lost").seq, "lost")
      /\ UNCHANGED <<policy, sup, dir, ino, cursors, rpc, coord, faults>>
  BY DEF Reconciles, LostRecord, supervisor, server
<1>2. job' \in Job /\ job'.seq = job.seq + 1 /\ job'.state = "lost"
  BY <1>0, <1>1, AdvanceType
<1>3. SupInv'
  BY <1>0, <1>1, <1>2 DEF SupInv, Numbered, Behind, Terminal
<1>4. Top = sup.job.seq /\ Top' = job.seq + 1 /\ Top <= Top'
  BY <1>0, <1>1, <1>2 DEF Top, SupInv, Behind
<1>5. \A d \in Record : Genuine(d) => Genuine(d)'
  <2> SUFFICES ASSUME NEW d \in Record, Genuine(d) PROVE Genuine(d)'
    OBVIOUS
  <2>1. d.seq \in Nat
    BY DEF Record
  <2> QED BY <1>0, <1>1, <1>4, <2>1 DEF Genuine, Terminal
<1>6. Forward
  BY <1>1, <1>4, <1>5 DEF Forward, Printed
<1>7. PICK e \in Record : e = [seq |-> job.seq + 1, kind |-> IF partial THEN "garbled" ELSE "lost"]
  <2>1. job.seq + 1 \in Nat /\ (IF partial THEN "garbled" ELSE "lost") \in {"state", "lost", "output", "garbled"}
    BY <1>0
  <2> QED BY <2>1, RecordType
<1>8. e.seq = job.seq + 1 /\ e.kind \in {"garbled", "lost"}
  BY <1>7
<1>9. Genuine(e)'
  BY <1>0, <1>2, <1>4, <1>8 DEF Genuine
<1>10. log' = [log EXCEPT !["state"] = Append(@, e)]
  <2>1. Advance(job, "lost").seq = job.seq + 1
    BY <1>1, <1>2
  <2> QED BY <1>1, <1>7, <2>1 DEF StateAppended
<1>11. log' \in [Files -> Seq(Record)] /\ FileInv' /\ CursorInv'
  BY <1>0, <1>1, <1>5, <1>9, <1>10, Appends DEF Files
<1>12. FilesOK'
  BY <1>0, <1>1, <1>2, <1>11 DEF FilesOK
<1> QED BY <1>0, <1>1, <1>3, <1>6, <1>11, <1>12, ForwardKeeps
(* What compaction keeps was in the file.                                  *)
LEMMA RetainedIsFile ==
  ASSUME NEW s \in Seq(Record), NEW n \in Int, n <= Len(s)
  PROVE  /\ Retained(s, n) \in Seq(Record)
         /\ \A i \in 1..Len(Retained(s, n)) : \E k \in 1..Len(s) : Retained(s, n)[i] = s[k]
<1> DEFINE m == Len(s) - n + 1
<1>1. m \in Int /\ m >= 1 /\ Len(s) \in Nat /\ Retained(s, n) = SubSeq(s, m, Len(s))
  BY DEF Retained
<1> HIDE DEF m
<1>2. \A i \in m..Len(s) : i \in 1..Len(s) /\ s[i] \in Record
  BY <1>1
<1>3. /\ SubSeq(s, m, Len(s)) \in Seq(Record)
      /\ Len(SubSeq(s, m, Len(s))) = IF m <= Len(s) THEN Len(s) - m + 1 ELSE 0
      /\ \A i \in 1 .. Len(s) - m + 1 : SubSeq(s, m, Len(s))[i] = s[m + i - 1]
  <2>1. Len(s) \in Int
    BY <1>1
  <2> QED BY <1>1, <1>2, <2>1, SubSeqProperties
<1>4. ASSUME NEW i \in 1..Len(SubSeq(s, m, Len(s)))
      PROVE  \E k \in 1..Len(s) : SubSeq(s, m, Len(s))[i] = s[k]
  <2>1. i \in 1 .. Len(s) - m + 1 /\ m + i - 1 \in 1..Len(s)
    BY <1>1, <1>3
  <2> QED BY <1>3, <2>1
<1> QED BY <1>1, <1>3, <1>4

(* Unless inodes are reused, no cursor is of the new file.                 *)
LEMMA CompactsStep ==
  ASSUME IInv, Compacts
  PROVE  IInv'
<1>0. /\ TypeOK /\ FilesOK /\ SupInv /\ FileInv /\ CursorInv /\ LogAssumption
      /\ sup \in SupRecord /\ sup.job \in Job /\ job.seq \in Nat /\ sup.job.seq \in Nat
      /\ faults \in 0..MaxFaults /\ faults \in Nat
  BY RunnerTypes
<1>1. /\ sup.pc = "compact"
      /\ ino' = [ino EXCEPT !["output"] = IF policy.reuse THEN 1 - @ ELSE @ + 1]
      /\ sup' = [sup EXCEPT !.pc = "write", !.job.truncated = TRUE]
      /\ UNCHANGED <<policy, dir, job, partial, cursors, rpc, coord, faults>>
  BY DEF Compacts, server
<1>2. /\ [sup.job EXCEPT !.truncated = TRUE] \in Job
      /\ [sup.job EXCEPT !.truncated = TRUE].seq = sup.job.seq
      /\ [sup.job EXCEPT !.truncated = TRUE].state = sup.job.state
  BY <1>0, TruncatedType
<1>3. /\ sup' \in SupRecord /\ sup'.pc = "write" /\ sup'.printed = sup.printed
      /\ sup'.job = [sup.job EXCEPT !.truncated = TRUE]
  BY <1>0, <1>1, <1>2 DEF SupRecord
<1>4. sup'.job.seq = sup.job.seq /\ sup'.job.state = sup.job.state
  BY <1>2, <1>3
<1>5. SupInv'
  BY <1>0, <1>1, <1>3, <1>4 DEF SupInv, Numbered, Behind
<1>6. Top' = Top /\ Top <= Top
  BY <1>0, <1>1, <1>4 DEF Top
<1>7. \A d \in Record : Genuine(d) => Genuine(d)'
  BY <1>1, <1>3, <1>4, <1>6 DEF Genuine
<1>8. Forward
  BY <1>1, <1>3, <1>6, <1>7 DEF Forward, Printed
<1>9. PICK n \in Int : n <= Len(log["output"]) /\ log' = [log EXCEPT !["output"] = Retained(@, n)]
  <2>1. PICK n \in {Kept - 1, Kept} : log' = [log EXCEPT !["output"] = Retained(@, n)]
    BY DEF Compacts
  <2>2. policy.maxBytes \in Nat
    BY <1>0, LogAssumption DEF TypeOK, Policy
  <2>3. Kept \in Int /\ Kept <= policy.maxBytes
    BY <2>2 DEF Kept
  <2>4. Len(log["output"]) > policy.maxBytes /\ Len(log["output"]) \in Nat
    BY <1>0, <1>1, FileTypes DEF FileInv, Files
  <2>5. n \in Int /\ n <= Len(log["output"])
    BY <2>2, <2>3, <2>4
  <2> QED BY <2>1, <2>5
<1>10. /\ log["output"] \in Seq(Record) /\ log'["output"] = Retained(log["output"], n)
       /\ log'["state"] = log["state"] /\ log["state"] \in Seq(Record) /\ log' = [f \in Files |-> log'[f]]
  BY <1>0, <1>9 DEF FilesOK, Files
<1>11. /\ log'["output"] \in Seq(Record)
       /\ \A i \in 1..Len(log'["output"]) : \E k \in 1..Len(log["output"]) : log'["output"][i] = log["output"][k]
  <2>1. PICK s \in Seq(Record) : s = log["output"] /\ n <= Len(s) /\ log'["output"] = Retained(s, n)
    BY <1>9, <1>10
  <2>2. /\ Retained(s, n) \in Seq(Record)
        /\ \A i \in 1..Len(Retained(s, n)) : \E k \in 1..Len(s) : Retained(s, n)[i] = s[k]
    BY <2>1, RetainedIsFile
  <2> QED BY <2>1, <2>2
<1>12. log' \in [Files -> Seq(Record)]
  <2>1. \A f \in Files : log'[f] \in Seq(Record)
    BY <1>10, <1>11 DEF Files
  <2> QED BY <1>10, <2>1
<1>13. /\ ino' \in [Files -> Nat] /\ ino'["state"] = ino["state"]
       /\ policy.reuse => ino'["output"] \in {0, 1}
       /\ ~policy.reuse => ino'["output"] = ino["output"] + 1
  <2>1. ino \in [Files -> Nat] /\ ino["output"] \in Nat
    BY <1>0 DEF FilesOK, Files
  <2>2. PICK v \in Nat : /\ v = IF policy.reuse THEN 1 - ino["output"] ELSE ino["output"] + 1
                         /\ policy.reuse => v \in {0, 1}
    BY <1>0, <2>1 DEF FileInv
  <2>3. ino' = [ino EXCEPT !["output"] = v]
    BY <1>1, <2>2
  <2> QED BY <2>1, <2>2, <2>3 DEF Files
<1>14. FileInv'
  <2>1. ASSUME NEW f \in Files, NEW i \in 1..Len(log'[f]) PROVE Genuine(log[f][i])'
    <3>1. PICK d \in Record : d = log'[f][i]
      BY <1>12
    <3>2. PICK k \in 1..Len(log[f]) : d = log[f][k]
      BY <1>10, <1>11, <3>1 DEF Files
    <3>3. Genuine(d)'
      BY <1>0, <1>7, <3>2 DEF FileInv
    <3> QED BY <3>1, <3>3 DEF Genuine
  <2> QED BY <1>1, <1>3, <1>13, <2>1 DEF FileInv
<1>15. CursorInv'
  <2> SUFFICES ASSUME NEW f \in Files, NEW c \in cursors[f], ~(f = "output" /\ policy.reuse)
               PROVE  /\ c.ino <= ino'[f]
                      /\ c.ino = ino'[f] =>
                           /\ c.offset <= Len(log'[f])
                           /\ \A i \in 1..c.offset : log'[f][i].kind = "garbled" \/ log'[f][i].seq <= c.last
    BY <1>1 DEF CursorInv, CursorsComplete
  <2>1. c.ino <= ino[f] /\ c.ino \in Nat /\ ino[f] \in Nat
    BY <1>0, FileTypes DEF CursorInv, Cursor
  <2>2. CASE f = "output"
    BY <1>13, <2>1, <2>2
  <2>3. CASE f = "state"
    BY <1>0, <1>10, <1>13, <2>1, <2>3 DEF CursorInv, CursorsComplete
  <2> QED BY <2>2, <2>3 DEF Files
<1>16. FilesOK'
  BY <1>0, <1>1, <1>3, <1>12, <1>13 DEF FilesOK
<1> QED BY <1>0, <1>1, <1>5, <1>8, <1>14, <1>15, <1>16, ForwardKeeps
-----------------------------------------------------------------------------
(* Init and Next keep the inductive invariant.                             *)
LEMMA InitIInv ==
  ASSUME Init
  PROVE  IInv
<1>1. NewJob \in Job /\ NewJob.seq = 1 /\ NewJob.state = "queued"
  BY DEF NewJob, Job
<1>2. IdleRpc \in RpcRecord /\ IdleRpc.pc = "idle" /\ IdleRpc.after = 0 /\ IdleRpc.events = {}
      /\ IdleRpc.job = NewJob /\ IdleRpc.error = FALSE
  BY <1>1 DEF IdleRpc, RpcRecord
<1>3. sup \in SupRecord /\ sup.pc = "start" /\ sup.job = NewJob /\ sup.printed = 0
  BY <1>1 DEF Init, SupRecord
<1>4. /\ coord \in CoordRecord /\ coord.pc = "watch" /\ coord.rpc = NoRpc /\ coord.after = 0
      /\ coord.remote = NewJob /\ coord.truncated = FALSE /\ coord.got = <<>>
  BY <1>1, LogAssumption DEF Init, CoordRecord
<1>5. PICK e \in Record : e = [seq |-> 1, kind |-> "state"]
  BY DEF Record
<1>6. e.seq = 1 /\ e.kind = "state"
  BY <1>5
<1>7. /\ log["state"] = <<e>> /\ log["output"] = <<>> /\ log \in [Files -> Seq(Record)]
      /\ dir = TRUE /\ job = NewJob /\ ino = [f \in Files |-> 0] /\ cursors = [f \in Files |-> {}]
      /\ rpc = [r \in Rpcs |-> IdleRpc] /\ faults = 0 /\ partial = FALSE /\ policy \in Policies
  <2>1. log = [state |-> <<e>>, output |-> <<>>]
    BY <1>5, Zenon DEF Init
  <2>2. log["state"] = <<e>> /\ log["output"] = <<>> /\ log = [f \in Files |-> log[f]]
    BY <2>1 DEF Files
  <2>3. <<e>> \in Seq(Record) /\ <<>> \in Seq(Record)
    OBVIOUS
  <2>4. \A f \in Files : log[f] \in Seq(Record)
    BY <2>2, <2>3 DEF Files
  <2>5. log \in [Files -> Seq(Record)]
    BY <2>2, <2>4, Zenon
  <2> QED BY <2>2, <2>5 DEF Init
<1>8. TypeOK
  <2>1. rpc \in [Rpcs -> RpcRecord] /\ ino \in [Files -> Nat]
        /\ cursors \in [Files -> SUBSET Cursor] /\ \A f \in Files : \A c, d \in cursors[f] : c = d
    BY <1>2, <1>7
  <2>2. faults \in 0..MaxFaults
    BY <1>7, LogAssumption
  <2>3. dir \in BOOLEAN /\ partial \in BOOLEAN /\ job \in Job
    BY <1>1, <1>7
  <2> QED BY <1>3, <1>4, <1>7, <2>1, <2>2, <2>3, Zenon
         DEF TypeOK, RpcRecord, CoordRecord, SupRecord
<1>9. OutputInOrder
  BY <1>4, <1>8 DEF OutputInOrder
<1>10. SupInv
  BY <1>1, <1>3, <1>7 DEF SupInv, Numbered, Behind, Terminal
<1>11. Top = 1
  BY <1>1, <1>3, <1>7 DEF Top
<1>12. FileInv
  <2>1. Genuine(e)
    BY <1>6, <1>11 DEF Genuine
  <2>2. ASSUME NEW f \in Files, NEW i \in 1..Len(log[f]) PROVE log[f][i] = e
    BY <1>7 DEF Files
  <2>3. ino["output"] = 0
    BY <1>7 DEF Files
  <2> QED BY <1>3, <2>1, <2>2, <2>3 DEF FileInv
<1>13. CursorInv
  BY <1>7 DEF CursorInv, CursorsComplete
<1>14. Seen(NewJob)
  BY <1>1, <1>11 DEF Seen, Terminal
<1>15. RpcInv
  <2>1. RpcOK(IdleRpc)
    BY <1>2, <1>11, <1>14 DEF RpcOK
  <2> QED BY <1>7, <2>1 DEF RpcInv
<1>16. WaitInv
  BY <1>4 DEF WaitInv
<1>17. CoordInv
  <2>1. \A k \in Printed : ~(k <= coord.after)
    BY <1>3, <1>4 DEF Printed
  <2>2. Len(coord.got) = 0
    BY <1>4
  <2> QED BY <1>4, <1>11, <1>14, <2>1, <2>2 DEF CoordInv, Covered
<1>18. LostIsExplained
  BY <1>4 DEF LostIsExplained
<1> QED BY <1>9, <1>10, <1>12, <1>13, <1>15, <1>16, <1>17, <1>18 DEF IInv

LEMMA NextIInv ==
  ASSUME IInv, [Next]_vars
  PROVE  IInv'
<1>1. CASE Supervisor
  <2>1. CASE Started
    BY <2>1, SupStateStep DEF Started
  <2>2. CASE Finished
    BY <2>2, SupStateStep DEF Finished
  <2> QED BY <1>1, <2>1, <2>2, PrintsStep, CompactsStep, WritesJobStep DEF Supervisor
<1>2. ASSUME NEW r \in Rpcs, Serve(r) \/ Answer(r) PROVE IInv'
  BY <1>2, CheckStep, ReadStateStep, ReadOutputStep, AnswerStep DEF Serve
<1>3. CASE UNCHANGED vars
  BY <1>3 DEF vars, IInv, OutputInOrder, TypeOK, SupInv, Numbered, Behind, FileInv, CursorInv,
     CursorsComplete, RpcInv, RpcOK, WaitInv, CoordInv, Covered, LostIsExplained, Genuine, Seen, Top,
     Drained, Printed, Renumbered
<1> QED BY <1>1, <1>2, <1>3, KilledStep, ReconcilesStep, PruneStep, RestartStep, CallStep,
       CompletesStep, LosesAnswerStep DEF Next, Stopped

(* Whatever is read or was copied, of the job record, its files or its     *)
(* cursors, is true of the job, and the coordinator has accounted for every *)
(* chunk up to the last number it has, on every interleaving of the        *)
(* supervisor, the server's calls, the faults and the coordinator.         *)
THEOREM Invariant == Spec => []IInv
<1> QED BY InitIInv, NextIInv, PTL DEF Spec
(* At the end of the loop of watchRunnerJob the coordinator has appended   *)
(* every chunk the command printed, or says that the output is truncated,  *)
(* whatever appendOutput dropped, compactTailFile removed, EventsAfter cut *)
(* to a batch, a lost call repeated or a stale cursor skipped.             *)
THEOREM NothingLostSilently == Spec => []NoSilentLoss
<1>1. ASSUME IInv, coord.pc = "done" PROVE \A k \in Printed : k <= coord.after
  <2>1. /\ SupInv /\ sup.printed \in Nat /\ sup.job.seq \in Nat /\ job.seq \in Nat
        /\ sup.job.state \in {"queued", "running", "done", "lost"}
    BY <1>1, RunnerTypes
  <2>2. coord.after \in Nat /\ Drained /\ Seen(coord.remote)
    BY <1>1, CoordTypes DEF IInv, CoordInv, CoordOK, CoordRecord
  <2>3. job.state \in Terminal /\ coord.after >= job.seq
    BY <2>2 DEF Drained, Seen
  <2>4. sup.job.seq <= coord.after
    BY <2>1, <2>2, <2>3 DEF SupInv, Behind
  <2> QED BY <2>1, <2>2, <2>4 DEF Printed, SupInv, Numbered
<1>2. IInv => NoSilentLoss
  BY <1>1 DEF IInv, CoordInv, Covered, NoSilentLoss
<1> QED BY <1>2, Invariant, PTL

(* No chunk is appended twice or out of order, although watchRunnerJob     *)
(* asks again for what a lost answer already carried.                      *)
THEOREM InOrderOnce == Spec => []OutputInOrder
<1>1. IInv => OutputInOrder
  BY DEF IInv
<1> QED BY <1>1, Invariant, PTL

(* No cursor of readEvents skips a record that its next caller lacks, as   *)
(* long as the file system does not reuse inodes.                          *)
THEOREM CursorsSkipNothing == Spec => []CursorsComplete
<1>1. IInv => CursorsComplete
  BY DEF IInv, CursorInv
<1> QED BY <1>1, Invariant, PTL

(* watchRunnerJob reports a job lost only for a cause: Prune removed it    *)
(* after its end, a call failed, or an answer was too large to accept.     *)
THEOREM LostExplained == Spec => []LostIsExplained
<1>1. IInv => LostIsExplained
  BY DEF IInv
<1> QED BY <1>1, Invariant, PTL
=============================================================================
