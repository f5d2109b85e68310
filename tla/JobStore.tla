------------------------------ MODULE JobStore ------------------------------
(***************************************************************************)
(* The coordinator's job store: a snapshot that is replaced by a rename,   *)
(* and an append journal of numbered, checksummed records that is replayed *)
(* over the snapshot when the coordinator starts.                          *)
(*                                                                         *)
(* save is one synchronous call of one process, so its steps (append,      *)
(* snapshot, compaction) are separated only by failures: the process may   *)
(* be killed between or inside two of them, and a step may throw.  Of a    *)
(* job record the store tells apart the id and the version; version 0      *)
(* stands for "no such job".  A corrupt or missing snapshot loads as an    *)
(* empty one.                                                              *)
(***************************************************************************)
EXTENDS Naturals, Sequences, FiniteSetsExt

CONSTANTS Jobs,        \* job ids; a deleted id is never used again
          MaxVersion,  \* bound: versions of a job
          Plans,       \* what to explore together, see Plan
          MaxFaults    \* bound: how many faults happen

(* The kinds of fault the environment may produce, and the lines that      *)
(* stand for MAX_JOURNAL_BYTES.  A snapshot that is lost after the journal *)
(* was compacted is lost for good, so a plan has one or the other.         *)
Plan == [faults : SUBSET {"crash", "torn", "io", "snapshot"}, compactAt : Nat]

ASSUME StoreAssumption == MaxVersion \in Nat /\ MaxFaults \in Nat /\ Plans \subseteq Plan

VARIABLES plan,      \* the plan of this behaviour
          jobs,      \* the manager's table: the version of each job
          gone,      \* ids the manager has deleted
          snapshot,  \* the snapshot file
          journal,   \* the lines of the journal file
          tail,      \* "closed" by a newline, "open" (whole record, no newline), "cut"
          persisted, \* persistedVersions
          sequence,  \* journalSequence
          pc,        \* "idle", the next step of save, or "down"
          saved,     \* what the last save that returned has stored
          erased,    \* deletions stored by a save that returned
          faults     \* faults so far

disk == <<snapshot, journal, tail>>
vars == <<plan, jobs, gone, disk, persisted, sequence, pc, saved, erased, faults>>

Table   == [Jobs -> 0 .. MaxVersion]
NoJobs  == [j \in Jobs |-> 0]
Record  == [seq : Nat \ {0}, jobs : Table, deleted : SUBSET Jobs]
BadLine == [seq |-> 0, jobs |-> NoJobs, deleted |-> {}]

TypeOK ==
  /\ jobs \in Table /\ snapshot \in Table /\ persisted \in Table /\ saved \in Table
  /\ gone \subseteq Jobs /\ erased \subseteq gone
  /\ \A i \in DOMAIN journal : journal[i] \in Record \cup {BadLine}
  /\ tail \in {"closed", "open", "cut"}
  /\ tail # "closed" => journal # <<>>
  /\ sequence \in Nat
  /\ pc \in {"idle", "snapshot", "compact", "down"}
  /\ faults \in 0 .. MaxFaults /\ plan \in Plans

Fault(kind) == kind \in plan.faults /\ faults < MaxFaults /\ faults' = faults + 1
-----------------------------------------------------------------------------
(***************************************************************************)
(* load: the records of the journal that are whole and numbered 1, 2, ...  *)
(* are applied to the snapshot, up to the first that is not.               *)
(***************************************************************************)
MutVersionIgnored(table, r) ==
  [j \in Jobs |-> IF r.jobs[j] # 0 THEN r.jobs[j]
                  ELSE IF j \in r.deleted THEN 0 ELSE table[j]]
MutDeletionsSkipped(table, r) ==
  [j \in Jobs |-> IF r.jobs[j] # 0 /\ table[j] <= r.jobs[j] THEN r.jobs[j] ELSE table[j]]
Applied(table, r) ==
  [j \in Jobs |-> LET current == IF j \in r.deleted THEN 0 ELSE table[j]
                  IN IF r.jobs[j] # 0 /\ current <= r.jobs[j] THEN r.jobs[j] ELSE current]

ValidPrefix == Max({n \in 0 .. Len(journal) : \A k \in 1 .. n : journal[k].seq = k})

Recovered ==
  LET replayed[n \in 0 .. ValidPrefix] ==
        IF n = 0 THEN snapshot ELSE Applied(replayed[n - 1], journal[n])
  IN  replayed[ValidPrefix]

Load ==
  /\ pc = "down"
  /\ jobs' = Recovered
  /\ persisted' = Recovered
  /\ sequence' = ValidPrefix
  /\ pc' = "idle"
  /\ UNCHANGED <<plan, gone, disk, saved, erased, faults>>
-----------------------------------------------------------------------------
(* The manager starts a job or changes one (changed: version + 1).         *)
Change(j) ==
  /\ pc = "idle"
  /\ (jobs[j] # 0 \/ j \notin gone) /\ jobs[j] < MaxVersion
  /\ jobs' = [jobs EXCEPT ![j] = @ + 1]
  /\ UNCHANGED <<plan, gone, disk, persisted, sequence, pc, saved, erased, faults>>
-----------------------------------------------------------------------------
(***************************************************************************)
(* persistNow: pruneHistory, then save.                                    *)
(***************************************************************************)
(* The journal record of a table: what changed since the last save that    *)
(* returned, and what was deleted.                                         *)
Payload(table) ==
  [seq     |-> sequence + 1,
   jobs    |-> [j \in Jobs |-> IF table[j] # persisted[j] THEN table[j] ELSE 0],
   deleted |-> {j \in Jobs : persisted[j] # 0 /\ table[j] = 0}]

NoChange(r) == r.jobs = NoJobs /\ r.deleted = {}

(* Text written behind an unterminated line becomes part of that line.     *)
Lines(r) == IF tail = "closed"
              THEN Append(journal, r)
              ELSE [journal EXCEPT ![Len(journal)] = BadLine]

(* What a write of r leaves in the file: all of it, all but the newline,   *)
(* or a part.                                                              *)
Written(r, end) ==
  /\ journal' = Lines(IF end = "cut" THEN BadLine ELSE r)
  /\ tail' = end

Prune(pruned) ==
  /\ jobs' = [j \in Jobs |-> IF j \in pruned THEN 0 ELSE jobs[j]]
  /\ gone' = gone \cup pruned
  /\ saved' = [j \in Jobs |-> IF j \in pruned THEN 0 ELSE saved[j]]

SaveAppend ==
  /\ pc = "idle"
  /\ \E pruned \in SUBSET {j \in Jobs : jobs[j] # 0} :
       LET r == Payload([j \in Jobs |-> IF j \in pruned THEN 0 ELSE jobs[j]])
       IN /\ Prune(pruned)
          /\ \/ /\ NoChange(r)
                /\ pc' = "snapshot"
                /\ UNCHANGED <<journal, tail, sequence, faults>>
             \/ /\ ~NoChange(r)
                /\ Written(r, "closed")
                /\ sequence' = r.seq
                /\ pc' = "snapshot"
                /\ UNCHANGED faults
             \/ /\ ~NoChange(r) /\ Fault("torn")     \* killed inside the write
                /\ \E end \in {"open", "cut"} : Written(r, end)
                /\ pc' = "down"
                /\ UNCHANGED sequence
             \/ /\ ~NoChange(r) /\ Fault("io")       \* writeSync, fsync or chmod throws
                /\ \/ UNCHANGED <<journal, tail>>
                   \/ \E end \in {"closed", "open", "cut"} : Written(r, end)
                /\ pc' = "idle"
                /\ UNCHANGED sequence
  /\ UNCHANGED <<plan, snapshot, persisted, erased>>

(* The temporary file is written, synced and renamed over the snapshot.    *)
SaveSnapshot ==
  /\ pc = "snapshot"
  /\ \/ /\ snapshot' = jobs
        /\ persisted' = jobs
        /\ pc' = "compact"
        /\ UNCHANGED faults
     \/ /\ Fault("io")
        /\ pc' = "idle"
        /\ UNCHANGED <<snapshot, persisted>>
  /\ UNCHANGED <<plan, jobs, gone, journal, tail, sequence, saved, erased>>

(* compactJournalIfNeeded, after which save returns.                       *)
SaveCompact ==
  /\ pc = "compact"
  /\ pc' = "idle"
  /\ saved' = jobs /\ erased' = {j \in gone : jobs[j] = 0}
  /\ IF Len(journal) > plan.compactAt
       THEN journal' = <<>> /\ tail' = "closed" /\ sequence' = 0
       ELSE UNCHANGED <<journal, tail, sequence>>
  /\ UNCHANGED <<plan, jobs, gone, snapshot, persisted, faults>>
-----------------------------------------------------------------------------
Crash ==
  /\ pc # "down" /\ Fault("crash")
  /\ pc' = "down"
  /\ UNCHANGED <<plan, jobs, gone, disk, persisted, sequence, saved, erased>>

(* The snapshot file is lost or corrupted while the coordinator is down.   *)
LoseSnapshot ==
  /\ pc = "down" /\ Fault("snapshot")
  /\ snapshot' = NoJobs
  /\ UNCHANGED <<plan, jobs, gone, journal, tail, persisted, sequence, pc, saved, erased>>

Init ==
  /\ plan \in Plans
  /\ jobs = NoJobs /\ gone = {}
  /\ snapshot = NoJobs /\ journal = <<>> /\ tail = "closed"
  /\ persisted = NoJobs /\ sequence = 0
  /\ pc = "idle"
  /\ saved = NoJobs /\ erased = {} /\ faults = 0

Next == \/ \E j \in Jobs : Change(j)
        \/ SaveAppend \/ SaveSnapshot \/ SaveCompact
        \/ Load \/ Crash \/ LoseSnapshot

Spec == Init /\ [][Next]_vars
-----------------------------------------------------------------------------
(* Whenever the coordinator is killed, the next one finds every job at the *)
(* version of the last save that returned, or at a later one.              *)
SavedVersionsSurvive == TypeOK /\ \A j \in Jobs : Recovered[j] >= saved[j]

(* A job whose deletion was saved does not come back, after any crash and  *)
(* when the snapshot is lost.  Only a write that failed may bring it back: *)
(* load stops at a broken line before the deletion, and a job that was     *)
(* journalled by a save that threw is pruned without a deletion record.    *)
DeletedStaysDeleted ==
  plan.faults \cap {"torn", "io"} = {} => \A j \in erased : Recovered[j] = 0

-----------------------------------------------------------------------------
(* Statements of the repository that the code does not keep: the README    *)
(* tells how.  They are not invariants.                                    *)

(* "Ignore a corrupt tail; complete journal records remain independently   *)
(* valid" (replayJournal): once save has returned, the deletions of every  *)
(* complete record are in force, whatever else the journal holds.          *)
CompleteRecordsStayValid ==
  \A i \in DOMAIN journal : \A j \in journal[i].deleted \cap erased : Recovered[j] = 0
=============================================================================
