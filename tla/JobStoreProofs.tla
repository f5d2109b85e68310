--------------------------- MODULE JobStoreProofs ---------------------------
(***************************************************************************)
(* What the job store keeps, for any number of jobs, versions and faults.  *)
(* The two properties fail in different ways, so IInv has a part for each. *)
(* KeepInv: a version that was saved is in the snapshot, and no record     *)
(* that load reads deletes the job.  EraseInv: a job whose deletion was    *)
(* saved is neither in the snapshot nor in a record without a later        *)
(* deletion.                                                               *)
(***************************************************************************)
EXTENDS JobStore, WellFoundedInduction, TLAPS

Journal == journal \in Seq(Record \cup {BadLine})

(* While save writes the snapshot, table and files agree; a job that is in *)
(* persistedVersions and no longer in the table was deleted.               *)
TableInv ==
  /\ pc = "compact" => snapshot = jobs /\ persisted = jobs
  /\ pc # "down" => \A j \in Jobs : persisted[j] # 0 /\ jobs[j] = 0 => j \in gone

(* Line m and all lines before it are read by load.                        *)
Valid(m) == m \in 1 .. Len(journal) /\ \A k \in 1 .. m : journal[k].seq = k

(* A deletion that load reads is final: it is not overtaken by a version   *)
(* in a later line that load reads, and the table does not have the job.   *)
DeletionFinal ==
  \A m \in 1 .. Len(journal) : Valid(m) =>
    \A k \in 1 .. m : \A j \in journal[k].deleted :
      j \in gone /\ jobs[j] = 0 /\ saved[j] = 0 /\ journal[m].jobs[j] = 0

KeepInv ==
  "snapshot" \notin plan.faults =>
    /\ \A j \in Jobs : saved[j] <= snapshot[j]
    /\ pc # "down" => \A j \in Jobs : saved[j] <= jobs[j]
    /\ DeletionFinal

(* No write failed: every line is whole and numbered, load reads them all. *)
Clean == plan.faults \cap {"torn", "io"} = {}

Numbered ==
  /\ \A k \in 1 .. Len(journal) : journal[k].seq = k
  /\ tail = "closed"
  /\ pc # "down" => sequence = Len(journal)

(* A version of j in a line that no later line deletes.                    *)
Alive(j) ==
  \E k \in 1 .. Len(journal) :
    /\ journal[k].jobs[j] # 0
    /\ \A m \in 1 .. Len(journal) : k < m => j \notin journal[m].deleted

EraseInv ==
  Clean =>
    /\ Numbered
    /\ \A j \in erased : /\ jobs[j] = 0 /\ snapshot[j] = 0 /\ ~Alive(j)
                         /\ pc # "down" => persisted[j] = 0
    /\ \A j \in Jobs : Alive(j) =>
         /\ pc = "snapshot" => jobs[j] # 0
         /\ pc \in {"idle", "compact"} => persisted[j] # 0

IInv == TypeOK /\ Journal /\ TableInv /\ KeepInv /\ EraseInv
-----------------------------------------------------------------------------
(* Induction over the lines of the journal, from the least number at which *)
(* a claim fails.                                                          *)
LEMMA LeastNumber ==
  ASSUME NEW T \in SUBSET Nat, T # {}
  PROVE  \E n \in T : \A m \in T : n <= m
<1> DEFINE R == OpToRel(<, Nat)
<1>1. IsWellFoundedOn(R, Nat)
  BY NatLessThanWellFounded, Zenon
<1>2. \A m, n \in Nat : m < n => <<m, n>> \in R
  BY DEF OpToRel
<1> HIDE DEF R
<1>3. PICK x \in T : \A y \in T : ~(<<y, x>> \in R)
  BY <1>1, WFMin
<1>4. ASSUME NEW y \in T PROVE x <= y
  <2>1. x \in Nat /\ y \in Nat /\ ~(<<y, x>> \in R)
    BY <1>3
  <2>2. ~(y < x)
    BY <1>2, <2>1
  <2> QED BY <2>1, <2>2
<1> QED BY <1>4

LEMMA LineInduction ==
  ASSUME NEW S, NEW a \in Nat, NEW b \in Nat, a \in S,
         \A i \in Nat : a < i /\ i <= b /\ i - 1 \in S => i \in S
  PROVE  \A i \in Nat : a <= i /\ i <= b => i \in S
<1> DEFINE T == {i \in Nat : a <= i /\ i <= b /\ i \notin S}
<1> SUFFICES ASSUME T # {} PROVE FALSE
  OBVIOUS
<1>1. PICK n \in T : \A m \in T : n <= m
  <2>1. T \in SUBSET Nat
    OBVIOUS
  <2> HIDE DEF T
  <2> QED BY <2>1, LeastNumber
<1>2. n \in Nat /\ a <= n /\ n <= b /\ n \notin S
  OBVIOUS
<1>3. a < n /\ n - 1 \in Nat /\ a <= n - 1 /\ n - 1 <= b
  BY <1>2
<1>4. n - 1 \in S
  BY <1>1, <1>3
<1> QED BY <1>2, <1>3, <1>4

(* ValidPrefix is the last line up to which all lines are whole.           *)
LEMMA PrefixIsValid ==
  ASSUME Journal
  PROVE  /\ ValidPrefix \in Nat /\ ValidPrefix <= Len(journal)
         /\ \A k \in 1 .. ValidPrefix : journal[k].seq = k
         /\ \A n \in 0 .. Len(journal) : (\A k \in 1 .. n : journal[k].seq = k) => n <= ValidPrefix
<1>1. Len(journal) \in Nat
  BY DEF Journal
<1>2. PICK L \in Nat : L = Len(journal)
  BY <1>1
<1> DEFINE S == {n \in 0 .. L : \A k \in 1 .. n : journal[k].seq = k}
           T == {L - n : n \in S}
<1>3. 0 \in S
  BY <1>2
<1>4. PICK t \in T : \A m \in T : t <= m
  <2>1. T \in SUBSET Nat /\ T # {}
    BY <1>3
  <2> HIDE DEF T
  <2> QED BY <2>1, LeastNumber
<1>5. PICK x \in S : t = L - x
  OBVIOUS
<1>6. ASSUME NEW y \in S PROVE x >= y
  <2>1. L - y \in T
    OBVIOUS
  <2>2. L - x <= L - y
    BY <1>4, <1>5, <2>1
  <2>3. x \in Nat /\ y \in Nat
    OBVIOUS
  <2> QED BY <2>2, <2>3
<1>7. ValidPrefix = Max(S)
  BY <1>2 DEF ValidPrefix
<1> HIDE DEF S
<1>8. Max(S) \in S /\ \A y \in S : Max(S) >= y
  BY <1>6 DEF Max
<1> USE DEF S
<1>9. ValidPrefix \in 0 .. L /\ \A k \in 1 .. ValidPrefix : journal[k].seq = k
  BY <1>7, <1>8
<1>10. ASSUME NEW n \in 0 .. Len(journal), \A k \in 1 .. n : journal[k].seq = k
       PROVE  n <= ValidPrefix
  <2>1. n \in S
    BY <1>2, <1>10
  <2> HIDE DEF S
  <2>2. Max(S) >= n
    BY <1>8, <2>1
  <2> QED BY <1>2, <1>7, <1>9, <2>2
<1> QED BY <1>2, <1>9, <1>10

LEMMA ValidIsPrefix ==
  ASSUME Journal, NEW m \in 1 .. ValidPrefix
  PROVE  Valid(m) /\ m \in 1 .. Len(journal)
<1>1. /\ ValidPrefix \in Nat /\ ValidPrefix <= Len(journal) /\ Len(journal) \in Nat
      /\ \A k \in 1 .. ValidPrefix : journal[k].seq = k
  BY PrefixIsValid DEF Journal
<1> QED BY <1>1 DEF Valid

(* One record applied to a table yields a table.                           *)
LEMMA AppliedIsTable ==
  ASSUME NEW t \in Table, NEW r \in Record \cup {BadLine}
  PROVE  Applied(t, r) \in Table
<1>1. MaxVersion \in Nat
  BY StoreAssumption
<1>2. r.jobs \in Table
  BY <1>1 DEF Record, BadLine, Table, NoJobs
<1>3. ASSUME NEW j \in Jobs PROVE Applied(t, r)[j] \in 0 .. MaxVersion
  BY <1>1, <1>2 DEF Applied, Table
<1>4. Applied(t, r) = [j \in Jobs |-> Applied(t, r)[j]]
  BY DEF Applied
<1> QED BY <1>3, <1>4 DEF Table

(* What replayJournal has after line i, from what it had after line i - 1. *)
Replayed(f, i) == IF i = 0 THEN snapshot ELSE Applied(f[i - 1], journal[i])

LEMMA ReplayExists ==
  \A n \in Nat : \E f : f = [i \in 0 .. n |-> Replayed(f, i)]
<1> DEFINE Solved(n) == \E f : f = [i \in 0 .. n |-> Replayed(f, i)]
           T == {n \in Nat : ~Solved(n)}
<1> SUFFICES ASSUME T # {} PROVE FALSE
  OBVIOUS
<1>1. PICK n \in T : \A m \in T : n <= m
  <2>1. T \in SUBSET Nat
    OBVIOUS
  <2> HIDE DEF T
  <2> QED BY <2>1, LeastNumber
<1>2. n \in Nat /\ ~Solved(n)
  OBVIOUS
<1>3. CASE n = 0
  <2> DEFINE f == [i \in 0 .. 0 |-> snapshot]
  <2>1. f = [i \in 0 .. 0 |-> Replayed(f, i)]
    BY DEF Replayed
  <2> QED BY <1>2, <1>3, <2>1
<1>4. CASE n # 0
  <2>1. n - 1 \in Nat /\ n - 1 < n
    BY <1>2, <1>4
  <2>2. Solved(n - 1)
    BY <1>1, <2>1
  <2>3. PICK g : g = [i \in 0 .. (n - 1) |-> Replayed(g, i)]
    BY <2>2
  <2> DEFINE f == [i \in 0 .. n |-> IF i = n THEN Replayed(g, n) ELSE g[i]]
  <2>4. ASSUME NEW i \in 0 .. n PROVE f[i] = Replayed(f, i)
    <3>1. CASE i = 0
      <4>1. f[0] = g[0] /\ g[0] = Replayed(g, 0)
        BY <1>2, <1>4, <2>1, <2>3
      <4> QED BY <3>1, <4>1 DEF Replayed
    <3>2. CASE i # 0 /\ i # n
      <4>1. i \in 0 .. (n - 1) /\ i - 1 \in 0 .. (n - 1) /\ i - 1 \in 0 .. n /\ i - 1 # n
        BY <1>2, <2>1, <3>2
      <4>2. f[i] = g[i] /\ f[i - 1] = g[i - 1] /\ g[i] = Replayed(g, i)
        BY <2>3, <3>2, <4>1
      <4> QED BY <4>2 DEF Replayed
    <3>3. CASE i = n
      <4>1. n - 1 \in 0 .. n /\ n - 1 # n
        BY <1>2, <2>1
      <4>2. f[n] = Replayed(g, n) /\ f[n - 1] = g[n - 1]
        BY <1>2, <3>3, <4>1
      <4> QED BY <3>3, <4>2 DEF Replayed
    <3> QED BY <3>1, <3>2, <3>3
  <2>5. f = [i \in 0 .. n |-> Replayed(f, i)]
    <3>1. f = [i \in 0 .. n |-> f[i]]
      OBVIOUS
    <3> HIDE DEF f
    <3> QED BY <2>4, <3>1
  <2>6. Solved(n)
    BY <2>5
  <2> QED BY <1>2, <2>6
<1> QED BY <1>3, <1>4

LEMMA ReplaySteps ==
  ASSUME Journal, snapshot \in Table
  PROVE  \E f : /\ Recovered = f[ValidPrefix]
                /\ f[0] = snapshot
                /\ \A i \in 1 .. ValidPrefix : f[i] = Applied(f[i - 1], journal[i])
                /\ \A i \in 0 .. ValidPrefix : f[i] \in Table
<1>0. ValidPrefix \in Nat /\ ValidPrefix <= Len(journal) /\ Len(journal) \in Nat
  BY PrefixIsValid DEF Journal
<1> DEFINE f == CHOOSE g : g = [n \in 0 .. ValidPrefix |->
                  IF n = 0 THEN snapshot ELSE Applied(g[n - 1], journal[n])]
<1>1. Recovered = f[ValidPrefix]
  BY DEF Recovered
<1>2. \E g : g = [i \in 0 .. ValidPrefix |-> Replayed(g, i)]
  BY <1>0, ReplayExists
<1>3. f = [i \in 0 .. ValidPrefix |-> Replayed(f, i)]
  BY <1>2 DEF Replayed
<1> HIDE DEF f
<1>4. \A i \in 0 .. ValidPrefix : f[i] = Replayed(f, i)
  BY <1>3
<1>5. f[0] = snapshot
  BY <1>0, <1>4 DEF Replayed
<1>6. ASSUME NEW i \in 1 .. ValidPrefix PROVE f[i] = Applied(f[i - 1], journal[i])
  BY <1>0, <1>4 DEF Replayed
<1>7. \A i \in 0 .. ValidPrefix : f[i] \in Table
  <2> DEFINE S == {i \in Nat : f[i] \in Table}
  <2>1. 0 \in S
    BY <1>5
  <2>2. ASSUME NEW i \in Nat, 0 < i, i <= ValidPrefix, i - 1 \in S PROVE i \in S
    <3>1. i \in 1 .. ValidPrefix /\ i \in 1 .. Len(journal)
      BY <1>0, <2>2
    <3>2. journal[i] \in Record \cup {BadLine}
      BY <3>1 DEF Journal
    <3>3. f[i - 1] \in Table
      BY <2>2
    <3> QED BY <1>6, <3>1, <3>2, <3>3, AppliedIsTable
  <2> HIDE DEF S
  <2>3. \A i \in Nat : 0 <= i /\ i <= ValidPrefix => i \in S
    BY <1>0, <2>1, <2>2, LineInduction
  <2> QED BY <1>0, <2>3 DEF S
<1> QED BY <1>1, <1>5, <1>6, <1>7
-----------------------------------------------------------------------------
(* What load finds.                                                        *)
LEMMA RecoveredIsTable ==
  ASSUME Journal, snapshot \in Table
  PROVE  Recovered \in Table
<1>1. PICK f : Recovered = f[ValidPrefix] /\ \A i \in 0 .. ValidPrefix : f[i] \in Table
  BY ReplaySteps
<1>2. ValidPrefix \in Nat
  BY PrefixIsValid
<1> QED BY <1>1, <1>2

(* A version in the snapshot survives the replay unless a line that is     *)
(* read deletes the job.                                                   *)
LEMMA RecoveredKeeps ==
  ASSUME Journal, snapshot \in Table, NEW j \in Jobs, NEW v \in Nat,
         v <= snapshot[j],
         \A k \in 1 .. ValidPrefix : j \in journal[k].deleted => v = 0
  PROVE  Recovered[j] >= v
<1>1. PICK f : /\ Recovered = f[ValidPrefix]
               /\ f[0] = snapshot
               /\ \A i \in 1 .. ValidPrefix : f[i] = Applied(f[i - 1], journal[i])
               /\ \A i \in 0 .. ValidPrefix : f[i] \in Table
  BY ReplaySteps
<1>2. ValidPrefix \in Nat /\ MaxVersion \in Nat /\ ValidPrefix <= Len(journal) /\ Len(journal) \in Nat
  BY PrefixIsValid, StoreAssumption DEF Journal
<1> DEFINE S == {i \in Nat : f[i][j] >= v}
<1>3. 0 \in S
  BY <1>1 DEF Table
<1>4. ASSUME NEW i \in Nat, 0 < i, i <= ValidPrefix, i - 1 \in S PROVE i \in S
  <2>1. i \in 1 .. ValidPrefix /\ i - 1 \in 0 .. ValidPrefix /\ i \in 1 .. Len(journal)
    BY <1>2, <1>4
  <2>2. f[i] = Applied(f[i - 1], journal[i]) /\ f[i - 1] \in Table /\ f[i - 1][j] >= v
    BY <1>1, <1>4, <2>1
  <2>3. journal[i] \in Record \cup {BadLine}
    BY <2>1 DEF Journal
  <2>4. journal[i].jobs[j] \in Nat /\ f[i - 1][j] \in Nat
    BY <1>2, <2>2, <2>3 DEF Record, BadLine, NoJobs, Table
  <2>5. j \in journal[i].deleted => v = 0
    BY <2>1
  <2> QED BY <2>2, <2>4, <2>5 DEF Applied
<1> HIDE DEF S
<1>5. \A i \in Nat : 0 <= i /\ i <= ValidPrefix => i \in S
  BY <1>2, <1>3, <1>4, LineInduction
<1> QED BY <1>1, <1>2, <1>5 DEF S

(* A job that a line deletes is not found again unless a later line has a  *)
(* version of it.                                                          *)
LEMMA RecoveredDeleted ==
  ASSUME Journal, snapshot \in Table, NEW j \in Jobs, NEW k \in 1 .. ValidPrefix,
         j \in journal[k].deleted,
         \A m \in 1 .. ValidPrefix : k <= m => journal[m].jobs[j] = 0
  PROVE  Recovered[j] = 0
<1>1. PICK f : /\ Recovered = f[ValidPrefix]
               /\ f[0] = snapshot
               /\ \A i \in 1 .. ValidPrefix : f[i] = Applied(f[i - 1], journal[i])
               /\ \A i \in 0 .. ValidPrefix : f[i] \in Table
  BY ReplaySteps
<1>2. ValidPrefix \in Nat /\ k \in Nat /\ k <= ValidPrefix /\ 1 <= k
  BY PrefixIsValid
<1> DEFINE S == {i \in Nat : f[i][j] = 0}
<1>3. k \in S
  <2>1. f[k] = Applied(f[k - 1], journal[k]) /\ journal[k].jobs[j] = 0
    BY <1>1, <1>2
  <2> QED BY <1>2, <2>1 DEF Applied
<1>4. ASSUME NEW i \in Nat, k < i, i <= ValidPrefix, i - 1 \in S PROVE i \in S
  <2>1. i \in 1 .. ValidPrefix /\ k <= i
    BY <1>2, <1>4
  <2>2. f[i] = Applied(f[i - 1], journal[i]) /\ f[i - 1][j] = 0 /\ journal[i].jobs[j] = 0
    BY <1>1, <1>4, <2>1
  <2> QED BY <2>2 DEF Applied
<1> HIDE DEF S
<1>5. \A i \in Nat : k <= i /\ i <= ValidPrefix => i \in S
  BY <1>2, <1>3, <1>4, LineInduction
<1> QED BY <1>1, <1>2, <1>5 DEF S

(* When load reads every line, it finds a job that a line has and no later *)
(* line deletes, ...                                                       *)
LEMMA RecoveredAlive ==
  ASSUME Journal, snapshot \in Table, ValidPrefix = Len(journal), NEW j \in Jobs, Alive(j)
  PROVE  Recovered[j] # 0
<1>1. PICK f : /\ Recovered = f[ValidPrefix]
               /\ f[0] = snapshot
               /\ \A i \in 1 .. ValidPrefix : f[i] = Applied(f[i - 1], journal[i])
               /\ \A i \in 0 .. ValidPrefix : f[i] \in Table
  BY ReplaySteps
<1>2. PICK k \in 1 .. ValidPrefix :
        /\ journal[k].jobs[j] # 0
        /\ \A m \in 1 .. ValidPrefix : k < m => j \notin journal[m].deleted
  BY DEF Alive
<1>3. ValidPrefix \in Nat /\ MaxVersion \in Nat /\ k \in Nat /\ k <= ValidPrefix /\ 1 <= k
  BY PrefixIsValid, StoreAssumption
<1> DEFINE S == {i \in Nat : f[i][j] # 0}
<1>4. ASSUME NEW i \in 1 .. ValidPrefix
      PROVE  /\ f[i] = Applied(f[i - 1], journal[i])
             /\ journal[i].jobs[j] \in Nat /\ f[i - 1][j] \in Nat
  <2>1. i - 1 \in 0 .. ValidPrefix /\ i \in 1 .. Len(journal)
    BY <1>3
  <2>2. journal[i] \in Record \cup {BadLine} /\ f[i - 1] \in Table
    BY <1>1, <2>1 DEF Journal
  <2> QED BY <1>1, <1>3, <2>2 DEF Record, BadLine, NoJobs, Table
<1>5. k \in S
  <2>1. f[k] = Applied(f[k - 1], journal[k]) /\ journal[k].jobs[j] \in Nat /\ f[k - 1][j] \in Nat
    BY <1>4
  <2>2. Applied(f[k - 1], journal[k])[j] # 0
    BY <1>2, <2>1 DEF Applied
  <2> QED BY <1>3, <2>1, <2>2
<1>6. ASSUME NEW i \in Nat, k < i, i <= ValidPrefix, i - 1 \in S PROVE i \in S
  <2>1. i \in 1 .. ValidPrefix
    BY <1>3, <1>6
  <2>2. j \notin journal[i].deleted /\ f[i - 1][j] # 0
    BY <1>2, <1>6, <2>1
  <2>3. Applied(f[i - 1], journal[i])[j] # 0
    BY <1>4, <2>1, <2>2 DEF Applied
  <2> QED BY <1>4, <1>6, <2>1, <2>3
<1> HIDE DEF S
<1>7. \A i \in Nat : k <= i /\ i <= ValidPrefix => i \in S
  BY <1>3, <1>5, <1>6, LineInduction
<1> QED BY <1>1, <1>3, <1>7 DEF S

(* ... and no other job that the snapshot does not have.                   *)
LEMMA RecoveredGone ==
  ASSUME Journal, snapshot \in Table, ValidPrefix = Len(journal), NEW j \in Jobs,
         snapshot[j] = 0, ~Alive(j)
  PROVE  Recovered[j] = 0
<1>1. PICK f : /\ Recovered = f[ValidPrefix]
               /\ f[0] = snapshot
               /\ \A i \in 1 .. ValidPrefix : f[i] = Applied(f[i - 1], journal[i])
               /\ \A i \in 0 .. ValidPrefix : f[i] \in Table
  BY ReplaySteps
<1>2. ValidPrefix \in Nat
  BY PrefixIsValid
<1> DEFINE Kept(i, k) == /\ k <= i /\ journal[k].jobs[j] # 0
                         /\ \A m \in 1 .. i : k < m => j \notin journal[m].deleted
           S == {i \in Nat : f[i][j] = 0 \/ \E k \in 1 .. i : Kept(i, k)}
<1>3. 0 \in S
  BY <1>1
<1>4. ASSUME NEW i \in Nat, 0 < i, i <= ValidPrefix, i - 1 \in S PROVE i \in S
  <2>1. i \in 1 .. ValidPrefix /\ i - 1 \in Nat
    BY <1>2, <1>4
  <2>2. f[i] = Applied(f[i - 1], journal[i])
    BY <1>1, <2>1
  <2>3. CASE journal[i].jobs[j] # 0
    <3>1. Kept(i, i) /\ i \in 1 .. i
      BY <2>1, <2>3
    <3> QED BY <3>1
  <2>4. CASE journal[i].jobs[j] = 0 /\ (j \in journal[i].deleted \/ f[i - 1][j] = 0)
    BY <2>2, <2>4 DEF Applied
  <2>5. CASE j \notin journal[i].deleted /\ f[i - 1][j] # 0
    <3>1. PICK k \in 1 .. (i - 1) : Kept(i - 1, k)
      BY <1>4, <2>5
    <3>2. Kept(i, k) /\ k \in 1 .. i
      BY <2>1, <2>5, <3>1
    <3> QED BY <3>2
  <2> QED BY <2>3, <2>4, <2>5
<1> HIDE DEF S, Kept
<1>5. \A i \in Nat : 0 <= i /\ i <= ValidPrefix => i \in S
  <2>1. PICK b \in Nat : b = ValidPrefix
    BY <1>2
  <2>2. \A i \in Nat : 0 < i /\ i <= b /\ i - 1 \in S => i \in S
    BY <1>4, <2>1
  <2>3. \A i \in Nat : 0 <= i /\ i <= b => i \in S
    BY <1>3, <2>2, LineInduction
  <2> QED BY <2>1, <2>3
<1>6. Len(journal) \in S
  BY <1>2, <1>5
<1> USE DEF Kept
<1>7. ~\E k \in 1 .. Len(journal) : Kept(Len(journal), k)
  BY DEF Alive
<1> QED BY <1>1, <1>6, <1>7 DEF S
-----------------------------------------------------------------------------
(* The appending step of save, taken apart: pruneHistory, the record that  *)
(* is written, and what the write leaves in the file.                      *)
LEMMA PruneFacts ==
  ASSUME TypeOK, NEW pruned \in SUBSET {j \in Jobs : jobs[j] # 0}, Prune(pruned)
  PROVE  /\ jobs' \in Table /\ saved' \in Table
         /\ gone' \subseteq Jobs /\ gone \subseteq gone'
         /\ \A j \in Jobs : /\ jobs'[j] = 0 => jobs[j] = 0 \/ (j \in gone' /\ saved'[j] = 0)
                            /\ jobs[j] = 0 => jobs'[j] = 0
                            /\ saved[j] = 0 => saved'[j] = 0
                            /\ saved'[j] <= saved[j]
                            /\ saved[j] <= jobs[j] => saved'[j] <= jobs'[j]
<1>1. MaxVersion \in Nat
  BY StoreAssumption
<1>2. jobs' \in Table /\ saved' \in Table
  BY <1>1 DEF TypeOK, Prune, Table
<1>3. gone' \subseteq Jobs /\ gone \subseteq gone' /\ pruned \subseteq gone'
  BY DEF TypeOK, Prune
<1>4. ASSUME NEW j \in Jobs
      PROVE  /\ j \in pruned => jobs[j] # 0 /\ jobs'[j] = 0 /\ saved'[j] = 0 /\ j \in gone'
             /\ j \notin pruned => jobs'[j] = jobs[j] /\ saved'[j] = saved[j]
             /\ saved[j] \in Nat
  BY <1>1, <1>3 DEF TypeOK, Prune, Table
<1>5. \A n \in Nat : 0 <= n /\ n <= n
  OBVIOUS
<1> QED BY <1>2, <1>3, <1>4, <1>5

LEMMA PayloadFacts ==
  ASSUME TypeOK, NEW t \in Table, NEW r, r = Payload(t)
  PROVE  /\ r \in Record /\ r.seq = sequence + 1
         /\ \A j \in Jobs : /\ t[j] = 0 => r.jobs[j] = 0
                            /\ t[j] = persisted[j] => r.jobs[j] = 0
                            /\ j \in r.deleted <=> persisted[j] # 0 /\ t[j] = 0
         /\ NoChange(r) => t = persisted
<1>1. MaxVersion \in Nat /\ persisted \in Table /\ sequence \in Nat
  BY StoreAssumption DEF TypeOK
<1>2. r.seq = sequence + 1 /\ r.seq \in Nat \ {0}
  BY <1>1 DEF Payload
<1>3. r.jobs = [j \in Jobs |-> IF t[j] # persisted[j] THEN t[j] ELSE 0]
  BY DEF Payload
<1>4. r.deleted = {j \in Jobs : persisted[j] # 0 /\ t[j] = 0}
  BY DEF Payload
<1>5. r.jobs \in Table
  BY <1>1, <1>3 DEF Table
<1>6. r \in Record
  BY <1>2, <1>4, <1>5 DEF Payload, Record
<1>7. ASSUME NoChange(r) PROVE t = persisted
  <2>1. r.jobs = NoJobs /\ r.deleted = {}
    BY <1>7 DEF NoChange
  <2>2. ASSUME NEW j \in Jobs PROVE t[j] = persisted[j]
    BY <1>3, <1>4, <2>1 DEF NoJobs
  <2> QED BY <1>1, <2>2 DEF Table
<1> QED BY <1>2, <1>3, <1>4, <1>6, <1>7

(* A write leaves a line r, or a bad line, behind the lines before it.     *)
LEMMA WrittenFacts ==
  ASSUME TypeOK, Journal, NEW r \in Record, NEW end \in {"closed", "open", "cut"},
         Written(r, end)
  PROVE  /\ Journal' /\ journal' # <<>> /\ tail' = end
         /\ \E b \in Nat :
              /\ b <= Len(journal) /\ Len(journal') = b + 1
              /\ \A k \in 1 .. b : journal'[k] = journal[k]
              /\ journal'[b + 1] \in {r, BadLine}
              /\ tail = "closed" /\ end = "closed" => b = Len(journal) /\ journal'[b + 1] = r
<1> DEFINE E == Record \cup {BadLine}
<1>1. Len(journal) \in Nat /\ journal \in Seq(E)
  BY DEF Journal
<1>2. PICK l \in {r, BadLine} : journal' = Lines(l) /\ (end # "cut" => l = r)
  BY DEF Written
<1>3. l \in E
  BY <1>2
<1> HIDE DEF E
<1>4. CASE tail = "closed"
  <2>1. journal' = Append(journal, l)
    BY <1>2, <1>4 DEF Lines
  <2>2. /\ journal' \in Seq(E) /\ Len(journal') = Len(journal) + 1
        /\ \A k \in 1 .. Len(journal) : journal'[k] = journal[k]
        /\ journal'[Len(journal) + 1] = l
    BY <1>1, <1>3, <2>1
  <2>3. journal' # <<>>
    BY <1>1, <2>2
  <2> QED BY <1>1, <1>2, <2>2, <2>3 DEF E, Journal, Written
<1>5. CASE tail # "closed"
  <2>1. journal' = [journal EXCEPT ![Len(journal)] = BadLine]
    BY <1>2, <1>5 DEF Lines
  <2>2. journal # <<>>
    BY <1>5 DEF TypeOK
  <2>3. Len(journal) >= 1
    BY <1>1, <2>2
  <2>4. PICK b \in Nat : Len(journal) = b + 1
    <3>1. Len(journal) - 1 \in Nat /\ Len(journal) = (Len(journal) - 1) + 1
      BY <1>1, <2>3
    <3> QED BY <3>1
  <2>5. BadLine \in E
    BY DEF E
  <2>6. /\ journal' \in Seq(E) /\ Len(journal') = b + 1
        /\ \A k \in 1 .. b : journal'[k] = journal[k]
        /\ journal'[b + 1] = BadLine
    BY <1>1, <2>1, <2>4, <2>5
  <2>7. journal' # <<>>
    BY <2>6
  <2> QED BY <1>5, <2>4, <2>6, <2>7 DEF E, Journal, Written
<1> QED BY <1>4, <1>5
(* Pruning leaves what does not mention the journal intact.                *)
LEMMA PruneKeeps ==
  ASSUME IInv, pc = "idle", NEW pruned \in SUBSET {j \in Jobs : jobs[j] # 0}, Prune(pruned),
         pc' \in {"idle", "snapshot", "down"}, UNCHANGED <<plan, snapshot, persisted, erased>>
  PROVE  /\ jobs' \in Table /\ saved' \in Table /\ gone' \subseteq Jobs /\ erased' \subseteq gone'
         /\ TableInv'
         /\ "snapshot" \notin plan.faults =>
              \A j \in Jobs : saved'[j] <= snapshot'[j] /\ saved'[j] <= jobs'[j]
<1>1. /\ jobs' \in Table /\ saved' \in Table
      /\ gone' \subseteq Jobs /\ gone \subseteq gone'
      /\ \A j \in Jobs : /\ jobs'[j] = 0 => jobs[j] = 0 \/ (j \in gone' /\ saved'[j] = 0)
                         /\ saved'[j] <= saved[j]
                         /\ saved[j] <= jobs[j] => saved'[j] <= jobs'[j]
  BY PruneFacts DEF IInv
<1>2. erased' \subseteq gone'
  BY <1>1 DEF IInv, TypeOK
<1>3. TableInv'
  <2>1. \A j \in Jobs : persisted[j] # 0 /\ jobs[j] = 0 => j \in gone
    BY DEF IInv, TableInv
  <2>2. \A j \in Jobs : persisted'[j] # 0 /\ jobs'[j] = 0 => j \in gone'
    BY <1>1, <2>1
  <2> QED BY <2>2 DEF TableInv
<1>4. ASSUME "snapshot" \notin plan.faults, NEW j \in Jobs
      PROVE  saved'[j] <= snapshot'[j] /\ saved'[j] <= jobs'[j]
  <2>1. saved[j] <= snapshot[j] /\ saved[j] <= jobs[j]
    BY <1>4 DEF IInv, KeepInv
  <2>2. saved[j] \in Nat /\ saved'[j] \in Nat /\ snapshot[j] \in Nat /\ snapshot' = snapshot
    BY <1>1, StoreAssumption DEF IInv, TypeOK, Table
  <2>3. saved'[j] <= saved[j] /\ saved'[j] <= jobs'[j]
    BY <1>1, <2>1
  <2> QED BY <2>1, <2>2, <2>3
<1> QED BY <1>1, <1>2, <1>3, <1>4

(* A record that is written after pruning revives no job that a line       *)
(* deletes, and the jobs it deletes are gone from the table.               *)
LEMMA WrittenKeeps ==
  ASSUME IInv, pc = "idle", NEW pruned \in SUBSET {j \in Jobs : jobs[j] # 0}, Prune(pruned),
         persisted' = persisted, "snapshot" \notin plan.faults,
         NEW r, r = Payload(jobs'), NEW end \in {"closed", "open", "cut"}, Written(r, end)
  PROVE  DeletionFinal'
<1>1. /\ jobs' \in Table /\ saved' \in Table
      /\ gone' \subseteq Jobs /\ gone \subseteq gone'
      /\ \A j \in Jobs : /\ jobs'[j] = 0 => jobs[j] = 0 \/ (j \in gone' /\ saved'[j] = 0)
                         /\ jobs[j] = 0 => jobs'[j] = 0
                         /\ saved[j] = 0 => saved'[j] = 0
  BY PruneFacts DEF IInv
<1>2. /\ r \in Record /\ r.seq = sequence + 1
      /\ \A j \in Jobs : /\ jobs'[j] = 0 => r.jobs[j] = 0
                         /\ j \in r.deleted <=> persisted[j] # 0 /\ jobs'[j] = 0
  BY <1>1, PayloadFacts DEF IInv
<1>3. PICK b \in Nat :
        /\ b <= Len(journal) /\ Len(journal') = b + 1
        /\ \A k \in 1 .. b : journal'[k] = journal[k]
        /\ journal'[b + 1] \in {r, BadLine}
  BY <1>2, WrittenFacts DEF IInv
<1>4. Len(journal) \in Nat /\ MaxVersion \in Nat
  BY StoreAssumption DEF IInv, Journal
<1> SUFFICES ASSUME NEW m \in 1 .. (b + 1), Valid(m)', NEW k \in 1 .. m,
                    NEW j \in journal'[k].deleted
             PROVE  j \in gone' /\ jobs'[j] = 0 /\ saved'[j] = 0 /\ journal'[m].jobs[j] = 0
  BY <1>3 DEF DeletionFinal
<1>5. \A i \in 1 .. m : journal'[i].seq = i
  BY DEF Valid
<1>6. ASSUME NEW i \in 1 .. b, i <= m, k <= i
      PROVE  j \in Jobs /\ j \in gone /\ jobs[j] = 0 /\ saved[j] = 0 /\ journal[i].jobs[j] = 0
  <2>1. i \in 1 .. Len(journal) /\ k \in 1 .. i /\ k \in 1 .. b
    BY <1>3, <1>4, <1>6
  <2>2. \A n \in 1 .. i : n \in 1 .. b /\ n \in 1 .. m
    BY <1>6
  <2>3. Valid(i)
    BY <1>3, <1>5, <2>1, <2>2 DEF Valid
  <2>4. j \in journal[k].deleted
    BY <1>3, <2>1
  <2>5. DeletionFinal
    BY DEF IInv, KeepInv
  <2>6. j \in gone /\ jobs[j] = 0 /\ saved[j] = 0 /\ journal[i].jobs[j] = 0
    BY <2>1, <2>3, <2>4, <2>5 DEF DeletionFinal
  <2> QED BY <2>6 DEF IInv, TypeOK
<1>7. CASE m <= b
  <2>1. m \in 1 .. b /\ k <= m /\ m <= m
    BY <1>7
  <2> QED BY <1>1, <1>3, <1>6, <2>1
<1>8. CASE m = b + 1
  <2>1. journal'[b + 1] = r
    <3>1. journal'[b + 1].seq = b + 1
      BY <1>5, <1>8
    <3>2. BadLine.seq = 0
      BY DEF BadLine
    <3> QED BY <1>3, <3>1, <3>2
  <2>2. CASE k = b + 1
    <3>1. j \in r.deleted /\ j \in Jobs
      BY <1>2, <2>1, <2>2 DEF Record
    <3>2. persisted[j] # 0 /\ jobs'[j] = 0 /\ r.jobs[j] = 0
      BY <1>2, <3>1
    <3>3. CASE jobs[j] = 0
      <4>1. j \in gone
        BY <3>1, <3>2, <3>3 DEF IInv, TableInv
      <4>2. saved[j] <= jobs[j] /\ saved[j] \in Nat
        BY <1>4, <3>1 DEF IInv, KeepInv, TypeOK, Table
      <4>3. saved[j] = 0
        BY <3>3, <4>2
      <4> QED BY <1>1, <1>8, <2>1, <3>1, <3>2, <4>1, <4>3
    <3> QED BY <1>1, <1>8, <2>1, <3>1, <3>2, <3>3
  <2>3. CASE k # b + 1
    <3>1. b \in 1 .. b /\ b <= m /\ k <= b
      BY <1>8, <2>3
    <3>2. j \in Jobs /\ j \in gone /\ jobs[j] = 0 /\ saved[j] = 0
      BY <1>6, <3>1
    <3>3. jobs'[j] = 0 /\ r.jobs[j] = 0
      BY <1>1, <1>2, <3>2
    <3> QED BY <1>1, <1>8, <2>1, <3>2, <3>3
  <2> QED BY <2>2, <2>3
<1> QED BY <1>4, <1>7, <1>8

(* Without a write, the deletions in the journal stay what they are as     *)
(* long as no job comes back.                                              *)
LEMMA UnwrittenKeeps ==
  ASSUME IInv, "snapshot" \notin plan.faults, UNCHANGED journal, gone \subseteq gone',
         \A j \in gone : jobs[j] = 0 /\ saved[j] = 0 => jobs'[j] = 0 /\ saved'[j] = 0
  PROVE  DeletionFinal'
<1>1. DeletionFinal
  BY DEF IInv, KeepInv
<1>2. \A m : Valid(m)' = Valid(m)
  BY DEF Valid
<1> QED BY <1>1, <1>2 DEF DeletionFinal
(* When no write failed, the append numbers the line by its place and      *)
(* journals every job that is in the journal and not in the table.         *)
LEMMA AppendErases ==
  ASSUME IInv, Clean, pc = "idle", pc' = "snapshot",
         NEW pruned \in SUBSET {j \in Jobs : jobs[j] # 0}, Prune(pruned),
         UNCHANGED <<plan, snapshot, persisted, erased>>, NEW r, r = Payload(jobs'),
         \/ NoChange(r) /\ UNCHANGED <<journal, tail, sequence>>
         \/ Written(r, "closed") /\ sequence' = r.seq
  PROVE  EraseInv'
<1>1. /\ jobs' \in Table
      /\ \A j \in Jobs : jobs[j] = 0 => jobs'[j] = 0
  BY PruneFacts DEF IInv
<1>2. /\ r \in Record /\ r.seq = sequence + 1
      /\ \A j \in Jobs : /\ jobs'[j] = 0 => r.jobs[j] = 0
                         /\ j \in r.deleted <=> persisted[j] # 0 /\ jobs'[j] = 0
      /\ NoChange(r) => jobs' = persisted
  BY <1>1, PayloadFacts DEF IInv
<1>3. /\ Numbered
      /\ \A j \in erased : jobs[j] = 0 /\ snapshot[j] = 0 /\ ~Alive(j) /\ persisted[j] = 0
      /\ \A j \in Jobs : Alive(j) => persisted[j] # 0
  BY DEF IInv, EraseInv
<1>4. erased \subseteq Jobs /\ Len(journal) \in Nat
  BY DEF IInv, TypeOK, Journal
<1>5. /\ Numbered'
      /\ \A j \in Jobs : Alive(j)' => (Alive(j) /\ j \notin r.deleted) \/ r.jobs[j] # 0
  <2>1. CASE NoChange(r) /\ UNCHANGED <<journal, tail, sequence>>
    <3>1. Numbered'
      BY <1>3, <2>1 DEF Numbered
    <3>2. r.deleted = {} /\ \A j : Alive(j)' = Alive(j)
      BY <2>1 DEF NoChange, Alive
    <3> QED BY <3>1, <3>2
  <2>2. CASE Written(r, "closed") /\ sequence' = r.seq
    <3>1. tail = "closed" /\ tail' = "closed" /\ sequence = Len(journal)
      BY <1>3, <2>2 DEF Numbered, Written
    <3>2. PICK b \in Nat :
            /\ b = Len(journal) /\ Len(journal') = b + 1
            /\ \A k \in 1 .. b : journal'[k] = journal[k]
            /\ journal'[b + 1] = r
      BY <1>2, <2>2, <3>1, WrittenFacts DEF IInv
    <3>3. Numbered'
      <4>1. sequence' = Len(journal') /\ r.seq = b + 1
        BY <1>2, <2>2, <3>1, <3>2
      <4>2. ASSUME NEW k \in 1 .. Len(journal') PROVE journal'[k].seq = k
        <5>1. CASE k = b + 1
          BY <3>2, <4>1, <5>1
        <5>2. CASE k # b + 1
          <6>1. k \in 1 .. b
            BY <3>2, <5>2
          <6> QED BY <1>3, <3>2, <6>1 DEF Numbered
        <5> QED BY <5>1, <5>2
      <4> QED BY <3>1, <4>1, <4>2 DEF Numbered
    <3>4. ASSUME NEW j \in Jobs, Alive(j)', r.jobs[j] = 0
          PROVE  Alive(j) /\ j \notin r.deleted
      <4>1. PICK k \in 1 .. (b + 1) :
              /\ journal'[k].jobs[j] # 0
              /\ \A m \in 1 .. (b + 1) : k < m => j \notin journal'[m].deleted
        BY <3>2, <3>4 DEF Alive
      <4>2. k # b + 1
        BY <3>2, <3>4, <4>1
      <4>3. k \in 1 .. b /\ k < b + 1 /\ b + 1 \in 1 .. (b + 1)
        BY <4>2
      <4>4. j \notin r.deleted
        BY <3>2, <4>1, <4>3
      <4>5. \A m \in 1 .. b : k < m => j \notin journal[m].deleted
        BY <3>2, <4>1
      <4> QED BY <3>2, <4>1, <4>3, <4>4, <4>5 DEF Alive
    <3> QED BY <3>3, <3>4
  <2> QED BY <2>1, <2>2
<1>6. ASSUME NEW j \in erased
      PROVE  jobs'[j] = 0 /\ snapshot'[j] = 0 /\ ~Alive(j)' /\ persisted'[j] = 0
  <2>1. j \in Jobs /\ jobs'[j] = 0 /\ r.jobs[j] = 0 /\ ~Alive(j)
    BY <1>1, <1>2, <1>3, <1>4
  <2> QED BY <1>3, <1>5, <2>1
<1>7. ASSUME NEW j \in Jobs, Alive(j)' PROVE jobs'[j] # 0
  <2>1. CASE r.jobs[j] # 0
    BY <1>2, <2>1
  <2>2. CASE Alive(j) /\ j \notin r.deleted
    BY <1>2, <1>3, <2>2
  <2> QED BY <1>5, <1>7, <2>1, <2>2
<1> QED BY <1>5, <1>6, <1>7 DEF EraseInv

LEMMA AppendStep ==
  ASSUME IInv, SaveAppend
  PROVE  IInv'
<1>1. /\ pc = "idle" /\ plan' = plan /\ snapshot' = snapshot
      /\ persisted' = persisted /\ erased' = erased
  BY DEF SaveAppend
<1>2. PICK pruned \in SUBSET {j \in Jobs : jobs[j] # 0} :
        LET r == Payload([j \in Jobs |-> IF j \in pruned THEN 0 ELSE jobs[j]])
        IN /\ Prune(pruned)
           /\ \/ /\ NoChange(r)
                 /\ pc' = "snapshot"
                 /\ UNCHANGED <<journal, tail, sequence, faults>>
              \/ /\ ~NoChange(r)
                 /\ Written(r, "closed")
                 /\ sequence' = r.seq
                 /\ pc' = "snapshot"
                 /\ UNCHANGED faults
              \/ /\ ~NoChange(r) /\ Fault("torn")
                 /\ \E end \in {"open", "cut"} : Written(r, end)
                 /\ pc' = "down"
                 /\ UNCHANGED sequence
              \/ /\ ~NoChange(r) /\ Fault("io")
                 /\ \/ UNCHANGED <<journal, tail>>
                    \/ \E end \in {"closed", "open", "cut"} : Written(r, end)
                 /\ pc' = "idle"
                 /\ UNCHANGED sequence
  BY Zenon DEF SaveAppend
<1>3. Prune(pruned)
  BY <1>2
<1>4. PICK r : r = Payload(jobs')
  OBVIOUS
<1>5. jobs' = [j \in Jobs |-> IF j \in pruned THEN 0 ELSE jobs[j]]
  BY <1>3 DEF Prune
<1>6. \/ /\ NoChange(r) /\ pc' = "snapshot" /\ UNCHANGED <<journal, tail, sequence, faults>>
      \/ /\ Written(r, "closed") /\ sequence' = r.seq /\ pc' = "snapshot" /\ UNCHANGED faults
      \/ /\ Fault("torn") /\ (\E end \in {"open", "cut"} : Written(r, end))
         /\ pc' = "down" /\ UNCHANGED sequence
      \/ /\ Fault("io") /\ pc' = "idle" /\ UNCHANGED sequence
         /\ \/ UNCHANGED <<journal, tail>>
            \/ \E end \in {"closed", "open", "cut"} : Written(r, end)
  BY <1>2, <1>4, <1>5, Zenon
<1>7. /\ pc' \in {"idle", "snapshot", "down"}
      /\ \/ UNCHANGED <<journal, tail>>
         \/ \E end \in {"closed", "open", "cut"} : Written(r, end)
      /\ sequence' = sequence \/ sequence' = r.seq
      /\ faults' = faults \/ (faults < MaxFaults /\ faults' = faults + 1)
  BY <1>6 DEF Fault
<1>8. /\ jobs' \in Table /\ saved' \in Table /\ gone' \subseteq Jobs /\ erased' \subseteq gone'
      /\ TableInv'
      /\ "snapshot" \notin plan.faults =>
           \A j \in Jobs : saved'[j] <= snapshot'[j] /\ saved'[j] <= jobs'[j]
  BY <1>1, <1>3, <1>7, PruneKeeps
<1>9. r \in Record /\ r.seq \in Nat
  BY <1>4, <1>8, PayloadFacts DEF IInv, Record
<1>10. Journal' /\ tail' \in {"closed", "open", "cut"} /\ (tail' # "closed" => journal' # <<>>)
  <2>1. CASE UNCHANGED <<journal, tail>>
    BY <2>1 DEF IInv, TypeOK, Journal
  <2>2. ASSUME NEW end \in {"closed", "open", "cut"}, Written(r, end)
        PROVE  Journal' /\ tail' = end /\ journal' # <<>>
    BY <1>9, <2>2, WrittenFacts DEF IInv
  <2> QED BY <1>7, <2>1, <2>2
<1>11. TypeOK'
  <2>1. \A i \in DOMAIN journal' : journal'[i] \in Record \cup {BadLine}
    BY <1>10 DEF Journal
  <2>2. faults' \in 0 .. MaxFaults
    BY <1>7, StoreAssumption DEF IInv, TypeOK
  <2>3. sequence' \in Nat
    BY <1>7, <1>9 DEF IInv, TypeOK
  <2>4. snapshot' \in Table /\ persisted' \in Table /\ plan' \in Plans
    BY <1>1 DEF IInv, TypeOK
  <2>5. pc' \in {"idle", "snapshot", "compact", "down"}
    BY <1>7
  <2> QED BY <1>8, <1>10, <2>1, <2>2, <2>3, <2>4, <2>5 DEF TypeOK
<1>12. KeepInv'
  <2>1. ASSUME "snapshot" \notin plan.faults PROVE DeletionFinal'
    <3>1. CASE UNCHANGED <<journal, tail>>
      <4>1. /\ gone \subseteq gone'
            /\ \A j \in Jobs : /\ jobs[j] = 0 => jobs'[j] = 0
                               /\ saved[j] = 0 => saved'[j] = 0
        BY <1>3, PruneFacts DEF IInv
      <4>2. \A j \in gone : jobs[j] = 0 /\ saved[j] = 0 => jobs'[j] = 0 /\ saved'[j] = 0
        BY <4>1 DEF IInv, TypeOK
      <4> QED BY <2>1, <3>1, <4>1, <4>2, UnwrittenKeeps
    <3>2. ASSUME NEW end \in {"closed", "open", "cut"}, Written(r, end)
          PROVE  DeletionFinal'
      BY <1>1, <1>3, <1>4, <2>1, <3>2, WrittenKeeps
    <3> QED BY <1>7, <3>1, <3>2
  <2> QED BY <1>1, <1>8, <2>1 DEF KeepInv
<1>13. EraseInv'
  <2> SUFFICES ASSUME Clean' PROVE EraseInv'
    BY DEF EraseInv
  <2>1. Clean /\ "torn" \notin plan.faults /\ "io" \notin plan.faults
    BY <1>1 DEF Clean
  <2>2. /\ pc' = "snapshot"
        /\ \/ NoChange(r) /\ UNCHANGED <<journal, tail, sequence>>
           \/ Written(r, "closed") /\ sequence' = r.seq
    BY <1>6, <2>1 DEF Fault
  <2> QED BY <1>1, <1>3, <1>4, <2>1, <2>2, AppendErases
<1> QED BY <1>8, <1>10, <1>11, <1>12, <1>13 DEF IInv
-----------------------------------------------------------------------------
(* The other steps.                                                        *)
LEMMA InitHolds ==
  ASSUME Init
  PROVE  IInv
<1>1. MaxVersion \in Nat /\ MaxFaults \in Nat
  BY StoreAssumption
<1>2. NoJobs \in Table /\ \A j \in Jobs : NoJobs[j] = 0
  BY <1>1 DEF NoJobs, Table
<1>3. Len(journal) = 0 /\ Journal /\ DOMAIN journal = {} /\ 1 .. Len(journal) = {}
  BY DEF Init, Journal
<1>4. TypeOK
  BY <1>1, <1>2, <1>3 DEF Init, TypeOK
<1>5. TableInv
  BY <1>2 DEF Init, TableInv
<1>6. KeepInv
  BY <1>2, <1>3 DEF Init, KeepInv, DeletionFinal
<1>7. EraseInv
  BY <1>3 DEF Init, EraseInv, Numbered, Alive
<1> QED BY <1>3, <1>4, <1>5, <1>6, <1>7 DEF IInv

(* What holds of the journal holds as long as its lines are the same.      *)
LEMMA SameJournal ==
  ASSUME IInv, UNCHANGED journal
  PROVE  /\ Journal' /\ (\A i \in DOMAIN journal' : journal'[i] \in Record \cup {BadLine})
         /\ \A j : Alive(j)' = Alive(j)
  BY DEF IInv, TypeOK, Journal, Alive

LEMMA ChangeStep ==
  ASSUME IInv, NEW j \in Jobs, Change(j)
  PROVE  IInv'
<1>1. /\ pc = "idle" /\ (jobs[j] # 0 \/ j \notin gone) /\ jobs[j] < MaxVersion
      /\ jobs' = [jobs EXCEPT ![j] = @ + 1]
      /\ UNCHANGED <<plan, gone, snapshot, journal, tail, persisted, sequence, pc, saved, erased, faults>>
  BY DEF Change, disk
<1>2. MaxVersion \in Nat /\ jobs \in Table /\ saved \in Table
  BY StoreAssumption DEF IInv, TypeOK
<1>3. /\ jobs' \in Table
      /\ \A i \in Jobs : /\ jobs'[i] >= jobs[i] /\ jobs[i] \in Nat /\ jobs'[i] \in Nat
                         /\ i \in gone /\ jobs[i] = 0 => jobs'[i] = 0
  BY <1>1, <1>2 DEF Table
<1>4. Journal' /\ \A i : Alive(i)' = Alive(i)
  BY <1>1, SameJournal
<1>5. TypeOK'
  BY <1>1, <1>3 DEF IInv, TypeOK
<1>6. TableInv'
  <2>1. \A i \in Jobs : jobs'[i] = 0 => jobs[i] = 0
    BY <1>3
  <2> QED BY <1>1, <2>1 DEF IInv, TableInv
<1>7. KeepInv'
  <2>1. ASSUME "snapshot" \notin plan.faults
        PROVE  DeletionFinal' /\ \A i \in Jobs : saved'[i] <= snapshot'[i] /\ saved'[i] <= jobs'[i]
    <3>1. \A i \in gone : jobs[i] = 0 /\ saved[i] = 0 => jobs'[i] = 0 /\ saved'[i] = 0
      BY <1>1, <1>3 DEF IInv, TypeOK
    <3>2. DeletionFinal'
      BY <1>1, <2>1, <3>1, UnwrittenKeeps
    <3>3. \A i \in Jobs : saved[i] <= snapshot[i] /\ saved[i] <= jobs[i] /\ saved[i] \in Nat
      BY <1>1, <1>2, <2>1 DEF IInv, KeepInv, Table
    <3>4. \A i \in Jobs : saved[i] <= jobs'[i]
      BY <1>3, <3>3
    <3> QED BY <1>1, <3>2, <3>3, <3>4
  <2> QED BY <1>1, <2>1 DEF KeepInv
<1>8. EraseInv'
  <2>1. \A i \in erased : i \in gone /\ i \in Jobs
    BY DEF IInv, TypeOK
  <2>2. ASSUME Clean
        PROVE  /\ Numbered
               /\ \A i \in erased : jobs[i] = 0 /\ snapshot[i] = 0 /\ ~Alive(i) /\ persisted[i] = 0
               /\ \A i \in Jobs : Alive(i) => persisted[i] # 0
    BY <1>1, <2>2 DEF IInv, EraseInv
  <2>3. Clean' = Clean /\ Numbered' = Numbered
    BY <1>1 DEF Clean, Numbered
  <2> QED BY <1>1, <1>3, <1>4, <2>1, <2>2, <2>3 DEF EraseInv
<1> QED BY <1>4, <1>5, <1>6, <1>7, <1>8 DEF IInv

LEMMA SnapshotStep ==
  ASSUME IInv, SaveSnapshot
  PROVE  IInv'
<1>1. /\ pc = "snapshot"
      /\ UNCHANGED <<plan, jobs, gone, journal, tail, sequence, saved, erased>>
      /\ \/ snapshot' = jobs /\ persisted' = jobs /\ pc' = "compact" /\ faults' = faults
         \/ /\ "io" \in plan.faults /\ faults < MaxFaults /\ faults' = faults + 1
            /\ pc' = "idle" /\ snapshot' = snapshot /\ persisted' = persisted
  BY DEF SaveSnapshot, Fault
<1>2. Journal' /\ \A i : Alive(i)' = Alive(i)
  BY <1>1, SameJournal
<1>3. TypeOK'
  <2>1. faults' \in 0 .. MaxFaults
    BY <1>1, StoreAssumption DEF IInv, TypeOK
  <2> QED BY <1>1, <2>1 DEF IInv, TypeOK
<1>4. TableInv'
  BY <1>1 DEF IInv, TableInv
<1>5. KeepInv'
  <2>1. ASSUME "snapshot" \notin plan.faults PROVE DeletionFinal'
    <3>1. \A i \in gone : jobs[i] = 0 /\ saved[i] = 0 => jobs'[i] = 0 /\ saved'[i] = 0
      BY <1>1
    <3> QED BY <1>1, <2>1, <3>1, UnwrittenKeeps
  <2> QED BY <1>1, <2>1 DEF IInv, KeepInv
<1>6. EraseInv'
  <2> SUFFICES ASSUME Clean' PROVE EraseInv'
    BY DEF EraseInv
  <2>1. Clean /\ "io" \notin plan.faults
    BY <1>1 DEF Clean
  <2>2. snapshot' = jobs /\ persisted' = jobs /\ pc' = "compact"
    BY <1>1, <2>1
  <2>3. /\ Numbered
        /\ \A i \in erased : jobs[i] = 0 /\ snapshot[i] = 0 /\ ~Alive(i)
        /\ \A i \in Jobs : Alive(i) => jobs[i] # 0
    BY <1>1, <2>1 DEF IInv, EraseInv
  <2>4. Numbered'
    BY <1>1, <2>2, <2>3 DEF Numbered
  <2> QED BY <1>1, <1>2, <2>2, <2>3, <2>4 DEF EraseInv
<1> QED BY <1>2, <1>3, <1>4, <1>5, <1>6 DEF IInv

LEMMA CompactStep ==
  ASSUME IInv, SaveCompact
  PROVE  IInv'
<1>1. /\ pc = "compact" /\ pc' = "idle" /\ saved' = jobs /\ erased' = {j \in gone : jobs[j] = 0}
      /\ UNCHANGED <<plan, jobs, gone, snapshot, persisted, faults>>
      /\ \/ journal' = <<>> /\ tail' = "closed" /\ sequence' = 0
         \/ UNCHANGED <<journal, tail, sequence>>
  BY DEF SaveCompact
<1>2. snapshot = jobs /\ persisted = jobs
  BY <1>1 DEF IInv, TableInv
<1>3. /\ Journal' /\ (\A i \in DOMAIN journal' : journal'[i] \in Record \cup {BadLine})
      /\ \A j : Alive(j)' => Alive(j)
  <2>1. CASE journal' = <<>>
    <3>1. Journal' /\ DOMAIN journal' = {} /\ 1 .. Len(journal') = {}
      BY <2>1 DEF Journal
    <3> QED BY <3>1 DEF Alive
  <2>2. CASE UNCHANGED journal
    BY <2>2, SameJournal
  <2> QED BY <1>1, <2>1, <2>2
<1>4. TypeOK'
  BY <1>1, <1>3 DEF IInv, TypeOK
<1>5. TableInv'
  BY <1>1 DEF IInv, TableInv
<1>6. KeepInv'
  <2>1. \A j \in Jobs : jobs[j] <= jobs[j]
    BY StoreAssumption DEF IInv, TypeOK, Table
  <2>2. ASSUME "snapshot" \notin plan.faults PROVE DeletionFinal'
    <3>1. CASE journal' = <<>>
      <4>1. 1 .. Len(journal') = {}
        BY <3>1
      <4> QED BY <4>1 DEF DeletionFinal
    <3>2. CASE UNCHANGED journal
      BY <1>1, <2>2, <3>2, UnwrittenKeeps
    <3> QED BY <1>1, <3>1, <3>2
  <2> QED BY <1>1, <1>2, <2>1, <2>2 DEF KeepInv
<1>7. EraseInv'
  <2> SUFFICES ASSUME Clean' PROVE EraseInv'
    BY DEF EraseInv
  <2>1. Clean
    BY <1>1 DEF Clean
  <2>2. Numbered /\ \A j \in Jobs : Alive(j) => persisted[j] # 0
    BY <1>1, <2>1 DEF IInv, EraseInv
  <2>3. Numbered'
    <3>1. CASE journal' = <<>> /\ tail' = "closed" /\ sequence' = 0
      <4>1. 1 .. Len(journal') = {} /\ Len(journal') = 0
        BY <3>1
      <4> QED BY <3>1, <4>1 DEF Numbered
    <3>2. CASE UNCHANGED <<journal, tail, sequence>>
      BY <1>1, <2>2, <3>2 DEF Numbered
    <3> QED BY <1>1, <3>1, <3>2
  <2>4. ASSUME NEW j \in erased'
        PROVE  jobs'[j] = 0 /\ snapshot'[j] = 0 /\ ~Alive(j)' /\ persisted'[j] = 0
    <3>1. j \in Jobs /\ jobs[j] = 0
      BY <1>1, <2>4 DEF IInv, TypeOK
    <3> QED BY <1>1, <1>2, <1>3, <2>2, <3>1
  <2> QED BY <1>1, <1>3, <2>2, <2>3, <2>4 DEF EraseInv
<1> QED BY <1>3, <1>4, <1>5, <1>6, <1>7 DEF IInv

(* What load finds is at least what was saved, ...                         *)
LEMMA SavedRecovered ==
  ASSUME IInv, "snapshot" \notin plan.faults, NEW j \in Jobs
  PROVE  Recovered[j] >= saved[j]
<1>1. Journal /\ snapshot \in Table /\ saved[j] \in Nat /\ saved[j] <= snapshot[j]
  BY StoreAssumption DEF IInv, TypeOK, Table, KeepInv
<1>2. ASSUME NEW k \in 1 .. ValidPrefix, j \in journal[k].deleted PROVE saved[j] = 0
  <2>1. Valid(k) /\ k \in 1 .. Len(journal) /\ k \in 1 .. k
    BY <1>1, ValidIsPrefix
  <2> QED BY <1>2, <2>1 DEF IInv, KeepInv, DeletionFinal
<1> QED BY <1>1, <1>2, RecoveredKeeps

(* ... and, when no write failed, no job that was erased.                  *)
LEMMA AllRead ==
  ASSUME Journal, Numbered
  PROVE  ValidPrefix = Len(journal)
<1>1. /\ ValidPrefix \in Nat /\ ValidPrefix <= Len(journal) /\ Len(journal) \in Nat
      /\ \A n \in 0 .. Len(journal) : (\A k \in 1 .. n : journal[k].seq = k) => n <= ValidPrefix
  BY PrefixIsValid DEF Journal
<1>2. \A k \in 1 .. Len(journal) : journal[k].seq = k
  BY DEF Numbered
<1>3. Len(journal) <= ValidPrefix
  BY <1>1, <1>2
<1> QED BY <1>1, <1>3

LEMMA ErasedNotRecovered ==
  ASSUME IInv, Clean, NEW j \in erased
  PROVE  Recovered[j] = 0
<1>1. j \in Jobs /\ Journal /\ snapshot \in Table /\ snapshot[j] = 0 /\ ~Alive(j) /\ Numbered
  BY DEF IInv, TypeOK, EraseInv
<1> QED BY <1>1, AllRead, RecoveredGone

LEMMA LoadStep ==
  ASSUME IInv, Load
  PROVE  IInv'
<1>1. /\ pc = "down" /\ jobs' = Recovered /\ persisted' = Recovered
      /\ sequence' = ValidPrefix /\ pc' = "idle"
      /\ UNCHANGED <<plan, gone, snapshot, journal, tail, saved, erased, faults>>
  BY DEF Load, disk
<1>2. Journal /\ snapshot \in Table /\ saved \in Table
  BY DEF IInv, TypeOK
<1>3. Recovered \in Table /\ ValidPrefix \in Nat
  BY <1>2, RecoveredIsTable, PrefixIsValid
<1>4. Journal' /\ \A i : Alive(i)' = Alive(i)
  BY <1>1, SameJournal
<1>5. TypeOK'
  BY <1>1, <1>3 DEF IInv, TypeOK
<1>6. TableInv'
  BY <1>1 DEF TableInv
<1>7. KeepInv'
  <2>1. ASSUME "snapshot" \notin plan.faults, NEW j \in Jobs PROVE saved'[j] <= jobs'[j]
    <3>1. Recovered[j] >= saved[j]
      BY <2>1, SavedRecovered
    <3>2. Recovered[j] \in Nat /\ saved[j] \in Nat
      BY <1>2, <1>3, StoreAssumption DEF Table
    <3> QED BY <1>1, <3>1, <3>2
  <2>2. ASSUME "snapshot" \notin plan.faults PROVE DeletionFinal'
    <3>1. DeletionFinal
      BY <2>2 DEF IInv, KeepInv
    <3>2. \A m : Valid(m)' = Valid(m)
      BY <1>1 DEF Valid
    <3>3. ASSUME NEW m \in 1 .. Len(journal), Valid(m), NEW k \in 1 .. m,
                 NEW j \in journal[k].deleted
          PROVE  jobs'[j] = 0
      <4>1. j \in Jobs
        <5>1. j \in gone
          BY <3>1, <3>3 DEF DeletionFinal
        <5> QED BY <5>1 DEF IInv, TypeOK
      <4>2. m <= ValidPrefix /\ Len(journal) \in Nat
        <5>1. m \in 0 .. Len(journal)
          OBVIOUS
        <5> QED BY <1>2, <3>3, <5>1, PrefixIsValid DEF Valid, Journal
      <4>3. k \in 1 .. ValidPrefix
        BY <1>3, <4>2
      <4>4. ASSUME NEW i \in 1 .. ValidPrefix, k <= i PROVE journal[i].jobs[j] = 0
        <5>1. Valid(i) /\ i \in 1 .. Len(journal) /\ k \in 1 .. i
          BY <1>2, <1>3, <4>3, <4>4, ValidIsPrefix
        <5> QED BY <3>1, <5>1 DEF DeletionFinal
      <4> QED BY <1>1, <1>2, <4>1, <4>3, <4>4, RecoveredDeleted
    <3> QED BY <1>1, <3>1, <3>2, <3>3 DEF DeletionFinal
  <2> QED BY <1>1, <2>1, <2>2 DEF IInv, KeepInv
<1>8. EraseInv'
  <2> SUFFICES ASSUME Clean' PROVE EraseInv'
    BY DEF EraseInv
  <2>1. Clean
    BY <1>1 DEF Clean
  <2>2. Numbered /\ \A j \in erased : snapshot[j] = 0 /\ ~Alive(j)
    BY <2>1 DEF IInv, EraseInv
  <2>3. ValidPrefix = Len(journal)
    BY <1>2, <2>2, AllRead
  <2>4. Numbered'
    BY <1>1, <2>2, <2>3 DEF Numbered
  <2>5. \A j \in erased : Recovered[j] = 0
    BY <2>1, ErasedNotRecovered
  <2>6. \A j \in Jobs : Alive(j) => Recovered[j] # 0
    BY <1>2, <2>3, RecoveredAlive
  <2> QED BY <1>1, <1>4, <2>2, <2>4, <2>5, <2>6 DEF EraseInv
<1> QED BY <1>4, <1>5, <1>6, <1>7, <1>8 DEF IInv
LEMMA CrashStep ==
  ASSUME IInv, Crash
  PROVE  IInv'
<1>1. /\ pc # "down" /\ pc' = "down" /\ faults < MaxFaults /\ faults' = faults + 1
      /\ UNCHANGED <<plan, jobs, gone, snapshot, journal, tail, persisted, sequence, saved, erased>>
  BY DEF Crash, Fault, disk
<1>2. Journal' /\ \A i : Alive(i)' = Alive(i)
  BY <1>1, SameJournal
<1>3. TypeOK'
  <2>1. faults' \in 0 .. MaxFaults
    BY <1>1, StoreAssumption DEF IInv, TypeOK
  <2> QED BY <1>1, <2>1 DEF IInv, TypeOK
<1>4. TableInv'
  BY <1>1 DEF TableInv
<1>5. KeepInv'
  <2>1. ASSUME "snapshot" \notin plan.faults PROVE DeletionFinal'
    BY <1>1, <2>1, UnwrittenKeeps
  <2> QED BY <1>1, <2>1 DEF IInv, KeepInv
<1>6. EraseInv'
  <2>1. Clean' = Clean /\ (Numbered => Numbered')
    BY <1>1 DEF Clean, Numbered
  <2> QED BY <1>1, <1>2, <2>1 DEF IInv, EraseInv
<1> QED BY <1>2, <1>3, <1>4, <1>5, <1>6 DEF IInv

LEMMA LoseStep ==
  ASSUME IInv, LoseSnapshot
  PROVE  IInv'
<1>1. /\ pc = "down" /\ "snapshot" \in plan.faults /\ faults < MaxFaults /\ faults' = faults + 1
      /\ snapshot' = NoJobs
      /\ UNCHANGED <<plan, jobs, gone, journal, tail, persisted, sequence, pc, saved, erased>>
  BY DEF LoseSnapshot, Fault
<1>2. Journal' /\ \A i : Alive(i)' = Alive(i)
  BY <1>1, SameJournal
<1>3. TypeOK'
  <2>1. faults' \in 0 .. MaxFaults /\ NoJobs \in Table
    BY <1>1, StoreAssumption DEF IInv, TypeOK, NoJobs, Table
  <2> QED BY <1>1, <2>1 DEF IInv, TypeOK
<1>4. TableInv' /\ KeepInv'
  BY <1>1 DEF TableInv, KeepInv
<1>5. EraseInv'
  <2>1. Clean' = Clean /\ Numbered' = Numbered
    BY <1>1 DEF Clean, Numbered
  <2>2. \A j \in erased : snapshot'[j] = 0
    BY <1>1 DEF IInv, TypeOK, NoJobs
  <2> QED BY <1>1, <1>2, <2>1, <2>2 DEF IInv, EraseInv
<1> QED BY <1>2, <1>3, <1>4, <1>5 DEF IInv

LEMMA StutterStep ==
  ASSUME IInv, UNCHANGED vars
  PROVE  IInv'
<1>1. UNCHANGED <<plan, jobs, gone, snapshot, journal, tail, persisted, sequence, pc, saved, erased, faults>>
  BY DEF vars, disk
<1>2. Journal' /\ \A i : Alive(i)' = Alive(i)
  BY <1>1, SameJournal
<1>3. TypeOK' /\ TableInv'
  BY <1>1 DEF IInv, TypeOK, TableInv
<1>4. KeepInv'
  <2>1. ASSUME "snapshot" \notin plan.faults PROVE DeletionFinal'
    BY <1>1, <2>1, UnwrittenKeeps
  <2> QED BY <1>1, <2>1 DEF IInv, KeepInv
<1>5. EraseInv'
  <2>1. Clean' = Clean /\ Numbered' = Numbered
    BY <1>1 DEF Clean, Numbered
  <2> QED BY <1>1, <1>2, <2>1 DEF IInv, EraseInv
<1> QED BY <1>2, <1>3, <1>4, <1>5 DEF IInv

LEMMA NextStep ==
  IInv /\ [Next]_vars => IInv'
<1> SUFFICES ASSUME IInv, [Next]_vars PROVE IInv'
  OBVIOUS
<1>1. ASSUME NEW j \in Jobs, Change(j) PROVE IInv'
  BY <1>1, ChangeStep
<1>2. CASE SaveAppend
  BY <1>2, AppendStep
<1>3. CASE SaveSnapshot
  BY <1>3, SnapshotStep
<1>4. CASE SaveCompact
  BY <1>4, CompactStep
<1>5. CASE Load
  BY <1>5, LoadStep
<1>6. CASE Crash
  BY <1>6, CrashStep
<1>7. CASE LoseSnapshot
  BY <1>7, LoseStep
<1>8. CASE UNCHANGED vars
  BY <1>8, StutterStep
<1> QED BY <1>1, <1>2, <1>3, <1>4, <1>5, <1>6, <1>7, <1>8 DEF Next

(* IInv holds in every state of the store.                                 *)
THEOREM Invariant == Spec => []IInv
<1>1. Init => IInv
  BY InitHolds
<1> QED BY <1>1, NextStep, PTL DEF Spec

(* Unless the snapshot file itself is lost, every version that save has    *)
(* reported stored is found by the next load, whatever was killed, torn or *)
(* failed since, and whether or not the journal was compacted.             *)
THEOREM SavedSurvive == Spec => []("snapshot" \notin plan.faults => SavedVersionsSurvive)
<1>1. IInv => ("snapshot" \notin plan.faults => SavedVersionsSurvive)
  BY SavedRecovered DEF SavedVersionsSurvive, IInv
<1> QED BY <1>1, Invariant, PTL

(* When no write fails, a job whose deletion save has reported stored is   *)
(* never found again, also when the snapshot file is lost.                 *)
THEOREM DeletedStays == Spec => []DeletedStaysDeleted
<1>1. IInv => DeletedStaysDeleted
  BY ErasedNotRecovered DEF DeletedStaysDeleted, Clean
<1> QED BY <1>1, Invariant, PTL
-----------------------------------------------------------------------------
(* A lost snapshot.  As long as the journal has not been compacted it      *)
(* holds every saved version, so load needs no snapshot.                   *)
Has(lines, j, v) ==
  v = 0 \/ \E k \in 1 .. Len(lines) :
             /\ lines[k].jobs[j] >= v
             /\ \A m \in 1 .. Len(lines) : k < m => j \notin lines[m].deleted

(* A job that only the snapshot has is one that a line deletes: the file   *)
(* is older than the journal.                                              *)
JournalInv ==
  Clean =>
    /\ \A j \in Jobs : Has(journal, j, saved[j])
    /\ \A j \in Jobs : \/ Has(journal, j, snapshot[j])
                       \/ \E k \in 1 .. Len(journal) : j \in journal[k].deleted
    /\ pc # "down" => \A j \in Jobs : saved[j] <= jobs[j]
    /\ pc = "snapshot" => \A j \in Jobs : Has(journal, j, jobs[j])
    /\ pc \in {"idle", "compact"} => \A j \in Jobs : Has(journal, j, persisted[j])
LEMMA HasRecovered ==
  ASSUME Journal, snapshot \in Table, ValidPrefix = Len(journal), NEW j \in Jobs,
         NEW v \in Nat, Has(journal, j, v)
  PROVE  Recovered[j] >= v
<1>1. PICK f : /\ Recovered = f[ValidPrefix]
               /\ \A i \in 1 .. ValidPrefix : f[i] = Applied(f[i - 1], journal[i])
               /\ \A i \in 0 .. ValidPrefix : f[i] \in Table
  BY ReplaySteps
<1>2. PICK b \in Nat : b = ValidPrefix /\ b = Len(journal)
  BY PrefixIsValid
<1>3. ASSUME NEW i \in 1 .. b
      PROVE  /\ f[i] = Applied(f[i - 1], journal[i])
             /\ journal[i].jobs[j] \in Nat /\ f[i - 1][j] \in Nat
  <2>1. i - 1 \in 0 .. b /\ i \in 1 .. Len(journal)
    BY <1>2
  <2>2. journal[i] \in Record \cup {BadLine} /\ f[i - 1] \in Table
    BY <1>1, <1>2, <2>1 DEF Journal
  <2> QED BY <1>1, <1>2, <2>2, StoreAssumption DEF Record, BadLine, NoJobs, Table
<1>4. Recovered[j] \in Nat
  BY RecoveredIsTable, StoreAssumption DEF Table
<1>5. CASE v = 0
  BY <1>4, <1>5
<1>6. CASE v # 0
  <2>1. PICK k \in 1 .. b :
          /\ journal[k].jobs[j] >= v
          /\ \A m \in 1 .. b : k < m => j \notin journal[m].deleted
    BY <1>2, <1>6 DEF Has
  <2> DEFINE S == {i \in Nat : f[i][j] >= v}
  <2>2. k \in Nat /\ k <= b /\ k \in S
    <3>1. f[k] = Applied(f[k - 1], journal[k]) /\ journal[k].jobs[j] \in Nat /\ f[k - 1][j] \in Nat
      BY <1>3
    <3>2. Applied(f[k - 1], journal[k])[j] >= v
      BY <1>6, <2>1, <3>1 DEF Applied
    <3> QED BY <3>1, <3>2
  <2>3. ASSUME NEW i \in Nat, k < i, i <= b, i - 1 \in S PROVE i \in S
    <3>1. i \in 1 .. b /\ f[i - 1][j] >= v
      BY <2>3
    <3>2. j \notin journal[i].deleted
      BY <2>1, <2>3, <3>1
    <3>3. f[i] = Applied(f[i - 1], journal[i]) /\ journal[i].jobs[j] \in Nat /\ f[i - 1][j] \in Nat
      BY <1>3, <3>1
    <3>4. Applied(f[i - 1], journal[i])[j] >= v
      BY <3>1, <3>2, <3>3 DEF Applied
    <3> QED BY <3>3, <3>4
  <2> HIDE DEF S
  <2>4. \A i \in Nat : k <= i /\ i <= b => i \in S
    BY <2>2, <2>3, LineInduction
  <2> QED BY <1>1, <1>2, <2>2, <2>4 DEF S
<1> QED BY <1>5, <1>6

LEMMA RecoveredHas ==
  ASSUME Journal, snapshot \in Table, ValidPrefix = Len(journal), NEW j \in Jobs,
         Has(journal, j, snapshot[j]) \/ \E k \in 1 .. Len(journal) : j \in journal[k].deleted
  PROVE  Has(journal, j, Recovered[j])
<1>1. PICK f : /\ Recovered = f[ValidPrefix]
               /\ f[0] = snapshot
               /\ \A i \in 1 .. ValidPrefix : f[i] = Applied(f[i - 1], journal[i])
  BY ReplaySteps
<1>2. PICK b \in Nat : b = ValidPrefix /\ b = Len(journal)
  BY PrefixIsValid
<1> DEFINE Line(i, k) == /\ journal[k].jobs[j] = f[i][j]
                         /\ \A m \in 1 .. i : k < m => j \notin journal[m].deleted
           S == {i \in Nat : \/ f[i][j] = 0
                             \/ /\ f[i][j] = snapshot[j]
                                /\ \A m \in 1 .. i : j \notin journal[m].deleted
                             \/ \E k \in 1 .. i : Line(i, k)}
<1>3. 0 \in S
  BY <1>1
<1>4. ASSUME NEW i \in Nat, 0 < i, i <= b, i - 1 \in S PROVE i \in S
  <2>1. i \in 1 .. b /\ i - 1 \in Nat /\ f[i] = Applied(f[i - 1], journal[i])
    BY <1>1, <1>2, <1>4
  <2>2. \/ f[i][j] = journal[i].jobs[j]
        \/ j \in journal[i].deleted /\ f[i][j] = 0
        \/ j \notin journal[i].deleted /\ f[i][j] = f[i - 1][j]
    BY <2>1 DEF Applied
  <2>3. CASE f[i][j] = journal[i].jobs[j]
    <3>1. Line(i, i) /\ i \in 1 .. i
      BY <2>1, <2>3
    <3> QED BY <3>1
  <2>4. CASE f[i][j] = 0
    BY <2>4
  <2>5. CASE j \notin journal[i].deleted /\ f[i][j] = f[i - 1][j]
    <3>1. \A m \in 1 .. i : m \in 1 .. (i - 1) \/ m = i
      BY <2>1
    <3>2. CASE f[i - 1][j] = 0
      BY <2>5, <3>2
    <3>3. CASE /\ f[i - 1][j] = snapshot[j]
               /\ \A m \in 1 .. (i - 1) : j \notin journal[m].deleted
      BY <2>5, <3>1, <3>3
    <3>4. ASSUME NEW k \in 1 .. (i - 1), Line(i - 1, k) PROVE i \in S
      <4>1. Line(i, k) /\ k \in 1 .. i
        BY <2>1, <2>5, <3>1, <3>4
      <4> QED BY <4>1
    <3> QED BY <1>4, <3>2, <3>3, <3>4
  <2> QED BY <2>2, <2>3, <2>4, <2>5
<1> HIDE DEF S, Line
<1>5. b \in S
  <2>1. \A i \in Nat : 0 <= i /\ i <= b => i \in S
    BY <1>3, <1>4, LineInduction
  <2> QED BY <2>1
<1> USE DEF S, Line
<1>6. CASE f[b][j] = 0
  BY <1>1, <1>2, <1>6 DEF Has
<1>7. CASE f[b][j] = snapshot[j] /\ \A m \in 1 .. b : j \notin journal[m].deleted
  BY <1>1, <1>2, <1>7
<1>8. ASSUME NEW k \in 1 .. b, Line(b, k) PROVE Has(journal, j, Recovered[j])
  <2>1. journal[k].jobs[j] = Recovered[j]
    BY <1>1, <1>2, <1>8
  <2>2. Recovered[j] \in Nat
    BY RecoveredIsTable, StoreAssumption DEF Table
  <2>3. journal[k].jobs[j] >= Recovered[j]
    BY <2>1, <2>2
  <2> QED BY <1>2, <1>8, <2>3 DEF Has
<1> QED BY <1>5, <1>6, <1>7, <1>8
(* The append keeps in the journal what the journal has of each job, but   *)
(* for the jobs it deletes, and adds what has changed.                     *)
LEMMA AppendJournals ==
  ASSUME IInv, JournalInv, Clean, SaveAppend
  PROVE  JournalInv'
<1>1. /\ pc = "idle" /\ plan' = plan /\ snapshot' = snapshot
      /\ persisted' = persisted /\ erased' = erased
  BY DEF SaveAppend
<1>2. "torn" \notin plan.faults /\ "io" \notin plan.faults
  BY DEF Clean
<1>3. PICK pruned \in SUBSET {j \in Jobs : jobs[j] # 0} :
        LET r == Payload([j \in Jobs |-> IF j \in pruned THEN 0 ELSE jobs[j]])
        IN /\ Prune(pruned)
           /\ pc' = "snapshot"
           /\ \/ NoChange(r) /\ UNCHANGED journal
              \/ Written(r, "closed")
  BY <1>2 DEF SaveAppend, Fault
<1>4. jobs' = [j \in Jobs |-> IF j \in pruned THEN 0 ELSE jobs[j]] /\ Prune(pruned)
  BY <1>3 DEF Prune
<1>5. PICK r : /\ r = Payload(jobs') /\ pc' = "snapshot"
               /\ (NoChange(r) /\ UNCHANGED journal) \/ Written(r, "closed")
  BY <1>3, <1>4, Zenon
<1>6. /\ jobs' \in Table /\ saved' \in Table
      /\ \A j \in Jobs : /\ saved'[j] <= saved[j]
                         /\ saved[j] <= jobs[j] => saved'[j] <= jobs'[j]
  BY <1>4, PruneFacts DEF IInv
<1>7. /\ r \in Record
      /\ \A j \in Jobs : j \in r.deleted <=> persisted[j] # 0 /\ jobs'[j] = 0
      /\ NoChange(r) => jobs' = persisted
  BY <1>5, <1>6, PayloadFacts DEF IInv
<1>8. \A j \in Jobs : jobs'[j] # persisted[j] => r.jobs[j] = jobs'[j]
  BY <1>5 DEF Payload
<1>9. \A j \in Jobs : /\ jobs'[j] \in Nat /\ saved'[j] \in Nat /\ saved[j] \in Nat
                      /\ snapshot[j] \in Nat /\ persisted[j] \in Nat
  BY <1>6, StoreAssumption DEF IInv, TypeOK, Table
<1>10. /\ \A j \in Jobs : Has(journal, j, saved[j]) /\ Has(journal, j, persisted[j]) /\ saved[j] <= jobs[j]
       /\ \A j \in Jobs : \/ Has(journal, j, snapshot[j])
                          \/ \E k \in 1 .. Len(journal) : j \in journal[k].deleted
  BY <1>1 DEF JournalInv
<1>11. /\ \A j \in Jobs : \A v \in Nat : Has(journal, j, v) /\ j \notin r.deleted => Has(journal', j, v)
       /\ \A j \in Jobs : jobs'[j] # persisted[j] => Has(journal', j, jobs'[j])
       /\ \A j \in Jobs : (\E k \in 1 .. Len(journal) : j \in journal[k].deleted) =>
                          (\E k \in 1 .. Len(journal') : j \in journal'[k].deleted)
       /\ \A j \in r.deleted : \E k \in 1 .. Len(journal') : j \in journal'[k].deleted
  <2>1. CASE NoChange(r) /\ UNCHANGED journal
    BY <1>7, <2>1 DEF Has, NoChange
  <2>2. CASE Written(r, "closed")
    <3>1. tail = "closed"
      BY DEF IInv, EraseInv, Numbered
    <3>2. PICK b \in Nat :
            /\ b = Len(journal) /\ Len(journal') = b + 1
            /\ \A k \in 1 .. b : journal'[k] = journal[k]
            /\ journal'[b + 1] = r
      BY <1>7, <2>2, <3>1, WrittenFacts DEF IInv
    <3>3. b + 1 \in 1 .. (b + 1) /\ \A k \in 1 .. (b + 1) : k \in 1 .. b \/ k = b + 1
      BY <3>2
    <3>4. \A k \in 1 .. b : k \in 1 .. (b + 1)
      BY <3>2
    <3>5. ASSUME NEW j \in Jobs, NEW v \in Nat, Has(journal, j, v), j \notin r.deleted
          PROVE  Has(journal', j, v)
      <4>1. CASE v = 0
        BY <4>1 DEF Has
      <4>2. CASE v # 0
        <5>1. PICK k \in 1 .. b :
                /\ journal[k].jobs[j] >= v
                /\ \A m \in 1 .. b : k < m => j \notin journal[m].deleted
          BY <3>2, <3>5, <4>2 DEF Has
        <5>2. journal'[k].jobs[j] >= v /\ k \in 1 .. (b + 1)
          BY <3>2, <3>4, <5>1
        <5>3. \A m \in 1 .. (b + 1) : k < m => j \notin journal'[m].deleted
          BY <3>2, <3>3, <3>5, <5>1
        <5> QED BY <3>2, <5>2, <5>3 DEF Has
      <4> QED BY <4>1, <4>2
    <3>6. ASSUME NEW j \in Jobs, jobs'[j] # persisted[j] PROVE Has(journal', j, jobs'[j])
      <4>1. journal'[b + 1].jobs[j] >= jobs'[j]
        BY <1>8, <1>9, <3>2, <3>6
      <4>2. \A m \in 1 .. (b + 1) : ~(b + 1 < m)
        BY <3>2
      <4> QED BY <3>2, <3>3, <4>1, <4>2 DEF Has
    <3> QED BY <3>2, <3>3, <3>4, <3>5, <3>6
  <2> QED BY <1>5, <2>1, <2>2
<1>12. ASSUME NEW j \in Jobs
       PROVE  Has(journal', j, jobs'[j]) /\ saved'[j] <= jobs'[j]
  <2>1. CASE jobs'[j] = persisted[j]
    <3>1. j \notin r.deleted /\ Has(journal, j, persisted[j])
      BY <1>7, <1>10, <2>1
    <3> QED BY <1>6, <1>9, <1>10, <1>11, <2>1, <3>1
  <2> QED BY <1>6, <1>10, <1>11, <2>1
<1>13. ASSUME NEW j \in Jobs PROVE Has(journal', j, saved'[j])
  <2>1. \A u, v \in Nat : u <= v /\ Has(journal', j, v) => Has(journal', j, u)
    <3> SUFFICES ASSUME NEW u \in Nat, NEW v \in Nat, u <= v, Has(journal', j, v)
                 PROVE  Has(journal', j, u)
      OBVIOUS
    <3>1. CASE v = 0
      BY <3>1 DEF Has
    <3>2. CASE v # 0
      <4>1. PICK k \in 1 .. Len(journal') :
              /\ journal'[k].jobs[j] >= v
              /\ \A m \in 1 .. Len(journal') : k < m => j \notin journal'[m].deleted
        BY <3>2 DEF Has
      <4>2. journal'[k].jobs[j] \in Nat
        <5>1. Journal'
          BY AppendStep DEF IInv
        <5>2. journal'[k] \in Record \cup {BadLine}
          BY <4>1, <5>1 DEF Journal
        <5> QED BY <5>2, StoreAssumption DEF Record, BadLine, NoJobs, Table
      <4>3. journal'[k].jobs[j] >= u
        BY <4>1, <4>2
      <4> QED BY <4>1, <4>3 DEF Has
    <3> QED BY <3>1, <3>2
  <2> QED BY <1>9, <1>12, <2>1
<1>14. ASSUME NEW j \in Jobs
       PROVE  Has(journal', j, snapshot'[j]) \/ \E k \in 1 .. Len(journal') : j \in journal'[k].deleted
  BY <1>1, <1>9, <1>10, <1>11
<1> QED BY <1>1, <1>5, <1>12, <1>13, <1>14 DEF JournalInv

LEMMA JournalStep ==
  ASSUME IInv, JournalInv, Len(journal) <= plan.compactAt, [Next]_vars
  PROVE  JournalInv'
<1> SUFFICES ASSUME Clean' PROVE JournalInv'
  BY DEF JournalInv
<1>1. plan' = plan
  BY DEF Next, Change, SaveAppend, SaveSnapshot, SaveCompact, Load, Crash, LoseSnapshot, vars
<1>2. Clean /\ "torn" \notin plan.faults /\ "io" \notin plan.faults
  BY <1>1 DEF Clean
<1>3. CASE SaveAppend
  BY <1>2, <1>3, AppendJournals
<1>4. ASSUME UNCHANGED journal PROVE \A j, v : Has(journal', j, v) = Has(journal, j, v)
  BY <1>4 DEF Has
<1>5. ASSUME NEW j \in Jobs, Change(j) PROVE JournalInv'
  <2>1. \A i \in Jobs : saved[i] <= jobs[i] /\ saved[i] \in Nat
    BY <1>2, <1>5, StoreAssumption DEF Change, JournalInv, IInv, TypeOK, Table
  <2>2. \A i \in Jobs : saved[i] <= jobs'[i]
    BY <1>5, <2>1, StoreAssumption DEF Change, IInv, TypeOK, Table
  <2> QED BY <1>2, <1>4, <1>5, <2>2 DEF Change, disk, JournalInv
<1>6. CASE SaveSnapshot
  BY <1>2, <1>4, <1>6 DEF SaveSnapshot, Fault, JournalInv
<1>7. CASE SaveCompact
  <2>1. ~(Len(journal) > plan.compactAt)
    <3>1. Len(journal) \in Nat /\ plan.compactAt \in Nat
      BY StoreAssumption DEF IInv, Journal, TypeOK, Plan
    <3> QED BY <3>1
  <2>2. UNCHANGED journal /\ snapshot = jobs /\ persisted = jobs
    BY <1>7, <2>1 DEF SaveCompact, IInv, TableInv
  <2>3. \A i \in Jobs : jobs[i] <= jobs[i]
    BY StoreAssumption DEF IInv, TypeOK, Table
  <2> QED BY <1>2, <1>4, <1>7, <2>2, <2>3 DEF SaveCompact, JournalInv
<1>8. CASE Load
  <2>1. Journal /\ snapshot \in Table /\ ValidPrefix = Len(journal)
    BY <1>2, AllRead DEF IInv, TypeOK, EraseInv
  <2>2. ASSUME NEW j \in Jobs PROVE Has(journal, j, Recovered[j]) /\ saved[j] <= Recovered[j]
    <3>1. Has(journal, j, saved[j]) /\ saved[j] \in Nat
      BY <1>2, StoreAssumption DEF JournalInv, IInv, TypeOK, Table
    <3>2. Has(journal, j, snapshot[j]) \/ \E k \in 1 .. Len(journal) : j \in journal[k].deleted
      BY <1>2 DEF JournalInv
    <3>3. Recovered[j] >= saved[j] /\ Recovered[j] \in Nat
      BY <2>1, <3>1, HasRecovered, RecoveredIsTable, StoreAssumption DEF Table
    <3> QED BY <2>1, <3>1, <3>2, <3>3, RecoveredHas
  <2> QED BY <1>2, <1>4, <1>8, <2>2 DEF Load, disk, JournalInv
<1>9. CASE Crash
  BY <1>2, <1>4, <1>9 DEF Crash, disk, JournalInv
<1>10. CASE LoseSnapshot
  <2>1. \A j \in Jobs : Has(journal, j, NoJobs[j])
    BY DEF Has, NoJobs
  <2> QED BY <1>2, <1>4, <1>10, <2>1 DEF LoseSnapshot, JournalInv
<1>11. CASE UNCHANGED vars
  BY <1>2, <1>4, <1>11 DEF vars, disk, JournalInv
<1> QED BY <1>3, <1>5, <1>6, <1>7, <1>8, <1>9, <1>10, <1>11 DEF Next

(* When no write fails and the journal is never long enough to be          *)
(* compacted, the saved versions survive the loss of the snapshot file     *)
(* too: load rebuilds them from the journal alone.                         *)
THEOREM LostSnapshotRebuilt ==
  Spec /\ [](Len(journal) <= plan.compactAt)
    => [](plan.faults \cap {"torn", "io"} = {} => SavedVersionsSurvive)
<1>1. Init => JournalInv
  <2> SUFFICES ASSUME Init PROVE JournalInv
    OBVIOUS
  <2>1. \A j \in Jobs : Has(journal, j, NoJobs[j]) /\ NoJobs[j] <= NoJobs[j]
    BY DEF Has, NoJobs
  <2> QED BY <2>1 DEF Init, JournalInv
<1>2. IInv /\ JournalInv /\ Len(journal) <= plan.compactAt /\ [Next]_vars => JournalInv'
  BY JournalStep
<1>3. IInv /\ JournalInv => (plan.faults \cap {"torn", "io"} = {} => SavedVersionsSurvive)
  <2> SUFFICES ASSUME IInv, JournalInv, Clean PROVE SavedVersionsSurvive
    BY DEF Clean
  <2>1. Journal /\ snapshot \in Table /\ ValidPrefix = Len(journal)
    BY AllRead DEF IInv, TypeOK, EraseInv
  <2>2. ASSUME NEW j \in Jobs PROVE Recovered[j] >= saved[j]
    <3>1. Has(journal, j, saved[j]) /\ saved[j] \in Nat
      BY StoreAssumption DEF JournalInv, IInv, TypeOK, Table
    <3> QED BY <2>1, <3>1, HasRecovered
  <2> QED BY <2>2 DEF SavedVersionsSurvive, IInv
<1> QED BY <1>1, <1>2, <1>3, Invariant, PTL DEF Spec
=============================================================================
