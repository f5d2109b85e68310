------------------------- MODULE CredentialsProofs -------------------------
(***************************************************************************)
(* Proofs about Credentials, for any processes, editors, profile ids and   *)
(* documents.  The first ones do not rest on the migration lock, which two *)
(* processes may hold at once: whatever a process writes, it read or       *)
(* merged, and what it merged has every legacy profile.  The last one, on  *)
(* passwords, is for one editor, and uses the lock as far as it can be     *)
(* trusted.                                                                *)
(***************************************************************************)
EXTENDS Credentials, TLAPS

Steps == {"start", "retire", "merge", "write", "mark", "retireSource", "release",
          "abort", "load", "ready", "failed", "down"}
Ops == {"none", "read", "store", "storeToken", "erase", "eraseToken", "profile",
        "token", "unprofile", "untoken", "undo", "restore", "probe", "pin"}
CallRecord == [op : Ops, id : Ids \cup {None}, secret : Passwords \cup {None}, default : BOOLEAN,
               previous : Passwords \cup {None}, type : Types \cup {None}]

(* A call in flight is about a profile, of a store that is loaded, and was *)
(* counted.                                                                *)
CallInv ==
  \A p \in Procs : call[p] # NoCall =>
    call[p].op # "none" /\ pc[p] = "ready" /\ call[p].id \in touched \cap Ids /\ calls > 0

(* Nothing is touched before the first call.                               *)
CountInv == calls = 0 => touched = {}

(* A document that keeps the canonical profiles nobody touched, one that   *)
(* has the legacy ones, and one that keeps the canonical defaults.         *)
Keeps(document) ==
  \A id \in Ids \ touched :
    Canonical.profiles[id] # None => document.profiles[id] = Canonical.profiles[id]

Imported(document) ==
  \A id \in Ids \ touched : Legacy.profiles[id] # None => document.profiles[id] # None

CanonicalDefaults == validDefaults(Canonical.defaults, Canonical.profiles)
Prefers(document) ==
  calls = 0 => \A k \in Kinds : CanonicalDefaults[k] # None => document.defaults[k] = CanonicalDefaults[k]

(* The legacy document is left alone only once its profiles are in the     *)
(* canonical one; a process that holds a document has them too.            *)
DocumentInv ==
  /\ Keeps(file) /\ Prefers(file)
  /\ ~Importable => Imported(file)
  /\ \A p \in Procs :
       /\ pc[p] = "write" => Keeps(work[p]) /\ Prefers(work[p]) /\ Imported(work[p])
       /\ pc[p] \in {"mark", "retireSource", "release", "load"} => Imported(file)
       /\ pc[p] = "ready" => Keeps(mem[p]) /\ Imported(mem[p])

IInv == MemoryIsStored /\ CallInv /\ CountInv /\ DocumentInv
-----------------------------------------------------------------------------
(* The operators on documents.                                             *)
LEMMA KindOfType ==
  /\ \A t \in Types : KindOf(t) \in Kinds
  /\ KindOf(None) = None /\ None \notin Types \cup Ids \cup Kinds
  BY CredentialsAssumption DEF KindOf, Types, Kinds

Doc(d) == /\ d.profiles \in [Ids -> Types \cup {None}] /\ d.defaults \in [Kinds -> Ids \cup {None}]
          /\ d = [profiles |-> d.profiles, defaults |-> d.defaults]

LEMMA DocType == \A d : d \in Documents <=> Doc(d)
  BY DEF Documents, Doc

LEMMA DefaultsType ==
  ASSUME NEW defaults \in [Kinds -> Ids \cup {None}], NEW profiles
  PROVE  validDefaults(defaults, profiles) \in [Kinds -> Ids \cup {None}]
  BY DEF validDefaults

LEMMA MergedType ==
  ASSUME NEW d \in Documents
  PROVE  /\ Merged(d) \in Documents
         /\ \A i \in Ids : Merged(d).profiles[i] = IF d.profiles[i] # None THEN d.profiles[i]
                                                                          ELSE Legacy.profiles[i]
         /\ \A k \in Kinds : validDefaults(d.defaults, d.profiles)[k] # None
              => Merged(d).defaults[k] = validDefaults(d.defaults, d.profiles)[k]
<1> DEFINE P == [i \in Ids |-> IF d.profiles[i] # None THEN d.profiles[i] ELSE Legacy.profiles[i]]
           M == validDefaults(d.defaults, d.profiles)
           L == validDefaults(Legacy.defaults, P)
           D == [k \in Kinds |-> IF M[k] # None THEN M[k] ELSE L[k]]
<1>0. Doc(d) /\ Doc(Legacy)
  BY CredentialsAssumption, DocType
<1>1. P \in [Ids -> Types \cup {None}]
  BY <1>0 DEF Doc
<1>2. M \in [Kinds -> Ids \cup {None}] /\ L \in [Kinds -> Ids \cup {None}]
  BY <1>0, DefaultsType DEF Doc
<1>3. Merged(d) = [profiles |-> P, defaults |-> D]
  BY DEF Merged
<1>4. \A i \in Ids : P[i] = IF d.profiles[i] # None THEN d.profiles[i] ELSE Legacy.profiles[i]
  OBVIOUS
<1> HIDE DEF P, M, L
<1>5. D \in [Kinds -> Ids \cup {None}] /\ \A k \in Kinds : M[k] # None => D[k] = M[k]
  BY <1>2
<1> HIDE DEF D
<1>6. Merged(d) \in Documents /\ Merged(d).profiles = P /\ Merged(d).defaults = D
  BY <1>1, <1>3, <1>5 DEF Documents
<1>7. \A k \in Kinds : M[k] # None => Merged(d).defaults[k] = M[k]
  BY <1>5, <1>6
<1> QED BY <1>4, <1>6, <1>7 DEF M

LEMMA SavedType ==
  ASSUME NEW d \in Documents, NEW id \in Ids, NEW type \in Types \cup {None}, NEW makeDefault \in BOOLEAN,
         type = None => ~makeDefault
  PROVE  /\ Saved(d, id, type, makeDefault) \in Documents
         /\ Saved(d, id, type, makeDefault).profiles = [d.profiles EXCEPT ![id] = type]
         /\ Saved(d, id, type, makeDefault).defaults =
              IF makeDefault THEN [d.defaults EXCEPT ![KindOf(type)] = id] ELSE d.defaults
<1>0. Doc(d)
  BY DocType
<1> DEFINE P == [d.profiles EXCEPT ![id] = type]
           D == IF makeDefault THEN [d.defaults EXCEPT ![KindOf(type)] = id] ELSE d.defaults
<1>1. P \in [Ids -> Types \cup {None}]
  BY <1>0 DEF Doc
<1>2. D \in [Kinds -> Ids \cup {None}]
  BY <1>0 DEF Doc
<1>3. Saved(d, id, type, makeDefault) = [profiles |-> P, defaults |-> D]
  BY DEF Saved
<1> HIDE DEF P, D
<1>4. /\ Saved(d, id, type, makeDefault) \in Documents
      /\ Saved(d, id, type, makeDefault).profiles = P /\ Saved(d, id, type, makeDefault).defaults = D
  BY <1>1, <1>2, <1>3 DEF Documents
<1> QED BY <1>4 DEF P, D

LEMMA DeletedType ==
  ASSUME NEW d \in Documents, NEW id \in Ids, d.profiles[id] # None
  PROVE  /\ Deleted(d, id) \in Documents
         /\ Deleted(d, id).profiles = [d.profiles EXCEPT ![id] = None]
         /\ \E v \in Ids \cup {None} :
              Deleted(d, id).defaults = [d.defaults EXCEPT ![KindOf(d.profiles[id])] = v]
<1>0. Doc(d)
  BY DocType
<1> DEFINE kind == KindOf(d.profiles[id])
           P == [d.profiles EXCEPT ![id] = None]
           D == [d.defaults EXCEPT ![kind] = IF @ = id THEN None ELSE @]
           v == IF d.defaults[kind] = id THEN None ELSE d.defaults[kind]
<1>1. P \in [Ids -> Types \cup {None}]
  BY <1>0 DEF Doc
<1>2. kind \in Kinds
  BY <1>0, KindOfType DEF Doc
<1>3. Deleted(d, id) = [profiles |-> P, defaults |-> D]
  BY DEF Deleted
<1> HIDE DEF P, kind
<1>4. v \in Ids \cup {None} /\ D = [d.defaults EXCEPT ![kind] = v]
  BY <1>0, <1>2 DEF Doc
<1>5. D \in [Kinds -> Ids \cup {None}]
  BY <1>0, <1>2 DEF Doc
<1> HIDE DEF D, v
<1>6. Deleted(d, id) \in Documents /\ Deleted(d, id).profiles = P /\ Deleted(d, id).defaults = D
  BY <1>1, <1>3, <1>5 DEF Documents
<1> QED BY <1>4, <1>6 DEF P, kind

(* What a write that throws puts back is all that the change had changed.  *)
LEMMA RollsBack ==
  ASSUME NEW old \in Documents, NEW new \in Documents, NEW id \in Ids, NEW kind \in Kinds,
         \A i \in Ids : i # id => new.profiles[i] = old.profiles[i],
         \A k \in Kinds : k # kind => new.defaults[k] = old.defaults[k]
  PROVE  RolledBack(old, new, id, kind) = old
<1>0. Doc(old) /\ Doc(new)
  BY DocType
<1> DEFINE P == [new.profiles EXCEPT ![id] = old.profiles[id]]
           D == [new.defaults EXCEPT ![kind] = old.defaults[kind]]
<1>1. P = old.profiles
  BY <1>0 DEF Doc
<1>2. D = old.defaults
  BY <1>0 DEF Doc
<1>3. RolledBack(old, new, id, kind) = [profiles |-> P, defaults |-> D]
  BY DEF RolledBack
<1> HIDE DEF P, D
<1> QED BY <1>0, <1>1, <1>2, <1>3 DEF Doc
-----------------------------------------------------------------------------
MemPart ==
  \A p \in Procs :
    /\ mem[p].profiles = stored[p].profiles
    /\ validDefaults(mem[p].defaults, mem[p].profiles)
         = validDefaults(stored[p].defaults, stored[p].profiles)

LEMMA Parts == /\ MemoryIsStored <=> TypeOK /\ MemPart
               /\ IInv <=> TypeOK /\ MemPart /\ CallInv /\ CountInv /\ DocumentInv
  BY DEF MemoryIsStored, MemPart, IInv

LEMMA StateType ==
  ASSUME TypeOK
  PROVE  /\ mem \in [Procs -> Documents] /\ stored \in [Procs -> Documents]
         /\ work \in [Procs -> Documents] /\ file \in Documents
         /\ call \in [Procs -> CallRecord] /\ pc \in [Procs -> Steps]
         /\ vault \in [Ids -> Passwords \cup {None}]
         /\ calls \in 0..MaxCalls /\ calls \in Nat /\ MaxCalls \in Nat
         /\ touched \subseteq Ids /\ unsure \subseteq Ids /\ faults \subseteq Faults
  BY CredentialsAssumption DEF TypeOK, CallRecord, Ops, Steps

LEMMA TypeFrom ==
  ASSUME mem \in [Procs -> Documents], stored \in [Procs -> Documents],
         work \in [Procs -> Documents], file \in Documents,
         call \in [Procs -> CallRecord], pc \in [Procs -> Steps],
         vault \in [Ids -> Passwords \cup {None}], calls \in 0..MaxCalls,
         touched \subseteq Ids, unsure \subseteq Ids, faults \subseteq Faults,
         source \in BOOLEAN, marker \in BOOLEAN,
         lock \in {NoLock} \cup [by : Procs \cup {Dead}, aged : BOOLEAN]
  PROVE  TypeOK
  BY DEF TypeOK, CallRecord, Ops, Steps

(* A change of the store of process p, to one profile or to no profile at  *)
(* all, and a change that a write undid.                                   *)
Wrote(p, new, id) ==
  /\ new \in Documents /\ mem' = [mem EXCEPT ![p] = new] /\ file' = new
  /\ stored' = [stored EXCEPT ![p] = new]
  /\ \A i \in Ids : i # id => new.profiles[i] = mem[p].profiles[i]
Undid(p, old) ==
  /\ old \in Documents /\ mem' = [mem EXCEPT ![p] = old]
  /\ old.profiles = mem[p].profiles
  /\ validDefaults(old.defaults, old.profiles) = validDefaults(mem[p].defaults, mem[p].profiles)
  /\ UNCHANGED <<file, stored>>

LEMMA StoreKeeps ==
  ASSUME IInv, NEW p \in Procs, pc[p] = "ready", UNCHANGED <<pc, work, source, marker>>,
         NEW id \in Ids, id \in touched', touched \subseteq touched', calls' > 0,
         \/ \E new : Wrote(p, new, id)
         \/ \E old : Undid(p, old)
  PROVE  /\ mem' \in [Procs -> Documents] /\ stored' \in [Procs -> Documents] /\ file' \in Documents
         /\ MemPart' /\ DocumentInv'
<1>0. /\ TypeOK /\ MemPart /\ DocumentInv /\ calls' # 0
      /\ mem \in [Procs -> Documents] /\ stored \in [Procs -> Documents] /\ file \in Documents
  BY Parts, StateType
<1>1. ASSUME NEW d, NEW e, \A i \in Ids : i # id => e.profiles[i] = d.profiles[i]
      PROVE  /\ Keeps(d) => (\A i \in Ids \ touched' :
                  Canonical.profiles[i] # None => e.profiles[i] = Canonical.profiles[i])
             /\ Imported(d) => (\A i \in Ids \ touched' :
                  Legacy.profiles[i] # None => e.profiles[i] # None)
  BY <1>1 DEF Keeps, Imported
<1>2. CASE \E new : Wrote(p, new, id)
  <2>1. PICK new : Wrote(p, new, id)
    BY <1>2
  <2>2. /\ mem' \in [Procs -> Documents] /\ stored' \in [Procs -> Documents] /\ file' \in Documents
        /\ mem'[p] = new /\ stored'[p] = new /\ file' = new
        /\ \A q \in Procs : q # p => mem'[q] = mem[q] /\ stored'[q] = stored[q]
    BY <1>0, <2>1 DEF Wrote
  <2>3. MemPart'
    BY <1>0, <2>2 DEF MemPart
  <2>4. Keeps(mem[p]) /\ Imported(mem[p])
    BY <1>0 DEF DocumentInv
  <2>5. /\ \A i \in Ids \ touched' : Canonical.profiles[i] # None => new.profiles[i] = Canonical.profiles[i]
        /\ \A i \in Ids \ touched' : Legacy.profiles[i] # None => new.profiles[i] # None
    BY <1>1, <2>1, <2>4 DEF Wrote
  <2>6. DocumentInv'
    BY <1>0, <2>2, <2>5 DEF DocumentInv, Keeps, Imported, Prefers
  <2> QED BY <2>2, <2>3, <2>6
<1>3. CASE \E old : Undid(p, old)
  <2>1. PICK old : Undid(p, old)
    BY <1>3
  <2>2. /\ mem' \in [Procs -> Documents] /\ stored' \in [Procs -> Documents] /\ file' \in Documents
        /\ mem'[p] = old /\ UNCHANGED <<file, stored>>
        /\ \A q \in Procs : q # p => mem'[q] = mem[q]
    BY <1>0, <2>1 DEF Undid
  <2>3. MemPart'
    BY <1>0, <2>1, <2>2 DEF MemPart, Undid
  <2>4. \A q \in Procs : mem'[q].profiles = mem[q].profiles
    BY <2>1, <2>2 DEF Undid
  <2>5. DocumentInv'
    BY <1>0, <2>2, <2>4 DEF DocumentInv, Keeps, Imported, Prefers, Importable
  <2> QED BY <2>2, <2>3, <2>5
<1> QED BY <1>2, <1>3

(* A step that leaves documents and stores alone.                          *)
LEMMA DocumentsKept ==
  ASSUME IInv, UNCHANGED <<mem, stored, file, work, source, marker, pc>>,
         touched \subseteq touched', calls' = 0 => calls = 0
  PROVE  MemPart' /\ DocumentInv'
<1>0. MemPart /\ DocumentInv
  BY Parts
<1>1. MemPart'
  BY <1>0 DEF MemPart
<1>2. DocumentInv'
  BY <1>0 DEF DocumentInv, Keeps, Imported, Prefers, Importable
<1> QED BY <1>1, <1>2

LEMMA NoCallType == NoCall \in CallRecord /\ NoCall.op = "none"
  BY DEF NoCall, CallRecord, Ops

LEMMA ReturnKeeps ==
  ASSUME IInv, NEW p \in Procs, Return(p), UNCHANGED pc,
         touched \subseteq touched', calls' >= calls, calls' \in Nat
  PROVE  call' \in [Procs -> CallRecord] /\ CallInv'
<1>0. TypeOK /\ CallInv /\ call \in [Procs -> CallRecord] /\ calls \in Nat
  BY Parts, StateType
<1> QED BY <1>0, NoCallType DEF Return, CallInv

LEMMA StepKeeps ==
  ASSUME IInv, NEW p \in Procs, NEW op \in Ops \ {"none"}, call[p].op # "none",
         NEW prev \in Passwords \cup {None}, call' = [call EXCEPT ![p].op = op, ![p].previous = prev],
         UNCHANGED <<pc, touched, calls>>
  PROVE  call' \in [Procs -> CallRecord] /\ CallInv'
<1>0. TypeOK /\ CallInv /\ call \in [Procs -> CallRecord] /\ call[p] \in CallRecord
  BY Parts, StateType
<1>1. /\ call'[p] \in CallRecord /\ call'[p].id = call[p].id /\ call'[p].op = op
      /\ call' \in [Procs -> CallRecord]
      /\ \A q \in Procs : q # p => call'[q] = call[q]
  BY <1>0 DEF CallRecord
<1> QED BY <1>0, <1>1, NoCallType DEF CallInv

LEMMA OpKeeps ==
  ASSUME IInv, NEW p \in Procs, NEW op \in Ops \ {"none"}, call[p].op # "none", Step(p, op),
         UNCHANGED <<pc, touched, calls>>
  PROVE  call' \in [Procs -> CallRecord] /\ CallInv'
<1>0. TypeOK /\ CallInv /\ call \in [Procs -> CallRecord] /\ call[p] \in CallRecord
  BY Parts, StateType
<1>1. /\ call'[p] \in CallRecord /\ call'[p].id = call[p].id /\ call'[p].op = op
      /\ call' \in [Procs -> CallRecord]
      /\ \A q \in Procs : q # p => call'[q] = call[q]
  BY <1>0 DEF CallRecord, Step
<1> QED BY <1>0, <1>1, NoCallType DEF CallInv
-----------------------------------------------------------------------------
(* The steps of the migration: they leave stores and calls alone.          *)
LEMMA MigrateKeeps ==
  ASSUME IInv, NEW p \in Procs, pc[p] # "ready", NEW step \in Steps, Go(p, step),
         UNCHANGED <<vault, mem, call, history, calls>>, faults' \subseteq Faults,
         source' \in BOOLEAN, marker' \in BOOLEAN,
         lock' \in {NoLock} \cup [by : Procs \cup {Dead}, aged : BOOLEAN],
         file' \in Documents, work' \in [Procs -> Documents]
  PROVE  /\ TypeOK' /\ MemPart' /\ CallInv' /\ CountInv'
         /\ pc' \in [Procs -> Steps] /\ pc'[p] = step /\ \A q \in Procs : q # p => pc'[q] = pc[q]
<1>0. /\ TypeOK /\ MemPart /\ CallInv /\ CountInv /\ pc \in [Procs -> Steps]
      /\ UNCHANGED <<stored, touched, unsure>>
  BY Parts, StateType DEF history
<1>1. pc' \in [Procs -> Steps] /\ pc'[p] = step /\ \A q \in Procs : q # p => pc'[q] = pc[q]
  BY <1>0 DEF Go
<1>2. TypeOK'
  BY <1>0, <1>1 DEF TypeOK, Steps
<1>3. MemPart'
  BY <1>0 DEF MemPart
<1>4. CallInv'
  BY <1>0, <1>1 DEF CallInv
<1>5. CountInv'
  BY <1>0 DEF CountInv
<1> QED BY <1>1, <1>2, <1>3, <1>4, <1>5

LEMMA LockType ==
  ASSUME TypeOK
  PROVE  /\ source \in BOOLEAN /\ marker \in BOOLEAN /\ faults \subseteq Faults
         /\ lock \in {NoLock} \cup [by : Procs \cup {Dead}, aged : BOOLEAN]
         /\ file \in Documents /\ work \in [Procs -> Documents]
  BY DEF TypeOK

(* ... in which no document changes.                                       *)
LEMMA PlainMigrate ==
  ASSUME IInv, NEW p \in Procs,
         \/ Acquire(p) \/ Busy(p) \/ FindStale(p) \/ RetireLock(p) \/ Release(p) \/ Restart(p)
  PROVE  IInv'
<1>0. /\ TypeOK /\ DocumentInv
      /\ source \in BOOLEAN /\ marker \in BOOLEAN /\ faults \subseteq Faults
      /\ lock \in {NoLock} \cup [by : Procs \cup {Dead}, aged : BOOLEAN]
      /\ file \in Documents /\ work \in [Procs -> Documents]
  BY Parts, LockType
<1>1. /\ pc[p] # "ready"
      /\ UNCHANGED <<vault, mem, call, history, calls, faults, source, marker, file, work>>
  BY DEF Acquire, Busy, FindStale, RetireLock, Release, Restart, disk
<1>2. lock' \in {NoLock} \cup [by : Procs \cup {Dead}, aged : BOOLEAN]
  <2>1. CASE Acquire(p)
    BY <2>1, Zenon DEF Acquire
  <2>2. CASE ~Acquire(p)
    <3>1. UNCHANGED lock \/ lock' = NoLock
      BY <2>2 DEF Busy, FindStale, RetireLock, Release, Restart, disk, Unlocked
    <3> QED BY <1>0, <3>1
  <2> QED BY <2>1, <2>2
<1>3. \E step \in Steps :
        Go(p, step) /\ (step = "load" => pc[p] = "release")
                    /\ step \notin {"write", "mark", "retireSource", "release", "ready"}
  BY DEF Acquire, Busy, FindStale, RetireLock, Release, Restart, Steps
<1>4. PICK step \in Steps :
        Go(p, step) /\ (step = "load" => pc[p] = "release")
                    /\ step \notin {"write", "mark", "retireSource", "release", "ready"}
  BY <1>3
<1>5. /\ TypeOK' /\ MemPart' /\ CallInv' /\ CountInv'
      /\ pc'[p] = step /\ \A q \in Procs : q # p => pc'[q] = pc[q]
  BY <1>0, <1>1, <1>2, <1>4, MigrateKeeps
<1>6. UNCHANGED <<touched, calls, file, work, mem, source, marker>>
  BY <1>1 DEF history
<1>7. DocumentInv'
  BY <1>0, <1>4, <1>5, <1>6 DEF DocumentInv, Keeps, Imported, Prefers, Importable
<1> QED BY <1>5, <1>7 DEF IInv, MemoryIsStored, MemPart

LEMMA AgeKeeps ==
  ASSUME IInv, Age
  PROVE  IInv'
<1>0. /\ TypeOK /\ MemPart /\ CallInv /\ CountInv /\ DocumentInv
      /\ UNCHANGED <<source, marker, file, vault, pc, work, mem, call, stored, touched, unsure, calls, faults>>
  BY Parts DEF Age, history
<1>1. lock \in [by : Procs \cup {Dead}, aged : BOOLEAN]
  BY <1>0, CredentialsAssumption DEF TypeOK, Age, NoLock
<1>4. lock' \in [by : Procs \cup {Dead}, aged : BOOLEAN]
  BY <1>1 DEF Age
<1>5. TypeOK'
  BY <1>0, <1>4 DEF TypeOK
<1>2. MemPart' /\ DocumentInv'
  BY <1>0 DEF MemPart, DocumentInv, Keeps, Imported, Prefers, Importable
<1>3. CallInv' /\ CountInv'
  BY <1>0 DEF CallInv, CountInv
<1> QED BY <1>5, <1>2, <1>3 DEF IInv, MemoryIsStored, MemPart

(* What a migration merges has the profiles of both documents, and the     *)
(* canonical ones where they differ.                                       *)
LEMMA MergedKeeps ==
  ASSUME IInv
  PROVE  Keeps(Merged(file)) /\ Imported(Merged(file)) /\ Prefers(Merged(file))
<1>0. TypeOK /\ DocumentInv /\ CountInv /\ file \in Documents
  BY Parts, StateType
<1>1. /\ Merged(file) \in Documents
      /\ \A i \in Ids : Merged(file).profiles[i] = IF file.profiles[i] # None THEN file.profiles[i]
                                                                            ELSE Legacy.profiles[i]
      /\ \A k \in Kinds : validDefaults(file.defaults, file.profiles)[k] # None
           => Merged(file).defaults[k] = validDefaults(file.defaults, file.profiles)[k]
  BY <1>0, MergedType
<1>2. Keeps(file) /\ Prefers(file)
  BY <1>0 DEF DocumentInv
<1>3. Keeps(Merged(file)) /\ Imported(Merged(file))
  BY <1>1, <1>2 DEF Keeps, Imported
<1>4. ASSUME calls = 0, NEW k \in Kinds, CanonicalDefaults[k] # None
      PROVE  Merged(file).defaults[k] = CanonicalDefaults[k]
  <2> DEFINE c == CanonicalDefaults[k]
  <2>1. Canonical.defaults[k] = c /\ KindOf(Canonical.profiles[c]) = k
    BY <1>4 DEF CanonicalDefaults, validDefaults
  <2>2. Doc(Canonical)
    BY CredentialsAssumption, DocType
  <2>3. c \in Ids /\ Canonical.profiles[c] # None
    BY <1>4, <2>1, <2>2, KindOfType DEF Doc
  <2>4. touched = {} /\ file.defaults[k] = c
    BY <1>0, <1>2, <1>4 DEF CountInv, Prefers
  <2>5. file.profiles[c] = Canonical.profiles[c]
    BY <1>2, <2>3, <2>4 DEF Keeps
  <2>6. validDefaults(file.defaults, file.profiles)[k] = c
    BY <1>4, <2>1, <2>4, <2>5 DEF validDefaults
  <2> QED BY <1>1, <1>4, <2>6
<1>5. Prefers(Merged(file))
  BY <1>4 DEF Prefers
<1> QED BY <1>3, <1>5

LEMMA MergeKeeps ==
  ASSUME IInv, NEW p \in Procs, Merge(p)
  PROVE  IInv'
<1>0. /\ TypeOK /\ DocumentInv /\ pc[p] # "ready"
      /\ source \in BOOLEAN /\ marker \in BOOLEAN /\ faults \subseteq Faults
      /\ lock \in {NoLock} \cup [by : Procs \cup {Dead}, aged : BOOLEAN]
      /\ file \in Documents /\ work \in [Procs -> Documents] /\ Merged(file) \in Documents
      /\ Keeps(Merged(file)) /\ Imported(Merged(file)) /\ Prefers(Merged(file))
  BY Parts, LockType, MergedType, MergedKeeps DEF Merge
<1>1. /\ UNCHANGED <<vault, mem, call, history, calls, source, marker, lock, file, faults, touched>>
      /\ work' \in [Procs -> Documents] /\ \A q \in Procs : q # p => work'[q] = work[q]
  BY <1>0 DEF Merge, disk, history
<1> DEFINE next == IF ~Importable THEN "release"
                   ELSE IF Merged(file).profiles # file.profiles THEN "write" ELSE "mark"
<1>2. next \in Steps /\ Go(p, next) /\ (next = "write" => work'[p] = Merged(file))
  BY <1>0 DEF Merge, Steps
<1>3. next \in {"mark", "release"} => Imported(file)
  BY <1>0 DEF DocumentInv, Imported
<1>4. next \in {"write", "mark", "release"}
  OBVIOUS
<1> HIDE DEF next
<1>5. /\ TypeOK' /\ MemPart' /\ CallInv' /\ CountInv'
      /\ pc'[p] = next /\ \A q \in Procs : q # p => pc'[q] = pc[q]
  BY <1>0, <1>1, <1>2, MigrateKeeps
<1>6. DocumentInv'
  BY <1>0, <1>1, <1>2, <1>3, <1>4, <1>5 DEF DocumentInv, Keeps, Imported, Prefers, Importable
<1> QED BY <1>5, <1>6 DEF IInv, MemoryIsStored, MemPart

LEMMA WriteCanonicalKeeps ==
  ASSUME IInv, NEW p \in Procs, WriteCanonical(p)
  PROVE  IInv'
<1>0. /\ TypeOK /\ DocumentInv /\ pc[p] = "write"
      /\ source \in BOOLEAN /\ marker \in BOOLEAN /\ faults \subseteq Faults
      /\ lock \in {NoLock} \cup [by : Procs \cup {Dead}, aged : BOOLEAN]
      /\ file \in Documents /\ work \in [Procs -> Documents]
  BY Parts, LockType DEF WriteCanonical
<1>1. /\ UNCHANGED <<vault, mem, call, history, calls, source, marker, lock, work, touched>>
      /\ faults' \subseteq Faults
  BY <1>0 DEF WriteCanonical, history, Fault
<1>2. \/ Go(p, "mark") /\ file' = work[p]
      \/ Go(p, "abort") /\ UNCHANGED file
  BY DEF WriteCanonical
<1>3. CASE Go(p, "mark") /\ file' = work[p]
  <2>1. file' \in Documents /\ "mark" \in Steps
    BY <1>0, <1>3 DEF Steps
  <2>2. /\ TypeOK' /\ MemPart' /\ CallInv' /\ CountInv'
        /\ pc'[p] = "mark" /\ \A q \in Procs : q # p => pc'[q] = pc[q]
    BY <1>0, <1>1, <1>3, <2>1, MigrateKeeps
  <2>3. DocumentInv'
    BY <1>0, <1>1, <1>3, <2>2 DEF DocumentInv, Keeps, Imported, Prefers, Importable
  <2> QED BY <2>2, <2>3 DEF IInv, MemoryIsStored, MemPart
<1>4. CASE Go(p, "abort") /\ UNCHANGED file
  <2>1. file' \in Documents /\ "abort" \in Steps
    BY <1>0, <1>4 DEF Steps
  <2>2. /\ TypeOK' /\ MemPart' /\ CallInv' /\ CountInv'
        /\ pc'[p] = "abort" /\ \A q \in Procs : q # p => pc'[q] = pc[q]
    BY <1>0, <1>1, <1>4, <2>1, MigrateKeeps
  <2>3. DocumentInv'
    BY <1>0, <1>1, <1>4, <2>2 DEF DocumentInv, Keeps, Imported, Prefers, Importable
  <2> QED BY <2>2, <2>3 DEF IInv, MemoryIsStored, MemPart
<1> QED BY <1>2, <1>3, <1>4

(* The marker is written, and the source renamed, only by a process that   *)
(* has the legacy profiles in the canonical document.                      *)
LEMMA MarkKeeps ==
  ASSUME IInv, NEW p \in Procs, WriteMarker(p) \/ RetireSource(p)
  PROVE  IInv'
<1>0. /\ TypeOK /\ DocumentInv /\ pc[p] \in {"mark", "retireSource"}
      /\ source \in BOOLEAN /\ marker \in BOOLEAN /\ faults \subseteq Faults
      /\ lock \in {NoLock} \cup [by : Procs \cup {Dead}, aged : BOOLEAN]
      /\ file \in Documents /\ work \in [Procs -> Documents]
  BY Parts, LockType DEF WriteMarker, RetireSource
<1>1. /\ UNCHANGED <<vault, mem, call, history, calls, lock, work, file, touched>>
      /\ faults' \subseteq Faults
  BY <1>0 DEF WriteMarker, RetireSource, history, Fault
<1>2. source' \in BOOLEAN /\ marker' \in BOOLEAN
  BY <1>0, Zenon DEF WriteMarker, RetireSource
<1>3. \E step \in {"retireSource", "abort", "release"} : Go(p, step)
  BY DEF WriteMarker, RetireSource
<1>4. PICK step \in {"retireSource", "abort", "release"} : Go(p, step)
  BY <1>3
<1>5. step \in Steps
  BY DEF Steps
<1>6. /\ TypeOK' /\ MemPart' /\ CallInv' /\ CountInv'
      /\ pc'[p] = step /\ \A q \in Procs : q # p => pc'[q] = pc[q]
  BY <1>0, <1>1, <1>2, <1>4, <1>5, MigrateKeeps
<1>7. Imported(file)
  BY <1>0 DEF DocumentInv
<1>8. DocumentInv'
  BY <1>0, <1>1, <1>6, <1>7 DEF DocumentInv, Keeps, Imported, Prefers
<1> QED BY <1>6, <1>8 DEF IInv, MemoryIsStored, MemPart

LEMMA LoadKeeps ==
  ASSUME IInv, NEW p \in Procs, Load(p)
  PROVE  IInv'
<1>0. /\ TypeOK /\ MemPart /\ CallInv /\ CountInv /\ DocumentInv
      /\ mem \in [Procs -> Documents] /\ stored \in [Procs -> Documents] /\ file \in Documents
      /\ pc \in [Procs -> Steps] /\ pc[p] = "load" /\ Imported(file) /\ Keeps(file)
  BY Parts, StateType DEF Load, DocumentInv
<1> DEFINE D == validDefaults(file.defaults, file.profiles)
           new == [file EXCEPT !.defaults = D]
<1>1. /\ UNCHANGED <<source, marker, lock, file, vault, work, call, touched, unsure, calls, faults>>
      /\ mem' = [mem EXCEPT ![p] = new] /\ stored' = [stored EXCEPT ![p] = mem'[p]]
      /\ pc' = [pc EXCEPT ![p] = "ready"]
  BY DEF Load, disk, Go
<1>2. D \in [Kinds -> Ids \cup {None}] /\ Doc(file)
  BY <1>0, DefaultsType, DocType DEF Doc
<1> HIDE DEF D
<1>3. new \in Documents /\ new.profiles = file.profiles
  BY <1>2 DEF Doc, Documents
<1> HIDE DEF new
<1>4. /\ mem' \in [Procs -> Documents] /\ stored' \in [Procs -> Documents] /\ pc' \in [Procs -> Steps]
      /\ mem'[p] = new /\ stored'[p] = new /\ pc'[p] = "ready"
      /\ \A q \in Procs : q # p => mem'[q] = mem[q] /\ stored'[q] = stored[q] /\ pc'[q] = pc[q]
  BY <1>0, <1>1, <1>3 DEF Steps
<1>5. TypeOK'
  BY <1>0, <1>1, <1>4 DEF TypeOK, Steps
<1>6. MemPart'
  BY <1>0, <1>4 DEF MemPart
<1>7. CallInv' /\ CountInv'
  BY <1>0, <1>1, <1>4 DEF CallInv, CountInv
<1>8. DocumentInv'
  BY <1>0, <1>1, <1>3, <1>4 DEF DocumentInv, Keeps, Imported, Prefers, Importable
<1> QED BY <1>5, <1>6, <1>7, <1>8 DEF IInv, MemoryIsStored, MemPart

LEMMA EmptyType == Empty \in Documents
<1> DEFINE P == [i \in Ids |-> None]
           D == [k \in Kinds |-> None]
<1>1. P \in [Ids -> Types \cup {None}] /\ D \in [Kinds -> Ids \cup {None}]
  OBVIOUS
<1>2. Empty = [profiles |-> P, defaults |-> D]
  BY DEF Empty
<1> HIDE DEF P, D
<1> QED BY <1>1, <1>2 DEF Documents

LEMMA CrashKeeps ==
  ASSUME IInv, NEW p \in Procs, Crash(p)
  PROVE  IInv'
<1>0. /\ TypeOK /\ MemPart /\ CallInv /\ CountInv /\ DocumentInv
      /\ mem \in [Procs -> Documents] /\ stored \in [Procs -> Documents] /\ pc \in [Procs -> Steps]
      /\ call \in [Procs -> CallRecord] /\ unsure \subseteq Ids /\ touched \subseteq Ids
      /\ lock \in {NoLock} \cup [by : Procs \cup {Dead}, aged : BOOLEAN]
  BY Parts, StateType, LockType
<1>1. /\ UNCHANGED <<source, marker, file, vault, work, touched, calls>>
      /\ faults' \subseteq Faults
  BY <1>0, StateType DEF Crash, Fault
<1>2. /\ mem' \in [Procs -> Documents] /\ stored' \in [Procs -> Documents] /\ pc' \in [Procs -> Steps]
      /\ call' \in [Procs -> CallRecord] /\ mem'[p] = Empty /\ stored'[p] = Empty /\ pc'[p] = "down"
      /\ call'[p] = NoCall
      /\ \A q \in Procs : q # p => /\ mem'[q] = mem[q] /\ stored'[q] = stored[q] /\ pc'[q] = pc[q]
                                   /\ call'[q] = call[q]
  BY <1>0, EmptyType, NoCallType DEF Crash, Go, Steps
<1>3. lock' \in {NoLock} \cup [by : Procs \cup {Dead}, aged : BOOLEAN]
  <2>1. CASE lock.by = p
    <3>1. lock \in [by : Procs \cup {Dead}, aged : BOOLEAN] /\ lock' = [lock EXCEPT !.by = Dead]
      BY <1>0, <2>1, CredentialsAssumption DEF NoLock, Crash
    <3> QED BY <3>1
  <2>2. CASE lock.by # p
    BY <1>0, <2>2 DEF Crash
  <2> QED BY <2>1, <2>2
<1>4. unsure' \subseteq Ids
  <2>1. CASE call[p] = NoCall
    BY <1>0, <2>1 DEF Crash
  <2>2. CASE call[p] # NoCall
    <3>1. unsure' = unsure \cup {call[p].id}
      BY <2>2 DEF Crash
    <3> QED BY <1>0, <2>2, <3>1 DEF CallInv
  <2> QED BY <2>1, <2>2
<1>5. TypeOK'
  BY <1>0, <1>1, <1>2, <1>3, <1>4 DEF TypeOK, Steps, CallRecord, Ops
<1>6. MemPart'
  BY <1>0, <1>2 DEF MemPart
<1>7. CallInv' /\ CountInv'
  BY <1>0, <1>1, <1>2 DEF CallInv, CountInv
<1>8. DocumentInv'
  BY <1>0, <1>1, <1>2 DEF DocumentInv, Keeps, Imported, Prefers, Importable
<1> QED BY <1>5, <1>6, <1>7, <1>8 DEF IInv, MemoryIsStored, MemPart
-----------------------------------------------------------------------------
(* The tools that change the store without an await.                       *)
Changed(p, id) == (\E new : Wrote(p, new, id)) \/ (\E old : Undid(p, old))

LEMMA StoresChange ==
  ASSUME TypeOK, NEW p \in Procs, NEW new \in Documents, NEW id \in Ids, NEW kind \in Kinds,
         \A i \in Ids : i # id => new.profiles[i] = mem[p].profiles[i],
         \A k \in Kinds : k # kind => new.defaults[k] = mem[p].defaults[k],
         Persisted(p, new) \/ PersistFails(p, new, id, kind)
  PROVE  Changed(p, id) /\ faults' \subseteq Faults
<1>0. mem[p] \in Documents /\ faults \subseteq Faults
  BY StateType
<1>1. CASE Persisted(p, new)
  BY <1>0, <1>1 DEF Persisted, Changed, Wrote
<1>2. CASE PersistFails(p, new, id, kind)
  <2>1. RolledBack(mem[p], new, id, kind) = mem[p]
    BY <1>0, RollsBack
  <2>2. Undid(p, mem[p])
    BY <1>0, <1>2, <2>1 DEF PersistFails, Undid
  <2> QED BY <1>0, <1>2, <2>2 DEF PersistFails, Changed, Fault
<1> QED BY <1>1, <1>2

LEMMA ToolKeeps ==
  ASSUME IInv, NEW p \in Procs, NEW id \in Ids, Tool(p, id), Changed(p, id), faults' \subseteq Faults
  PROVE  IInv'
<1>0. /\ TypeOK /\ CallInv /\ calls \in Nat /\ MaxCalls \in Nat /\ touched \subseteq Ids
      /\ work \in [Procs -> Documents] /\ source \in BOOLEAN /\ marker \in BOOLEAN
  BY Parts, StateType, LockType
<1>1. /\ pc[p] = "ready" /\ UNCHANGED <<pc, work, source, marker, call>> /\ id \in touched'
      /\ touched \subseteq touched' /\ touched' \subseteq Ids /\ calls' \in 0..MaxCalls /\ calls' > 0
      /\ UNCHANGED <<lock, vault, unsure>>
  BY <1>0 DEF Tool
<1>2. /\ mem' \in [Procs -> Documents] /\ stored' \in [Procs -> Documents] /\ file' \in Documents
      /\ MemPart' /\ DocumentInv'
  BY <1>1, StoreKeeps DEF Changed
<1>3. TypeOK'
  BY <1>0, <1>1, <1>2 DEF TypeOK
<1>4. CallInv' /\ CountInv'
  BY <1>0, <1>1 DEF CallInv, CountInv
<1> QED BY <1>2, <1>3, <1>4 DEF IInv, MemoryIsStored, MemPart

LEMMA SaveProfileKeeps ==
  ASSUME IInv, NEW p \in Procs, SaveProfile(p)
  PROVE  IInv'
<1>1. PICK id \in Ids, type \in {"key", "pat"}, d \in BOOLEAN :
        Tool(p, id) /\ Stores(p, Saved(mem[p], id, type, d), id, KindOf(type))
  BY Zenon DEF SaveProfile
<1>2. TypeOK /\ mem[p] \in Documents /\ Doc(mem[p])
  BY Parts, StateType, DocType
<1>3. type \in Types /\ type # None /\ KindOf(type) \in Kinds
  BY KindOfType DEF Types
<1>4. /\ Saved(mem[p], id, type, d) \in Documents
      /\ Saved(mem[p], id, type, d).profiles = [mem[p].profiles EXCEPT ![id] = type]
      /\ Saved(mem[p], id, type, d).defaults =
           IF d THEN [mem[p].defaults EXCEPT ![KindOf(type)] = id] ELSE mem[p].defaults
  BY <1>2, <1>3, SavedType
<1>5. /\ \A i \in Ids : i # id => Saved(mem[p], id, type, d).profiles[i] = mem[p].profiles[i]
      /\ \A k \in Kinds : k # KindOf(type) => Saved(mem[p], id, type, d).defaults[k] = mem[p].defaults[k]
  BY <1>2, <1>4 DEF Doc
<1>6. PICK new, kind : new = Saved(mem[p], id, type, d) /\ kind = KindOf(type)
  OBVIOUS
<1>7. /\ new \in Documents /\ kind \in Kinds
      /\ \A i \in Ids : i # id => new.profiles[i] = mem[p].profiles[i]
      /\ \A k \in Kinds : k # kind => new.defaults[k] = mem[p].defaults[k]
  BY <1>3, <1>4, <1>5, <1>6, Zenon
<1>8. Persisted(p, new) \/ PersistFails(p, new, id, kind)
  BY <1>1, <1>6, Zenon DEF Stores
<1>9. Changed(p, id) /\ faults' \subseteq Faults
  BY <1>2, <1>7, <1>8, StoresChange
<1> QED BY <1>1, <1>9, ToolKeeps

LEMMA DeleteChange ==
  ASSUME TypeOK, NEW p \in Procs, NEW id \in Ids, mem[p].profiles[id] # None
  PROVE  /\ Deleted(mem[p], id) \in Documents /\ KindOf(mem[p].profiles[id]) \in Kinds
         /\ \A i \in Ids : i # id => Deleted(mem[p], id).profiles[i] = mem[p].profiles[i]
         /\ \A k \in Kinds : k # KindOf(mem[p].profiles[id])
              => Deleted(mem[p], id).defaults[k] = mem[p].defaults[k]
<1>1. mem[p] \in Documents /\ Doc(mem[p])
  BY StateType, DocType
<1>2. mem[p].profiles[id] \in Types
  BY <1>1 DEF Doc
<1>3. KindOf(mem[p].profiles[id]) \in Kinds
  BY <1>2, KindOfType
<1>4. /\ Deleted(mem[p], id) \in Documents
      /\ Deleted(mem[p], id).profiles = [mem[p].profiles EXCEPT ![id] = None]
      /\ \E v \in Ids \cup {None} :
           Deleted(mem[p], id).defaults = [mem[p].defaults EXCEPT ![KindOf(mem[p].profiles[id])] = v]
  BY <1>1, DeletedType
<1> QED BY <1>1, <1>3, <1>4 DEF Doc

LEMMA DeleteProfileKeeps ==
  ASSUME IInv, NEW p \in Procs, DeleteProfile(p)
  PROVE  IInv'
<1>1. PICK id \in Ids :
        /\ mem[p].profiles[id] # None /\ Tool(p, id)
        /\ Stores(p, Deleted(mem[p], id), id, KindOf(mem[p].profiles[id]))
  BY DEF DeleteProfile
<1>2. TypeOK
  BY Parts
<1>3. Changed(p, id) /\ faults' \subseteq Faults
  BY <1>1, <1>2, DeleteChange, StoresChange DEF Stores
<1> QED BY <1>1, <1>3, ToolKeeps

(* A document with another default for a kind.                             *)
LEMMA DefaultChange ==
  ASSUME NEW d \in Documents, NEW kind \in Kinds, NEW v \in Ids \cup {None}
  PROVE  /\ [d EXCEPT !.defaults[kind] = v] \in Documents
         /\ [d EXCEPT !.defaults[kind] = v].profiles = d.profiles
         /\ [d EXCEPT !.defaults[kind] = v].defaults = [d.defaults EXCEPT ![kind] = v]
<1>1. Doc(d)
  BY DocType
<1> QED BY <1>1 DEF Doc, Documents

LEMMA SetDefaultKeeps ==
  ASSUME IInv, NEW p \in Procs, SetDefault(p)
  PROVE  IInv'
<1> DEFINE kind(id) == KindOf(mem[p].profiles[id])
           new(id) == [mem[p] EXCEPT !.defaults[kind(id)] = id]
<1>1. PICK id \in Ids : kind(id) # None /\ Tool(p, id) /\ Stores(p, new(id), id, kind(id))
  BY DEF SetDefault
<1>2. TypeOK /\ mem[p] \in Documents /\ Doc(mem[p])
  BY Parts, StateType, DocType
<1>3. mem[p].profiles[id] \in Types
  BY <1>1, <1>2, KindOfType DEF Doc
<1>4. kind(id) \in Kinds
  BY <1>3, KindOfType
<1>5. PICK k, n : /\ k \in Kinds /\ k = kind(id) /\ n = new(id)
                  /\ n = [mem[p] EXCEPT !.defaults[k] = id]
  BY <1>4
<1>6. Stores(p, n, id, k)
  BY <1>1, <1>5, Zenon
<1> HIDE DEF kind, new
<1>7. /\ n \in Documents /\ n.profiles = mem[p].profiles
      /\ n.defaults = [mem[p].defaults EXCEPT ![k] = id]
  BY <1>2, <1>5, DefaultChange
<1>8. /\ \A i \in Ids : i # id => n.profiles[i] = mem[p].profiles[i]
      /\ \A m \in Kinds : m # k => n.defaults[m] = mem[p].defaults[m]
  BY <1>2, <1>7 DEF Doc
<1>9. TypeOK /\ k \in Kinds /\ n \in Documents /\ (Persisted(p, n) \/ PersistFails(p, n, id, k))
  BY <1>2, <1>5, <1>6, <1>7 DEF Stores
<1>10. Changed(p, id) /\ faults' \subseteq Faults
  BY <1>8, <1>9, StoresChange
<1> QED BY <1>1, <1>10, ToolKeeps

LEMMA ClearDefaultKeeps ==
  ASSUME IInv, NEW p \in Procs, ClearDefault(p)
  PROVE  IInv'
<1> DEFINE new(k) == [mem[p] EXCEPT !.defaults[k] = None]
<1>1. PICK kind \in Kinds :
        /\ mem[p].defaults[kind] # None /\ Tool(p, mem[p].defaults[kind])
        /\ Persisted(p, new(kind)) \/ ClearFails(p, new(kind), kind)
  BY DEF ClearDefault
<1> DEFINE id == mem[p].defaults[kind]
<1>2. TypeOK /\ mem \in [Procs -> Documents] /\ mem[p] \in Documents /\ Doc(mem[p]) /\ faults \subseteq Faults
  BY Parts, StateType, DocType
<1>3. id \in Ids
  BY <1>1, <1>2 DEF Doc
<1>4. /\ new(kind) \in Documents /\ new(kind).profiles = mem[p].profiles
      /\ new(kind).defaults = [mem[p].defaults EXCEPT ![kind] = None]
  BY <1>2, DefaultChange
<1> HIDE DEF new
<1> SUFFICES Changed(p, id) /\ faults' \subseteq Faults
  BY <1>1, <1>3, ToolKeeps
<1>5. CASE Persisted(p, new(kind))
  BY <1>2, <1>4, <1>5 DEF Persisted, Changed, Wrote
<1>6. CASE ClearFails(p, new(kind), kind)
  <2>1. CASE KindOf(mem[p].profiles[id]) = kind
    <3>1. Undid(p, mem[p])
      BY <1>2, <1>6, <2>1 DEF ClearFails, Undid
    <3> QED BY <1>2, <1>6, <3>1 DEF ClearFails, Changed, Fault
  <2>2. CASE KindOf(mem[p].profiles[id]) # kind
    <3>1. validDefaults(new(kind).defaults, new(kind).profiles)
            = validDefaults(mem[p].defaults, mem[p].profiles)
      BY <1>2, <1>4, <2>2 DEF validDefaults, Doc
    <3>2. Undid(p, new(kind))
      BY <1>2, <1>4, <1>6, <2>2, <3>1 DEF ClearFails, Undid
    <3> QED BY <1>2, <1>6, <3>2 DEF ClearFails, Changed, Fault
  <2> QED BY <2>1, <2>2
<1> QED BY <1>1, <1>5, <1>6
-----------------------------------------------------------------------------
(* The tools that await the credential helper or a probe.                  *)
LEMMA BeginKeeps ==
  ASSUME IInv, NEW p \in Procs, NEW id \in Ids, NEW r \in CallRecord, r.op # "none", r.id = id,
         pc[p] = "ready", calls < MaxCalls, calls' = calls + 1, touched' = touched \cup {id},
         call' = [call EXCEPT ![p] = r],
         UNCHANGED <<disk, vault, pc, work, mem, stored, unsure, faults>>
  PROVE  IInv'
<1>0. /\ TypeOK /\ CallInv /\ calls \in Nat /\ MaxCalls \in Nat /\ touched \subseteq Ids
      /\ call \in [Procs -> CallRecord] /\ UNCHANGED <<source, marker, lock, file>>
  BY Parts, StateType DEF disk
<1>1. /\ call' \in [Procs -> CallRecord] /\ call'[p] = r
      /\ \A q \in Procs : q # p => call'[q] = call[q]
      /\ touched \subseteq touched' /\ touched' \subseteq Ids /\ calls' \in 0..MaxCalls /\ calls' > 0
  BY <1>0
<1>2. TypeOK'
  BY <1>0, <1>1 DEF TypeOK, CallRecord, Ops
<1>3. MemPart' /\ DocumentInv'
  BY <1>0, <1>1, DocumentsKept
<1>4. CallInv' /\ CountInv'
  BY <1>0, <1>1 DEF CallInv, CountInv
<1> QED BY <1>2, <1>3, <1>4 DEF IInv, MemoryIsStored, MemPart

LEMMA BegunKeeps ==
  ASSUME IInv, NEW p \in Procs, NEW op \in Ops \ {"none"}, NEW id \in Ids,
         NEW secret \in Passwords \cup {None}, NEW d, d \in BOOLEAN, Begin(p, op, id, secret, d)
  PROVE  IInv'
<1> DEFINE r == [op |-> op, id |-> id, secret |-> secret, default |-> d,
                 previous |-> None, type |-> mem[p].profiles[id]]
<1>1. TypeOK /\ mem[p] \in Documents /\ Doc(mem[p])
  BY Parts, StateType, DocType
<1>2. mem[p].profiles[id] \in Types \cup {None}
  BY <1>1 DEF Doc
<1>3. r \in CallRecord /\ r.op # "none" /\ r.id = id
  BY <1>2 DEF CallRecord
<1>4. /\ pc[p] = "ready" /\ calls < MaxCalls /\ calls' = calls + 1 /\ touched' = touched \cup {id}
      /\ call' = [call EXCEPT ![p] = r]
      /\ UNCHANGED <<disk, vault, pc, work, mem, stored, unsure, faults>>
  BY DEF Begin
<1> HIDE DEF r
<1> QED BY <1>3, <1>4, BeginKeeps

LEMMA BeginsKeep ==
  ASSUME IInv, NEW p \in Procs,
         \/ PasswordSave(p) \/ PasswordDelete(p) \/ TokenSave(p) \/ TokenDelete(p) \/ MigrateHostKey(p)
  PROVE  IInv'
<1>1. \E op \in Ops \ {"none"}, id \in Ids, secret \in Passwords \cup {None}, d \in BOOLEAN :
        Begin(p, op, id, secret, d)
  <2>1. CASE PasswordSave(p)
    BY <2>1 DEF PasswordSave, Ops
  <2>2. CASE TokenSave(p)
    BY <2>2 DEF TokenSave, Ops
  <2>3. CASE PasswordDelete(p) \/ TokenDelete(p) \/ MigrateHostKey(p)
    <3>1. \E op \in {"read", "eraseToken", "probe"}, id \in Ids : Begin(p, op, id, None, FALSE)
      BY <2>3 DEF PasswordDelete, TokenDelete, MigrateHostKey
    <3>2. PICK op \in {"read", "eraseToken", "probe"}, id \in Ids : Begin(p, op, id, None, FALSE)
      BY <3>1
    <3>3. op \in Ops \ {"none"} /\ None \in Passwords \cup {None} /\ FALSE \in BOOLEAN
      BY DEF Ops
    <3> QED BY <3>2, <3>3, Zenon
  <2> QED BY <2>1, <2>2, <2>3
<1>2. PICK op \in Ops \ {"none"}, id \in Ids, secret \in Passwords \cup {None}, d \in BOOLEAN :
        Begin(p, op, id, secret, d)
  BY <1>1
<1> QED BY <1>2, BegunKeeps

(* A command of the helper, whatever it does to the vault.                 *)
LEMMA QuietKeeps ==
  ASSUME IInv, UNCHANGED quiet, call' \in [Procs -> CallRecord], CallInv',
         vault' \in [Ids -> Passwords \cup {None}], unsure' \subseteq Ids, faults' \subseteq Faults
  PROVE  IInv'
<1>0. /\ TypeOK /\ CountInv
      /\ UNCHANGED <<source, marker, lock, file, pc, work, mem, stored, touched, calls>>
  BY Parts DEF quiet, disk
<1>1. TypeOK'
  BY <1>0 DEF TypeOK, CallRecord, Ops
<1>2. MemPart' /\ DocumentInv'
  BY <1>0, DocumentsKept
<1>3. CountInv'
  BY <1>0 DEF CountInv
<1> QED BY <1>1, <1>2, <1>3 DEF IInv, MemoryIsStored, MemPart

LEMMA HelperType ==
  ASSUME TypeOK, NEW id \in Ids, NEW value \in Passwords \cup {None},
         NEW outcomes \in SUBSET (Passwords \cup {None}),
         Helper(id, value) \/ HelperFails(id, outcomes)
  PROVE  vault' \in [Ids -> Passwords \cup {None}] /\ unsure' \subseteq Ids /\ faults' \subseteq Faults
<1>0. vault \in [Ids -> Passwords \cup {None}] /\ unsure \subseteq Ids /\ faults \subseteq Faults
  BY StateType
<1>1. CASE Helper(id, value)
  BY <1>0, <1>1 DEF Helper
<1>2. CASE HelperFails(id, outcomes)
  BY <1>0, <1>2 DEF HelperFails, Fault
<1> QED BY <1>1, <1>2

LEMMA InFlight ==
  ASSUME IInv, NEW p \in Procs, call[p].op # "none"
  PROVE  /\ TypeOK /\ call[p] \in CallRecord /\ call[p].id \in touched \cap Ids /\ pc[p] = "ready"
         /\ calls > 0 /\ vault[call[p].id] \in Passwords \cup {None}
         /\ call[p].secret \in Passwords \cup {None} /\ call[p].previous \in Passwords \cup {None}
         /\ vault \in [Ids -> Passwords \cup {None}] /\ unsure \subseteq Ids /\ faults \subseteq Faults
<1>1. /\ TypeOK /\ CallInv /\ call \in [Procs -> CallRecord] /\ vault \in [Ids -> Passwords \cup {None}]
      /\ unsure \subseteq Ids /\ faults \subseteq Faults
  BY Parts, StateType
<1>2. call[p] # NoCall /\ call[p] \in CallRecord
  BY <1>1, NoCallType
<1>3. call[p].id \in touched \cap Ids /\ pc[p] = "ready" /\ calls > 0
  BY <1>1, <1>2 DEF CallInv
<1> QED BY <1>1, <1>2, <1>3 DEF CallRecord

LEMMA ProbeKeeps ==
  ASSUME IInv, NEW p \in Procs, Probe(p)
  PROVE  IInv'
<1>0. /\ TypeOK /\ vault \in [Ids -> Passwords \cup {None}] /\ unsure \subseteq Ids /\ faults \subseteq Faults
      /\ call[p].op # "none" /\ UNCHANGED <<quiet, vault, unsure, faults>> /\ (Step(p, "pin") \/ Return(p))
      /\ calls \in Nat
  BY Parts, StateType DEF Probe
<1>1. UNCHANGED <<pc, touched, calls>> /\ touched \subseteq touched' /\ calls' >= calls /\ calls' \in Nat
  BY <1>0 DEF quiet
<1>2. "pin" \in Ops \ {"none"}
  BY DEF Ops
<1>3. call' \in [Procs -> CallRecord] /\ CallInv'
  BY <1>0, <1>1, <1>2, OpKeeps, ReturnKeeps
<1> QED BY <1>0, <1>3, QuietKeeps

(* The state a quiet step leaves alone, as the lemmas on calls want it.    *)
LEMMA QuietParts ==
  ASSUME IInv, UNCHANGED quiet
  PROVE  UNCHANGED <<pc, touched, calls>> /\ touched \subseteq touched' /\ calls' >= calls /\ calls' \in Nat
<1>1. TypeOK /\ calls \in Nat
  BY Parts, StateType
<1> QED BY <1>1 DEF quiet

LEMMA ReadPreviousKeeps ==
  ASSUME IInv, NEW p \in Procs, ReadPrevious(p)
  PROVE  IInv'
<1> DEFINE next == IF call[p].secret = None THEN "erase" ELSE "store"
           id == call[p].id
<1>0. /\ call[p].op # "none" /\ UNCHANGED quiet
      /\ \/ /\ call' = [call EXCEPT ![p].op = next, ![p].previous = vault[id]]
            /\ UNCHANGED <<vault, unsure, faults>>
         \/ Step(p, next) /\ HelperFails(id, {vault[id]})
  BY DEF ReadPrevious
<1>1. next \in Ops \ {"none"}
  BY DEF Ops
<1> HIDE DEF next
<1>2. /\ TypeOK /\ id \in Ids /\ vault[id] \in Passwords \cup {None}
      /\ vault \in [Ids -> Passwords \cup {None}] /\ unsure \subseteq Ids /\ faults \subseteq Faults
  BY <1>0, InFlight
<1>3. UNCHANGED <<pc, touched, calls>>
  BY <1>0, QuietParts
<1>4. call' \in [Procs -> CallRecord] /\ CallInv'
  BY <1>0, <1>1, <1>2, <1>3, StepKeeps, OpKeeps
<1>5. vault' \in [Ids -> Passwords \cup {None}] /\ unsure' \subseteq Ids /\ faults' \subseteq Faults
  <2>1. CASE UNCHANGED <<vault, unsure, faults>>
    BY <1>2, <2>1
  <2>2. CASE HelperFails(id, {vault[id]})
    <3>1. {vault[id]} \in SUBSET (Passwords \cup {None})
      BY <1>2
    <3> QED BY <1>2, <2>2, <3>1, HelperType
  <2> QED BY <1>0, <2>1, <2>2
<1> QED BY <1>0, <1>4, <1>5, QuietKeeps

LEMMA StoreSecretKeeps ==
  ASSUME IInv, NEW p \in Procs, StoreSecret(p)
  PROVE  IInv'
<1> DEFINE next == IF call[p].op = "store" THEN "profile" ELSE "token"
           id == call[p].id
           outcomes == {vault[id], call[p].secret, None}
<1>0. /\ call[p].op # "none" /\ UNCHANGED quiet
      /\ \/ Helper(id, call[p].secret) /\ Step(p, next)
         \/ HelperFails(id, outcomes) /\ Return(p)
  BY DEF StoreSecret
<1>1. next \in Ops \ {"none"}
  BY DEF Ops
<1> HIDE DEF next
<1>2. /\ TypeOK /\ id \in Ids /\ call[p].secret \in Passwords \cup {None}
      /\ outcomes \in SUBSET (Passwords \cup {None})
  BY <1>0, InFlight
<1> HIDE DEF outcomes
<1>3. UNCHANGED <<pc, touched, calls>> /\ touched \subseteq touched' /\ calls' >= calls /\ calls' \in Nat
  BY <1>0, QuietParts
<1>4. call' \in [Procs -> CallRecord] /\ CallInv'
  BY <1>0, <1>1, <1>3, ReturnKeeps, OpKeeps
<1>5. vault' \in [Ids -> Passwords \cup {None}] /\ unsure' \subseteq Ids /\ faults' \subseteq Faults
  BY <1>0, <1>2, HelperType
<1> QED BY <1>0, <1>4, <1>5, QuietKeeps

LEMMA EraseSecretKeeps ==
  ASSUME IInv, NEW p \in Procs, EraseSecret(p)
  PROVE  IInv'
<1> DEFINE next == IF call[p].op = "erase" THEN "unprofile" ELSE "untoken"
           id == call[p].id
           outcomes == {vault[id], None}
<1>0. /\ call[p].op # "none" /\ UNCHANGED quiet
      /\ \/ Helper(id, None) /\ Step(p, next)
         \/ HelperFails(id, outcomes) /\ Return(p)
  BY DEF EraseSecret
<1>1. next \in Ops \ {"none"}
  BY DEF Ops
<1> HIDE DEF next
<1>2. /\ TypeOK /\ id \in Ids /\ None \in Passwords \cup {None}
      /\ outcomes \in SUBSET (Passwords \cup {None})
  BY <1>0, InFlight
<1> HIDE DEF outcomes
<1>3. UNCHANGED <<pc, touched, calls>> /\ touched \subseteq touched' /\ calls' >= calls /\ calls' \in Nat
  BY <1>0, QuietParts
<1>4. call' \in [Procs -> CallRecord] /\ CallInv'
  BY <1>0, <1>1, <1>3, ReturnKeeps, OpKeeps
<1>5. vault' \in [Ids -> Passwords \cup {None}] /\ unsure' \subseteq Ids /\ faults' \subseteq Faults
  BY <1>0, <1>2, HelperType
<1> QED BY <1>0, <1>4, <1>5, QuietKeeps

LEMMA UndoSecretKeeps ==
  ASSUME IInv, NEW p \in Procs, UndoSecret(p) \/ RestoreSecret(p)
  PROVE  IInv'
<1> DEFINE id == call[p].id
           value == IF call[p].op = "undo" THEN None ELSE call[p].previous
           outcomes == IF call[p].op = "undo" THEN {vault[id], None} ELSE {vault[id], call[p].previous, None}
<1>0. /\ call[p].op # "none" /\ UNCHANGED quiet
      /\ Helper(id, value) \/ HelperFails(id, outcomes)
      /\ Return(p) \/ Step(p, "restore")
  BY DEF UndoSecret, RestoreSecret
<1>1. "restore" \in Ops \ {"none"}
  BY DEF Ops
<1>2. /\ TypeOK /\ id \in Ids /\ value \in Passwords \cup {None}
      /\ outcomes \in SUBSET (Passwords \cup {None})
  BY <1>0, InFlight
<1> HIDE DEF outcomes, value
<1>3. UNCHANGED <<pc, touched, calls>> /\ touched \subseteq touched' /\ calls' >= calls /\ calls' \in Nat
  BY <1>0, QuietParts
<1>4. call' \in [Procs -> CallRecord] /\ CallInv'
  BY <1>0, <1>1, <1>3, ReturnKeeps, OpKeeps
<1>5. vault' \in [Ids -> Passwords \cup {None}] /\ unsure' \subseteq Ids /\ faults' \subseteq Faults
  BY <1>0, <1>2, HelperType
<1> QED BY <1>0, <1>4, <1>5, QuietKeeps
-----------------------------------------------------------------------------
(* The profile is changed at the end of a call.                            *)
LEMMA CallChanges ==
  ASSUME IInv, NEW p \in Procs, call[p].op # "none", Changed(p, call[p].id), faults' \subseteq Faults,
         call' \in [Procs -> CallRecord], CallInv',
         UNCHANGED <<source, marker, lock, vault, pc, work, touched, unsure, calls>>
  PROVE  IInv'
<1> DEFINE id == call[p].id
<1>0. /\ TypeOK /\ CountInv /\ id \in Ids /\ id \in touched /\ pc[p] = "ready" /\ calls > 0
  BY Parts, InFlight
<1>1. /\ mem' \in [Procs -> Documents] /\ stored' \in [Procs -> Documents] /\ file' \in Documents
      /\ MemPart' /\ DocumentInv'
  BY <1>0, StoreKeeps DEF Changed
<1>2. TypeOK'
  BY <1>0, <1>1 DEF TypeOK, CallRecord, Ops
<1>3. CountInv'
  BY <1>0 DEF CountInv
<1> QED BY <1>1, <1>2, <1>3 DEF IInv, MemoryIsStored, MemPart

(* A saved profile changes one profile and, at most, the default of its    *)
(* kind.                                                                   *)
LEMMA SaveChange ==
  ASSUME TypeOK, NEW p \in Procs, NEW id \in Ids, NEW type \in Types \cup {None}, NEW d \in BOOLEAN,
         NEW kind, d => kind = KindOf(type) /\ type # None
  PROVE  /\ Saved(mem[p], id, type, d) \in Documents
         /\ \A i \in Ids : i # id => Saved(mem[p], id, type, d).profiles[i] = mem[p].profiles[i]
         /\ \A k \in Kinds : k # kind => Saved(mem[p], id, type, d).defaults[k] = mem[p].defaults[k]
<1>1. mem[p] \in Documents /\ Doc(mem[p])
  BY StateType, DocType
<1>2. /\ Saved(mem[p], id, type, d) \in Documents
      /\ Saved(mem[p], id, type, d).profiles = [mem[p].profiles EXCEPT ![id] = type]
      /\ Saved(mem[p], id, type, d).defaults =
           IF d THEN [mem[p].defaults EXCEPT ![KindOf(type)] = id] ELSE mem[p].defaults
  BY <1>1, SavedType
<1> QED BY <1>1, <1>2 DEF Doc

LEMMA PinChange ==
  ASSUME TypeOK, NEW p \in Procs, NEW id \in Ids, NEW type \in Types \cup {None}
  PROVE  /\ Saved(mem[p], id, type, FALSE) \in Documents
         /\ \A i \in Ids : i # id => Saved(mem[p], id, type, FALSE).profiles[i] = mem[p].profiles[i]
         /\ Saved(mem[p], id, type, FALSE).defaults = mem[p].defaults
<1>0. mem[p] \in Documents /\ Doc(mem[p])
  BY StateType, DocType
<1> DEFINE P == [mem[p].profiles EXCEPT ![id] = type]
<1>1. P \in [Ids -> Types \cup {None}] /\ \A i \in Ids : i # id => P[i] = mem[p].profiles[i]
  BY <1>0 DEF Doc
<1>2. Saved(mem[p], id, type, FALSE) = [profiles |-> P, defaults |-> mem[p].defaults]
  BY DEF Saved
<1> HIDE DEF P
<1>3. PICK saved : saved = [profiles |-> P, defaults |-> mem[p].defaults]
  OBVIOUS
<1>4. saved \in Documents /\ saved.profiles = P /\ saved.defaults = mem[p].defaults
  BY <1>0, <1>1, <1>3 DEF Doc, Documents
<1>5. saved = Saved(mem[p], id, type, FALSE)
  BY <1>2, <1>3, Zenon
<1>6. \A i \in Ids : i # id => saved.profiles[i] = mem[p].profiles[i]
  BY <1>1, <1>4
<1> QED BY <1>4, <1>5, <1>6, Zenon

LEMMA PinHostKeyKeeps ==
  ASSUME IInv, NEW p \in Procs, PinHostKey(p)
  PROVE  IInv'
<1>0. PICK id, type : id = call[p].id /\ type = call[p].type
  OBVIOUS
<1>1. /\ call[p].op # "none" /\ Return(p) /\ Stores(p, Saved(mem[p], id, type, FALSE), id, "ssh")
      /\ UNCHANGED <<source, marker, lock, vault, pc, work, touched, unsure, calls>>
  BY <1>0 DEF PinHostKey
<1>2. TypeOK /\ id \in Ids /\ type \in Types \cup {None} /\ calls \in Nat
  BY <1>0, <1>1, InFlight, StateType DEF CallRecord
<1>3. PICK new : new = Saved(mem[p], id, type, FALSE)
  OBVIOUS
<1>4. /\ new \in Documents
      /\ \A i \in Ids : i # id => new.profiles[i] = mem[p].profiles[i]
      /\ \A k \in Kinds : k # "ssh" => new.defaults[k] = mem[p].defaults[k]
  BY <1>2, <1>3, PinChange
<1>5. (Persisted(p, new) \/ PersistFails(p, new, id, "ssh")) /\ "ssh" \in Kinds
  BY <1>1, <1>3 DEF Stores, Kinds
<1>6. Changed(p, id) /\ faults' \subseteq Faults
  BY <1>2, <1>4, <1>5, StoresChange
<1>7. call' \in [Procs -> CallRecord] /\ CallInv'
  BY <1>1, <1>2, ReturnKeeps
<1> QED BY <1>0, <1>1, <1>6, <1>7, CallChanges

LEMMA ChangeProfileKeeps ==
  ASSUME IInv, NEW p \in Procs, ChangeProfile(p)
  PROVE  IInv'
<1> DEFINE op   == call[p].op
           id   == call[p].id
           type == IF op = "profile" THEN "password" ELSE "pat"
           Ends == Return(p) \/ Step(p, "undo") \/ Step(p, "restore")
           Write(new, kind) == Ends /\ (Persisted(p, new) \/ PersistFails(p, new, id, kind))
<1>0. /\ op # "none" /\ UNCHANGED <<source, marker, lock, vault, pc, work, touched, unsure, calls>>
      /\ \/ Write(Saved(mem[p], id, type, call[p].default), KindOf(type))
         \/ mem[p].profiles[id] # None /\ Write(Deleted(mem[p], id), KindOf(mem[p].profiles[id]))
         \/ Ends /\ UNCHANGED <<mem, file, stored, faults>>
  BY DEF ChangeProfile
<1>1. /\ TypeOK /\ id \in Ids /\ call[p].default \in BOOLEAN /\ calls \in Nat /\ faults \subseteq Faults
      /\ mem \in [Procs -> Documents] /\ mem[p] \in Documents
  BY <1>0, InFlight, StateType DEF CallRecord
<1>2. type \in Types /\ type # None /\ KindOf(type) \in Kinds
  BY KindOfType DEF Types
<1>3. Ends
  BY <1>0
<1>4. {"undo", "restore"} \subseteq Ops \ {"none"}
  BY DEF Ops
<1>5. call' \in [Procs -> CallRecord] /\ CallInv'
  BY <1>0, <1>1, <1>3, <1>4, ReturnKeeps, OpKeeps
<1>6. Changed(p, id) /\ faults' \subseteq Faults
  <2>1. CASE Write(Saved(mem[p], id, type, call[p].default), KindOf(type))
    <3>1. PICK new, kind : new = Saved(mem[p], id, type, call[p].default) /\ kind = KindOf(type)
      OBVIOUS
    <3>2. Persisted(p, new) \/ PersistFails(p, new, id, kind)
      BY <2>1, <3>1
    <3>3. /\ new \in Documents /\ kind \in Kinds
          /\ \A i \in Ids : i # id => new.profiles[i] = mem[p].profiles[i]
          /\ \A k \in Kinds : k # kind => new.defaults[k] = mem[p].defaults[k]
      <4>1. PICK d \in BOOLEAN : d = call[p].default
        BY <1>1, Zenon
      <4>2. new = Saved(mem[p], id, type, d)
        BY <3>1, <4>1
      <4> HIDE DEF type, id
      <4> QED BY <1>1, <1>2, <3>1, <4>2, SaveChange
    <3> QED BY <1>1, <3>2, <3>3, StoresChange
  <2>2. CASE mem[p].profiles[id] # None /\ Write(Deleted(mem[p], id), KindOf(mem[p].profiles[id]))
    <3>1. PICK new, kind : new = Deleted(mem[p], id) /\ kind = KindOf(mem[p].profiles[id])
      OBVIOUS
    <3>2. Persisted(p, new) \/ PersistFails(p, new, id, kind)
      BY <2>2, <3>1
    <3>3. /\ new \in Documents /\ kind \in Kinds
          /\ \A i \in Ids : i # id => new.profiles[i] = mem[p].profiles[i]
          /\ \A k \in Kinds : k # kind => new.defaults[k] = mem[p].defaults[k]
      BY <1>1, <2>2, <3>1, DeleteChange
    <3> QED BY <1>1, <3>2, <3>3, StoresChange
  <2>3. CASE UNCHANGED <<mem, file, stored, faults>>
    <3>1. Undid(p, mem[p])
      BY <1>1, <2>3 DEF Undid
    <3> QED BY <1>1, <2>3, <3>1 DEF Changed
  <2> QED BY <1>0, <2>1, <2>2, <2>3
<1> QED BY <1>0, <1>5, <1>6, CallChanges
-----------------------------------------------------------------------------
LEMMA InitIInv == Init => IInv
<1> SUFFICES ASSUME Init PROVE IInv
  OBVIOUS
<1>0. /\ Canonical \in Documents /\ Doc(Canonical)
      /\ Empty \in Documents /\ NoCall \in CallRecord
  BY CredentialsAssumption, DocType, EmptyType, NoCallType
<1>1. vault \in [Ids -> Passwords \cup {None}]
  BY DEF Init
<1>2. /\ mem \in [Procs -> Documents] /\ stored = mem /\ work \in [Procs -> Documents]
      /\ call \in [Procs -> CallRecord] /\ pc \in [Procs -> Steps]
      /\ \A p \in Procs : pc[p] = "start" /\ call[p] = NoCall
  BY <1>0 DEF Init, Steps
<1>3. /\ file = Canonical /\ lock = NoLock /\ touched = {} /\ unsure = {} /\ calls = 0 /\ faults = {}
      /\ MaxCalls \in Nat
  BY CredentialsAssumption DEF Init
<1>4. {source, marker} \subseteq BOOLEAN /\ Importable
  BY Zenon DEF Init, Importable
<1>5. TypeOK
  BY <1>0, <1>1, <1>2, <1>3, <1>4 DEF TypeOK, CallRecord, Ops, Steps
<1>6. MemPart /\ CallInv /\ CountInv
  BY <1>2, <1>3 DEF MemPart, CallInv, CountInv
<1>7. Keeps(file) /\ Prefers(file)
  BY <1>3 DEF Keeps, Prefers, CanonicalDefaults, validDefaults
<1>8. DocumentInv
  BY <1>2, <1>4, <1>7 DEF DocumentInv
<1> QED BY <1>5, <1>6, <1>8, Parts

LEMMA NextIInv == IInv /\ [Next]_vars => IInv'
<1> SUFFICES ASSUME IInv, [Next]_vars PROVE IInv'
  OBVIOUS
<1>1. CASE Age
  BY <1>1, AgeKeeps
<1>2. ASSUME NEW p \in Procs, Migrate(p) \/ Crash(p) \/ Restart(p)
      PROVE  IInv'
  BY <1>2, PlainMigrate, MergeKeeps, WriteCanonicalKeeps, MarkKeeps, LoadKeeps, CrashKeeps DEF Migrate
<1>3. ASSUME NEW p \in Procs, Edit(p)
      PROVE  IInv'
  BY <1>3, SaveProfileKeeps, DeleteProfileKeeps, SetDefaultKeeps, ClearDefaultKeeps, BeginsKeep, ProbeKeeps,
     ReadPreviousKeeps, StoreSecretKeeps, EraseSecretKeeps, UndoSecretKeeps, PinHostKeyKeeps,
     ChangeProfileKeeps DEF Edit
<1>4. CASE UNCHANGED vars
  <2>0. /\ TypeOK /\ MemPart /\ CallInv /\ CountInv /\ DocumentInv
        /\ UNCHANGED <<source, marker, lock, file, vault, pc, work, mem, call, stored, touched, unsure, calls, faults>>
    BY <1>4, Parts DEF vars, disk, history
  <2>1. TypeOK'
    BY <2>0 DEF TypeOK
  <2>2. MemPart' /\ CallInv' /\ CountInv'
    BY <2>0 DEF MemPart, CallInv, CountInv
  <2>3. DocumentInv'
    BY <2>0 DEF DocumentInv, Keeps, Imported, Prefers, Importable
  <2> QED BY <2>1, <2>2, <2>3 DEF IInv, MemoryIsStored, MemPart
<1> QED BY <1>1, <1>2, <1>3, <1>4 DEF Next

(* The inductive invariant holds in every reachable state.                 *)
THEOREM Invariant == Spec => []IInv
  BY InitIInv, NextIInv, PTL DEF Spec

(* A write of the credential document that throws leaves the store of the  *)
(* process as it was last read or written, for every tool and every call   *)
(* in flight (CredentialProfileStore's rollbacks).                         *)
THEOREM StoreMirrored == Spec => []MemoryIsStored
<1>1. IInv => MemoryIsStored
  BY DEF IInv
<1> QED BY <1>1, Invariant, PTL

(* No legacy profile is lost by the migration and canonical entries win,   *)
(* for any number of processes, whatever the lock does.                    *)
THEOREM MigrationSafe == Spec => []MigrationKeeps
<1>1. IInv => MigrationKeeps
  <2> SUFFICES ASSUME IInv PROVE MigrationKeeps
    OBVIOUS
  <2>1. DocumentInv
    BY DEF IInv
  <2> QED BY <2>1 DEF DocumentInv, MigrationKeeps, Keeps, Imported, Prefers, CanonicalDefaults
<1> QED BY <1>1, Invariant, PTL
-----------------------------------------------------------------------------
(***************************************************************************)
(* Passwords, of the one editor e.                                         *)
(***************************************************************************)
Backed(document) ==
  \A id \in Ids \ unsure : document.profiles[id] = "password" => vault[id] # None

Migrating == {"merge", "write", "mark", "retireSource", "release", "abort"}

(* As long as no lock was left by a process that died, one process at a    *)
(* time migrates, and the editor's store is the document.                  *)
Exclusive(e) ==
  /\ lock.by # Dead
  /\ \A p \in Procs : pc[p] # "retire" /\ (pc[p] \in Migrating <=> lock.by = p)
  /\ ~Importable => \A p \in Procs : pc[p] # "write"
  /\ pc[e] = "ready" => file.profiles = mem[e].profiles

(* Once one was, there is no second crash: the editor has loaded the       *)
(* document for good, or has not yet changed anything.                     *)
TakenOver(e) == "crash" \in faults /\ (pc[e] = "ready" \/ calls = 0)

EditorInv(e) ==
  /\ \A p \in Procs : /\ p # e => call[p] = NoCall
                      /\ pc[p] \in {"retireSource", "release", "load", "ready"} => ~Importable
  /\ calls > 0 => ~Importable /\ ("crash" \in faults \/ pc[e] = "ready")
  /\ Exclusive(e) \/ TakenOver(e)

(* What the editor may load has its passwords.                             *)
LoadInv(e) ==
  /\ calls = 0 => /\ Backed(Legacy) /\ Backed(file)
                  /\ \A p \in Procs : pc[p] = "write" => Backed(work[p])
  /\ pc[e] # "ready" => Backed(file)

(* A profile has its password, unless the call in flight knows how to put  *)
(* it back.                                                                *)
Stays(e, id) ==
  id # call[e].id \/ call[e].op \in {"read", "probe", "pin"} =>
    (mem[e].profiles[id] = "password" => vault[id] # None)

PutsBack(e) ==
  LET c == call[e] IN
  /\ c.op = "store" => c.secret # None
  /\ c.op = "restore" => c.previous # None
  /\ c.id \notin unsure =>
       /\ c.op \in {"probe", "pin"} /\ c.type = "password" => vault[c.id] # None
       /\ c.op = "profile" => vault[c.id] # None
       /\ c.op \in {"store", "erase", "profile", "unprofile", "undo", "restore"} =>
            (mem[e].profiles[c.id] = "password" => c.previous # None)
       /\ c.op \in {"storeToken", "token", "eraseToken", "untoken"} => mem[e].profiles[c.id] # "password"

VaultInv(e) == pc[e] = "ready" => PutsBack(e) /\ \A id \in Ids \ unsure : Stays(e, id)

PInv(e) == EditorInv(e) /\ LoadInv(e) /\ VaultInv(e)

Sole(e) == e \in Procs /\ Editors = {e}

(* A step of the migration, of a process that is not ready.                *)
LEMMA MigrateStays ==
  ASSUME NEW e, Sole(e), PInv(e), IInv, NEW p \in Procs, pc[p] # "ready", NEW step \in Steps \ {"ready"},
         Go(p, step), UNCHANGED <<vault, mem, call, unsure, calls>>, faults \subseteq faults',
         ~Importable => ~Importable', step \in {"retireSource", "release", "load"} => ~Importable',
         Exclusive(e) => Exclusive(e)', LoadInv(e)'
  PROVE  PInv(e)'
<1>0. TypeOK /\ pc \in [Procs -> Steps] /\ e \in Procs
  BY Parts, StateType DEF Sole
<1>1. pc'[p] = step /\ \A q \in Procs : q # p => pc'[q] = pc[q]
  BY <1>0 DEF Go
<1>2. pc'[e] = "ready" <=> pc[e] = "ready"
  BY <1>0, <1>1
<1>3. EditorInv(e)'
  <2>1. ASSUME NEW q \in Procs, pc'[q] \in {"retireSource", "release", "load", "ready"} PROVE ~Importable'
    BY <1>1, <2>1 DEF PInv, EditorInv
  <2>2. calls > 0 => ~Importable' /\ ("crash" \in faults' \/ pc'[e] = "ready")
    BY <1>2 DEF PInv, EditorInv
  <2>3. Exclusive(e)' \/ TakenOver(e)'
    BY <1>2 DEF PInv, EditorInv, TakenOver
  <2>4. \A q \in Procs : q # e => call[q] = NoCall
    BY DEF PInv, EditorInv
  <2> QED BY <2>1, <2>2, <2>3, <2>4 DEF EditorInv
<1>4. VaultInv(e)'
  BY <1>2 DEF PInv, VaultInv, PutsBack, Stays
<1> QED BY <1>3, <1>4 DEF PInv

LEMMA LoadStays ==
  ASSUME NEW e, Sole(e), PInv(e), IInv, NEW p \in Procs, pc[p] # "ready", NEW step \in Steps \ {"ready", "write"},
         Go(p, step), UNCHANGED <<vault, unsure, calls, file, work>>
  PROVE  LoadInv(e)'
<1>0. TypeOK /\ pc \in [Procs -> Steps] /\ e \in Procs
  BY Parts, StateType DEF Sole
<1>1. pc'[p] = step /\ \A q \in Procs : q # p => pc'[q] = pc[q]
  BY <1>0 DEF Go
<1> QED BY <1>0, <1>1 DEF PInv, LoadInv, Backed

LEMMA PlainStays ==
  ASSUME NEW e, Sole(e), PInv(e), IInv, NEW p \in Procs,
         \/ Acquire(p) \/ Busy(p) \/ FindStale(p) \/ RetireLock(p) \/ RetireSource(p)
         \/ Release(p) \/ Restart(p) \/ WriteMarker(p)
  PROVE  PInv(e)'
<1>0. /\ TypeOK /\ pc \in [Procs -> Steps] /\ e \in Procs /\ p # None /\ None \notin Procs /\ Dead # None
      /\ Dead \notin Procs
  BY Parts, StateType, CredentialsAssumption DEF Sole
<1>1. PICK step \in Steps \ {"ready", "write"} : Go(p, step)
  BY DEF Acquire, Busy, FindStale, RetireLock, RetireSource, Release, Restart, WriteMarker, Steps
<1>2. pc'[p] = step /\ \A q \in Procs : q # p => pc'[q] = pc[q]
  BY <1>0, <1>1 DEF Go
<1>3. /\ pc[p] # "ready" /\ UNCHANGED <<vault, mem, call, unsure, calls, file, work>> /\ faults \subseteq faults'
  BY DEF Acquire, Busy, FindStale, RetireLock, RetireSource, Release, Restart, WriteMarker, disk, history, Fault
<1>4. LoadInv(e)'
  BY <1>1, <1>3, LoadStays
<1>5. ~Importable => ~Importable'
  BY DEF Acquire, Busy, FindStale, RetireLock, RetireSource, Release, Restart, WriteMarker, disk, Importable
<1>6. step \in {"retireSource", "release", "load"} => ~Importable'
  <2>1. CASE WriteMarker(p)
    BY <1>0, <1>2, <2>1 DEF WriteMarker, Go, Importable
  <2>2. CASE RetireSource(p) \/ Release(p)
    <3>1. step \in {"release", "load"} => pc[p] \in {"retireSource", "release"}
      BY <1>0, <1>2, <2>2 DEF RetireSource, Release, Go
    <3>2. step # "retireSource"
      BY <1>0, <1>2, <2>2 DEF RetireSource, Release, Go
    <3> QED BY <1>5, <3>1, <3>2 DEF PInv, EditorInv
  <2>3. CASE Acquire(p) \/ Busy(p) \/ FindStale(p) \/ RetireLock(p) \/ Restart(p)
    BY <1>0, <1>2, <2>3 DEF Acquire, Busy, FindStale, RetireLock, Restart, Go
  <2> QED BY <2>1, <2>2, <2>3
<1>7. ASSUME Exclusive(e) PROVE Exclusive(e)'
  <2>1. /\ lock.by # Dead /\ \A q \in Procs : pc[q] # "retire" /\ (pc[q] \in Migrating <=> lock.by = q)
        /\ ~Importable => \A q \in Procs : pc[q] # "write"
        /\ pc[e] = "ready" => file.profiles = mem[e].profiles
    BY <1>7 DEF Exclusive
  <2>2. pc'[e] = "ready" => file'.profiles = mem'[e].profiles
    BY <1>0, <1>2, <1>3, <2>1
  <2>3. /\ lock'.by # Dead /\ step # "retire"
        /\ \A q \in Procs : pc'[q] \in Migrating <=> lock'.by = q
    <3>1. CASE Acquire(p)
      <4>1. lock.by = None /\ lock'.by = p /\ step = "merge"
        BY <1>0, <1>2, <3>1 DEF Acquire, NoLock, Go
      <4> QED BY <1>0, <1>2, <2>1, <4>1 DEF Migrating
    <3>2. CASE Busy(p) \/ Restart(p)
      <4>1. lock' = lock /\ step \in {"failed", "start"} /\ pc[p] \in {"start", "down", "failed"}
        BY <1>0, <1>2, <3>2 DEF Busy, Restart, disk, Go
      <4> QED BY <1>2, <2>1, <4>1 DEF Migrating
    <3>3. CASE FindStale(p) \/ RetireLock(p)
      BY <2>1, <3>3 DEF FindStale, RetireLock
    <3>4. CASE RetireSource(p) \/ WriteMarker(p)
      <4>1. lock' = lock /\ step \in Migrating /\ pc[p] \in Migrating
        BY <1>0, <1>2, <3>4 DEF RetireSource, WriteMarker, Go, Migrating
      <4>2. "retire" \notin Migrating
        BY DEF Migrating
      <4> QED BY <1>2, <2>1, <4>1, <4>2
    <3>5. CASE Release(p)
      <4>1. lock' = Unlocked(p) /\ step \in {"load", "failed"} /\ pc[p] \in Migrating
        BY <1>0, <1>2, <3>5 DEF Release, Go, Migrating
      <4>2. lock.by = p /\ lock'.by = None
        BY <2>1, <4>1 DEF Unlocked, NoLock
      <4>3. step \notin Migrating /\ step # "retire"
        BY <4>1 DEF Migrating
      <4> QED BY <1>0, <1>2, <2>1, <4>2, <4>3
    <3> QED BY <3>1, <3>2, <3>3, <3>4, <3>5
  <2>4. ~Importable' => \A q \in Procs : pc'[q] # "write"
    <3>1. CASE ~Importable
      BY <1>2, <2>1, <3>1
    <3>2. CASE Importable
      <4>1. CASE WriteMarker(p) \/ RetireSource(p)
        <5>1. pc[p] \in Migrating
          BY <4>1 DEF WriteMarker, RetireSource, Migrating
        <5>2. \A q \in Procs : q # p => pc[q] \notin Migrating
          BY <2>1, <5>1
        <5> QED BY <1>2, <5>2 DEF Migrating
      <4>2. CASE ~(WriteMarker(p) \/ RetireSource(p))
        BY <3>2, <4>2 DEF Acquire, Busy, FindStale, RetireLock, Release, Restart, disk, Importable
      <4> QED BY <4>1, <4>2
    <3> QED BY <3>1, <3>2
  <2> QED BY <1>2, <2>1, <2>2, <2>3, <2>4 DEF Exclusive
<1> QED BY <1>1, <1>3, <1>4, <1>5, <1>6, <1>7, MigrateStays

(* What is merged has the passwords of both documents.                     *)
LEMMA MergeStays ==
  ASSUME NEW e, Sole(e), PInv(e), IInv, NEW p \in Procs, Merge(p)
  PROVE  PInv(e)'
<1>0. /\ TypeOK /\ pc \in [Procs -> Steps] /\ e \in Procs /\ work \in [Procs -> Documents] /\ file \in Documents
  BY Parts, StateType DEF Sole
<1>1. /\ pc[p] = "merge" /\ UNCHANGED <<source, marker, lock, file, vault, mem, call, unsure, calls, faults>>
  BY DEF Merge, disk, history
<1>2. PICK step \in {"write", "mark", "release"} : /\ Go(p, step) /\ (step = "release" <=> ~Importable)
                                                   /\ Importable => work' = [work EXCEPT ![p] = Merged(file)]
                                                   /\ ~Importable => work' = work
  BY DEF Merge
<1>3. pc'[p] = step /\ \A q \in Procs : q # p => pc'[q] = pc[q]
  BY <1>0, <1>2 DEF Go
<1>4. Importable' = Importable
  BY <1>1 DEF Importable
<1>5. LoadInv(e)'
  <2>1. calls = 0 => Backed(Legacy) /\ Backed(file) /\ \A q \in Procs : pc[q] = "write" => Backed(work[q])
    BY DEF PInv, LoadInv
  <2>2. pc'[e] # "ready" => Backed(file)
    BY <1>0, <1>1, <1>3 DEF PInv, LoadInv
  <2>3. ASSUME calls = 0, NEW q \in Procs, pc'[q] = "write" PROVE Backed(work'[q])
    <3>1. CASE q # p
      BY <1>0, <1>2, <1>3, <2>1, <2>3, <3>1
    <3>2. CASE q = p
      <4>1. work'[p] = Merged(file)
        BY <1>0, <1>2, <1>3, <2>3, <3>2
      <4>2. \A i \in Ids : Merged(file).profiles[i] = IF file.profiles[i] # None THEN file.profiles[i]
                                                                                ELSE Legacy.profiles[i]
        BY <1>0, MergedType
      <4>3. Backed(Merged(file))
        BY <2>1, <2>3, <4>2 DEF Backed
      <4> QED BY <3>2, <4>1, <4>3
    <3> QED BY <3>1, <3>2
  <2> QED BY <1>1, <2>1, <2>2, <2>3 DEF LoadInv, Backed
<1>6. ASSUME Exclusive(e) PROVE Exclusive(e)'
  <2>1. step \in Migrating /\ pc[p] \in Migrating /\ step # "retire" /\ step # "ready"
    BY <1>1 DEF Migrating
  <2> QED BY <1>0, <1>1, <1>2, <1>3, <1>4, <1>6, <2>1 DEF Exclusive
<1>7. step \in Steps \ {"ready"} /\ (step \in {"retireSource", "release", "load"} => ~Importable')
  BY <1>2, <1>4 DEF Steps
<1> QED BY <1>1, <1>2, <1>4, <1>5, <1>6, <1>7, MigrateStays

(* What a migration writes the editor has loaded already, or is backed.    *)
LEMMA WriteStays ==
  ASSUME NEW e, Sole(e), PInv(e), IInv, NEW p \in Procs, WriteCanonical(p)
  PROVE  PInv(e)'
<1>0. TypeOK /\ pc \in [Procs -> Steps] /\ e \in Procs /\ calls \in Nat
  BY Parts, StateType DEF Sole
<1>1. /\ pc[p] = "write" /\ UNCHANGED <<source, marker, lock, vault, work, mem, call, unsure, calls>>
      /\ file' \in {work[p], file} /\ faults \subseteq faults'
  BY DEF WriteCanonical, history, Fault
<1>2. PICK step \in {"mark", "abort"} : Go(p, step)
  BY DEF WriteCanonical
<1>3. pc'[p] = step /\ \A q \in Procs : q # p => pc'[q] = pc[q]
  BY <1>0, <1>2 DEF Go
<1>4. Importable' = Importable
  BY <1>1 DEF Importable
<1>5. LoadInv(e)'
  <2>1. calls = 0 => Backed(Legacy) /\ Backed(file) /\ \A q \in Procs : pc[q] = "write" => Backed(work[q])
    BY DEF PInv, LoadInv
  <2>2. calls = 0 => Backed(file')
    BY <1>1, <2>1
  <2>3. ASSUME calls # 0, pc'[e] # "ready" PROVE FALSE
    <3>1. pc[e] # "ready"
      BY <1>0, <1>1, <1>3, <2>3
    <3>2. ~Importable /\ Exclusive(e)
      BY <1>0, <2>3, <3>1 DEF PInv, EditorInv, TakenOver
    <3> QED BY <1>1, <3>2 DEF Exclusive
  <2>4. \A q \in Procs : pc'[q] = "write" => pc[q] = "write"
    BY <1>3
  <2> QED BY <1>1, <2>1, <2>2, <2>3, <2>4 DEF LoadInv, Backed
<1>6. ASSUME Exclusive(e) PROVE Exclusive(e)'
  <2>1. step \in Migrating /\ pc[p] \in Migrating /\ step \notin {"retire", "ready", "write"}
    BY <1>1 DEF Migrating
  <2>2. Importable
    BY <1>1, <1>6 DEF Exclusive
  <2>3. pc[e] # "ready"
    BY <1>0, <2>2 DEF PInv, EditorInv
  <2> QED BY <1>0, <1>1, <1>3, <1>4, <1>6, <2>1, <2>2, <2>3 DEF Exclusive
<1>7. step \in Steps \ {"ready"} /\ step \notin {"retireSource", "release", "load"}
  BY DEF Steps
<1> QED BY <1>1, <1>2, <1>4, <1>5, <1>6, <1>7, MigrateStays

LEMMA LoadVault ==
  ASSUME NEW e, Sole(e), PInv(e), IInv, NEW p \in Procs, Load(p)
  PROVE  PInv(e)'
<1>0. /\ TypeOK /\ pc \in [Procs -> Steps] /\ e \in Procs /\ mem \in [Procs -> Documents] /\ file \in Documents
      /\ CallInv /\ Doc(file)
  BY Parts, StateType, DocType DEF Sole
<1>1. /\ pc[p] = "load" /\ UNCHANGED <<source, marker, lock, file, vault, work, call, unsure, calls, faults>>
      /\ Go(p, "ready") /\ mem' = [mem EXCEPT ![p] = [file EXCEPT !.defaults = validDefaults(@, file.profiles)]]
  BY DEF Load, disk
<1>2. pc'[p] = "ready" /\ \A q \in Procs : q # p => pc'[q] = pc[q]
  BY <1>0, <1>1 DEF Go
<1>3. mem'[p].profiles = file.profiles /\ \A q \in Procs : q # p => mem'[q] = mem[q]
  BY <1>0, <1>1 DEF Doc
<1>4. Importable' = Importable /\ ~Importable
  BY <1>1 DEF Importable, PInv, EditorInv
<1>5. EditorInv(e)'
  <2>1. ASSUME Exclusive(e) PROVE Exclusive(e)'
    <3>1. \A q \in Procs : pc'[q] # "retire" /\ pc'[q] # "write" /\ (pc'[q] \in Migrating <=> lock.by = q)
      BY <1>1, <1>2, <1>4, <2>1 DEF Exclusive, Migrating
    <3>2. pc'[e] = "ready" => file.profiles = mem'[e].profiles
      BY <1>0, <1>2, <1>3, <2>1 DEF Exclusive
    <3>3. lock.by # Dead
      BY <2>1 DEF Exclusive
    <3> QED BY <1>1, <3>1, <3>2, <3>3 DEF Exclusive
  <2>2. TakenOver(e) => TakenOver(e)'
    BY <1>0, <1>1, <1>2 DEF TakenOver
  <2>3. calls > 0 => "crash" \in faults \/ pc'[e] = "ready"
    BY <1>0, <1>2 DEF PInv, EditorInv
  <2> QED BY <1>1, <1>4, <2>1, <2>2, <2>3 DEF PInv, EditorInv
<1>6. LoadInv(e)'
  <2>1. pc'[e] # "ready" => pc[e] # "ready"
    BY <1>0, <1>2
  <2>2. \A q \in Procs : pc'[q] = "write" => pc[q] = "write"
    BY <1>2
  <2> QED BY <1>1, <2>1, <2>2 DEF PInv, LoadInv, Backed
<1>7. VaultInv(e)'
  <2>1. CASE p = e
    <3>1. call[e] = NoCall /\ Backed(file)
      BY <1>0, <1>1, <2>1 DEF CallInv, PInv, LoadInv
    <3>2. PutsBack(e)'
      BY <1>1, <3>1, NoCallType DEF PutsBack
    <3>3. \A id \in Ids \ unsure : mem'[e].profiles[id] = "password" => vault[id] # None
      BY <1>3, <2>1, <3>1 DEF Backed
    <3> QED BY <1>1, <3>2, <3>3 DEF VaultInv, Stays
  <2>2. CASE p # e
    BY <1>0, <1>1, <1>2, <1>3, <2>2 DEF PInv, VaultInv, PutsBack, Stays
  <2> QED BY <2>1, <2>2
<1> QED BY <1>5, <1>6, <1>7 DEF PInv

LEMMA AgeStays ==
  ASSUME NEW e, Sole(e), PInv(e), Age
  PROVE  PInv(e)'
<1>1. /\ lock.by = Dead
      /\ UNCHANGED <<source, marker, file, vault, pc, work, mem, call, unsure, calls, faults>>
  BY DEF Age, history
<1>2. TakenOver(e)
  BY <1>1 DEF PInv, EditorInv, Exclusive
<1>3. EditorInv(e)'
  BY <1>1, <1>2 DEF PInv, EditorInv, TakenOver, Importable
<1> QED BY <1>1, <1>3 DEF PInv, LoadInv, Backed, VaultInv, PutsBack, Stays

(* The crash, of which there is one: the editor's store was the document,  *)
(* and what its call in flight was about is unsure.                        *)
LEMMA CrashStays ==
  ASSUME NEW e, Sole(e), PInv(e), IInv, NEW p \in Procs, Crash(p)
  PROVE  PInv(e)'
<1>0. /\ TypeOK /\ pc \in [Procs -> Steps] /\ e \in Procs /\ mem \in [Procs -> Documents]
      /\ call \in [Procs -> CallRecord] /\ CallInv /\ None \notin Ids /\ Dead \notin Procs
      /\ calls \in Nat
  BY Parts, StateType, CredentialsAssumption DEF Sole
<1>1. /\ Go(p, "down") /\ UNCHANGED <<source, marker, file, vault, work, calls>>
      /\ "crash" \notin faults /\ "crash" \in faults' /\ faults \subseteq faults'
      /\ lock' = IF lock.by = p THEN [lock EXCEPT !.by = Dead] ELSE lock
      /\ unsure' = IF call[p] = NoCall THEN unsure ELSE unsure \cup {call[p].id}
      /\ call' = [call EXCEPT ![p] = NoCall] /\ mem' = [mem EXCEPT ![p] = Empty]
  BY DEF Crash, Fault
<1>2. pc'[p] = "down" /\ \A q \in Procs : q # p => pc'[q] = pc[q]
  BY <1>0, <1>1 DEF Go
<1>3. /\ call'[p] = NoCall /\ unsure \subseteq unsure'
      /\ \A q \in Procs : q # p => call'[q] = call[q] /\ mem'[q] = mem[q]
  BY <1>0, <1>1
<1>4. /\ Exclusive(e) /\ (calls > 0 => ~Importable /\ pc[e] = "ready")
      /\ \A q \in Procs : /\ q # e => call[q] = NoCall
                          /\ pc[q] \in {"retireSource", "release", "load", "ready"} => ~Importable
  BY <1>1 DEF PInv, EditorInv, TakenOver
<1>5. Importable' = Importable
  BY <1>1 DEF Importable
<1>6. EditorInv(e)'
  <2>1. \A q \in Procs : /\ q # e => call'[q] = NoCall
                         /\ pc'[q] \in {"retireSource", "release", "load", "ready"} => ~Importable
    BY <1>2, <1>3, <1>4
  <2>2. CASE lock.by = p
    <3>1. pc[p] \in Migrating
      BY <1>4, <2>2 DEF Exclusive
    <3>2. pc'[e] = "ready" \/ calls = 0
      BY <1>0, <1>2, <1>4, <3>1 DEF Migrating
    <3> QED BY <1>1, <1>4, <1>5, <2>1, <3>2 DEF EditorInv, TakenOver
  <2>3. CASE lock.by # p
    <3>1. lock' = lock
      BY <1>1, <2>3
    <3>2. \A q \in Procs : pc'[q] # "retire" /\ (pc'[q] \in Migrating <=> lock.by = q)
      BY <1>2, <1>4, <2>3 DEF Exclusive, Migrating
    <3>3. ~Importable => \A q \in Procs : pc'[q] # "write"
      BY <1>2, <1>4 DEF Exclusive
    <3>4. pc'[e] = "ready" => file.profiles = mem'[e].profiles
      BY <1>0, <1>2, <1>3, <1>4 DEF Exclusive
    <3>5. Exclusive(e)'
      BY <1>1, <1>4, <1>5, <3>1, <3>2, <3>3, <3>4 DEF Exclusive
    <3> QED BY <1>1, <1>4, <1>5, <2>1, <3>5 DEF EditorInv
  <2> QED BY <2>2, <2>3
<1>7. LoadInv(e)'
  <2>1. calls = 0 => /\ Backed(Legacy) /\ Backed(file)
                     /\ \A q \in Procs : pc'[q] = "write" => Backed(work[q])
    BY <1>2 DEF PInv, LoadInv
  <2>2. ASSUME pc'[e] # "ready", NEW id \in Ids \ unsure', file.profiles[id] = "password" PROVE vault[id] # None
    <3>1. CASE pc[e] # "ready"
      BY <1>3, <2>2, <3>1 DEF PInv, LoadInv, Backed
    <3>2. CASE pc[e] = "ready"
      <4>1. p = e /\ mem[e].profiles[id] = "password" /\ id \notin unsure
        BY <1>0, <1>2, <1>3, <1>4, <2>2, <3>2 DEF Exclusive
      <4>2. id # call[e].id
        BY <1>0, <1>1, <2>2, <4>1 DEF NoCall
      <4> QED BY <2>2, <3>2, <4>1, <4>2 DEF PInv, VaultInv, Stays
    <3> QED BY <3>1, <3>2
  <2> QED BY <1>1, <1>3, <2>1, <2>2 DEF LoadInv, Backed
<1>8. VaultInv(e)'
  <2>1. CASE p = e
    BY <1>2, <2>1 DEF VaultInv
  <2>2. CASE p # e
    <3>1. unsure' = unsure
      BY <1>1, <1>4, <2>2
    <3> QED BY <1>0, <1>1, <1>2, <1>3, <2>2, <3>1 DEF PInv, VaultInv, PutsBack, Stays
  <2> QED BY <2>1, <2>2
<1> QED BY <1>6, <1>7, <1>8 DEF PInv

(* A step of the editor.                                                   *)
LEMMA EditStays ==
  ASSUME NEW e, Sole(e), PInv(e), IInv, pc[e] = "ready", UNCHANGED <<source, marker, lock, pc, work>>,
         faults \subseteq faults', calls' \in Nat, calls' > 0,
         \A q \in Procs : q # e => call'[q] = call[q],
         \/ file'.profiles = mem'[e].profiles
         \/ file' = file /\ mem'[e].profiles = mem[e].profiles,
         VaultInv(e)'
  PROVE  PInv(e)'
<1>0. e \in Procs
  BY DEF Sole
<1>1. Importable' = Importable /\ ~Importable
  BY <1>0 DEF Importable, PInv, EditorInv
<1>2. Exclusive(e) => Exclusive(e)'
  BY <1>1 DEF Exclusive
<1>3. TakenOver(e) => TakenOver(e)'
  BY DEF TakenOver
<1>4. EditorInv(e)'
  BY <1>1, <1>2, <1>3 DEF PInv, EditorInv
<1>5. LoadInv(e)'
  BY DEF LoadInv
<1> QED BY <1>4, <1>5 DEF PInv

(* The outcome of a change of the store.                                   *)
LEMMA StoresOutcome ==
  ASSUME TypeOK, NEW p \in Procs, NEW new \in Documents, NEW id \in Ids, NEW kind \in Kinds,
         \A i \in Ids : i # id => new.profiles[i] = mem[p].profiles[i],
         \A k \in Kinds : k # kind => new.defaults[k] = mem[p].defaults[k]
  PROVE  /\ Persisted(p, new) => mem'[p] = new /\ file' = new /\ faults' = faults
         /\ PersistFails(p, new, id, kind) => mem'[p] = mem[p] /\ file' = file /\ faults \subseteq faults'
<1>0. mem \in [Procs -> Documents] /\ mem[p] \in Documents
  BY StateType
<1>1. ASSUME Persisted(p, new) PROVE mem'[p] = new /\ file' = new /\ faults' = faults
  BY <1>0, <1>1 DEF Persisted
<1>2. ASSUME PersistFails(p, new, id, kind) PROVE mem'[p] = mem[p] /\ file' = file /\ faults \subseteq faults'
  <2>1. RolledBack(mem[p], new, id, kind) = mem[p]
    BY <1>0, RollsBack
  <2> QED BY <1>0, <1>2, <2>1 DEF PersistFails, Fault
<1> QED BY <1>1, <1>2

(* The tools without an await make no profile a password profile.          *)
LEMMA ToolStays ==
  ASSUME NEW e, Sole(e), PInv(e), IInv, NEW p \in Procs, NEW id, Tool(p, id), faults \subseteq faults',
         \/ file' = mem'[p] /\ \A i \in Ids : mem'[p].profiles[i] = "password" => mem[p].profiles[i] = "password"
         \/ file' = file /\ mem'[p].profiles = mem[p].profiles
  PROVE  PInv(e)'
<1>0. /\ p = e /\ pc[e] = "ready" /\ UNCHANGED <<source, marker, lock, vault, pc, work, call, unsure>>
      /\ calls' = calls + 1 /\ calls \in Nat
  BY Parts, StateType DEF Tool, Sole
<1>1. \A i \in Ids : mem'[e].profiles[i] = "password" => mem[e].profiles[i] = "password"
  BY <1>0
<1>2. CallInv /\ TypeOK /\ call[e] \in CallRecord /\ e \in Procs
  BY Parts, StateType DEF Sole
<1>3. call[e].op # "none" => call[e].id \in Ids
  BY <1>2, InFlight
<1>4. PutsBack(e)'
  BY <1>0, <1>1, <1>3 DEF PInv, VaultInv, PutsBack
<1>5. VaultInv(e)'
  BY <1>0, <1>1, <1>4 DEF PInv, VaultInv, Stays
<1> QED BY <1>0, <1>5, EditStays

LEMMA SaveProfileStays ==
  ASSUME NEW e, Sole(e), PInv(e), IInv, NEW p \in Procs, SaveProfile(p)
  PROVE  PInv(e)'
<1>1. PICK id \in Ids, type \in {"key", "pat"}, d \in BOOLEAN :
        Tool(p, id) /\ Stores(p, Saved(mem[p], id, type, d), id, KindOf(type))
  BY Zenon DEF SaveProfile
<1>2. TypeOK /\ mem[p] \in Documents /\ Doc(mem[p])
  BY Parts, StateType, DocType
<1>3. type \in Types /\ type # None /\ KindOf(type) \in Kinds
  BY KindOfType DEF Types
<1>4. PICK new : new = Saved(mem[p], id, type, d)
  OBVIOUS
<1>5. /\ new \in Documents /\ \A i \in Ids : i # id => new.profiles[i] = mem[p].profiles[i]
      /\ \A k \in Kinds : k # KindOf(type) => new.defaults[k] = mem[p].defaults[k]
      /\ new.profiles[id] = type
  <2>1. /\ Saved(mem[p], id, type, d) \in Documents
        /\ Saved(mem[p], id, type, d).profiles = [mem[p].profiles EXCEPT ![id] = type]
        /\ Saved(mem[p], id, type, d).defaults =
             IF d THEN [mem[p].defaults EXCEPT ![KindOf(type)] = id] ELSE mem[p].defaults
    BY <1>2, <1>3, SavedType
  <2>2. new.profiles[id] = type
    BY <1>2, <1>4, <2>1 DEF Doc
  <2> QED BY <1>2, <1>3, <1>4, <2>2, SaveChange
<1>6. Persisted(p, new) \/ PersistFails(p, new, id, KindOf(type))
  BY <1>1, <1>4 DEF Stores
<1>7. \/ mem'[p] = new /\ file' = new /\ faults' = faults
      \/ mem'[p] = mem[p] /\ file' = file /\ faults \subseteq faults'
  BY <1>2, <1>3, <1>5, <1>6, StoresOutcome
<1>8. \A i \in Ids : new.profiles[i] = "password" => mem[p].profiles[i] = "password"
  BY <1>5
<1> QED BY <1>1, <1>7, <1>8, ToolStays

LEMMA DeleteProfileStays ==
  ASSUME NEW e, Sole(e), PInv(e), IInv, NEW p \in Procs, DeleteProfile(p)
  PROVE  PInv(e)'
<1>1. PICK id \in Ids :
        /\ mem[p].profiles[id] # None /\ Tool(p, id)
        /\ Stores(p, Deleted(mem[p], id), id, KindOf(mem[p].profiles[id]))
  BY DEF DeleteProfile
<1>2. TypeOK /\ mem[p] \in Documents /\ Doc(mem[p]) /\ None \notin Types
  BY Parts, StateType, DocType, CredentialsAssumption
<1>3. PICK new, kind : new = Deleted(mem[p], id) /\ kind = KindOf(mem[p].profiles[id])
  OBVIOUS
<1>4. /\ new \in Documents /\ kind \in Kinds
      /\ \A i \in Ids : i # id => new.profiles[i] = mem[p].profiles[i]
      /\ \A k \in Kinds : k # kind => new.defaults[k] = mem[p].defaults[k]
  BY <1>1, <1>2, <1>3, DeleteChange
<1>5. new.profiles[id] = None
  <2>1. Deleted(mem[p], id).profiles = [mem[p].profiles EXCEPT ![id] = None]
    BY <1>1, <1>2, DeletedType
  <2> QED BY <1>2, <1>3, <2>1 DEF Doc
<1>6. Persisted(p, new) \/ PersistFails(p, new, id, kind)
  BY <1>1, <1>3 DEF Stores
<1>7. \/ mem'[p] = new /\ file' = new /\ faults' = faults
      \/ mem'[p] = mem[p] /\ file' = file /\ faults \subseteq faults'
  BY <1>2, <1>4, <1>6, StoresOutcome
<1>8. \A i \in Ids : new.profiles[i] = "password" => mem[p].profiles[i] = "password"
  BY <1>2, <1>4, <1>5 DEF Types
<1> QED BY <1>1, <1>7, <1>8, ToolStays

LEMMA SetDefaultStays ==
  ASSUME NEW e, Sole(e), PInv(e), IInv, NEW p \in Procs, SetDefault(p)
  PROVE  PInv(e)'
<1> DEFINE kind(id) == KindOf(mem[p].profiles[id])
           new(id) == [mem[p] EXCEPT !.defaults[kind(id)] = id]
<1>1. PICK id \in Ids : kind(id) # None /\ Tool(p, id) /\ Stores(p, new(id), id, kind(id))
  BY DEF SetDefault
<1>2. TypeOK /\ mem[p] \in Documents /\ Doc(mem[p])
  BY Parts, StateType, DocType
<1>3. mem[p].profiles[id] \in Types
  BY <1>1, <1>2, KindOfType DEF Doc
<1>4. kind(id) \in Kinds
  BY <1>3, KindOfType
<1>5. PICK k, n : /\ k \in Kinds /\ k = kind(id) /\ n = new(id)
                  /\ n = [mem[p] EXCEPT !.defaults[k] = id]
  BY <1>4
<1>6. Stores(p, n, id, k)
  BY <1>1, <1>5, Zenon
<1> HIDE DEF kind, new
<1>7. /\ n \in Documents /\ n.profiles = mem[p].profiles
      /\ n.defaults = [mem[p].defaults EXCEPT ![k] = id]
  BY <1>2, <1>5, DefaultChange
<1>8. /\ \A i \in Ids : i # id => n.profiles[i] = mem[p].profiles[i]
      /\ \A m \in Kinds : m # k => n.defaults[m] = mem[p].defaults[m]
  BY <1>2, <1>7 DEF Doc
<1>9. TypeOK /\ k \in Kinds /\ n \in Documents /\ (Persisted(p, n) \/ PersistFails(p, n, id, k))
  BY <1>2, <1>5, <1>6, <1>7 DEF Stores
<1>10. \/ mem'[p] = n /\ file' = n /\ faults' = faults
       \/ mem'[p] = mem[p] /\ file' = file /\ faults \subseteq faults'
  BY <1>8, <1>9, StoresOutcome
<1> QED BY <1>1, <1>7, <1>10, ToolStays

LEMMA ClearDefaultStays ==
  ASSUME NEW e, Sole(e), PInv(e), IInv, NEW p \in Procs, ClearDefault(p)
  PROVE  PInv(e)'
<1> DEFINE cleared(k) == [mem[p] EXCEPT !.defaults[k] = None]
<1>1. PICK kind \in Kinds :
        /\ mem[p].defaults[kind] # None /\ Tool(p, mem[p].defaults[kind])
        /\ Persisted(p, cleared(kind)) \/ ClearFails(p, cleared(kind), kind)
  BY DEF ClearDefault
<1>2. TypeOK /\ mem \in [Procs -> Documents] /\ mem[p] \in Documents
  BY Parts, StateType
<1>3. PICK id, new : id = mem[p].defaults[kind] /\ new = cleared(kind)
  OBVIOUS
<1>4. new.profiles = mem[p].profiles
  BY <1>2, <1>3, DefaultChange
<1>5. Tool(p, id) /\ (Persisted(p, new) \/ ClearFails(p, new, kind))
  BY <1>1, <1>3
<1> HIDE DEF cleared
<1>6. CASE Persisted(p, new)
  <2>1. mem'[p] = new /\ file' = new /\ faults' = faults
    BY <1>2, <1>6 DEF Persisted
  <2> QED BY <1>4, <1>5, <2>1, ToolStays
<1>7. CASE ClearFails(p, new, kind)
  <2>1. mem'[p].profiles = mem[p].profiles /\ file' = file /\ faults \subseteq faults'
    BY <1>2, <1>4, <1>7 DEF ClearFails, Fault
  <2> QED BY <1>5, <2>1, ToolStays
<1> QED BY <1>5, <1>6, <1>7
-----------------------------------------------------------------------------
(* The calls that await.  No other process than the editor has one.        *)
LEMMA EditorAt ==
  ASSUME NEW e, Sole(e), PInv(e), IInv, NEW p \in Procs, call[p].op # "none"
  PROVE  /\ p = e /\ e \in Procs /\ pc[e] = "ready" /\ call[e].id \in Ids /\ calls > 0 /\ calls \in Nat
         /\ PutsBack(e) /\ (\A id \in Ids \ unsure : Stays(e, id))
         /\ TypeOK /\ mem \in [Procs -> Documents] /\ call \in [Procs -> CallRecord]
         /\ call[e] \in CallRecord /\ vault \in [Ids -> Passwords \cup {None}]
<1>1. p = e
  BY NoCallType DEF PInv, EditorInv
<1>2. /\ TypeOK /\ call[p] \in CallRecord /\ call[p].id \in Ids /\ pc[p] = "ready" /\ calls > 0
  BY InFlight
<1>3. /\ mem \in [Procs -> Documents] /\ call \in [Procs -> CallRecord]
      /\ vault \in [Ids -> Passwords \cup {None}] /\ calls \in Nat
  BY <1>2, StateType
<1> QED BY <1>1, <1>2, <1>3 DEF PInv, VaultInv

(* The fields of a call after a step of it.                                *)
LEMMA StepFields ==
  ASSUME call \in [Procs -> CallRecord], NEW p \in Procs, NEW op, Step(p, op)
  PROVE  /\ call'[p].op = op /\ call'[p].id = call[p].id /\ call'[p].secret = call[p].secret
         /\ call'[p].previous = call[p].previous /\ call'[p].type = call[p].type
         /\ \A q \in Procs : q # p => call'[q] = call[q]
<1>1. call[p] \in CallRecord
  OBVIOUS
<1>2. call'[p] = [call[p] EXCEPT !.op = op] /\ \A q \in Procs : q # p => call'[q] = call[q]
  BY DEF Step
<1> QED BY <1>1, <1>2 DEF CallRecord

LEMMA ReturnFields ==
  ASSUME call \in [Procs -> CallRecord], NEW p \in Procs, Return(p)
  PROVE  call'[p] = NoCall /\ \A q \in Procs : q # p => call'[q] = call[q]
  BY DEF Return

LEMMA ReturnPutsBack ==
  ASSUME NEW e, call'[e] = NoCall
  PROVE  PutsBack(e)'
  BY NoCallType DEF PutsBack

(* A step of the editor's call changes one profile and one secret.         *)
LEMMA CallStays ==
  ASSUME NEW e, Sole(e), PInv(e), IInv, call[e].op # "none", NEW id, id = call[e].id,
         UNCHANGED <<source, marker, lock, pc, work, calls>>,
         faults \subseteq faults', unsure \subseteq unsure',
         \A q \in Procs : q # e => call'[q] = call[q],
         call'[e] = NoCall \/ call'[e].id = id,
         \/ file'.profiles = mem'[e].profiles
         \/ file' = file /\ mem'[e].profiles = mem[e].profiles,
         \A i \in Ids : i # id => vault'[i] = vault[i] /\ mem'[e].profiles[i] = mem[e].profiles[i],
         PutsBack(e)',
         id \notin unsure' /\ (call'[e] = NoCall \/ call'[e].op \in {"read", "probe", "pin"})
           => (mem'[e].profiles[id] = "password" => vault'[id] # None)
  PROVE  PInv(e)'
<1>0. e \in Procs
  BY DEF Sole
<1>1. /\ pc[e] = "ready" /\ id \in Ids /\ calls > 0 /\ calls \in Nat
      /\ \A i \in Ids \ unsure : Stays(e, i)
  BY <1>0, EditorAt
<1>2. ASSUME NEW i \in Ids \ unsure' PROVE Stays(e, i)'
  <2>1. CASE i # id
    BY <1>1, <2>1 DEF Stays
  <2>2. CASE i = id
    BY <2>2 DEF Stays
  <2> QED BY <2>1, <2>2
<1>3. VaultInv(e)'
  BY <1>2 DEF VaultInv
<1> QED BY <1>1, <1>3, EditStays

LEMMA QuietStays ==
  ASSUME NEW e, Sole(e), PInv(e), IInv, call[e].op # "none", NEW id, id = call[e].id,
         UNCHANGED quiet, faults \subseteq faults', unsure \subseteq unsure',
         \A q \in Procs : q # e => call'[q] = call[q],
         call'[e] = NoCall \/ call'[e].id = id,
         \A i \in Ids : i # id => vault'[i] = vault[i],
         PutsBack(e)',
         id \notin unsure' /\ (call'[e] = NoCall \/ call'[e].op \in {"read", "probe", "pin"})
           => (mem[e].profiles[id] = "password" => vault'[id] # None)
  PROVE  PInv(e)'
<1>1. UNCHANGED <<source, marker, lock, file, pc, work, mem, calls>>
  BY DEF quiet, disk
<1> QED BY <1>1, CallStays

(* A call begins where none was in flight, so every password is there.     *)
LEMMA BeginStays ==
  ASSUME NEW e, Sole(e), PInv(e), IInv, NEW p \in Procs, NEW op \in Ops \ {"none"}, NEW id \in Ids,
         NEW secret, NEW d, Begin(p, op, id, secret, d),
         op \in {"read", "probe", "store", "storeToken", "eraseToken"},
         op = "store" => secret # None,
         op \in {"store", "storeToken", "eraseToken"} => mem[p].profiles[id] # "password"
  PROVE  PInv(e)'
<1>0. /\ p = e /\ e \in Procs /\ pc[e] = "ready" /\ call[e] = NoCall /\ calls' = calls + 1
      /\ call' = [call EXCEPT ![e] = [op |-> op, id |-> id, secret |-> secret, default |-> d,
                                      previous |-> None, type |-> mem[e].profiles[id]]]
      /\ UNCHANGED <<source, marker, lock, file, vault, pc, work, mem, unsure, faults>>
  BY DEF Begin, Sole, disk
<1>1. TypeOK /\ calls \in Nat /\ call \in [Procs -> CallRecord] /\ None \notin Ids
  BY Parts, StateType, CredentialsAssumption
<1>2. \A i \in Ids \ unsure : mem[e].profiles[i] = "password" => vault[i] # None
  <2>1. call[e].id = None
    BY <1>0 DEF NoCall
  <2> QED BY <1>0, <1>1, <2>1 DEF PInv, VaultInv, Stays
<1>3. /\ call'[e].op = op /\ call'[e].id = id /\ call'[e].secret = secret /\ call'[e].previous = None
      /\ call'[e].type = mem[e].profiles[id]
      /\ \A q \in Procs : q # e => call'[q] = call[q]
  BY <1>0, <1>1
<1>4. PutsBack(e)'
  BY <1>0, <1>2, <1>3 DEF PutsBack
<1>5. VaultInv(e)'
  BY <1>0, <1>2, <1>4 DEF VaultInv, Stays
<1>6. calls' \in Nat /\ calls' > 0
  BY <1>0, <1>1
<1> QED BY <1>0, <1>3, <1>5, <1>6, EditStays

LEMMA BeginsStay ==
  ASSUME NEW e, Sole(e), PInv(e), IInv, NEW p \in Procs,
         \/ PasswordSave(p) \/ PasswordDelete(p) \/ TokenSave(p) \/ TokenDelete(p) \/ MigrateHostKey(p)
  PROVE  PInv(e)'
<1>0. {"read", "probe", "store", "storeToken", "eraseToken"} \subseteq Ops \ {"none"} /\ None \notin Passwords
  BY CredentialsAssumption DEF Ops
<1>1. CASE PasswordSave(p)
  <2>1. PICK id \in Ids, s \in Passwords, d \in BOOLEAN :
          Begin(p, IF mem[p].profiles[id] = "password" THEN "read" ELSE "store", id, s, d)
    BY <1>1, Zenon DEF PasswordSave
  <2>2. PICK op : op = IF mem[p].profiles[id] = "password" THEN "read" ELSE "store"
    OBVIOUS
  <2>3. Begin(p, op, id, s, d)
    BY <2>1, <2>2
  <2>4. op \in {"read", "store"} /\ (op = "store" => mem[p].profiles[id] # "password") /\ s # None
    BY <1>0, <2>2
  <2> QED BY <1>0, <2>3, <2>4, BeginStays
<1>2. CASE TokenSave(p)
  <2>1. PICK id \in Ids, s \in Passwords, d \in BOOLEAN :
          mem[p].profiles[id] \in {"pat", None} /\ Begin(p, "storeToken", id, s, d)
    BY <1>2, Zenon DEF TokenSave
  <2>2. mem[p].profiles[id] # "password"
    BY <2>1, CredentialsAssumption DEF Types
  <2> QED BY <1>0, <2>1, <2>2, BeginStays
<1>3. CASE PasswordDelete(p) \/ TokenDelete(p) \/ MigrateHostKey(p)
  <2>1. PICK op \in {"read", "eraseToken", "probe"}, id \in Ids :
          Begin(p, op, id, None, FALSE) /\ (op = "eraseToken" => mem[p].profiles[id] = "pat")
    BY <1>3 DEF PasswordDelete, TokenDelete, MigrateHostKey
  <2> QED BY <1>0, <2>1, BeginStays
<1> QED BY <1>1, <1>2, <1>3

(* A command of the helper had its effect, or the profile is unsure.       *)
LEMMA HelperOutcome ==
  ASSUME vault \in [Ids -> Passwords \cup {None}], NEW id \in Ids, NEW value, NEW outcomes
  PROVE  /\ Helper(id, value) => /\ vault'[id] = value /\ unsure' = unsure /\ faults' = faults
                                 /\ \A i \in Ids : i # id => vault'[i] = vault[i]
         /\ HelperFails(id, outcomes) => /\ id \in unsure' /\ unsure \subseteq unsure' /\ faults \subseteq faults'
                                         /\ \A i \in Ids : i # id => vault'[i] = vault[i]
<1>1. ASSUME Helper(id, value)
      PROVE  /\ vault'[id] = value /\ unsure' = unsure /\ faults' = faults
             /\ \A i \in Ids : i # id => vault'[i] = vault[i]
  BY <1>1 DEF Helper
<1>2. ASSUME HelperFails(id, outcomes)
      PROVE  /\ id \in unsure' /\ unsure \subseteq unsure' /\ faults \subseteq faults'
             /\ \A i \in Ids : i # id => vault'[i] = vault[i]
  BY <1>2 DEF HelperFails, Fault
<1> QED BY <1>1, <1>2

LEMMA ProbeStays ==
  ASSUME NEW e, Sole(e), PInv(e), IInv, NEW p \in Procs, Probe(p)
  PROVE  PInv(e)'
<1>0. /\ call[p].op = "probe" /\ (Step(p, "pin") \/ Return(p)) /\ UNCHANGED <<quiet, vault, unsure, faults>>
  BY DEF Probe
<1>1. /\ p = e /\ e \in Procs /\ call[e].id \in Ids /\ PutsBack(e) /\ call \in [Procs -> CallRecord]
      /\ \A i \in Ids \ unsure : Stays(e, i)
  BY <1>0, EditorAt
<1>2. PICK id : id = call[e].id
  OBVIOUS
<1>3. id \notin unsure => (mem[e].profiles[id] = "password" => vault[id] # None)
  BY <1>0, <1>1, <1>2 DEF Stays
<1>4. UNCHANGED <<vault, unsure, faults, mem>> /\ UNCHANGED quiet
  BY <1>0 DEF quiet
<1>5. CASE Step(p, "pin")
  <2>1. /\ call'[e].op = "pin" /\ call'[e].id = id /\ call'[e].type = call[e].type
        /\ \A q \in Procs : q # e => call'[q] = call[q]
    BY <1>1, <1>2, <1>5, StepFields
  <2>2. PutsBack(e)'
    BY <1>0, <1>1, <1>2, <1>4, <2>1 DEF PutsBack
  <2> QED BY <1>0, <1>1, <1>2, <1>3, <1>4, <2>1, <2>2, QuietStays
<1>6. CASE Return(p)
  <2>1. call'[e] = NoCall /\ \A q \in Procs : q # e => call'[q] = call[q]
    BY <1>1, <1>6, ReturnFields
  <2>2. PutsBack(e)'
    BY <2>1, ReturnPutsBack
  <2> QED BY <1>0, <1>1, <1>2, <1>3, <1>4, <2>1, <2>2, QuietStays
<1> QED BY <1>0, <1>5, <1>6

LEMMA ReadPreviousStays ==
  ASSUME NEW e, Sole(e), PInv(e), IInv, NEW p \in Procs, ReadPrevious(p)
  PROVE  PInv(e)'
<1>0. call[p].op = "read" /\ UNCHANGED quiet
  BY DEF ReadPrevious
<1>1. /\ p = e /\ e \in Procs /\ call[e].id \in Ids /\ call \in [Procs -> CallRecord]
      /\ call[e] \in CallRecord /\ vault \in [Ids -> Passwords \cup {None}]
      /\ \A i \in Ids \ unsure : Stays(e, i)
  BY <1>0, EditorAt
<1>2. PICK id, next : id = call[e].id /\ next = IF call[e].secret = None THEN "erase" ELSE "store"
  OBVIOUS
<1>3. \/ /\ call' = [call EXCEPT ![e].op = next, ![e].previous = vault[id]]
         /\ UNCHANGED <<vault, unsure, faults>>
      \/ Step(e, next) /\ HelperFails(id, {vault[id]})
  BY <1>1, <1>2 DEF ReadPrevious
<1>4. id \notin unsure => (mem[e].profiles[id] = "password" => vault[id] # None)
  BY <1>0, <1>1, <1>2 DEF Stays
<1>5. next \in {"erase", "store"} /\ (next = "store" => call[e].secret # None)
  BY <1>2
<1>6. mem' = mem
  BY <1>0 DEF quiet
<1>7. CASE /\ call' = [call EXCEPT ![e].op = next, ![e].previous = vault[id]]
           /\ UNCHANGED <<vault, unsure, faults>>
  <2>1. call'[e] = [call[e] EXCEPT !.op = next, !.previous = vault[id]]
    BY <1>1, <1>7
  <2>2. /\ call'[e].op = next /\ call'[e].id = id /\ call'[e].secret = call[e].secret
        /\ call'[e].previous = vault[id]
    BY <1>1, <1>2, <2>1 DEF CallRecord
  <2>3. \A q \in Procs : q # e => call'[q] = call[q]
    BY <1>1, <1>7
  <2>4. PutsBack(e)'
    BY <1>4, <1>5, <1>6, <1>7, <2>2 DEF PutsBack
  <2> QED BY <1>0, <1>1, <1>2, <1>4, <1>7, <2>2, <2>3, <2>4, QuietStays
<1>8. CASE Step(e, next) /\ HelperFails(id, {vault[id]})
  <2>1. /\ call'[e].op = next /\ call'[e].id = id /\ call'[e].secret = call[e].secret
        /\ \A q \in Procs : q # e => call'[q] = call[q]
    BY <1>1, <1>2, <1>8, StepFields
  <2>2. /\ id \in unsure' /\ unsure \subseteq unsure' /\ faults \subseteq faults'
        /\ \A i \in Ids : i # id => vault'[i] = vault[i]
    BY <1>1, <1>2, <1>8, HelperOutcome
  <2>3. PutsBack(e)'
    BY <1>5, <2>1, <2>2 DEF PutsBack
  <2> QED BY <1>0, <1>1, <1>2, <2>1, <2>2, <2>3, QuietStays
<1> QED BY <1>3, <1>7, <1>8

(* A command that failed ends the call, and leaves its profile unsure.     *)
LEMMA FailureStays ==
  ASSUME NEW e, Sole(e), PInv(e), IInv, call[e].op # "none", UNCHANGED quiet,
         NEW outcomes, HelperFails(call[e].id, outcomes), Return(e)
  PROVE  PInv(e)'
<1>0. e \in Procs
  BY DEF Sole
<1>1. /\ call[e].id \in Ids /\ call \in [Procs -> CallRecord] /\ vault \in [Ids -> Passwords \cup {None}]
  BY <1>0, EditorAt
<1>2. PICK id : id = call[e].id
  OBVIOUS
<1>3. call'[e] = NoCall /\ \A q \in Procs : q # e => call'[q] = call[q]
  BY <1>0, <1>1, ReturnFields
<1>4. /\ id \in unsure' /\ unsure \subseteq unsure' /\ faults \subseteq faults'
      /\ \A i \in Ids : i # id => vault'[i] = vault[i]
  BY <1>1, <1>2, HelperOutcome
<1>5. PutsBack(e)'
  BY <1>3, ReturnPutsBack
<1> QED BY <1>2, <1>3, <1>4, <1>5, QuietStays

LEMMA StoreSecretStays ==
  ASSUME NEW e, Sole(e), PInv(e), IInv, NEW p \in Procs, StoreSecret(p)
  PROVE  PInv(e)'
<1>0. call[p].op \in {"store", "storeToken"} /\ UNCHANGED quiet
  BY DEF StoreSecret
<1>1. /\ p = e /\ e \in Procs /\ call[e].id \in Ids /\ call \in [Procs -> CallRecord]
      /\ vault \in [Ids -> Passwords \cup {None}] /\ PutsBack(e)
  BY <1>0, EditorAt
<1>2. PICK id, next : id = call[e].id /\ next = IF call[e].op = "store" THEN "profile" ELSE "token"
  OBVIOUS
<1>3. \/ Helper(id, call[e].secret) /\ Step(e, next)
      \/ HelperFails(id, {vault[id], call[e].secret, None}) /\ Return(e)
  BY <1>1, <1>2 DEF StoreSecret
<1>4. mem' = mem
  BY <1>0 DEF quiet
<1>5. CASE Helper(id, call[e].secret) /\ Step(e, next)
  <2>1. /\ call'[e].op = next /\ call'[e].id = id /\ call'[e].previous = call[e].previous
        /\ \A q \in Procs : q # e => call'[q] = call[q]
    BY <1>1, <1>2, <1>5, StepFields
  <2>2. /\ vault'[id] = call[e].secret /\ unsure' = unsure /\ faults' = faults
        /\ \A i \in Ids : i # id => vault'[i] = vault[i]
    BY <1>1, <1>2, <1>5, HelperOutcome
  <2>3. PutsBack(e)'
    <3>1. CASE call[e].op = "store"
      BY <1>1, <1>2, <1>4, <2>1, <2>2, <3>1 DEF PutsBack
    <3>2. CASE call[e].op = "storeToken"
      BY <1>1, <1>2, <1>4, <2>1, <2>2, <3>2 DEF PutsBack
    <3> QED BY <1>0, <1>1, <3>1, <3>2
  <2>4. next \notin {"read", "probe", "pin"} /\ next # "none"
    BY <1>2
  <2> QED BY <1>0, <1>1, <1>2, <2>1, <2>2, <2>3, <2>4, NoCallType, QuietStays
<1>6. CASE HelperFails(id, {vault[id], call[e].secret, None}) /\ Return(e)
  BY <1>0, <1>1, <1>2, <1>6, FailureStays
<1> QED BY <1>3, <1>5, <1>6

LEMMA EraseSecretStays ==
  ASSUME NEW e, Sole(e), PInv(e), IInv, NEW p \in Procs, EraseSecret(p)
  PROVE  PInv(e)'
<1>0. call[p].op \in {"erase", "eraseToken"} /\ UNCHANGED quiet
  BY DEF EraseSecret
<1>1. /\ p = e /\ e \in Procs /\ call[e].id \in Ids /\ call \in [Procs -> CallRecord]
      /\ vault \in [Ids -> Passwords \cup {None}] /\ PutsBack(e)
  BY <1>0, EditorAt
<1>2. PICK id, next : id = call[e].id /\ next = IF call[e].op = "erase" THEN "unprofile" ELSE "untoken"
  OBVIOUS
<1>3. \/ Helper(id, None) /\ Step(e, next)
      \/ HelperFails(id, {vault[id], None}) /\ Return(e)
  BY <1>1, <1>2 DEF EraseSecret
<1>4. mem' = mem
  BY <1>0 DEF quiet
<1>5. CASE Helper(id, None) /\ Step(e, next)
  <2>1. /\ call'[e].op = next /\ call'[e].id = id /\ call'[e].previous = call[e].previous
        /\ \A q \in Procs : q # e => call'[q] = call[q]
    BY <1>1, <1>2, <1>5, StepFields
  <2>2. /\ unsure' = unsure /\ faults' = faults
        /\ \A i \in Ids : i # id => vault'[i] = vault[i]
    BY <1>1, <1>2, <1>5, HelperOutcome
  <2>3. PutsBack(e)'
    <3>1. CASE call[e].op = "erase"
      BY <1>1, <1>2, <1>4, <2>1, <2>2, <3>1 DEF PutsBack
    <3>2. CASE call[e].op = "eraseToken"
      BY <1>1, <1>2, <1>4, <2>1, <2>2, <3>2 DEF PutsBack
    <3> QED BY <1>0, <1>1, <3>1, <3>2
  <2>4. next \notin {"read", "probe", "pin"} /\ next # "none"
    BY <1>2
  <2> QED BY <1>0, <1>1, <1>2, <2>1, <2>2, <2>3, <2>4, NoCallType, QuietStays
<1>6. CASE HelperFails(id, {vault[id], None}) /\ Return(e)
  BY <1>0, <1>1, <1>2, <1>6, FailureStays
<1> QED BY <1>3, <1>5, <1>6

LEMMA UndoSecretStays ==
  ASSUME NEW e, Sole(e), PInv(e), IInv, NEW p \in Procs, UndoSecret(p)
  PROVE  PInv(e)'
<1>0. call[p].op = "undo" /\ UNCHANGED quiet
  BY DEF UndoSecret
<1>1. /\ p = e /\ e \in Procs /\ call[e].id \in Ids /\ call \in [Procs -> CallRecord]
      /\ vault \in [Ids -> Passwords \cup {None}] /\ PutsBack(e)
  BY <1>0, EditorAt
<1>2. PICK id : id = call[e].id
  OBVIOUS
<1>3. /\ Helper(id, None) \/ HelperFails(id, {vault[id], None})
      /\ call[e].previous # None => Step(e, "restore")
      /\ call[e].previous = None => Return(e)
  BY <1>1, <1>2 DEF UndoSecret
<1>4. mem' = mem
  BY <1>0 DEF quiet
<1>5. /\ unsure \subseteq unsure' /\ faults \subseteq faults' /\ \A i \in Ids : i # id => vault'[i] = vault[i]
  BY <1>1, <1>2, <1>3, HelperOutcome
<1>6. id \notin unsure => (mem[e].profiles[id] = "password" => call[e].previous # None)
  BY <1>0, <1>1, <1>2 DEF PutsBack
<1>7. CASE call[e].previous # None
  <2>1. /\ call'[e].op = "restore" /\ call'[e].id = id /\ call'[e].previous = call[e].previous
        /\ \A q \in Procs : q # e => call'[q] = call[q]
    BY <1>1, <1>2, <1>3, <1>7, StepFields
  <2>2. PutsBack(e)'
    BY <1>7, <2>1 DEF PutsBack
  <2> QED BY <1>0, <1>1, <1>2, <1>5, <2>1, <2>2, NoCallType, QuietStays
<1>8. CASE call[e].previous = None
  <2>1. call'[e] = NoCall /\ \A q \in Procs : q # e => call'[q] = call[q]
    BY <1>1, <1>3, <1>8, ReturnFields
  <2>2. PutsBack(e)'
    BY <2>1, ReturnPutsBack
  <2>3. id \notin unsure' => mem[e].profiles[id] # "password"
    BY <1>5, <1>6, <1>8
  <2> QED BY <1>0, <1>1, <1>2, <1>5, <2>1, <2>2, <2>3, QuietStays
<1> QED BY <1>7, <1>8

LEMMA RestoreSecretStays ==
  ASSUME NEW e, Sole(e), PInv(e), IInv, NEW p \in Procs, RestoreSecret(p)
  PROVE  PInv(e)'
<1>0. call[p].op = "restore" /\ UNCHANGED quiet
  BY DEF RestoreSecret
<1>1. /\ p = e /\ e \in Procs /\ call[e].id \in Ids /\ call \in [Procs -> CallRecord]
      /\ vault \in [Ids -> Passwords \cup {None}] /\ PutsBack(e)
  BY <1>0, EditorAt
<1>2. PICK id : id = call[e].id
  OBVIOUS
<1>3. /\ Return(e)
      /\ Helper(id, call[e].previous) \/ HelperFails(id, {vault[id], call[e].previous, None})
  BY <1>1, <1>2 DEF RestoreSecret
<1>4. CASE Helper(id, call[e].previous)
  <2>1. call'[e] = NoCall /\ \A q \in Procs : q # e => call'[q] = call[q]
    BY <1>1, <1>3, ReturnFields
  <2>2. /\ vault'[id] = call[e].previous /\ unsure' = unsure /\ faults' = faults
        /\ \A i \in Ids : i # id => vault'[i] = vault[i]
    BY <1>1, <1>2, <1>4, HelperOutcome
  <2>3. PutsBack(e)'
    BY <2>1, ReturnPutsBack
  <2>4. vault'[id] # None
    BY <1>0, <1>1, <2>2 DEF PutsBack
  <2> QED BY <1>0, <1>1, <1>2, <2>1, <2>2, <2>3, <2>4, QuietStays
<1>5. CASE HelperFails(id, {vault[id], call[e].previous, None})
  BY <1>0, <1>1, <1>2, <1>3, <1>5, FailureStays
<1> QED BY <1>3, <1>4, <1>5

(* A call ends with the store changed and the document written ...         *)
LEMMA WrittenStays ==
  ASSUME NEW e, Sole(e), PInv(e), IInv, call[e].op # "none", NEW id, id = call[e].id, NEW new,
         UNCHANGED <<source, marker, lock, vault, pc, work, unsure, calls>>,
         mem'[e] = new, file' = new, faults \subseteq faults', Return(e),
         \A i \in Ids : i # id => new.profiles[i] = mem[e].profiles[i],
         id \notin unsure /\ new.profiles[id] = "password" => vault[id] # None
  PROVE  PInv(e)'
<1>0. e \in Procs
  BY DEF Sole
<1>1. call \in [Procs -> CallRecord]
  BY <1>0, EditorAt
<1>2. call'[e] = NoCall /\ \A q \in Procs : q # e => call'[q] = call[q]
  BY <1>0, <1>1, ReturnFields
<1>3. PutsBack(e)'
  BY <1>2, ReturnPutsBack
<1> QED BY <1>2, <1>3, CallStays

(* ... or throws, and then ends at once or puts the password back.         *)
LEMMA ThrownStays ==
  ASSUME NEW e, Sole(e), PInv(e), IInv, call[e].op # "none", NEW id, id = call[e].id,
         UNCHANGED <<source, marker, lock, vault, pc, work, unsure, calls>>,
         mem'[e] = mem[e], file' = file, faults \subseteq faults',
         \/ Return(e) /\ (id \notin unsure /\ mem[e].profiles[id] = "password" => vault[id] # None)
         \/ \E undo \in {"undo", "restore"} :
              /\ Step(e, undo) /\ (undo = "restore" => call[e].previous # None)
              /\ id \notin unsure /\ mem[e].profiles[id] = "password" => call[e].previous # None
  PROVE  PInv(e)'
<1>0. e \in Procs
  BY DEF Sole
<1>1. call \in [Procs -> CallRecord]
  BY <1>0, EditorAt
<1>2. CASE Return(e) /\ (id \notin unsure /\ mem[e].profiles[id] = "password" => vault[id] # None)
  <2>1. call'[e] = NoCall /\ \A q \in Procs : q # e => call'[q] = call[q]
    BY <1>0, <1>1, <1>2, ReturnFields
  <2>2. PutsBack(e)'
    BY <2>1, ReturnPutsBack
  <2> QED BY <1>2, <2>1, <2>2, CallStays
<1>3. ASSUME NEW undo \in {"undo", "restore"}, Step(e, undo), undo = "restore" => call[e].previous # None,
             id \notin unsure /\ mem[e].profiles[id] = "password" => call[e].previous # None
      PROVE  PInv(e)'
  <2>1. /\ call'[e].op = undo /\ call'[e].id = id /\ call'[e].previous = call[e].previous
        /\ \A q \in Procs : q # e => call'[q] = call[q]
    BY <1>0, <1>1, <1>3, StepFields
  <2>2. PutsBack(e)'
    BY <1>3, <2>1 DEF PutsBack
  <2>3. call'[e] # NoCall /\ call'[e].op \notin {"read", "probe", "pin"}
    BY <2>1, NoCallType
  <2> QED BY <2>1, <2>2, <2>3, CallStays
<1> QED BY <1>2, <1>3

LEMMA PinHostKeyStays ==
  ASSUME NEW e, Sole(e), PInv(e), IInv, NEW p \in Procs, PinHostKey(p)
  PROVE  PInv(e)'
<1>0. call[p].op = "pin"
  BY DEF PinHostKey
<1>1. /\ p = e /\ e \in Procs /\ call[e].id \in Ids /\ call[e] \in CallRecord /\ TypeOK /\ PutsBack(e)
      /\ \A i \in Ids \ unsure : Stays(e, i)
  BY <1>0, EditorAt
<1>2. PICK id, type, new : id = call[e].id /\ type = call[e].type /\ new = Saved(mem[e], id, type, FALSE)
  OBVIOUS
<1>3. /\ Return(e) /\ Stores(e, new, id, "ssh") /\ id \in Ids /\ type \in Types \cup {None} /\ "ssh" \in Kinds
      /\ UNCHANGED <<source, marker, lock, vault, pc, work, unsure, calls>>
  BY <1>1, <1>2 DEF PinHostKey, CallRecord, Kinds
<1>4. /\ new \in Documents
      /\ \A i \in Ids : i # id => new.profiles[i] = mem[e].profiles[i]
      /\ \A k \in Kinds : k # "ssh" => new.defaults[k] = mem[e].defaults[k]
  <2>1. /\ Saved(mem[e], id, type, FALSE) \in Documents
        /\ \A i \in Ids : i # id => Saved(mem[e], id, type, FALSE).profiles[i] = mem[e].profiles[i]
        /\ Saved(mem[e], id, type, FALSE).defaults = mem[e].defaults
    BY <1>1, <1>3, PinChange
  <2>2. new = Saved(mem[e], id, type, FALSE)
    BY <1>2
  <2> QED BY <2>1, <2>2, Zenon
<1>5. new.profiles[id] = type
  <2>1. mem[e] \in Documents /\ Doc(mem[e])
    BY <1>1, StateType, DocType
  <2>2. PICK P : P = [mem[e].profiles EXCEPT ![id] = type]
    OBVIOUS
  <2>3. new = [profiles |-> P, defaults |-> mem[e].defaults]
    BY <1>2, <2>2 DEF Saved
  <2>4. P[id] = type
    BY <1>3, <2>1, <2>2 DEF Doc
  <2> QED BY <2>3, <2>4
<1>6. /\ id \notin unsure /\ type = "password" => vault[id] # None
      /\ id \notin unsure /\ mem[e].profiles[id] = "password" => vault[id] # None
  BY <1>0, <1>1, <1>2, <1>3 DEF PutsBack, Stays
<1>7. CASE Persisted(e, new)
  <2>1. mem'[e] = new /\ file' = new /\ faults' = faults
    BY <1>1, <1>3, <1>4, <1>7, StoresOutcome
  <2>2. id \notin unsure /\ new.profiles[id] = "password" => vault[id] # None
    BY <1>5, <1>6
  <2>3. /\ call[e].op # "none" /\ id = call[e].id /\ Return(e) /\ faults \subseteq faults'
        /\ UNCHANGED <<source, marker, lock, vault, pc, work, unsure, calls>>
    BY <1>0, <1>1, <1>2, <1>3, <2>1
  <2> QED BY <1>4, <2>1, <2>2, <2>3, WrittenStays
<1>8. CASE PersistFails(e, new, id, "ssh")
  <2>1. mem'[e] = mem[e] /\ file' = file /\ faults \subseteq faults'
    BY <1>1, <1>3, <1>4, <1>8, StoresOutcome
  <2> QED BY <1>0, <1>1, <1>2, <1>3, <1>6, <2>1, ThrownStays
<1> QED BY <1>3, <1>7, <1>8 DEF Stores

LEMMA ChangeProfileStays ==
  ASSUME NEW e, Sole(e), PInv(e), IInv, NEW p \in Procs, ChangeProfile(p)
  PROVE  PInv(e)'
<1>0. call[p].op \in {"profile", "token", "unprofile", "untoken"}
  BY DEF ChangeProfile
<1>1. /\ p = e /\ e \in Procs /\ call[e].id \in Ids /\ call[e] \in CallRecord /\ TypeOK /\ PutsBack(e)
      /\ mem \in [Procs -> Documents]
  BY <1>0, EditorAt
<1>2. PICK op, id, type, undo :
        /\ op = call[e].op /\ id = call[e].id /\ type = IF op = "profile" THEN "password" ELSE "pat"
        /\ undo = CASE op = "profile" -> "undo"
                    [] op = "unprofile" /\ call[e].previous # None -> "restore"
                    [] OTHER -> "none"
  BY Zenon
<1> DEFINE Throw == IF undo = "none" THEN Return(e) ELSE Step(e, undo)
           Write(new, kind) == \/ Persisted(e, new) /\ Return(e)
                               \/ PersistFails(e, new, id, kind) /\ Throw
<1>3. /\ \/ /\ op \in {"profile", "token"}
            /\ Write(Saved(mem[e], id, type, call[e].default), KindOf(type))
         \/ /\ op \in {"unprofile", "untoken"} /\ mem[e].profiles[id] # None
            /\ Write(Deleted(mem[e], id), KindOf(mem[e].profiles[id]))
         \/ /\ op \in {"unprofile", "untoken"} /\ mem[e].profiles[id] = None
            /\ Throw /\ UNCHANGED <<mem, file, stored, faults>>
      /\ UNCHANGED <<source, marker, lock, vault, pc, work, touched, unsure, calls>>
  BY <1>1, <1>2, Zenon DEF ChangeProfile
<1>4. /\ op = "profile" => undo = "undo" /\ type = "password"
      /\ op # "profile" => type = "pat" /\ undo \in {"restore", "none"}
      /\ undo = "restore" => call[e].previous # None
      /\ undo = "none" => op \in {"token", "untoken"} \/ (op = "unprofile" /\ call[e].previous = None)
  BY <1>0, <1>1, <1>2
<1>5. /\ op = "profile" /\ id \notin unsure => vault[id] # None
      /\ op \in {"profile", "unprofile"} /\ id \notin unsure =>
           (mem[e].profiles[id] = "password" => call[e].previous # None)
      /\ op \in {"token", "untoken"} /\ id \notin unsure => mem[e].profiles[id] # "password"
  BY <1>1, <1>2 DEF PutsBack
<1>6. ASSUME Throw, mem'[e] = mem[e], file' = file, faults \subseteq faults' PROVE PInv(e)'
  <2>1. call[e].op # "none" /\ UNCHANGED <<source, marker, lock, vault, pc, work, unsure, calls>>
    BY <1>0, <1>1, <1>3
  <2>2. CASE undo = "none"
    <3>1. Return(e)
      BY <1>6, <2>2
    <3>2. id \notin unsure => mem[e].profiles[id] # "password"
      BY <1>4, <1>5, <2>2
    <3> QED BY <1>2, <1>6, <2>1, <3>1, <3>2, ThrownStays
  <2>3. CASE undo # "none"
    <3>1. Step(e, undo) /\ undo \in {"undo", "restore"}
      BY <1>4, <1>6, <2>3
    <3>2. id \notin unsure /\ mem[e].profiles[id] = "password" => call[e].previous # None
      BY <1>0, <1>1, <1>2, <1>5
    <3> QED BY <1>2, <1>4, <1>6, <2>1, <3>1, <3>2, ThrownStays
  <2> QED BY <2>2, <2>3
<1>7. ASSUME NEW new \in Documents, NEW kind \in Kinds, Write(new, kind),
             \A i \in Ids : i # id => new.profiles[i] = mem[e].profiles[i],
             \A k \in Kinds : k # kind => new.defaults[k] = mem[e].defaults[k],
             new.profiles[id] = "password" => op = "profile"
      PROVE  PInv(e)'
  <2>0. id \in Ids /\ call[e].op # "none" /\ UNCHANGED <<source, marker, lock, vault, pc, work, unsure, calls>>
    BY <1>0, <1>1, <1>2, <1>3
  <2>1. CASE Persisted(e, new) /\ Return(e)
    <3>1. mem'[e] = new /\ file' = new /\ faults' = faults
      BY <1>1, <1>7, <2>0, <2>1, StoresOutcome
    <3> QED BY <1>2, <1>5, <1>7, <2>0, <2>1, <3>1, WrittenStays
  <2>2. CASE PersistFails(e, new, id, kind) /\ Throw
    <3>1. mem'[e] = mem[e] /\ file' = file /\ faults \subseteq faults'
      BY <1>1, <1>7, <2>0, <2>2, StoresOutcome
    <3> QED BY <1>6, <2>2, <3>1
  <2> QED BY <1>7, <2>1, <2>2
<1> HIDE DEF Throw
<1>8. CASE op \in {"profile", "token"} /\ Write(Saved(mem[e], id, type, call[e].default), KindOf(type))
  <2>1. PICK new, kind, d : /\ new = Saved(mem[e], id, type, call[e].default) /\ kind = KindOf(type)
                            /\ d = call[e].default
    OBVIOUS
  <2>2. Write(new, kind) /\ new = Saved(mem[e], id, type, d) /\ d \in BOOLEAN
    BY <1>1, <1>8, <2>1, Zenon DEF CallRecord
  <2>3. type \in Types /\ type # None /\ kind \in Kinds /\ id \in Ids /\ mem[e] \in Documents /\ Doc(mem[e])
    BY <1>1, <1>2, <1>4, <2>1, KindOfType, DocType DEF Types
  <2> HIDE DEF Write
  <2>4. /\ new \in Documents
        /\ \A i \in Ids : i # id => new.profiles[i] = mem[e].profiles[i]
        /\ \A k \in Kinds : k # kind => new.defaults[k] = mem[e].defaults[k]
    BY <1>1, <2>1, <2>2, <2>3, SaveChange
  <2>5. new.profiles[id] = type
    <3>1. PICK P : P = [mem[e].profiles EXCEPT ![id] = type]
      OBVIOUS
    <3>2. new.profiles = P
      BY <2>2, <3>1 DEF Saved
    <3>3. P[id] = type
      BY <2>3, <3>1 DEF Doc
    <3> QED BY <3>2, <3>3
  <2>6. new.profiles[id] = "password" => op = "profile"
    BY <1>4, <2>5
  <2> QED BY <1>7, <2>2, <2>3, <2>4, <2>6
<1>9. CASE /\ op \in {"unprofile", "untoken"} /\ mem[e].profiles[id] # None
           /\ Write(Deleted(mem[e], id), KindOf(mem[e].profiles[id]))
  <2>1. PICK new, kind : new = Deleted(mem[e], id) /\ kind = KindOf(mem[e].profiles[id])
    OBVIOUS
  <2>2. Write(new, kind) /\ id \in Ids /\ mem[e] \in Documents /\ Doc(mem[e])
    BY <1>1, <1>2, <1>9, <2>1, DocType
  <2> HIDE DEF Write
  <2>3. /\ new \in Documents /\ kind \in Kinds
        /\ \A i \in Ids : i # id => new.profiles[i] = mem[e].profiles[i]
        /\ \A k \in Kinds : k # kind => new.defaults[k] = mem[e].defaults[k]
    BY <1>1, <1>9, <2>1, <2>2, DeleteChange
  <2>4. new.profiles[id] = None
    <3>1. Deleted(mem[e], id).profiles = [mem[e].profiles EXCEPT ![id] = None]
      BY <1>9, <2>2, DeletedType
    <3> QED BY <2>1, <2>2, <3>1 DEF Doc
  <2>5. new.profiles[id] # "password"
    BY <2>4, CredentialsAssumption DEF Types
  <2> QED BY <1>7, <2>2, <2>3, <2>5
<1>10. CASE Throw /\ UNCHANGED <<mem, file, stored, faults>>
  BY <1>6, <1>10
<1> QED BY <1>3, <1>8, <1>9, <1>10
-----------------------------------------------------------------------------
LEMMA InitPInv ==
  ASSUME NEW e, Sole(e), Init
  PROVE  PInv(e)
<1>0. /\ e \in Procs /\ None \notin Passwords \cup Procs /\ Dead # None
  BY CredentialsAssumption DEF Sole
<1>1. /\ Importable /\ file = Canonical /\ lock.by = None /\ unsure = {} /\ calls = 0
      /\ \A p \in Procs : pc[p] = "start" /\ call[p] = NoCall
  BY DEF Init, Importable, NoLock
<1>2. \A i \in Ids : Legacy.profiles[i] = "password" \/ Canonical.profiles[i] = "password" => vault[i] # None
  <2>1. PICK s \in Passwords :
          vault = [i \in Ids |-> IF Legacy.profiles[i] = "password" \/ Canonical.profiles[i] = "password"
                                 THEN s ELSE None]
    BY DEF Init
  <2> QED BY <1>0, <2>1
<1>3. EditorInv(e)
  BY <1>0, <1>1 DEF EditorInv, Exclusive, Migrating
<1>4. LoadInv(e)
  BY <1>1, <1>2 DEF LoadInv, Backed
<1>5. VaultInv(e)
  BY <1>0, <1>1 DEF VaultInv
<1> QED BY <1>3, <1>4, <1>5 DEF PInv

LEMMA NextPInv ==
  ASSUME NEW e, Sole(e), PInv(e), IInv, [Next]_vars
  PROVE  PInv(e)'
<1>1. CASE Age
  BY <1>1, AgeStays
<1>2. ASSUME NEW p \in Procs, Migrate(p) \/ Crash(p) \/ Restart(p)
      PROVE  PInv(e)'
  BY <1>2, PlainStays, MergeStays, WriteStays, LoadVault, CrashStays DEF Migrate
<1>3. ASSUME NEW p \in Procs, Edit(p)
      PROVE  PInv(e)'
  BY <1>3, SaveProfileStays, DeleteProfileStays, SetDefaultStays, ClearDefaultStays, BeginsStay, ProbeStays,
     ReadPreviousStays, StoreSecretStays, EraseSecretStays, UndoSecretStays, RestoreSecretStays,
     PinHostKeyStays, ChangeProfileStays DEF Edit
<1>4. CASE UNCHANGED vars
  <2>1. UNCHANGED <<source, marker, lock, file, vault, pc, work, mem, call, unsure, calls, faults>>
    BY <1>4 DEF vars, disk, history
  <2>2. EditorInv(e)'
    BY <2>1 DEF PInv, EditorInv, Exclusive, TakenOver, Importable
  <2>3. LoadInv(e)' /\ VaultInv(e)'
    BY <2>1 DEF PInv, LoadInv, Backed, VaultInv, PutsBack, Stays
  <2> QED BY <2>2, <2>3 DEF PInv
<1> QED BY <1>1, <1>2, <1>3, <1>4 DEF Next

(* A password profile of the editor keeps its password once no call is at  *)
(* work on it: ssh_password_save and ssh_password_delete put it back when  *)
(* the write of the profile throws (SshPasswordProfileManager).  For one   *)
(* editor among any number of processes, any ids, passwords and documents, *)
(* and each kind of fault at most once.                                    *)
THEOREM PasswordsKept ==
  ASSUME NEW CONSTANT e, Sole(e)
  PROVE  Spec => []PasswordKept
<1>1. Init => PInv(e)
  BY InitPInv
<1>2. IInv /\ PInv(e) /\ [Next]_vars => PInv(e)'
  BY NextPInv
<1>3. PInv(e) => PasswordKept
  BY DEF PInv, VaultInv, Stays, PasswordKept, Sole
<1> QED BY <1>1, <1>2, <1>3, Invariant, PTL DEF Spec
=============================================================================
