---------------------------- MODULE Credentials ----------------------------
(***************************************************************************)
(* Credential profiles: CredentialProfileMigration, CredentialProfileStore,*)
(* SshPasswordProfileManager, GitCredentialManager and the credential      *)
(* tools of the MCP server.                                                *)
(*                                                                         *)
(* A process starts with the migration of the legacy document under a lock *)
(* file, then loads the document into a store of its own.  The editors     *)
(* change their store and write all of it; a secret goes through the git   *)
(* credential helper, one command and one await at a time.                 *)
(***************************************************************************)
EXTENDS Naturals, FiniteSets

CONSTANTS Procs, Editors,    \* processes, and those that call the credential tools
          Ids, Passwords,
          Canonical, Legacy, \* the documents on disk at first
          Faults,            \* kinds: "crash", "io" (a write throws), "helper" (git fails)
          MaxCalls,          \* bound: tool calls
          None, Dead         \* no value; holder of a lock whose process is gone

(* SSH with a key or agent, SSH with a password, GitHub. *)
Types == {"key", "password", "pat"}
Kinds == {"ssh", "github"}
KindOf(t) == IF t = "pat" THEN "github" ELSE IF t = None THEN None ELSE "ssh"
Documents == [profiles : [Ids -> Types \cup {None}], defaults : [Kinds -> Ids \cup {None}]]

ASSUME CredentialsAssumption ==
  /\ Editors \subseteq Procs /\ {Canonical, Legacy} \subseteq Documents
  /\ Faults \subseteq {"crash", "io", "helper"} /\ MaxCalls \in Nat
  /\ None \notin Ids \cup Passwords \cup Procs \cup Types \cup Kinds /\ Dead \notin Procs \cup {None}

VARIABLES source,  \* the legacy document has not been renamed
          marker,  \* the marker file lists it
          lock,    \* the lock file: its creator, and whether it is older than STALE_LOCK_MS
          file,    \* the canonical document
          vault,   \* what the credential helper stores
          pc, work, \* of each process: its step, and the merged document it is about to write
          mem,     \* of each process: its CredentialProfileStore
          call,    \* of each process: the tool call in flight
          stored,  \* of each process: the document it last read or wrote
          touched, \* ids that some tool call has saved or deleted
          unsure,  \* ids of a call that a crash cut off or a helper failed
          calls, faults

disk == <<source, marker, lock, file>>
history == <<stored, touched, unsure>>
vars == <<disk, vault, pc, work, mem, call, history, calls, faults>>

NoCall == [op |-> "none", id |-> None, secret |-> None, default |-> FALSE, previous |-> None, type |-> None]
NoLock == [by |-> None, aged |-> FALSE]
Empty == [profiles |-> [i \in Ids |-> None], defaults |-> [k \in Kinds |-> None]]

(* Each kind of fault happens at most once. *)
Fault(kind) == kind \in Faults \ faults /\ faults' = faults \cup {kind}

(* validDefaults: the defaults of a document that name a profile of their kind. *)
validDefaults(defaults, profiles) ==
  [k \in Kinds |-> IF defaults[k] # None /\ KindOf(profiles[defaults[k]]) = k THEN defaults[k] ELSE None]

Init ==
  /\ source = TRUE /\ marker = FALSE /\ lock = NoLock /\ file = Canonical
  /\ vault \in {[i \in Ids |-> IF Legacy.profiles[i] = "password" \/ Canonical.profiles[i] = "password"
                               THEN s ELSE None] : s \in Passwords}
  /\ pc = [p \in Procs |-> "start"] /\ work = [p \in Procs |-> Empty]
  /\ mem = [p \in Procs |-> Empty] /\ stored = mem
  /\ call = [p \in Procs |-> NoCall]
  /\ touched = {} /\ unsure = {} /\ calls = 0 /\ faults = {}

Go(p, step) == pc' = [pc EXCEPT ![p] = step]

-----------------------------------------------------------------------------
(* acquireMigrationLock *)

Acquire(p) ==
  /\ pc[p] = "start" /\ lock = NoLock
  /\ lock' = [by |-> p, aged |-> FALSE] /\ Go(p, "merge")
  /\ UNCHANGED <<source, marker, file, vault, work, mem, call, history, calls, faults>>

(* The lock is busy until the deadline: the process ends with an error. *)
Busy(p) ==
  /\ pc[p] = "start" /\ lock # NoLock /\ Go(p, "failed")
  /\ UNCHANGED <<disk, vault, work, mem, call, history, calls, faults>>

(* retireStaleLock: the lock that is looked at ... *)
FindStale(p) ==
  /\ pc[p] = "start" /\ lock.by = Dead /\ lock.aged /\ Go(p, "retire")
  /\ UNCHANGED <<disk, vault, work, mem, call, history, calls, faults>>

(* ... and the lock that is renamed and removed. *)
RetireLock(p) ==
  /\ pc[p] = "retire" /\ lock' = NoLock /\ Go(p, "start")
  /\ UNCHANGED <<source, marker, file, vault, work, mem, call, history, calls, faults>>

(* Five minutes pass since a process died with the lock. *)
Age ==
  /\ lock.by = Dead /\ ~lock.aged /\ lock' = [lock EXCEPT !.aged = TRUE]
  /\ UNCHANGED <<source, marker, file, vault, pc, work, mem, call, history, calls, faults>>

(* The lock is removed only by the process that made it. *)
Unlocked(p) == IF lock.by = p THEN NoLock ELSE lock

-----------------------------------------------------------------------------
(* migrateRunBeaconCredentialProfiles *)

(* Legacy profiles and defaults fill the gaps of the canonical ones. *)
Merged(document) ==
  LET profiles == [i \in Ids |-> IF document.profiles[i] # None THEN document.profiles[i]
                                                                ELSE Legacy.profiles[i]]
      mine   == validDefaults(document.defaults, document.profiles)
      theirs == validDefaults(Legacy.defaults, profiles)
  IN  [profiles |-> profiles, defaults |-> [k \in Kinds |-> IF mine[k] # None THEN mine[k] ELSE theirs[k]]]

(* A legacy document that can be read and is not in the marker file. *)
Importable == source /\ ~marker

(* Nothing is written if no profile is imported, also when a default is. *)
Merge(p) ==
  /\ pc[p] = "merge"
  /\ IF Importable
     THEN /\ work' = [work EXCEPT ![p] = Merged(file)]
          /\ Go(p, IF Merged(file).profiles # file.profiles THEN "write" ELSE "mark")
     ELSE UNCHANGED work /\ Go(p, "release")
  /\ UNCHANGED <<disk, vault, mem, call, history, calls, faults>>

WriteMarkerOnly(p) ==
  /\ pc[p] = "write" /\ Go(p, "mark")
  /\ UNCHANGED <<disk, vault, work, mem, call, history, calls, faults>>

WriteCanonical(p) ==
  /\ pc[p] = "write"
  /\ \/ /\ Go(p, "mark") /\ UNCHANGED faults
        /\ file' = work[p]
     \/ Fault("io") /\ Go(p, "abort") /\ UNCHANGED file
  /\ UNCHANGED <<source, marker, lock, vault, work, mem, call, history, calls>>

WriteMarker(p) ==
  /\ pc[p] = "mark"
  /\ \/ marker' = TRUE /\ Go(p, "retireSource") /\ UNCHANGED faults
     \/ Fault("io") /\ Go(p, "abort") /\ UNCHANGED marker
  /\ UNCHANGED <<source, lock, file, vault, work, mem, call, history, calls>>

(* An error of the rename is ignored. *)
RetireSource(p) ==
  /\ pc[p] = "retireSource" /\ Go(p, "release")
  /\ \/ source' = FALSE /\ UNCHANGED faults
     \/ Fault("io") /\ UNCHANGED source
  /\ UNCHANGED <<marker, lock, file, vault, work, mem, call, history, calls>>

(* The finally clause, after which the store is created or the process ends. *)
Release(p) ==
  /\ pc[p] \in {"release", "abort"} /\ lock' = Unlocked(p)
  /\ Go(p, IF pc[p] = "release" THEN "load" ELSE "failed")
  /\ UNCHANGED <<source, marker, file, vault, work, mem, call, history, calls, faults>>

(* new CredentialProfileStore *)
Load(p) ==
  /\ pc[p] = "load" /\ Go(p, "ready")
  /\ mem' = [mem EXCEPT ![p] = [file EXCEPT !.defaults = validDefaults(@, file.profiles)]]
  /\ stored' = [stored EXCEPT ![p] = mem'[p]]
  /\ UNCHANGED <<disk, vault, work, call, touched, unsure, calls, faults>>

-----------------------------------------------------------------------------
(* CredentialProfileStore: every change is written as a whole document, and *)
(* undone in memory when the write throws.                                 *)

Saved(document, id, type, makeDefault) ==
  [profiles |-> [document.profiles EXCEPT ![id] = type],
   defaults |-> IF makeDefault THEN [document.defaults EXCEPT ![KindOf(type)] = id]
                               ELSE document.defaults]

Deleted(document, id) ==
  LET kind == KindOf(document.profiles[id]) IN
  [profiles |-> [document.profiles EXCEPT ![id] = None],
   defaults |-> [document.defaults EXCEPT ![kind] = IF @ = id THEN None ELSE @]]

RolledBackKeepingDefault(old, new, id, kind) ==
  [new EXCEPT !.profiles[id] = old.profiles[id]]

RolledBack(old, new, id, kind) ==
  [profiles |-> [new.profiles EXCEPT ![id] = old.profiles[id]],
   defaults |-> [new.defaults EXCEPT ![kind] = old.defaults[kind]]]

Persisted(p, new) ==
  /\ mem' = [mem EXCEPT ![p] = new] /\ file' = new
  /\ stored' = [stored EXCEPT ![p] = new] /\ UNCHANGED faults

PersistFails(p, new, id, kind) ==
  /\ Fault("io") /\ mem' = [mem EXCEPT ![p] = RolledBack(mem[p], new, id, kind)]
  /\ UNCHANGED <<file, stored>>

(* clearDefault puts back only a default that names a profile of its kind. *)
ClearFails(p, new, kind) ==
  LET id == mem[p].defaults[kind] IN
  /\ Fault("io") /\ UNCHANGED <<file, stored>>
  /\ mem' = [mem EXCEPT ![p] = IF KindOf(@.profiles[id]) = kind THEN @ ELSE new]

(* credential_profile_save, _delete, _set_default and _clear_default run    *)
(* without an await.                                                       *)
Tool(p, id) ==
  /\ pc[p] = "ready" /\ p \in Editors /\ calls < MaxCalls /\ calls' = calls + 1
  /\ touched' = touched \cup {id}
  /\ UNCHANGED <<source, marker, lock, vault, pc, work, call, unsure>>

Stores(p, new, id, kind) == Persisted(p, new) \/ PersistFails(p, new, id, kind)

SaveProfile(p) ==
  \E id \in Ids, type \in {"key", "pat"}, d \in BOOLEAN :
    Tool(p, id) /\ Stores(p, Saved(mem[p], id, type, d), id, KindOf(type))

DeleteProfile(p) ==
  \E id \in Ids : /\ mem[p].profiles[id] # None /\ Tool(p, id)
                  /\ Stores(p, Deleted(mem[p], id), id, KindOf(mem[p].profiles[id]))

SetDefault(p) ==
  \E id \in Ids : LET kind == KindOf(mem[p].profiles[id]) IN
    kind # None /\ Tool(p, id) /\ Stores(p, [mem[p] EXCEPT !.defaults[kind] = id], id, kind)

ClearDefault(p) ==
  \E kind \in Kinds : LET new == [mem[p] EXCEPT !.defaults[kind] = None] IN
    /\ mem[p].defaults[kind] # None /\ Tool(p, mem[p].defaults[kind])
    /\ Persisted(p, new) \/ ClearFails(p, new, kind)

-----------------------------------------------------------------------------
(* The credential helper: a command fails before or after it had its effect. *)
Helper(id, value) == vault' = [vault EXCEPT ![id] = value] /\ UNCHANGED <<faults, unsure>>

HelperFails(id, outcomes) ==
  /\ Fault("helper") /\ unsure' = unsure \cup {id}
  /\ \E value \in outcomes : vault' = [vault EXCEPT ![id] = value]

Step(p, step) == call' = [call EXCEPT ![p].op = step]
Return(p) == call' = [call EXCEPT ![p] = NoCall]

Begin(p, op, id, secret, makeDefault) ==
  /\ pc[p] = "ready" /\ p \in Editors /\ call[p] = NoCall /\ calls < MaxCalls
  /\ calls' = calls + 1 /\ touched' = touched \cup {id}
  /\ call' = [call EXCEPT ![p] = [op |-> op, id |-> id, secret |-> secret, default |-> makeDefault,
                                   previous |-> None, type |-> mem[p].profiles[id]]]
  /\ UNCHANGED <<disk, vault, pc, work, mem, stored, unsure, faults>>

(* ssh_password_save and ssh_password_delete look at the profile first. *)
PasswordSave(p) ==
  \E id \in Ids, s \in Passwords, d \in BOOLEAN :
    /\ mem[p].profiles[id] # "pat"
    /\ Begin(p, IF mem[p].profiles[id] = "password" THEN "read" ELSE "store", id, s, d)

PasswordDelete(p) == \E id \in Ids : mem[p].profiles[id] = "password" /\ Begin(p, "read", id, None, FALSE)

TokenSave(p) ==
  \E id \in Ids, s \in Passwords, d \in BOOLEAN :
    mem[p].profiles[id] \in {"pat", None} /\ Begin(p, "storeToken", id, s, d)

TokenDelete(p) == \E id \in Ids : mem[p].profiles[id] = "pat" /\ Begin(p, "eraseToken", id, None, FALSE)

(* runner_manage migrate-host-key reads the profile and probes the host. *)
MigrateHostKey(p) ==
  \E id \in Ids : KindOf(mem[p].profiles[id]) = "ssh" /\ Begin(p, "probe", id, None, FALSE)

quiet == <<disk, pc, work, mem, stored, touched, calls>>

(* probeSshHostKeyAlgorithm: an algorithm matches, or it throws. *)
Probe(p) ==
  /\ call[p].op = "probe" /\ (Step(p, "pin") \/ Return(p))
  /\ UNCHANGED <<quiet, vault, unsure, faults>>

(* The profile is saved as it was read before the probe, whatever became   *)
(* of it meanwhile.                                                        *)
PinHostKey(p) ==
  LET id  == call[p].id
      new == Saved(mem[p], id, call[p].type, FALSE)
  IN  /\ call[p].op = "pin" /\ Return(p)
      /\ Stores(p, new, id, "ssh")
      /\ UNCHANGED <<source, marker, lock, vault, pc, work, touched, unsure, calls>>

ReadPreviousForgotten(p) ==
  /\ call[p].op = "read" /\ Step(p, IF call[p].secret = None THEN "erase" ELSE "store")
  /\ UNCHANGED <<quiet, vault, unsure, faults>>

(* A read that fails is no password. *)
ReadPrevious(p) ==
  LET id == call[p].id
      next == IF call[p].secret = None THEN "erase" ELSE "store"
  IN  /\ call[p].op = "read"
      /\ \/ /\ call' = [call EXCEPT ![p].op = next, ![p].previous = vault[id]]
            /\ UNCHANGED <<vault, unsure, faults>>
         \/ Step(p, next) /\ HelperFails(id, {vault[id]})
      /\ UNCHANGED quiet

(* approve, then fill: a secret that cannot be read back is rejected. *)
StoreSecret(p) ==
  LET id == call[p].id IN
  /\ call[p].op \in {"store", "storeToken"}
  /\ \/ Helper(id, call[p].secret) /\ Step(p, IF call[p].op = "store" THEN "profile" ELSE "token")
     \/ HelperFails(id, {vault[id], call[p].secret, None}) /\ Return(p)
  /\ UNCHANGED quiet

EraseSecret(p) ==
  LET id == call[p].id IN
  /\ call[p].op \in {"erase", "eraseToken"}
  /\ \/ Helper(id, None) /\ Step(p, IF call[p].op = "erase" THEN "unprofile" ELSE "untoken")
     \/ HelperFails(id, {vault[id], None}) /\ Return(p)
  /\ UNCHANGED quiet

(* The store is changed.  If that throws, because of the write or because   *)
(* the profile is gone by now, a password is put back and a token is not.  *)
ChangeProfile(p) ==
  LET op   == call[p].op
      id   == call[p].id
      type == IF op = "profile" THEN "password" ELSE "pat"
      undo == CASE op = "profile" -> "undo"
                [] op = "unprofile" /\ call[p].previous # None -> "restore"
                [] OTHER -> "none"
      Throw == IF undo = "none" THEN Return(p) ELSE Step(p, undo)
      Write(new, kind) == \/ Persisted(p, new) /\ Return(p)
                          \/ PersistFails(p, new, id, kind) /\ Throw
  IN  /\ \/ /\ op \in {"profile", "token"}
            /\ Write(Saved(mem[p], id, type, call[p].default), KindOf(type))
         \/ /\ op \in {"unprofile", "untoken"} /\ mem[p].profiles[id] # None
            /\ Write(Deleted(mem[p], id), KindOf(mem[p].profiles[id]))
         \/ /\ op \in {"unprofile", "untoken"} /\ mem[p].profiles[id] = None
            /\ Throw /\ UNCHANGED <<mem, file, stored, faults>>
      /\ UNCHANGED <<source, marker, lock, vault, pc, work, touched, unsure, calls>>

(* Errors of the helper are ignored here. *)
UndoSecret(p) ==
  LET id == call[p].id IN
  /\ call[p].op = "undo"
  /\ Helper(id, None) \/ HelperFails(id, {vault[id], None})
  /\ IF call[p].previous # None THEN Step(p, "restore") ELSE Return(p)
  /\ UNCHANGED quiet

RestoreSecret(p) ==
  LET id == call[p].id IN
  /\ call[p].op = "restore" /\ Return(p)
  /\ Helper(id, call[p].previous) \/ HelperFails(id, {vault[id], call[p].previous, None})
  /\ UNCHANGED quiet

-----------------------------------------------------------------------------
Crash(p) ==
  /\ pc[p] \notin {"down", "failed"} /\ Fault("crash") /\ Go(p, "down")
  /\ lock' = IF lock.by = p THEN [lock EXCEPT !.by = Dead] ELSE lock
  /\ unsure' = IF call[p] = NoCall THEN unsure ELSE unsure \cup {call[p].id}
  /\ call' = [call EXCEPT ![p] = NoCall]
  /\ mem' = [mem EXCEPT ![p] = Empty] /\ stored' = [stored EXCEPT ![p] = Empty]
  /\ UNCHANGED <<source, marker, file, vault, work, touched, calls>>

Restart(p) ==
  /\ pc[p] \in {"down", "failed"} /\ Go(p, "start")
  /\ UNCHANGED <<disk, vault, work, mem, call, history, calls, faults>>

Migrate(p) ==
  \/ Acquire(p) \/ Busy(p) \/ FindStale(p) \/ RetireLock(p) \/ Merge(p) \/ WriteCanonical(p)
  \/ WriteMarker(p) \/ RetireSource(p) \/ Release(p) \/ Load(p)

Edit(p) ==
  \/ SaveProfile(p) \/ DeleteProfile(p) \/ SetDefault(p) \/ ClearDefault(p)
  \/ PasswordSave(p) \/ PasswordDelete(p) \/ TokenSave(p) \/ TokenDelete(p)
  \/ ReadPrevious(p) \/ StoreSecret(p) \/ EraseSecret(p) \/ ChangeProfile(p) \/ UndoSecret(p)
  \/ RestoreSecret(p) \/ MigrateHostKey(p) \/ Probe(p) \/ PinHostKey(p)

Next == Age \/ \E p \in Procs : Migrate(p) \/ Edit(p) \/ Crash(p) \/ Restart(p)

Spec == Init /\ [][Next]_vars

-----------------------------------------------------------------------------
TypeOK ==
  /\ {source, marker} \subseteq BOOLEAN
  /\ lock \in {NoLock} \cup [by : Procs \cup {Dead}, aged : BOOLEAN]
  /\ file \in Documents /\ vault \in [Ids -> Passwords \cup {None}]
  /\ pc \in [Procs -> {"start", "retire", "merge", "write", "mark", "retireSource", "release",
                       "abort", "load", "ready", "failed", "down"}]
  /\ {work, mem, stored} \subseteq [Procs -> Documents]
  /\ call \in [Procs -> [op : {"none", "read", "store", "storeToken", "erase", "eraseToken", "profile",
                              "token", "unprofile", "untoken", "undo", "restore", "probe", "pin"},
                        id : Ids \cup {None}, secret : Passwords \cup {None}, default : BOOLEAN,
                        previous : Passwords \cup {None}, type : Types \cup {None}]]
  /\ touched \subseteq Ids /\ unsure \subseteq Ids /\ calls \in 0..MaxCalls /\ faults \subseteq Faults

(* No legacy profile gets lost: until somebody changes it, it is in the    *)
(* canonical document or the next start still imports it, also when a      *)
(* migration is cut off between its writes or two run at once.  Canonical  *)
(* profiles and defaults win every conflict with the legacy ones.          *)
MigrationKeeps ==
  /\ \A id \in Ids \ touched :
       Legacy.profiles[id] # None => file.profiles[id] # None \/ Importable
  /\ \A id \in Ids \ touched :
       Canonical.profiles[id] # None => file.profiles[id] = Canonical.profiles[id]
  /\ calls = 0 => \A k \in Kinds :
       LET id == validDefaults(Canonical.defaults, Canonical.profiles)[k] IN
       id # None => file.defaults[k] = id

(* A write that throws leaves the store of a process as it was last read   *)
(* or written, the defaults that count included, for every tool and every  *)
(* call in flight.                                                         *)
MemoryIsStored ==
  /\ TypeOK
  /\ \A p \in Procs :
       /\ mem[p].profiles = stored[p].profiles
       /\ validDefaults(mem[p].defaults, mem[p].profiles)
            = validDefaults(stored[p].defaults, stored[p].profiles)

(* A password profile of the editor has its password, once no call is at   *)
(* work on it: a save or a deletion whose profile write throws puts the    *)
(* password back.                                                          *)
PasswordKept ==
  \A p \in Editors, id \in Ids \ unsure :
    pc[p] = "ready" /\ call[p].id # id /\ mem[p].profiles[id] = "password" => vault[id] # None

-----------------------------------------------------------------------------
(* Statements of the repository that the code does not keep: the README    *)
(* tells how.  They are not invariants.                                    *)

(* "The merge uses an exclusive lock": one process at a time migrates. *)
LockExclusive ==
  \A p, q \in Procs : p # q => ~({pc[p], pc[q]} \subseteq {"merge", "write", "mark", "retireSource", "release"})
=============================================================================
