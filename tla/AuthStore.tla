------------------------------- MODULE AuthStore -------------------------------
(***************************************************************************)
(* The file of credentials (crates/darius-core/src/auth_store.rs and       *)
(* auth_store/): processes read it and replace it under an advisory lock,  *)
(* one provider at a time, by way of a temporary file that is synced and   *)
(* renamed.  A process may die at any point, which drops its lock and      *)
(* leaves its temporary file behind; the power may fail, which undoes what *)
(* no sync has made lasting.                                               *)
(***************************************************************************)
EXTENDS Integers

CONSTANTS
  Processes,
  Providers,
  States,       \* what is stored of a provider
  MaxVersion    \* bound on the updates begun

VARIABLES
  file,    \* auth.json: its entries, its place among the updates, whether its bytes are synced
  disk,    \* the files one of which auth.json is after a power failure
  lock,    \* who holds the flock of auth.lock: {} or one process
  op,      \* what each process is doing
  acked    \* the latest update that was reported a success

vars == <<file, disk, lock, op, acked>>

Operation(at, kind, provider) ==
  [at |-> at, kind |-> kind, provider |-> provider, old |-> {}, new |-> {}, synced |-> FALSE]

Idle == Operation("idle", "none", "none")

\* No file is the same as one without entries.
Init ==
  /\ file = [entries |-> {}, version |-> 0, synced |-> TRUE]
  /\ disk = {file} /\ lock = {} /\ acked = 0
  /\ op = [p \in Processes |-> Idle]

-------------------------------------------------------------------------------
(* The lock.                                                                 *)

\* provider, or update_provider, which set_provider and remove_provider are.
Begin(p, kind, provider) ==
  /\ op[p].at = "idle" /\ file.version < MaxVersion
  /\ op' = [op EXCEPT ![p] = Operation("locking", kind, provider)]
  /\ UNCHANGED <<file, disk, lock, acked>>

Acquire(p) ==
  /\ op[p].at = "locking" /\ lock = {}
  /\ lock' = {p} /\ op' = [op EXCEPT ![p].at = "holding"]
  /\ UNCHANGED <<file, disk, acked>>

\* Ten seconds of waiting, or no lock file to wait for.
GiveUp(p) ==
  /\ op[p].at = "locking" /\ op' = [op EXCEPT ![p] = Idle]
  /\ UNCHANGED <<file, disk, lock, acked>>

\* The guard is dropped on every way out, and with it the temporary file.
Return(p) == lock' = lock \ {p} /\ op' = [op EXCEPT ![p] = Idle]

-------------------------------------------------------------------------------
(* Under the lock.                                                           *)

Read(p) ==
  /\ op[p].at = "holding" /\ op[p].kind = "get" /\ Return(p)
  /\ UNCHANGED <<file, disk, acked>>

Load(p) ==
  /\ op[p].at = "holding" /\ op[p].kind = "update"
  /\ op' = [op EXCEPT ![p].at = "loaded", ![p].old = file.entries]
  /\ UNCHANGED <<file, disk, lock, acked>>

Others(entries, provider) == {e \in entries : e.provider # provider}

\* The callback gives a state, or none to remove the provider; then the temporary
\* file is written.
Write(p, states) ==
  /\ op[p].at = "loaded"
  /\ op' = [op EXCEPT ![p].at = "written", ![p].new =
       Others(op[p].old, op[p].provider) \cup {[provider |-> op[p].provider, state |-> s] : s \in states}]
  /\ UNCHANGED <<file, disk, lock, acked>>

Sync(p) ==
  /\ op[p].at = "written"
  /\ op' = [op EXCEPT ![p].at = "synced", ![p].synced = TRUE]
  /\ UNCHANGED <<file, disk, lock, acked>>

\* From here on the update is what everybody reads.
Rename(p) ==
  /\ op[p].at = "synced"
  /\ file' = [entries |-> op[p].new, version |-> file.version + 1, synced |-> op[p].synced]
  /\ disk' = disk \cup {file'}
  /\ op' = [op EXCEPT ![p].at = "renamed"]
  /\ UNCHANGED <<lock, acked>>

SyncDirectory(p) ==
  /\ op[p].at = "renamed" /\ Return(p)
  /\ disk' = {file} /\ acked' = file.version /\ UNCHANGED file

\* An error of the file system, of the callback, or in what was read.  After the
\* rename it is reported although the update is there.
Fail(p) ==
  /\ op[p].at \in {"holding", "loaded", "written", "synced", "renamed"} /\ Return(p)
  /\ UNCHANGED <<file, disk, acked>>

-------------------------------------------------------------------------------
\* A process dies; its descriptors are closed.
Crash(p) ==
  /\ op[p].at # "idle" /\ Return(p)
  /\ UNCHANGED <<file, disk, acked>>

PowerFails ==
  /\ file' \in disk /\ disk' = {file'}
  /\ lock' = {} /\ op' = [p \in Processes |-> Idle]
  /\ UNCHANGED acked

Next ==
  \/ \E p \in Processes, kind \in {"get", "update"}, provider \in Providers : Begin(p, kind, provider)
  \/ \E p \in Processes :
       \/ Acquire(p) \/ GiveUp(p) \/ Read(p) \/ Load(p)
       \/ Sync(p) \/ Rename(p) \/ SyncDirectory(p) \/ Fail(p) \/ Crash(p)
  \/ \E p \in Processes, states \in {{}} \cup {{s} : s \in States} : Write(p, states)
  \/ PowerFails

Spec == Init /\ [][Next]_vars

-------------------------------------------------------------------------------
(* Properties.                                                               *)

Changing(p) == op[p].at \in {"loaded", "written", "synced"}

\* No update is lost to another process: what one replaces is what it read,
\* whoever died, gave up or failed before it (auth_store.rs update_provider, lock.rs).
NoUpdateIsLost == \A p \in Processes : Changing(p) => op[p].old = file.entries

\* What was reported a success is there after a crash and a power failure, whole
\* (atomic.rs replace).
SuccessLasts == file \in disk /\ \A d \in disk : d.synced /\ d.version >= acked

StoreIsSafe == NoUpdateIsLost /\ SuccessLasts

-------------------------------------------------------------------------------
(* The inductive invariant of StoreIsSafe: a process past the lock is the     *)
(* lock's only holder, and only such a process replaces the file.             *)

Held == {"holding", "loaded", "written", "synced", "renamed"}

StoredEntries == [provider : Providers \cup {"none"}, state : States]

Operations == [at : {"idle", "locking"} \cup Held, kind : {"none", "get", "update"},
               provider : Providers \cup {"none"}, old : SUBSET StoredEntries, new : SUBSET StoredEntries,
               synced : BOOLEAN]

Files == [entries : SUBSET StoredEntries, version : Int, synced : BOOLEAN]

TypeOK ==
  /\ file \in Files /\ disk \in SUBSET Files /\ lock \in SUBSET Processes
  /\ op \in [Processes -> Operations] /\ acked \in Int

HoldersHold == \A p \in Processes : op[p].at \in Held => lock = {p}

SyncedFirst == \A p \in Processes : op[p].at = "synced" => op[p].synced

IInv == TypeOK /\ HoldersHold /\ SyncedFirst /\ NoUpdateIsLost /\ SuccessLasts
===============================================================================
