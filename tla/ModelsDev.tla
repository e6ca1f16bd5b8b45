------------------------------- MODULE ModelsDev -------------------------------
(***************************************************************************)
(* The registry of context lengths (ModelsDev, crates/darius-daemon/src/   *)
(* model_catalog.rs): tasks of a process share a cache and a back-off      *)
(* behind a lock that is not held over the request; the processes share a  *)
(* cache file and a file with the ETag of its contents.                    *)
(***************************************************************************)
EXTENDS Integers

CONSTANTS
  Tasks,       \* callers in one process
  MaxVersion,  \* bound on the registries models.dev serves
  Ttl,         \* DISK_TTL
  RetryDelay,  \* RETRY_DELAY
  MaxTime      \* bound on the clock

VARIABLES
  served,    \* the version models.dev serves; its ETag is its number
  disk,      \* the version in the cache file, with the time it was served; or none
  etag,      \* the ETag on disk: 0 is none
  cache,     \* the process's copy, with the time it was put: {} or {entry}
  retry,     \* no request before this time
  task,      \* per task: where in registry, and the ETag it sends
  answer,    \* per task: the last registry given, or none
  now

vars == <<served, disk, etag, cache, retry, task, answer, now>>

None == {}
Idle == [at |-> "idle", etag |-> 0, since |-> 0]

Init ==
  /\ served = 1 /\ disk = None /\ etag = 0 /\ cache = None /\ retry = 0
  /\ task = [t \in Tasks |-> Idle] /\ answer = [t \in Tasks |-> None]
  /\ now = 0

Tick ==
  /\ now < MaxTime /\ now' = now + 1
  /\ UNCHANGED <<served, disk, etag, cache, retry, task, answer>>

ServerChanges ==
  /\ served < MaxVersion /\ served' = served + 1
  /\ UNCHANGED <<disk, etag, cache, retry, task, answer, now>>

Gives(t, registry) == answer' = [answer EXCEPT ![t] = registry]
Cached(registry) == {[registry |-> r, at |-> now] : r \in registry}

BackedOff == retry > now

\* registry, under the lock: the cache, else the file whatever its age, else
\* nothing while backed off, else a request.
Registry(t) ==
  /\ task[t] = Idle
  /\ \/ \E c \in cache : now - c.at < Ttl /\ Gives(t, {c.registry}) /\ UNCHANGED <<cache, task>>
     \/ /\ \A c \in cache : now - c.at >= Ttl
        /\ \/ disk # None /\ cache' = Cached(disk) /\ Gives(t, disk) /\ UNCHANGED task
           \/ disk = None /\ BackedOff /\ Gives(t, None) /\ UNCHANGED <<cache, task>>
           \/ /\ disk = None /\ ~BackedOff
              /\ task' = [task EXCEPT ![t] = [at |-> "asking", etag |-> etag, since |-> now]]
              /\ UNCHANGED <<cache, answer>>
  /\ UNCHANGED <<served, disk, etag, retry, now>>

\* What fetch made of the answer, under the lock again.
Settles(t, registry) ==
  /\ IF registry = None THEN retry' = now + RetryDelay /\ UNCHANGED cache
     ELSE cache' = Cached(registry) /\ UNCHANGED retry
  /\ Gives(t, registry)
  /\ task' = [task EXCEPT ![t] = Idle]

\* 304: the file is read again; what is not there any more is not asked for.
NotModified(t) ==
  /\ task[t].at = "asking" /\ task[t].etag = served
  /\ Settles(t, disk)
  /\ UNCHANGED <<served, disk, etag, now>>

Modified(t) ==
  /\ task[t].at = "asking" /\ task[t].etag # served
  /\ disk' = {[version |-> served, at |-> now]}
  /\ task' = [task EXCEPT ![t].at = "saving", ![t].etag = served]
  /\ UNCHANGED <<served, etag, cache, retry, answer, now>>

\* save_disk_cache: the ETag is a file of its own, written after the rename.
SaveEtag(t) ==
  /\ task[t].at = "saving"
  /\ etag' = task[t].etag
  /\ Settles(t, {[version |-> task[t].etag, at |-> now]})
  /\ UNCHANGED <<served, disk, now>>

Fails(t) ==
  /\ task[t].at = "asking"
  /\ Settles(t, None)
  /\ UNCHANGED <<served, disk, etag, now>>

\* The cache file is removed, or does not parse.
LoseFile ==
  /\ disk # None /\ disk' = None
  /\ UNCHANGED <<served, etag, cache, retry, task, answer, now>>

Restart ==
  /\ cache' = None /\ retry' = 0 /\ task' = [t \in Tasks |-> Idle]
  /\ answer' = [t \in Tasks |-> None]
  /\ UNCHANGED <<served, disk, etag, now>>

Next ==
  \/ Tick \/ ServerChanges \/ LoseFile \/ Restart
  \/ \E t \in Tasks : Registry(t) \/ NotModified(t) \/ Modified(t) \/ SaveEtag(t) \/ Fails(t)

-------------------------------------------------------------------------------
(* Properties.                                                               *)

\* A request that failed holds back the ones after it for RETRY_DELAY: those under
\* way meanwhile are older than it.  And a registry given is one that was served.
BackOffHolds ==
  /\ \A t \in Tasks : task[t].at # "idle" => task[t].since >= retry \/ task[t].since <= retry - RetryDelay
  /\ \A t \in Tasks : \A a \in answer[t] : a.version \in 1 .. served

-------------------------------------------------------------------------------
(* The inductive invariant of BackOffHolds.                                   *)

TypeOK ==
  /\ now \in Nat /\ retry \in Int /\ served \in Nat \ {0}
  /\ task \in [Tasks -> [at : {"idle", "asking", "saving"}, etag : Nat, since : Nat]]
  /\ etag \in Nat /\ DOMAIN answer = Tasks

\* Whoever keeps a registry, and whoever is about to save one, has it from models.dev.
Served(registry) == \A r \in registry : r.version \in 1 .. served

Known ==
  /\ Served(disk) /\ \A c \in cache : Served({c.registry})
  /\ \A t \in Tasks : task[t].at = "saving" => task[t].etag \in 1 .. served

IInv == TypeOK /\ Known /\ (\A t \in Tasks : task[t].since <= now) /\ BackOffHolds
===============================================================================
