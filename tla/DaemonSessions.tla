---------------------------- MODULE DaemonSessions ----------------------------
(***************************************************************************)
(* The daemon's sessions (crates/darius-daemon/src: daemon.rs, a2a.rs,     *)
(* event_log.rs, handoff.rs, status_projector.rs): threads create, attach, *)
(* detach and end sessions over a map, an event log in SQLite, a file per  *)
(* handoff and the tasks of the agent-to-agent server.  start and stop     *)
(* have the daemon for themselves; the process may die at any point, and a *)
(* new one opens the same files.                                           *)
(*                                                                         *)
(* Beside them the quotas of an agent (a2a_quotas.rs): starting,           *)
(* completing, queueing and dequeueing tasks against a limit of concurrent *)
(* tasks, a depth of the queue and a rate.  The quotas and the states have *)
(* a lock each, and start_task takes the first, then the second twice.     *)
(***************************************************************************)
EXTENDS Integers, Sequences, SequencesExt

CONSTANTS
  Threads,    \* threads that hold the daemon
  Ids,        \* sessions that may be created
  MaxEvents,  \* bound on the operations on one session
  MaxCrashes, \* bound on the deaths of the process
  Askers,     \* callers of the quotas; each runs the task it started
  Quotas,     \* the quotas an operator registers: [tasks, depth, rate]
  Window,     \* the seconds of a minute
  MaxTime,    \* bound on the clock of the quotas
  MaxQueued   \* bound on the calls of queue_task

VARIABLES
  phase,    \* the daemon: stopped, on its way up, running, or stopping
  db,       \* the log's file: absent, empty (no tables) or ready
  log,      \* per session, the kinds of its events, in the order of their ids
  session,  \* per session, none, active or inactive
  task,     \* per session, the state of its A2A task
  handoff,  \* per session, its handoff file: none, partial or whole
  lock,     \* who holds the lock of the session map
  thread,   \* per thread, the operation it is in and how its last one ended
  crashes,
  spoiled,  \* history: sessions with a handoff that failed or that a crash cut short
  quota,    \* the quota registered, or {}
  active, queued, completed, lastStart,   \* the AgentState; failures are only counted
  caller,   \* per asker: where in start_task, and the quota it copied
  now,
  calls,    \* calls of queue_task, counted
  seen      \* history: every quota that was registered

sessionVars == <<phase, db, log, session, task, handoff, lock, thread, crashes, spoiled>>
store == <<phase, db, crashes, spoiled>>

Nobody == "nobody"
Rest == [at |-> "idle", s |-> Nobody, kind |-> "none"]

SessionInit ==
  /\ phase = "stopped" /\ db = "absent" /\ crashes = 0
  /\ log = [s \in Ids |-> <<>>]
  /\ session = [s \in Ids |-> "none"] /\ task = [s \in Ids |-> "none"]
  /\ handoff = [s \in Ids |-> "none"]
  /\ lock = Nobody /\ thread = [t \in Threads |-> Rest] /\ spoiled = {}

Quiet == \A t \in Threads : thread[t].at = "idle"

\* An append that fails is ignored by everyone.
Append1(s, kind) == log' = IF db = "ready" THEN [log EXCEPT ![s] = Append(@, kind)] ELSE log

-------------------------------------------------------------------------------
(* Starting and stopping.                                                    *)

\* The file of the log is made by opening it; one that exists is checked, and
\* not migrated.
OpenLog ==
  /\ phase = "stopped" /\ Quiet
  /\ db' = IF db = "absent" THEN "empty" ELSE db
  /\ phase' = IF db = "absent" THEN "migrating" ELSE "checked"
  /\ UNCHANGED <<log, session, task, handoff, lock, thread, crashes, spoiled>>

Migrate ==
  /\ phase = "migrating"
  /\ db' = "ready" /\ phase' = "checked"
  /\ UNCHANGED <<log, session, task, handoff, lock, thread, crashes, spoiled>>

\* The directory of the handoffs is made, or start fails.
FinishStart(ok) ==
  /\ phase = "checked"
  /\ phase' = IF ok THEN "running" ELSE "stopped"
  /\ UNCHANGED <<db, log, session, task, handoff, lock, thread, crashes, spoiled>>

\* stop saves a handoff for every active session, and ignores one that fails;
\* the sessions stay in the map, active or not.
Stop(failing) ==
  /\ phase = "running" /\ Quiet
  /\ phase' = "stopped"
  /\ handoff' = [s \in Ids |-> IF session[s] # "active" THEN handoff[s]
                               ELSE IF s \in failing THEN handoff[s] ELSE "whole"]
  /\ UNCHANGED <<db, log, session, task, lock, thread, crashes, spoiled>>

\* The process dies: what was in memory is gone, a file in the middle of being
\* written keeps a part.
Crash ==
  /\ crashes < MaxCrashes
  /\ crashes' = crashes + 1
  /\ phase' = "stopped" /\ lock' = Nobody
  /\ session' = [s \in Ids |-> "none"] /\ task' = [s \in Ids |-> "none"]
  /\ thread' = [t \in Threads |-> Rest]
  /\ spoiled' = spoiled \cup {thread[t].s : t \in {u \in Threads : thread[u].at = "saving"}}
  /\ UNCHANGED <<db, log, handoff>>

-------------------------------------------------------------------------------
(* Sessions.                                                                 *)

Usable(t, s) == thread[t].at = "idle" /\ Len(log[s]) < MaxEvents
At(t, at) == thread' = [thread EXCEPT ![t].at = at]

\* create_session inserts, then logs, then makes the task.
Create(t, s) ==
  /\ phase = "running" /\ thread[t].at = "idle" /\ lock = Nobody
  /\ session[s] = "none" /\ log[s] = <<>>
  /\ session' = [session EXCEPT ![s] = "active"]
  /\ thread' = [thread EXCEPT ![t] = [at |-> "created", s |-> s, kind |-> "started"]]
  /\ UNCHANGED <<log, task, handoff, lock, store>>

LogStart(t) ==
  /\ thread[t].at = "created"
  /\ Append1(thread[t].s, "started")
  /\ At(t, "logged")
  /\ UNCHANGED <<session, task, handoff, lock, store>>

CreateTask(t) ==
  /\ thread[t].at = "logged"
  /\ task' = [task EXCEPT ![thread[t].s] = "pending"]
  /\ thread' = [thread EXCEPT ![t] = Rest]
  /\ UNCHANGED <<log, session, handoff, lock, store>>

\* update_task takes any state after any other.
UpdateTask(s, state) ==
  /\ task[s] # "none"
  /\ task' = [task EXCEPT ![s] = state]
  /\ UNCHANGED <<log, session, handoff, lock, thread, store>>

\* Mutant: the map is locked for the change only.
MayChangeUnlocked(t) == TRUE

MayChange(t) == lock = Nobody

\* attach and detach hold the map until the event is in the log.  The daemon
\* need not be running.
Change(t, s, kind) ==
  /\ phase \in {"running", "stopped"} /\ Usable(t, s) /\ MayChange(t)
  /\ session[s] # "none"
  /\ session' = [session EXCEPT ![s] = IF kind = "attached" THEN "active" ELSE "inactive"]
  /\ lock' = t
  /\ thread' = [thread EXCEPT ![t] = [at |-> "changed", s |-> s, kind |-> kind]]
  /\ UNCHANGED <<log, task, handoff, store>>

LogChange(t) ==
  /\ thread[t].at = "changed"
  /\ Append1(thread[t].s, thread[t].kind)
  /\ lock' = Nobody
  /\ thread' = [thread EXCEPT ![t] = Rest]
  /\ UNCHANGED <<session, task, handoff, store>>

\* end_session lets go of the map before the handoff and the event.
End(t, s) ==
  /\ phase \in {"running", "stopped"} /\ Usable(t, s) /\ lock = Nobody
  /\ session[s] # "none"
  /\ session' = [session EXCEPT ![s] = "inactive"]
  /\ thread' = [thread EXCEPT ![t] = [at |-> "ending", s |-> s, kind |-> "ended"]]
  /\ UNCHANGED <<log, task, handoff, lock, store>>

\* fs::write truncates the file first.
BeginHandoff(t) ==
  /\ thread[t].at = "ending"
  /\ \A u \in Threads : thread[u].at # "saving"
  /\ handoff' = [handoff EXCEPT ![thread[t].s] = "partial"]
  /\ At(t, "saving")
  /\ UNCHANGED <<log, session, task, lock, store>>

\* A handoff that cannot be saved is the error of end_session.
FinishHandoff(t, ok) ==
  /\ thread[t].at = "saving"
  /\ handoff' = IF ok THEN [handoff EXCEPT ![thread[t].s] = "whole"] ELSE handoff
  /\ IF ok THEN At(t, "saved") /\ UNCHANGED spoiled
     ELSE thread' = [thread EXCEPT ![t] = Rest] /\ spoiled' = spoiled \cup {thread[t].s}
  /\ UNCHANGED <<log, session, task, lock, phase, db, crashes>>

LogEnd(t) ==
  /\ thread[t].at = "saved"
  /\ Append1(thread[t].s, "ended")
  /\ thread' = [thread EXCEPT ![t] = Rest]
  /\ UNCHANGED <<session, task, handoff, lock, store>>

SessionNext ==
  \/ OpenLog \/ Migrate \/ Crash
  \/ \E ok \in BOOLEAN : FinishStart(ok)
  \/ \E failing \in SUBSET Ids : Stop(failing)
  \/ \E t \in Threads, s \in Ids : Create(t, s) \/ End(t, s)
  \/ \E t \in Threads, s \in Ids, kind \in {"attached", "detached"} : Change(t, s, kind)
  \/ \E t \in Threads : LogStart(t) \/ CreateTask(t) \/ LogChange(t) \/ BeginHandoff(t) \/ LogEnd(t)
  \/ \E t \in Threads, ok \in BOOLEAN : FinishHandoff(t, ok)
  \/ \E s \in Ids, state \in {"running", "completed", "failed", "cancelled"} : UpdateTask(s, state)

-------------------------------------------------------------------------------
(* Quotas.                                                                   *)

quotaVars == <<quota, active, queued, completed, lastStart, caller, now, calls, seen>>
agentState == <<active, queued, completed, lastStart>>

Idle == [at |-> "idle", quota |-> {}]

QuotaInit ==
  /\ quota = {} /\ seen = {}
  /\ active = 0 /\ queued = 0 /\ completed = 0 /\ lastStart = 0
  /\ caller = [t \in Askers |-> Idle]
  /\ now = 0 /\ calls = 0

\* register_agent replaces the quota under running tasks.
RegisterAgent(q) ==
  /\ quota' = {q} /\ seen' = seen \cup {q}
  /\ UNCHANGED <<agentState, caller, now, calls>>

Tick ==
  /\ now < MaxTime
  /\ now' = now + 1
  /\ UNCHANGED <<quota, agentState, caller, calls, seen>>

\* can_accept copies the quota; an agent that was not registered is an error.
CopyQuota(t) ==
  /\ caller[t].at = "idle" /\ quota # {}
  /\ caller' = [caller EXCEPT ![t] = [at |-> "looking", quota |-> quota]]
  /\ UNCHANGED <<quota, agentState, now, calls, seen>>

\* Everything completed so far over the time since the last start.
RateReached(q) ==
  LET elapsed == IF now > lastStart THEN now - lastStart ELSE 0 IN
  /\ elapsed < Window /\ completed > 0
  /\ (completed * Window) \div (IF elapsed > 1 THEN elapsed ELSE 1) >= q.rate

Accepts(q) == active < q.tasks /\ queued < q.depth /\ ~RateReached(q)

Look(t) ==
  /\ caller[t].at = "looking"
  /\ \E q \in caller[t].quota :
       caller' = [caller EXCEPT ![t] = IF Accepts(q) THEN [at |-> "accepted", quota |-> {}] ELSE Idle]
  /\ UNCHANGED <<quota, agentState, now, calls, seen>>

Start(t) ==
  /\ caller[t].at = "accepted"
  /\ active' = active + 1 /\ lastStart' = now
  /\ caller' = [caller EXCEPT ![t] = [at |-> "running", quota |-> {}]]
  /\ UNCHANGED <<quota, queued, completed, now, calls, seen>>

\* A failure gives its place back as a success does; never below zero.
Places(success) == IF active > 0 THEN active - 1 ELSE 0

Complete(t, success) ==
  /\ caller[t].at = "running"
  /\ active' = Places(success)
  /\ completed' = IF success THEN completed + 1 ELSE completed
  /\ caller' = [caller EXCEPT ![t] = Idle]
  /\ UNCHANGED <<quota, queued, lastStart, now, calls, seen>>

\* Drop and Block refuse when the queue is full; DropOldest makes room first,
\* also in a queue that has none.
QueueTask(policy) ==
  /\ calls < MaxQueued
  /\ calls' = calls + 1
  /\ \E q \in quota :
       queued' = IF queued < q.depth THEN queued + 1
                 ELSE IF policy # "drop_oldest" THEN queued
                 ELSE IF queued > 0 THEN queued ELSE 1
  /\ UNCHANGED <<quota, active, completed, lastStart, caller, now, seen>>

DequeueTask ==
  /\ queued > 0
  /\ queued' = queued - 1
  /\ UNCHANGED <<quota, active, completed, lastStart, caller, now, calls, seen>>

QuotaNext ==
  \/ Tick \/ DequeueTask
  \/ \E q \in Quotas : RegisterAgent(q)
  \/ \E t \in Askers : CopyQuota(t) \/ Look(t) \/ Start(t)
  \/ \E t \in Askers, success \in BOOLEAN : Complete(t, success)
  \/ \E policy \in {"drop", "block", "drop_oldest"} : QueueTask(policy)

-------------------------------------------------------------------------------
(* Properties.                                                               *)

Settled(s) == \A t \in Threads : thread[t].s # s

\* The log tells what became of a session: between operations, a session last
\* seen attached is active (unless its end failed after that) and one last seen
\* detached is inactive, its A2A task is there, and a session whose end is logged
\* has its whole handoff on disk unless a later one failed or was cut short.
LogTellsSession ==
  \A s \in Ids : Settled(s) /\ log[s] # <<>> =>
    /\ session[s] # "none" /\ Last(log[s]) = "attached" /\ s \notin spoiled => session[s] = "active"
    /\ session[s] # "none" /\ Last(log[s]) = "detached" => session[s] = "inactive"
    /\ "ended" \in ToSet(log[s]) /\ s \notin spoiled => handoff[s] = "whole"
    /\ session[s] # "none" => task[s] # "none"

Kinds == {"started", "attached", "detached", "ended"}
ThreadPlaces == {"idle", "created", "logged", "changed", "ending", "saving", "saved"}

TypeOK ==
  /\ db \in {"absent", "empty", "ready"}
  /\ log \in [Ids -> Seq(Kinds)]
  /\ session \in [Ids -> {"none", "active", "inactive"}]
  /\ DOMAIN task = Ids
  /\ handoff \in [Ids -> {"none", "partial", "whole"}]
  /\ thread \in [Threads -> [at : ThreadPlaces, s : Ids \cup {Nobody}, kind : Kinds \cup {"none"}]]
  /\ \A t \in Threads : thread[t].at # "idle" => thread[t].s \in Ids

\* Somebody is at one of these places with a session, or there with a change of a kind.
Busy(s, places) == \E t \in Threads : thread[t].s = s /\ thread[t].at \in places
Changing(s, kind) == \E t \in Threads : thread[t].s = s /\ thread[t].at = "changed" /\ thread[t].kind = kind

\* Who changed a session has the map, and the session is as the change left it.
ChangeIsLocked ==
  \A t \in Threads : thread[t].at = "changed" =>
    /\ lock = t /\ thread[t].kind \in {"attached", "detached"}
    /\ session[thread[t].s] = IF thread[t].kind = "attached" THEN "active" ELSE "inactive"

\* Where the log's last word on a session is not true, somebody is about to correct it.
LogIsLate(s) ==
  log[s] # <<>> =>
    /\ db = "ready"
    /\ Last(log[s]) = "detached" /\ session[s] = "active" => Changing(s, "attached")
    /\ Last(log[s]) = "attached" /\ session[s] = "inactive" =>
         s \in spoiled \/ Changing(s, "detached") \/ Busy(s, {"ending", "saving", "saved"})

\* A session that ended has its handoff, unless somebody writes it again.
EndIsSaved(s) ==
  "ended" \in ToSet(log[s]) \/ Busy(s, {"saved"}) =>
    s \in spoiled \/ handoff[s] = "whole" \/ Busy(s, {"saving"})

TaskIsMade(s) == session[s] # "none" => task[s] # "none" \/ Busy(s, {"created", "logged"})

\* The inductive invariant of the sessions.
SessionInv ==
  /\ TypeOK /\ ChangeIsLocked
  /\ \A s \in Ids : LogIsLate(s) /\ EndIsSaved(s) /\ TaskIsMade(s)

Running == {t \in Askers : caller[t].at = "running"}

\* Every place taken is given back once, by success or failure, under whatever
\* quota is registered meanwhile; callers that were accepted together exceed the
\* limit by no more than the callers there are beside one; and a queue is never
\* deeper than the deepest quota, or one if that is none.
QuotaAccounts ==
  /\ active = Cardinality(Running)
  /\ active > 0 => \E q \in seen : active <= q.tasks + Cardinality(Askers) - 1
  /\ queued > 1 => \E q \in seen : queued <= q.depth

\* What was registered; a task is accepted or runs only once a quota allowed one.
QuotaIsSeen ==
  /\ seen \subseteq Quotas /\ quota \subseteq seen
  /\ caller \in [Askers -> [at : {"idle", "looking", "accepted", "running"}, quota : SUBSET seen]]
  /\ \A t \in Askers : caller[t].at \in {"accepted", "running"} => \E q \in seen : q.tasks >= 1

\* The inductive invariant of the quotas.
QuotaInv ==
  /\ QuotaIsSeen
  /\ active = Cardinality(Running)
  /\ queued \in Nat /\ (queued > 1 => \E q \in seen : queued <= q.depth)
===============================================================================
