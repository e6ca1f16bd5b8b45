------------------------------- MODULE NousAuth -------------------------------
(***************************************************************************)
(* The Nous credential (crates/darius-daemon/src/auth): requests that      *)
(* resolve a bearer token and refresh it after a 401 or near its expiry,   *)
(* the keepalive task that refreshes it ahead, and the CLI that logs in    *)
(* and out.  All meet in auth.json, whose reads and writes are atomic      *)
(* (darius-core auth_store, under a file lock) and may fail; callers of    *)
(* one NousAuthService also meet in its refresh lock.                      *)
(*                                                                         *)
(* The portal answers as it likes.  Expiry is a choice of the clock.       *)
(***************************************************************************)
EXTENDS Naturals, FiniteSets

CONSTANTS
  Requests,    \* calls of post_chat
  Keepalives,  \* keepalive tasks
  Sharing,     \* the callers of one common service; any other makes its own
  Common,      \* that service
  Nobody,
  MaxIssued    \* bound on the credentials the portal issues

Tasks == Requests \cup Keepalives
Services == {Common} \cup (Tasks \ Sharing)
ServiceOf(t) == IF t \in Sharing THEN Common ELSE t

ASSUME NousAssumption ==
  /\ Requests \cap Keepalives = {}
  /\ Sharing \subseteq Tasks
  /\ Common \notin Tasks /\ Nobody \notin Tasks
  /\ MaxIssued \in Nat

VARIABLES
  stored,    \* the entry of auth.json
  issued,    \* how many credentials the portal has issued
  service,   \* per service, who holds its refresh lock, and the five-second window
  task,      \* per task, where it is
  keeper,    \* per keepalive, its handle and what its owner asked of it
  saved      \* every access token the file has held

vars == <<stored, issued, service, task, keeper, saved>>

\* Tokens are numbered as they are issued; 0 is no token.
NoCred == [access |-> 0, refresh |-> 0, quarantined |-> FALSE]
Numbers == 0..MaxIssued
Creds == [access : Numbers, refresh : Numbers, quarantined : BOOLEAN]

Refreshing == {"waiting", "locked", "reread", "posting", "rejecting", "saving"}
InFlightSteps == {"posting", "rejecting", "saving"}
HoldingSteps == {"locked"} \cup InFlightSteps
Listening == {"delay", "sleep"}
Awaits == {"waiting", "posting", "send", "retry", "spawned"} \cup Listening
Places == Refreshing \cup Awaits \cup {"idle", "off", "head", "gone"}

Reasons == {"none", "expiry", "401", "tick"}
TaskStates == [at : Places, reason : Reasons, cred : Creds, token : Numbers]

With(place, token) == [at |-> place, reason |-> "none", cred |-> NoCred, token |-> token]
At(place) == With(place, 0)
Goes(t, place) == task' = [task EXCEPT ![t] = At(place)]

\* A refresh goes on, with the credential it holds.
Proceeds(t, place, cred) ==
  task' = [task EXCEPT ![t] =
             [at |-> place, reason |-> task[t].reason, cred |-> cred, token |-> 0]]

SetGuard(s, holder) ==
  service' = [service EXCEPT ![s] = [holder |-> holder, recent |-> service[s].recent]]

Init ==
  /\ stored = NoCred
  /\ issued = 0
  /\ service = [s \in Services |-> [holder |-> Nobody, recent |-> FALSE]]
  /\ task = [t \in Tasks |-> At(IF t \in Requests THEN "idle" ELSE "off")]
  /\ keeper = [k \in Keepalives |-> [handle |-> FALSE, told |-> FALSE, aborted |-> FALSE]]
  /\ saved = {}

\* An aborted task is not polled again.
Runs(t) == t \in Keepalives => ~keeper[t].aborted

Write(cred) == stored' = cred /\ saved' = saved \cup {cred.access}
WriteFails == UNCHANGED <<stored, saved>>

Quarantined(cred) ==
  [access |-> cred.access, refresh |-> cred.refresh, quarantined |-> TRUE]

Fresh(refreshed) ==
  [access |-> issued + 1, refresh |-> IF refreshed THEN issued + 1 ELSE 0, quarantined |-> FALSE]

-------------------------------------------------------------------------------
(* NousAuthService::refresh.                                                 *)

BeginRefresh(t, reason) ==
  /\ task' = [task EXCEPT ![t] =
                 [at |-> "waiting", reason |-> reason, cred |-> NoCred, token |-> 0]]
  /\ service' = IF t \in Sharing THEN service
                ELSE [service EXCEPT ![t] = [holder |-> Nobody, recent |-> FALSE]]

\* Where a caller goes on with the token a refresh returned, 0 for an error.
Returns(t, token) ==
  task' = [task EXCEPT ![t] =
    IF t \in Keepalives THEN At("head")
    ELSE IF token = 0 THEN At("idle")
    ELSE With(IF task[t].reason = "expiry" THEN "send" ELSE "retry", token)]

Release(t) == SetGuard(ServiceOf(t), Nobody)

Acquire(t) ==
  /\ task[t].at = "waiting" /\ Runs(t)
  /\ service[ServiceOf(t)].holder = Nobody
  /\ SetGuard(ServiceOf(t), t)
  /\ Proceeds(t, "locked", NoCred)
  /\ UNCHANGED <<stored, issued, keeper, saved>>

\* Somebody has just refreshed: the guard is dropped and the file read again.
ShareRefresh(t) ==
  /\ task[t].at = "locked"
  /\ service[ServiceOf(t)].recent
  /\ Release(t)
  /\ Proceeds(t, "reread", NoCred)
  /\ UNCHANGED <<stored, issued, keeper, saved>>

Reread(t) ==
  /\ task[t].at = "reread"
  /\ \E token \in {stored.access, 0} : Returns(t, token)
  /\ UNCHANGED <<stored, issued, service, keeper, saved>>

\* Mutant: a missing credential is not an error.
HasRefreshTokenUnchecked(t) == TRUE

\* The refresh token the post needs: found in the file, whatever its quarantine.
HasRefreshToken(t) == stored.refresh # 0

Post(t) ==
  /\ task[t].at = "locked"
  /\ ~service[ServiceOf(t)].recent
  /\ HasRefreshToken(t)
  /\ Proceeds(t, "posting", stored)
  /\ UNCHANGED <<stored, issued, service, keeper, saved>>

\* No credential, no refresh token, or the file cannot be read.
NothingToPost(t) ==
  /\ task[t].at = "locked"
  /\ ~service[ServiceOf(t)].recent
  /\ Release(t)
  /\ Returns(t, 0)
  /\ UNCHANGED <<stored, issued, keeper, saved>>

\* Mutant: the guard is forgotten on an error.
PostFailsHoldingGuard(t) ==
  /\ task[t].at = "posting" /\ Runs(t)
  /\ Returns(t, 0)
  /\ UNCHANGED <<stored, issued, service, keeper, saved>>

\* No answer within thirty seconds, or one that cannot be read.
PostFails(t) ==
  /\ task[t].at = "posting" /\ Runs(t)
  /\ Release(t)
  /\ Returns(t, 0)
  /\ UNCHANGED <<stored, issued, keeper, saved>>

PostRejected(t) ==
  /\ task[t].at = "posting" /\ Runs(t)
  /\ Proceeds(t, "rejecting", task[t].cred)
  /\ UNCHANGED <<stored, issued, service, keeper, saved>>

\* The credential that was loaded goes back, quarantined; a failing save is ignored.
Quarantine(t) ==
  /\ task[t].at = "rejecting"
  /\ Write(Quarantined(task[t].cred)) \/ WriteFails
  /\ Release(t)
  /\ Returns(t, 0)
  /\ UNCHANGED <<issued, keeper>>

\* An answer without a refresh token leaves the credential without one.
PostAccepted(t) ==
  /\ task[t].at = "posting" /\ Runs(t)
  /\ issued < MaxIssued
  /\ issued' = issued + 1
  /\ \E refreshed \in BOOLEAN : Proceeds(t, "saving", Fresh(refreshed))
  /\ UNCHANGED <<stored, service, keeper, saved>>

Save(t) ==
  /\ task[t].at = "saving"
  /\ Write(task[t].cred)
  /\ service' = [service EXCEPT ![ServiceOf(t)] = [holder |-> Nobody, recent |-> TRUE]]
  /\ Returns(t, task[t].cred.access)
  /\ UNCHANGED <<issued, keeper>>

\* Mutant: the error of the save is ignored as the other one is.
UnsavedTokenIgnored(t) == task[t].cred.access

UnsavedToken(t) == 0

\* The directory sync after the rename can fail too: then the file has changed.
SaveFails(t) ==
  /\ task[t].at = "saving"
  /\ Write(task[t].cred) \/ WriteFails
  /\ Release(t)
  /\ Returns(t, UnsavedToken(t))
  /\ UNCHANGED <<issued, keeper>>

WindowCloses(s) ==
  /\ service[s].recent
  /\ service' = [service EXCEPT ![s] = [holder |-> service[s].holder, recent |-> FALSE]]
  /\ UNCHANGED <<stored, issued, task, keeper, saved>>

-------------------------------------------------------------------------------
(* A request: resolve_auth, then post_chat with its one retry.               *)

Resolve(t) ==
  /\ task[t].at = "idle"
  /\ stored # NoCred /\ ~stored.quarantined
  /\ task' = [task EXCEPT ![t] = With("send", stored.access)]
  /\ UNCHANGED <<stored, issued, service, keeper, saved>>

ResolveNearExpiry(t) ==
  /\ task[t].at = "idle"
  /\ stored # NoCred /\ ~stored.quarantined
  /\ BeginRefresh(t, "expiry")
  /\ UNCHANGED <<stored, issued, keeper, saved>>

Unauthorized(t) ==
  /\ task[t].at = "send"
  /\ BeginRefresh(t, "401")
  /\ UNCHANGED <<stored, issued, keeper, saved>>

\* Any other answer to the first request, and every answer to the second.
Answered(t) ==
  /\ task[t].at \in {"send", "retry"}
  /\ Goes(t, "idle")
  /\ UNCHANGED <<stored, issued, service, keeper, saved>>

\* Mutant: a caller that only waits gives the guard back too.
ReleaseAnyway(t) == Release(t)

ReleaseIfHeld(t) ==
  IF service[ServiceOf(t)].holder = t THEN Release(t) ELSE UNCHANGED service

\* The turn is cancelled or out of time: the future is dropped where it awaits.
Dropped(t) ==
  /\ task[t].at \in Awaits
  /\ ReleaseIfHeld(t)
  /\ Goes(t, "idle")
  /\ UNCHANGED <<stored, issued, keeper, saved>>

-------------------------------------------------------------------------------
(* The keepalive.                                                            *)

\* A task that was aborted inside a synchronous section is gone before its
\* keepalive spawns the next one.
Start(k) ==
  /\ ~keeper[k].handle
  /\ task[k].at \in {"off", "gone"}
  /\ keeper' = [keeper EXCEPT ![k] = [handle |-> TRUE, told |-> FALSE, aborted |-> FALSE]]
  /\ Goes(k, "spawned")
  /\ UNCHANGED <<stored, issued, service, saved>>

FirstPoll(k) ==
  /\ task[k].at = "spawned" /\ Runs(k)
  /\ Goes(k, "delay")
  /\ UNCHANGED <<stored, issued, service, keeper, saved>>

InitialDelayOver(k) ==
  /\ task[k].at = "delay" /\ Runs(k)
  /\ Goes(k, "head")
  /\ UNCHANGED <<stored, issued, service, keeper, saved>>

\* The head of the loop reads the expiry, and the select begins to listen.
Sleep(k) ==
  /\ task[k].at = "head"
  /\ Goes(k, "sleep")
  /\ UNCHANGED <<stored, issued, service, keeper, saved>>

Tick(k) ==
  /\ task[k].at = "sleep" /\ Runs(k)
  /\ BeginRefresh(k, "tick")
  /\ UNCHANGED <<stored, issued, keeper, saved>>

\* notify_waiters wakes the task only where it listens.  (If the sleep is over too
\* and select! takes that branch, the task has ticked before the call.)
Notify(k) == IF task[k].at \in Listening THEN Goes(k, "gone") ELSE UNCHANGED task

Shutdown(k) ==
  /\ keeper' = [keeper EXCEPT ![k] =
                  [handle |-> keeper[k].handle, told |-> TRUE, aborted |-> keeper[k].aborted]]
  /\ Notify(k)
  /\ UNCHANGED <<stored, issued, service, saved>>

Aborts(k) == keeper[k].handle

Stop(k) ==
  /\ keeper' = [keeper EXCEPT ![k] =
                  [handle |-> FALSE, told |-> TRUE, aborted |-> keeper[k].aborted \/ Aborts(k)]]
  /\ Notify(k)
  /\ UNCHANGED <<stored, issued, service, saved>>

\* The task is dropped at the await where the abort finds it.
AbortTakes(k) ==
  /\ keeper[k].aborted
  /\ task[k].at \in Awaits
  /\ ReleaseIfHeld(k)
  /\ Goes(k, "gone")
  /\ UNCHANGED <<stored, issued, keeper, saved>>

-------------------------------------------------------------------------------
(* The CLI, in a process of its own.                                         *)

Login(refreshed) ==
  /\ issued < MaxIssued
  /\ issued' = issued + 1
  /\ Write(Fresh(refreshed)) \/ WriteFails
  /\ UNCHANGED <<service, task, keeper>>

Logout ==
  /\ stored' = NoCred
  /\ UNCHANGED <<issued, service, task, keeper, saved>>

-------------------------------------------------------------------------------
RefreshStep(t) ==
  \/ ShareRefresh(t) \/ Reread(t) \/ Post(t) \/ NothingToPost(t)
  \/ PostFails(t) \/ PostRejected(t) \/ Quarantine(t)
  \/ PostAccepted(t) \/ Save(t) \/ SaveFails(t)

RequestStep(t) ==
  Resolve(t) \/ ResolveNearExpiry(t) \/ Unauthorized(t) \/ Answered(t) \/ Dropped(t)

KeepaliveStep(k) == FirstPoll(k) \/ InitialDelayOver(k) \/ Sleep(k) \/ Tick(k) \/ AbortTakes(k)

Next ==
  \/ \E t \in Tasks : Acquire(t) \/ RefreshStep(t)
  \/ \E t \in Requests : RequestStep(t)
  \/ \E k \in Keepalives : KeepaliveStep(k) \/ Start(k) \/ Shutdown(k) \/ Stop(k)
  \/ \E s \in Services : WindowCloses(s)
  \/ \E refreshed \in BOOLEAN : Login(refreshed)
  \/ Logout

\* The runtime polls its tasks, the lock is served in order (tokio's Mutex is
\* a queue), a post ends within thirty seconds, and a sleep ends.
Fairness ==
  /\ \A t \in Tasks : SF_vars(Acquire(t)) /\ WF_vars(RefreshStep(t))
  /\ \A k \in Keepalives : WF_vars(KeepaliveStep(k))

Spec == Init /\ [][Next]_vars
FairSpec == Spec /\ Fairness

-------------------------------------------------------------------------------
(* Properties.                                                               *)

\* Types of the state; tokens and credentials are held just where they are used.
TypeOK ==
  /\ stored \in Creds
  /\ issued \in Numbers
  /\ service \in [Services -> [holder : Tasks \cup {Nobody}, recent : BOOLEAN]]
  /\ task \in [Tasks -> TaskStates]
  /\ keeper \in [Keepalives -> [handle : BOOLEAN, told : BOOLEAN, aborted : BOOLEAN]]
  /\ saved \subseteq Numbers
  /\ \A t \in Tasks :
       /\ task[t].token # 0 <=> task[t].at \in {"send", "retry"}
       /\ task[t].cred # NoCred <=> task[t].at \in InFlightSteps

InFlight == {t \in Tasks : task[t].at \in InFlightSteps}

\* Callers of one service share a refresh: the guard belongs to the one task that
\* is past it, whatever errors, cancellations and aborts ended the others, and
\* nobody posts within five seconds of a refresh that succeeded.
RefreshIsShared ==
  /\ \A s \in Services, t \in Tasks :
       service[s].holder = t <=> ServiceOf(t) = s /\ task[t].at \in HoldingSteps
  /\ \A t \in InFlight : ~service[ServiceOf(t)].recent

\* A token in use has been in the file: a refresh whose save failed returns an
\* error, so a restart never knows less than the running process.
TokensAreSaved ==
  \A t \in Tasks : task[t].at \in {"send", "retry"} => task[t].token \in saved

\* A logout stays a logout: once no refresh is in flight that began before it,
\* only a login brings a credential back, and nothing is posted until then.
LogoutIsFinal ==
  [][(stored = NoCred /\ InFlight = {}) =>
       \/ stored' = NoCred /\ InFlight' = {}
       \/ \E refreshed \in BOOLEAN : Login(refreshed)]_vars

\* Every refresh call ends: the guard is given back on every path.
RefreshEnds ==
  \A t \in Tasks : task[t].at \in Refreshing ~> task[t].at \notin Refreshing

\* A stopped keepalive task is eventually gone, even in the middle of a refresh.
StopEndsTask ==
  \A k \in Keepalives :
    (keeper[k].told /\ ~keeper[k].handle) ~> task[k].at \in {"off", "gone"} \/ keeper[k].handle

\* "concurrent requests share one refresh" (crates/darius-daemon/src/auth/
\* nous.rs:83): no refresh token is in flight twice.
SingleFlight ==
  \A t, u \in Tasks :
    (t # u /\ task[t].at = "posting" /\ task[u].at = "posting") =>
      task[t].cred.refresh # task[u].cred.refresh

\* Nobody is held for ever by a refresh or by a task that was told to stop.
TasksEnd == RefreshEnds /\ StopEndsTask
===============================================================================
