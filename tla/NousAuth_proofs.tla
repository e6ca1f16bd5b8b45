---------------------------- MODULE NousAuth_proofs ---------------------------
(***************************************************************************)
(* Proofs about NousAuth for any callers, any sharing of services and any  *)
(* number of credentials: the guard of a service, what is saved before it  *)
(* is used, and what a logout means.                                       *)
(***************************************************************************)
EXTENDS NousAuth, TLAPS

\* The file holds a credential with a token, and its token is remembered.
StoredIsSaved == stored # NoCred => stored.access # 0 /\ stored.access \in saved

\* So does a task that refreshes one.
HeldIsReal == \A t \in InFlight : task[t].cred.access # 0

IInv == TypeOK /\ RefreshIsShared /\ TokensAreSaved /\ StoredIsSaved /\ HeldIsReal

-------------------------------------------------------------------------------
(* Types of the values the actions are built from.                           *)

LEMMA NumbersType == MaxIssued \in Nat /\ 0 \in Numbers
BY NousAssumption DEF Numbers

LEMMA CredType ==
  /\ NoCred \in Creds
  /\ \A c \in Creds : Quarantined(c) \in Creds
BY NumbersType DEF NoCred, Creds, Quarantined

LEMMA FreshType ==
  ASSUME issued \in Numbers, issued < MaxIssued, NEW refreshed \in BOOLEAN
  PROVE  /\ Fresh(refreshed) \in Creds /\ Fresh(refreshed).access # 0
         /\ issued + 1 \in Numbers
BY NumbersType DEF Fresh, Creds, Numbers

LEMMA ServiceType ==
  ASSUME NEW t \in Tasks
  PROVE  ServiceOf(t) \in Services /\ t # Nobody
BY NousAssumption DEF ServiceOf, Services, Tasks

LEMMA ServicesApart ==
  ASSUME NEW t \in Tasks \ Sharing, NEW u \in Tasks, ServiceOf(u) = t
  PROVE  u = t
BY NousAssumption DEF ServiceOf, Tasks

\* A task at rest holds nothing.
LEMMA AtType ==
  ASSUME NEW place \in Places \ (InFlightSteps \cup {"send", "retry"})
  PROVE  /\ At(place) \in TaskStates
         /\ At(place).at = place /\ At(place).cred = NoCred /\ At(place).token = 0
BY NumbersType, CredType DEF At, With, TaskStates, Reasons

\* What Returns makes of a task: at rest, or with the token it was given.
LEMMA ReturnsType ==
  ASSUME TypeOK, NEW t \in Tasks, NEW token \in Numbers, Returns(t, token)
  PROVE  /\ task' \in [Tasks -> TaskStates]
         /\ \A u \in Tasks \ {t} : task'[u] = task[u]
         /\ task'[t].at \notin HoldingSteps
         /\ task'[t].cred = NoCred
         /\ task'[t].token # 0 <=> task'[t].at \in {"send", "retry"}
         /\ task'[t].token # 0 => task'[t].token = token
<1>1. CASE t \in Keepalives
  <2>1. task' = [task EXCEPT ![t] = At("head")]
    BY <1>1 DEF Returns
  <2>2. At("head") \in TaskStates /\ At("head").at = "head" /\ At("head").cred = NoCred
        /\ At("head").token = 0
    BY AtType DEF Places, Refreshing, Awaits, Listening, InFlightSteps
  <2> QED BY <2>1, <2>2 DEF TypeOK, HoldingSteps, InFlightSteps
<1>2. CASE t \notin Keepalives /\ token = 0
  <2>1. task' = [task EXCEPT ![t] = At("idle")]
    BY <1>2 DEF Returns
  <2>2. At("idle") \in TaskStates /\ At("idle").at = "idle" /\ At("idle").cred = NoCred
        /\ At("idle").token = 0
    BY AtType DEF Places, Refreshing, Awaits, Listening, InFlightSteps
  <2> QED BY <2>1, <2>2 DEF TypeOK, HoldingSteps, InFlightSteps
<1>3. CASE t \notin Keepalives /\ token # 0
  <2> DEFINE place == IF task[t].reason = "expiry" THEN "send" ELSE "retry"
             new == With(place, token)
  <2>1. task' = [task EXCEPT ![t] = new]
    BY <1>3 DEF Returns
  <2>2. new \in TaskStates /\ new.at \in {"send", "retry"} /\ new.cred = NoCred
        /\ new.token = token
    BY NumbersType, CredType DEF With, TaskStates, Reasons, Places, Awaits
  <2> HIDE DEF new
  <2> QED BY <1>3, <2>1, <2>2 DEF TypeOK, HoldingSteps, InFlightSteps
<1> QED BY <1>1, <1>2, <1>3

-------------------------------------------------------------------------------
(* The guards.  A step of a task changes its own place and its own service.  *)

\* The place of a task and the guard it accounts for.
Holds(t) == task[t].at \in HoldingSteps

Sound(t) ==
  /\ task[t].token # 0 <=> task[t].at \in {"send", "retry"}
  /\ task[t].cred # NoCred <=> task[t].at \in InFlightSteps
  /\ task[t].at \in {"send", "retry"} => task[t].token \in saved
  /\ task[t].at \in InFlightSteps => task[t].cred.access # 0

LEMMA SoundTasks ==
  ASSUME IInv, NEW t \in Tasks
  PROVE  Sound(t)
BY DEF IInv, TypeOK, TokensAreSaved, HeldIsReal, InFlight, Sound

\* What a step of one task has to show.
LEMMA TaskStepPreserves ==
  ASSUME IInv, NEW t \in Tasks,
         task' \in [Tasks -> TaskStates], \A u \in Tasks \ {t} : task'[u] = task[u],
         Sound(t)',
         stored' \in Creds, issued' \in Numbers, saved \subseteq saved', saved' \subseteq Numbers,
         StoredIsSaved', keeper' \in [Keepalives -> [handle : BOOLEAN, told : BOOLEAN, aborted : BOOLEAN]],
         service' \in [Services -> [holder : Tasks \cup {Nobody}, recent : BOOLEAN]],
         \A s \in Services \ {ServiceOf(t)} : service'[s] = service[s],
         \A u \in Tasks : service'[ServiceOf(t)].holder = u <=>
                            ServiceOf(u) = ServiceOf(t) /\ Holds(u)',
         service'[ServiceOf(t)].recent =>
            service[ServiceOf(t)].recent \/ service'[ServiceOf(t)].holder = Nobody,
         task'[t].at \in InFlightSteps => ~service'[ServiceOf(t)].recent
  PROVE  IInv'
<1>1. \A u \in Tasks \ {t} : Sound(u)'
  BY SoundTasks DEF Sound
<1>2. \A u \in Tasks : Sound(u)'
  BY <1>1
<1>3. TypeOK'
  BY <1>2 DEF TypeOK, Sound
<1>4. TokensAreSaved' /\ HeldIsReal'
  BY <1>2 DEF TokensAreSaved, HeldIsReal, InFlight, Sound
<1>5. ASSUME NEW s \in Services, NEW u \in Tasks
      PROVE  service'[s].holder = u <=> ServiceOf(u) = s /\ task'[u].at \in HoldingSteps
  <2>1. CASE s = ServiceOf(t)
    BY <2>1 DEF Holds
  <2>2. CASE s # ServiceOf(t)
    <3>1. service'[s] = service[s]
      BY <2>2
    <3>2. service[s].holder = u <=> ServiceOf(u) = s /\ task[u].at \in HoldingSteps
      BY DEF IInv, RefreshIsShared
    <3>3. CASE u = t
      BY <2>2, <3>1, <3>2, <3>3
    <3>4. CASE u # t
      BY <3>1, <3>2, <3>4
    <3> QED BY <3>3, <3>4
  <2> QED BY <2>1, <2>2
<1>6. ASSUME NEW u \in Tasks, task'[u].at \in InFlightSteps
      PROVE  ~service'[ServiceOf(u)].recent
  <2>1. ServiceOf(u) \in Services
    BY ServiceType
  <2>2. CASE u = t
    BY <1>6, <2>2
  <2>3. CASE u # t
    <3>1. task[u].at \in InFlightSteps /\ ~service[ServiceOf(u)].recent
      BY <1>6, <2>3 DEF IInv, RefreshIsShared, InFlight
    <3>2. service'[ServiceOf(u)].holder = u
      BY <1>5, <1>6, <2>1 DEF HoldingSteps
    <3>3. u # Nobody
      BY ServiceType
    <3> QED BY <2>1, <3>1, <3>2, <3>3
  <2> QED BY <2>2, <2>3
<1>7. RefreshIsShared'
  BY <1>5, <1>6 DEF RefreshIsShared, InFlight
<1> QED BY <1>3, <1>4, <1>7 DEF IInv

\* What a step leaves well typed besides the services.
Rest(t) ==
  /\ task' \in [Tasks -> TaskStates]
  /\ \A u \in Tasks \ {t} : task'[u] = task[u]
  /\ stored' \in Creds /\ issued' \in Numbers
  /\ saved \subseteq saved' /\ saved' \subseteq Numbers
  /\ StoredIsSaved'
  /\ keeper' \in [Keepalives -> [handle : BOOLEAN, told : BOOLEAN, aborted : BOOLEAN]]

LEMMA GuardsNow ==
  ASSUME IInv, NEW t \in Tasks
  PROVE  /\ ServiceOf(t) \in Services /\ t # Nobody
         /\ service \in [Services -> [holder : Tasks \cup {Nobody}, recent : BOOLEAN]]
         /\ \A u \in Tasks : service[ServiceOf(t)].holder = u <=>
                             ServiceOf(u) = ServiceOf(t) /\ Holds(u)
         /\ task[t].at \in InFlightSteps => ~service[ServiceOf(t)].recent
BY ServiceType DEF IInv, TypeOK, RefreshIsShared, InFlight, Holds

\* A step that touches no guard and keeps the task on its side of its own.
LEMMA QuietStep ==
  ASSUME IInv, NEW t \in Tasks, Rest(t), Sound(t)', UNCHANGED service,
         Holds(t)' <=> Holds(t),
         task'[t].at \in InFlightSteps => ~service[ServiceOf(t)].recent
  PROVE  IInv'
<1>1. \A u \in Tasks : Holds(u)' <=> Holds(u)
  BY DEF Rest, Holds
<1>2. \A u \in Tasks : service'[ServiceOf(t)].holder = u <=>
                       ServiceOf(u) = ServiceOf(t) /\ Holds(u)'
  BY <1>1, GuardsNow
<1>3. /\ service' \in [Services -> [holder : Tasks \cup {Nobody}, recent : BOOLEAN]]
      /\ \A s \in Services \ {ServiceOf(t)} : service'[s] = service[s]
  BY GuardsNow
<1> QED BY <1>2, <1>3, TaskStepPreserves DEF Rest

\* A task that held the guard of its service gives it back.
LEMMA ReleasingStep ==
  ASSUME IInv, NEW t \in Tasks, Rest(t), Sound(t)', Holds(t), ~Holds(t)',
         NEW recent \in BOOLEAN,
         service' = [service EXCEPT ![ServiceOf(t)] = [holder |-> Nobody, recent |-> recent]]
  PROVE  IInv'
<1>1. service[ServiceOf(t)].holder = t
  BY GuardsNow
<1>2. \A u \in Tasks : ServiceOf(u) = ServiceOf(t) /\ Holds(u) => u = t
  BY <1>1, GuardsNow
<1>3. \A u \in Tasks : ~(ServiceOf(u) = ServiceOf(t) /\ Holds(u)')
  BY <1>2 DEF Rest, Holds
<1>4. service'[ServiceOf(t)] = [holder |-> Nobody, recent |-> recent]
  BY GuardsNow
<1>5. \A u \in Tasks : service'[ServiceOf(t)].holder = u <=>
                       ServiceOf(u) = ServiceOf(t) /\ Holds(u)'
  BY <1>3, <1>4, ServiceType
<1>6. /\ service' \in [Services -> [holder : Tasks \cup {Nobody}, recent : BOOLEAN]]
      /\ \A s \in Services \ {ServiceOf(t)} : service'[s] = service[s]
  BY GuardsNow
<1>7. task'[t].at \notin InFlightSteps
  BY DEF Holds, HoldingSteps
<1> QED BY <1>4, <1>5, <1>6, <1>7, TaskStepPreserves DEF Rest

\* A task with no claim on its guard moves to a place with none, whether its
\* service is left alone or made anew.
LEMMA BeginRefreshPreserves ==
  ASSUME IInv, NEW t \in Tasks, NEW reason \in Reasons, ~Holds(t),
         BeginRefresh(t, reason), UNCHANGED <<stored, issued, keeper, saved>>
  PROVE  IInv'
<1> DEFINE new == [at |-> "waiting", reason |-> reason, cred |-> NoCred, token |-> 0]
<1>1. new \in TaskStates /\ new.at = "waiting" /\ new.cred = NoCred /\ new.token = 0
  BY NumbersType, CredType DEF TaskStates, Places, Refreshing
<1>2. task' = [task EXCEPT ![t] = new]
  BY DEF BeginRefresh
<1> HIDE DEF new
<1>3. task'[t] = new /\ Rest(t)
  BY <1>1, <1>2 DEF IInv, TypeOK, Rest, StoredIsSaved
<1>4. Sound(t)' /\ ~Holds(t)' /\ task'[t].at \notin InFlightSteps
  BY <1>1, <1>3 DEF Sound, Holds, HoldingSteps, InFlightSteps
<1>5. CASE t \in Sharing
  <2>1. UNCHANGED service
    BY <1>5 DEF BeginRefresh
  <2> QED BY <1>3, <1>4, <2>1, QuietStep
<1>6. CASE t \notin Sharing
  <2>1. ServiceOf(t) = t /\ service' = [service EXCEPT ![t] = [holder |-> Nobody, recent |-> FALSE]]
    BY <1>6 DEF BeginRefresh, ServiceOf
  <2>2. \A u \in Tasks : ServiceOf(u) = t => u = t
    BY <1>6, ServicesApart
  <2>3. /\ service'[t] = [holder |-> Nobody, recent |-> FALSE]
        /\ service' \in [Services -> [holder : Tasks \cup {Nobody}, recent : BOOLEAN]]
        /\ \A s \in Services \ {t} : service'[s] = service[s]
    BY <2>1, GuardsNow
  <2>4. \A u \in Tasks : service'[ServiceOf(t)].holder = u <=>
                         ServiceOf(u) = ServiceOf(t) /\ Holds(u)'
    BY <1>4, <2>1, <2>2, <2>3, ServiceType
  <2> QED BY <1>3, <1>4, <2>1, <2>3, <2>4, TaskStepPreserves DEF Rest
<1> QED BY <1>5, <1>6

-------------------------------------------------------------------------------
(* The actions.                                                              *)

LEMMA ProceedsType ==
  ASSUME IInv, NEW t \in Tasks, NEW place \in Places, NEW cred \in Creds,
         Proceeds(t, place, cred)
  PROVE  /\ task' \in [Tasks -> TaskStates]
         /\ \A u \in Tasks \ {t} : task'[u] = task[u]
         /\ task'[t].at = place /\ task'[t].cred = cred /\ task'[t].token = 0
<1> DEFINE new == [at |-> place, reason |-> task[t].reason, cred |-> cred, token |-> 0]
<1>1. new \in TaskStates /\ new.at = place /\ new.cred = cred /\ new.token = 0
  BY NumbersType DEF IInv, TypeOK, TaskStates
<1>2. task' = [task EXCEPT ![t] = new]
  BY DEF Proceeds
<1> HIDE DEF new
<1> QED BY <1>1, <1>2 DEF IInv, TypeOK

Resting == Places \ (HoldingSteps \cup {"send", "retry"})

LEMMA GoesType ==
  ASSUME IInv, NEW t \in Tasks, NEW place \in Resting, Goes(t, place)
  PROVE  /\ task' \in [Tasks -> TaskStates]
         /\ \A u \in Tasks \ {t} : task'[u] = task[u]
         /\ task'[t].at = place /\ task'[t].cred = NoCred /\ task'[t].token = 0
<1>1. At(place) \in TaskStates /\ At(place).at = place /\ At(place).cred = NoCred
      /\ At(place).token = 0
  BY AtType DEF Resting, HoldingSteps
<1>2. task' = [task EXCEPT ![t] = At(place)]
  BY DEF Goes
<1> QED BY <1>1, <1>2 DEF IInv, TypeOK

LEMMA PlaceNames ==
  /\ {"locked", "reread", "posting", "rejecting", "saving"} \subseteq Places
  /\ {"idle", "gone", "spawned", "delay", "head", "sleep"} \subseteq Resting
BY DEF Places, Refreshing, Awaits, Listening, Resting, HoldingSteps, InFlightSteps

\* A refresh ends without having written the file.
LEMMA ReturnsNothing ==
  ASSUME IInv, NEW t \in Tasks, Returns(t, 0), Holds(t), Release(t),
         UNCHANGED <<stored, issued, keeper, saved>>
  PROVE  IInv'
<1>1. Rest(t) /\ Sound(t)' /\ ~Holds(t)'
  BY ReturnsType, NumbersType DEF IInv, TypeOK, Rest, Sound, Holds, HoldingSteps, StoredIsSaved
<1>2. service[ServiceOf(t)].recent \in BOOLEAN
  BY GuardsNow
<1> QED BY <1>1, <1>2, ReleasingStep DEF Release, SetGuard

\* A refresh ends after a write that happened or failed.
LEMMA ReturnsWritten ==
  ASSUME IInv, NEW t \in Tasks, Holds(t), NEW cred \in Creds, cred.access # 0,
         Write(cred) \/ WriteFails, UNCHANGED <<issued, keeper>>,
         NEW token \in Numbers, Returns(t, token), token # 0 => token \in saved',
         NEW recent \in BOOLEAN,
         service' = [service EXCEPT ![ServiceOf(t)] = [holder |-> Nobody, recent |-> recent]]
  PROVE  IInv'
<1>1. cred.access \in Numbers
  BY DEF Creds
<1>2. stored' \in Creds /\ saved \subseteq saved' /\ saved' \subseteq Numbers /\ StoredIsSaved'
  BY <1>1 DEF IInv, TypeOK, Write, WriteFails, StoredIsSaved
<1>3. Rest(t) /\ Sound(t)' /\ ~Holds(t)'
  BY <1>2, ReturnsType, NumbersType DEF IInv, TypeOK, Rest, Sound, Holds, HoldingSteps
<1> QED BY <1>3, ReleasingStep

LEMMA RefreshPreserves ==
  ASSUME IInv, NEW t \in Tasks, Acquire(t) \/ RefreshStep(t)
  PROVE  IInv'
<1> USE PlaceNames
<1>t. /\ stored \in Creds /\ task[t].cred \in Creds /\ issued \in Numbers
      /\ stored.access \in Numbers /\ NoCred \in Creds
  BY CredType DEF IInv, TypeOK, TaskStates, Creds
<1>1. CASE Acquire(t)
  <2>1. Proceeds(t, "locked", NoCred) /\ task[t].at = "waiting"
    BY <1>1 DEF Acquire
  <2>2. Rest(t) /\ task'[t].at = "locked" /\ task'[t].cred = NoCred /\ task'[t].token = 0
    BY <1>1, <1>t, <2>1, ProceedsType DEF Acquire, Rest, IInv, TypeOK, StoredIsSaved
  <2>3. Sound(t)' /\ Holds(t)' /\ task'[t].at \notin InFlightSteps
    BY <2>2 DEF Sound, Holds, HoldingSteps, InFlightSteps
  <2>4. service' = [service EXCEPT ![ServiceOf(t)] =
                      [holder |-> t, recent |-> service[ServiceOf(t)].recent]]
    BY <1>1 DEF Acquire, SetGuard
  <2>5. /\ service'[ServiceOf(t)] = [holder |-> t, recent |-> service[ServiceOf(t)].recent]
        /\ service' \in [Services -> [holder : Tasks \cup {Nobody}, recent : BOOLEAN]]
        /\ \A s \in Services \ {ServiceOf(t)} : service'[s] = service[s]
    BY <2>4, GuardsNow
  <2>6. \A u \in Tasks : ServiceOf(u) = ServiceOf(t) => ~Holds(u)
    BY <1>1, GuardsNow, ServiceType DEF Acquire
  <2>7. \A u \in Tasks : service'[ServiceOf(t)].holder = u <=>
                         ServiceOf(u) = ServiceOf(t) /\ Holds(u)'
    BY <2>2, <2>3, <2>5, <2>6 DEF Rest, Holds
  <2> QED BY <2>2, <2>3, <2>5, <2>7, TaskStepPreserves DEF Rest
<1>2. CASE ShareRefresh(t)
  <2>1. Proceeds(t, "reread", NoCred) /\ task[t].at = "locked"
    BY <1>2 DEF ShareRefresh
  <2>2. Rest(t) /\ task'[t].at = "reread" /\ task'[t].cred = NoCred /\ task'[t].token = 0
    BY <1>2, <1>t, <2>1, ProceedsType DEF ShareRefresh, Rest, IInv, TypeOK, StoredIsSaved
  <2>3. Sound(t)' /\ ~Holds(t)' /\ Holds(t)
    BY <2>1, <2>2 DEF Sound, Holds, HoldingSteps, InFlightSteps
  <2>4. service[ServiceOf(t)].recent \in BOOLEAN
    BY GuardsNow
  <2> QED BY <1>2, <2>2, <2>3, <2>4, ReleasingStep DEF ShareRefresh, Release, SetGuard
<1>3. CASE Reread(t)
  <2>1. PICK token \in {stored.access, 0} : Returns(t, token)
    BY <1>3 DEF Reread
  <2>2. token \in Numbers
    BY <1>t, NumbersType
  <2>3. token # 0 => token \in saved
    BY <2>1 DEF IInv, StoredIsSaved, NoCred
  <2>4. Rest(t) /\ Sound(t)' /\ ~Holds(t)'
    BY <1>3, <1>t, <2>1, <2>2, <2>3, ReturnsType
       DEF Reread, Rest, Sound, Holds, HoldingSteps, IInv, TypeOK, StoredIsSaved
  <2>5. ~Holds(t) /\ task'[t].at \notin InFlightSteps
    BY <1>3, <2>4 DEF Reread, Holds, HoldingSteps, InFlightSteps
  <2> QED BY <1>3, <2>4, <2>5, QuietStep DEF Reread
<1>4. CASE Post(t)
  <2>1. Proceeds(t, "posting", stored) /\ task[t].at = "locked"
    BY <1>4 DEF Post
  <2>2. Rest(t) /\ task'[t].at = "posting" /\ task'[t].cred = stored /\ task'[t].token = 0
    BY <1>4, <1>t, <2>1, ProceedsType DEF Post, Rest, IInv, TypeOK, StoredIsSaved
  <2>3. stored # NoCred /\ stored.access # 0
    BY <1>4 DEF Post, HasRefreshToken, NoCred, IInv, StoredIsSaved
  <2>4. Sound(t)' /\ Holds(t)' /\ Holds(t) /\ ~service[ServiceOf(t)].recent
    BY <1>4, <2>1, <2>2, <2>3 DEF Post, Sound, Holds, HoldingSteps, InFlightSteps
  <2> QED BY <1>4, <2>2, <2>4, QuietStep DEF Post
<1>5. CASE NothingToPost(t) \/ PostFails(t)
  <2>1. Holds(t)
    BY <1>5 DEF NothingToPost, PostFails, Holds, HoldingSteps, InFlightSteps
  <2> QED BY <1>5, <2>1, ReturnsNothing DEF NothingToPost, PostFails
<1>6. CASE PostRejected(t)
  <2>1. Proceeds(t, "rejecting", task[t].cred) /\ task[t].at = "posting"
    BY <1>6 DEF PostRejected
  <2>2. /\ Rest(t) /\ task'[t].at = "rejecting" /\ task'[t].cred = task[t].cred
        /\ task'[t].token = 0
    BY <1>6, <1>t, <2>1, ProceedsType DEF PostRejected, Rest, IInv, TypeOK, StoredIsSaved
  <2>3. Sound(t)' /\ Holds(t)' /\ Holds(t)
    BY <2>1, <2>2, SoundTasks DEF Sound, Holds, HoldingSteps, InFlightSteps
  <2>4. ~service[ServiceOf(t)].recent
    BY <2>1, GuardsNow DEF InFlightSteps
  <2> QED BY <1>6, <2>2, <2>3, <2>4, QuietStep DEF PostRejected
<1>7. CASE PostAccepted(t)
  <2>1. PICK refreshed \in BOOLEAN : Proceeds(t, "saving", Fresh(refreshed))
    BY <1>7 DEF PostAccepted
  <2>2. Fresh(refreshed) \in Creds /\ Fresh(refreshed).access # 0 /\ issued + 1 \in Numbers
    BY <1>7, <1>t, FreshType DEF PostAccepted
  <2>3. /\ task' \in [Tasks -> TaskStates]
        /\ \A u \in Tasks \ {t} : task'[u] = task[u]
        /\ task'[t].at = "saving" /\ task'[t].cred = Fresh(refreshed) /\ task'[t].token = 0
    BY <2>1, <2>2, ProceedsType
  <2>4. Rest(t)
    BY <1>7, <1>t, <2>2, <2>3 DEF PostAccepted, Rest, IInv, TypeOK, StoredIsSaved
  <2>5. task[t].at = "posting"
    BY <1>7 DEF PostAccepted
  <2>6. Sound(t)' /\ Holds(t)' /\ Holds(t)
    BY <2>2, <2>3, <2>5 DEF Sound, Holds, HoldingSteps, InFlightSteps, NoCred
  <2>7. ~service[ServiceOf(t)].recent
    BY <2>5, GuardsNow DEF InFlightSteps
  <2> QED BY <1>7, <2>4, <2>6, <2>7, QuietStep DEF PostAccepted
<1>8. CASE Quarantine(t)
  <2>1. Holds(t) /\ task[t].cred.access # 0
    BY <1>8, SoundTasks DEF Quarantine, Holds, HoldingSteps, InFlightSteps, Sound
  <2>2. Quarantined(task[t].cred) \in Creds /\ Quarantined(task[t].cred).access # 0
    BY <1>t, <2>1, CredType DEF Quarantined
  <2>3. service[ServiceOf(t)].recent \in BOOLEAN
    BY GuardsNow
  <2> QED BY <1>8, <2>1, <2>2, <2>3, NumbersType, ReturnsWritten DEF Quarantine, Release, SetGuard
<1>9. CASE Save(t)
  <2>1. Holds(t) /\ task[t].cred.access # 0
    BY <1>9, SoundTasks DEF Save, Holds, HoldingSteps, InFlightSteps, Sound
  <2>2. task[t].cred.access \in Numbers /\ task[t].cred.access \in saved'
    BY <1>9, <1>t DEF Save, Write, Creds
  <2> QED BY <1>9, <1>t, <2>1, <2>2, ReturnsWritten DEF Save
<1>10. CASE SaveFails(t)
  <2>1. Holds(t) /\ task[t].cred.access # 0
    BY <1>10, SoundTasks DEF SaveFails, Holds, HoldingSteps, InFlightSteps, Sound
  <2>2. service[ServiceOf(t)].recent \in BOOLEAN
    BY GuardsNow
  <2> QED BY <1>10, <1>t, <2>1, <2>2, NumbersType, ReturnsWritten
          DEF SaveFails, UnsavedToken, Release, SetGuard
<1> QED BY <1>1, <1>2, <1>3, <1>4, <1>5, <1>6, <1>7, <1>8, <1>9, <1>10 DEF RefreshStep

\* A caller leaves for a place of rest and gives its guard back if it had it.
LEMMA LeavingStep ==
  ASSUME IInv, NEW t \in Tasks, NEW place \in Resting, Goes(t, place),
         ReleaseIfHeld(t), UNCHANGED <<stored, issued, saved>>,
         keeper' \in [Keepalives -> [handle : BOOLEAN, told : BOOLEAN, aborted : BOOLEAN]]
  PROVE  IInv'
<1>1. Rest(t) /\ task'[t].at = place /\ task'[t].cred = NoCred /\ task'[t].token = 0
  BY GoesType DEF Rest, IInv, TypeOK, StoredIsSaved
<1>2. Sound(t)' /\ ~Holds(t)' /\ task'[t].at \notin InFlightSteps
  BY <1>1 DEF Sound, Holds, Resting, HoldingSteps
<1>3. CASE Holds(t)
  <2>1. Release(t) /\ service[ServiceOf(t)].recent \in BOOLEAN
    BY <1>3, GuardsNow DEF ReleaseIfHeld
  <2> QED BY <1>1, <1>2, <1>3, <2>1, ReleasingStep DEF Release, SetGuard
<1>4. CASE ~Holds(t)
  <2>1. UNCHANGED service
    BY <1>4, GuardsNow DEF ReleaseIfHeld
  <2> QED BY <1>1, <1>2, <1>4, <2>1, QuietStep
<1> QED BY <1>3, <1>4

\* A task that holds nothing moves between places of rest.
LEMMA MovingStep ==
  ASSUME IInv, NEW t \in Tasks, NEW place \in Resting, Goes(t, place), ~Holds(t),
         UNCHANGED <<stored, issued, service, saved>>,
         keeper' \in [Keepalives -> [handle : BOOLEAN, told : BOOLEAN, aborted : BOOLEAN]]
  PROVE  IInv'
<1>1. Rest(t) /\ task'[t].at = place /\ task'[t].cred = NoCred /\ task'[t].token = 0
  BY GoesType DEF Rest, IInv, TypeOK, StoredIsSaved
<1>2. Sound(t)' /\ ~Holds(t)' /\ task'[t].at \notin InFlightSteps
  BY <1>1 DEF Sound, Holds, Resting, HoldingSteps
<1> QED BY <1>1, <1>2, QuietStep

LEMMA RequestPreserves ==
  ASSUME IInv, NEW t \in Requests, RequestStep(t)
  PROVE  IInv'
<1>t. t \in Tasks /\ keeper \in [Keepalives -> [handle : BOOLEAN, told : BOOLEAN, aborted : BOOLEAN]]
  BY DEF Tasks, IInv, TypeOK
<1>1. CASE Resolve(t)
  <2> DEFINE new == With("send", stored.access)
  <2>1. stored.access # 0 /\ stored.access \in saved /\ stored.access \in Numbers
    BY <1>1 DEF Resolve, IInv, StoredIsSaved, TypeOK, Creds
  <2>2. new \in TaskStates /\ new.at = "send" /\ new.cred = NoCred /\ new.token = stored.access
    BY <2>1, CredType DEF With, TaskStates, Reasons, Places, Awaits
  <2>3. task' = [task EXCEPT ![t] = new]
    BY <1>1 DEF Resolve
  <2> HIDE DEF new
  <2>4. task'[t] = new /\ Rest(t)
    BY <1>1, <1>t, <2>2, <2>3 DEF Resolve, IInv, TypeOK, Rest, StoredIsSaved
  <2>5. Sound(t)' /\ ~Holds(t)' /\ ~Holds(t) /\ task'[t].at \notin InFlightSteps
    BY <1>1, <2>1, <2>2, <2>4 DEF Resolve, Sound, Holds, HoldingSteps, InFlightSteps
  <2> QED BY <1>1, <1>t, <2>4, <2>5, QuietStep DEF Resolve
<1>2. CASE ResolveNearExpiry(t)
  <2>1. ~Holds(t) /\ "expiry" \in Reasons
    BY <1>2 DEF ResolveNearExpiry, Holds, HoldingSteps, InFlightSteps, Reasons
  <2> QED BY <1>2, <1>t, <2>1, BeginRefreshPreserves DEF ResolveNearExpiry
<1>3. CASE Unauthorized(t)
  <2>1. ~Holds(t) /\ "401" \in Reasons
    BY <1>3 DEF Unauthorized, Holds, HoldingSteps, InFlightSteps, Reasons
  <2> QED BY <1>3, <1>t, <2>1, BeginRefreshPreserves DEF Unauthorized
<1>4. CASE Answered(t)
  <2>1. ~Holds(t)
    BY <1>4 DEF Answered, Holds, HoldingSteps, InFlightSteps
  <2> QED BY <1>4, <1>t, <2>1, PlaceNames, MovingStep DEF Answered
<1>5. CASE Dropped(t)
  BY <1>5, <1>t, PlaceNames, LeavingStep DEF Dropped
<1> QED BY <1>1, <1>2, <1>3, <1>4, <1>5 DEF RequestStep

LEMMA KeepalivePreserves ==
  ASSUME IInv, NEW k \in Keepalives, KeepaliveStep(k) \/ Start(k) \/ Shutdown(k) \/ Stop(k)
  PROVE  IInv'
<1>t. k \in Tasks /\ keeper \in [Keepalives -> [handle : BOOLEAN, told : BOOLEAN, aborted : BOOLEAN]]
  BY DEF Tasks, IInv, TypeOK
<1>1. CASE FirstPoll(k) \/ InitialDelayOver(k) \/ Sleep(k)
  <2>1. ~Holds(k) /\ UNCHANGED <<stored, issued, service, keeper, saved>>
    BY <1>1 DEF FirstPoll, InitialDelayOver, Sleep, Holds, HoldingSteps, InFlightSteps
  <2>2. Goes(k, "delay") \/ Goes(k, "head") \/ Goes(k, "sleep")
    BY <1>1 DEF FirstPoll, InitialDelayOver, Sleep
  <2> QED BY <1>t, <2>1, <2>2, PlaceNames, MovingStep
<1>2. CASE Tick(k)
  <2>1. ~Holds(k) /\ "tick" \in Reasons
    BY <1>2 DEF Tick, Holds, HoldingSteps, InFlightSteps, Reasons
  <2> QED BY <1>2, <1>t, <2>1, BeginRefreshPreserves DEF Tick
<1>3. CASE AbortTakes(k)
  BY <1>3, <1>t, PlaceNames, LeavingStep DEF AbortTakes
<1>4. CASE Start(k)
  <2>1. ~Holds(k)
    BY <1>4 DEF Start, Holds, HoldingSteps, InFlightSteps
  <2>2. keeper' \in [Keepalives -> [handle : BOOLEAN, told : BOOLEAN, aborted : BOOLEAN]]
    BY <1>4, <1>t DEF Start
  <2> QED BY <1>4, <1>t, <2>1, <2>2, PlaceNames, MovingStep DEF Start
<1>5. ASSUME Shutdown(k) \/ Stop(k)
      PROVE  IInv'
  <2>1. keeper' \in [Keepalives -> [handle : BOOLEAN, told : BOOLEAN, aborted : BOOLEAN]]
    <3>1. /\ keeper[k].handle \in BOOLEAN /\ keeper[k].aborted \in BOOLEAN
          /\ (keeper[k].aborted \/ Aborts(k)) \in BOOLEAN
      BY <1>t
    <3>2. PICK handle \in BOOLEAN, aborted \in BOOLEAN :
            keeper' = [keeper EXCEPT ![k] = [handle |-> handle, told |-> TRUE, aborted |-> aborted]]
      BY <1>5, <3>1, Zenon DEF Shutdown, Stop
    <3> QED BY <1>t, <3>2
  <2>2. Notify(k) /\ UNCHANGED <<stored, issued, service, saved>>
    BY <1>5 DEF Shutdown, Stop
  <2>3. CASE task[k].at \in Listening /\ Goes(k, "gone")
    <3>1. ~Holds(k)
      BY <2>3 DEF Listening, Holds, HoldingSteps, InFlightSteps
    <3> QED BY <1>t, <2>1, <2>2, <2>3, <3>1, PlaceNames, MovingStep
  <2>4. CASE UNCHANGED task
    BY <2>1, <2>2, <2>4
       DEF IInv, TypeOK, RefreshIsShared, TokensAreSaved, StoredIsSaved, HeldIsReal, InFlight
  <2> QED BY <2>2, <2>3, <2>4 DEF Notify
<1> QED BY <1>1, <1>2, <1>3, <1>4, <1>5 DEF KeepaliveStep

LEMMA ElsewherePreserves ==
  ASSUME IInv,
         \/ \E s \in Services : WindowCloses(s)
         \/ \E refreshed \in BOOLEAN : Login(refreshed)
         \/ Logout
         \/ UNCHANGED vars
  PROVE  IInv'
<1>1. ASSUME NEW s \in Services, WindowCloses(s)
      PROVE  IInv'
  <2>1. service' = [service EXCEPT ![s] = [holder |-> service[s].holder, recent |-> FALSE]]
        /\ UNCHANGED <<stored, issued, task, keeper, saved>>
    BY <1>1 DEF WindowCloses
  <2>2. service \in [Services -> [holder : Tasks \cup {Nobody}, recent : BOOLEAN]]
    BY DEF IInv, TypeOK
  <2>3. /\ service' \in [Services -> [holder : Tasks \cup {Nobody}, recent : BOOLEAN]]
        /\ \A r \in Services : service'[r].holder = service[r].holder
        /\ \A r \in Services : service'[r].recent => service[r].recent
    BY <2>1, <2>2
  <2>4. TypeOK' /\ TokensAreSaved' /\ StoredIsSaved' /\ HeldIsReal'
    BY <2>1, <2>3 DEF IInv, TypeOK, TokensAreSaved, StoredIsSaved, HeldIsReal, InFlight
  <2>5. RefreshIsShared'
    BY <2>1, <2>3, ServiceType DEF IInv, RefreshIsShared, InFlight
  <2> QED BY <2>4, <2>5 DEF IInv
<1>2. ASSUME NEW refreshed \in BOOLEAN, Login(refreshed)
      PROVE  IInv'
  <2>1. issued \in Numbers /\ issued < MaxIssued
    BY <1>2 DEF Login, IInv, TypeOK
  <2>2. Fresh(refreshed) \in Creds /\ Fresh(refreshed).access # 0 /\ issued + 1 \in Numbers
    BY <2>1, FreshType
  <2>3. /\ \/ stored' = Fresh(refreshed) /\ saved' = saved \cup {Fresh(refreshed).access}
           \/ UNCHANGED <<stored, saved>>
        /\ issued' = issued + 1 /\ UNCHANGED <<service, task, keeper>>
    BY <1>2 DEF Login, Write, WriteFails
  <2>4. Fresh(refreshed).access \in Numbers
    BY <2>2 DEF Creds
  <2>5. TypeOK' /\ StoredIsSaved' /\ HeldIsReal'
    BY <2>2, <2>3, <2>4 DEF IInv, TypeOK, StoredIsSaved, HeldIsReal, InFlight
  <2>6. RefreshIsShared' /\ TokensAreSaved'
    BY <2>3 DEF IInv, RefreshIsShared, TokensAreSaved, InFlight
  <2> QED BY <2>5, <2>6 DEF IInv
<1>3. CASE Logout
  BY <1>3, CredType
     DEF Logout, IInv, TypeOK, RefreshIsShared, TokensAreSaved, StoredIsSaved, HeldIsReal, InFlight
<1>4. CASE UNCHANGED vars
  BY <1>4 DEF vars, IInv, TypeOK, RefreshIsShared, TokensAreSaved, StoredIsSaved, HeldIsReal, InFlight
<1> QED BY <1>1, <1>2, <1>3, <1>4

LEMMA InitHolds == Init => IInv
<1> SUFFICES ASSUME Init PROVE IInv
  OBVIOUS
<1>1. \A t \in Tasks : task[t] = At(IF t \in Requests THEN "idle" ELSE "off")
  BY DEF Init
<1>2. \A t \in Tasks :
        /\ task[t] \in TaskStates /\ task[t].at \in {"idle", "off"}
        /\ task[t].cred = NoCred /\ task[t].token = 0
  <2>1. {"idle", "off"} \subseteq Places \ (InFlightSteps \cup {"send", "retry"})
    BY DEF Places, InFlightSteps
  <2> QED BY <1>1, <2>1, AtType
<1>3. TypeOK
  BY <1>2, NumbersType, CredType DEF Init, TypeOK, InFlightSteps
<1>4. RefreshIsShared
  BY <1>2, ServiceType DEF Init, RefreshIsShared, HoldingSteps, InFlightSteps, InFlight
<1>5. TokensAreSaved /\ StoredIsSaved /\ HeldIsReal
  BY <1>2 DEF Init, TokensAreSaved, StoredIsSaved, HeldIsReal, InFlight, InFlightSteps
<1> QED BY <1>3, <1>4, <1>5 DEF IInv

\* The inductive invariant: what each task holds is real and saved, and each
\* guard accounts for one place (every action of nous.rs and keepalive.rs).
THEOREM InvariantHolds == Spec => []IInv
<1>1. IInv /\ [Next]_vars => IInv'
  BY RefreshPreserves, RequestPreserves, KeepalivePreserves, ElsewherePreserves DEF Next
<1> QED BY <1>1, InitHolds, PTL DEF Spec

\* The types of the state, for any number of callers.
THEOREM TypeCorrect == Spec => []TypeOK
BY InvariantHolds, PTL DEF IInv

\* Callers of one NousAuthService never post twice within its window, and its
\* lock belongs to the task that is past it, on every path of refresh.
THEOREM RefreshShared == Spec => []RefreshIsShared
BY InvariantHolds, PTL DEF IInv

\* A token a request sends has been in auth.json.
THEOREM TokensSaved == Spec => []TokensAreSaved
BY InvariantHolds, PTL DEF IInv

-------------------------------------------------------------------------------
(* Logout.                                                                   *)

LEMMA LogoutStep ==
  ASSUME IInv, stored = NoCred, InFlight = {}, [Next]_vars
  PROVE  \/ stored' = NoCred /\ InFlight' = {}
         \/ \E refreshed \in BOOLEAN : Login(refreshed)
<1>1. \A t \in Tasks : task[t].at \notin InFlightSteps
  BY DEF InFlight
<1>2. stored.refresh = 0 /\ NoCred.access = 0 /\ 0 \in Numbers
  BY NumbersType DEF NoCred
<1>3. ASSUME NEW t \in Tasks, stored' = NoCred,
             \A u \in Tasks \ {t} : task'[u] = task[u], task'[t].at \notin InFlightSteps
      PROVE  stored' = NoCred /\ InFlight' = {}
  BY <1>1, <1>3 DEF InFlight
<1>4. ASSUME NEW t \in Tasks, Acquire(t) \/ RefreshStep(t)
      PROVE  stored' = NoCred /\ InFlight' = {}
  <2>1. task[t].at \notin InFlightSteps
    BY <1>1
  <2>2. Acquire(t) \/ ShareRefresh(t) \/ Reread(t) \/ NothingToPost(t)
    BY <1>2, <1>4, <2>1
       DEF RefreshStep, Post, HasRefreshToken, PostFails, PostRejected, Quarantine, PostAccepted,
           Save, SaveFails, InFlightSteps
  <2>3. stored' = NoCred
    BY <2>2 DEF Acquire, ShareRefresh, Reread, NothingToPost
  <2>4. CASE Acquire(t) \/ ShareRefresh(t)
    <3>1. PICK place \in {"locked", "reread"} : Proceeds(t, place, NoCred)
      BY <2>4 DEF Acquire, ShareRefresh
    <3>2. /\ \A u \in Tasks \ {t} : task'[u] = task[u]
          /\ task'[t].at = place
      BY <3>1, CredType, PlaceNames, ProceedsType
    <3>3. place \notin InFlightSteps
      BY DEF InFlightSteps
    <3> QED BY <1>3, <2>3, <3>2, <3>3
  <2>5. CASE Reread(t) \/ NothingToPost(t)
    <3>1. Returns(t, 0)
      BY <1>2, <2>5 DEF Reread, NothingToPost
    <3>2. /\ \A u \in Tasks \ {t} : task'[u] = task[u]
          /\ task'[t].at \notin InFlightSteps
      BY <1>2, <3>1, ReturnsType DEF IInv, HoldingSteps
    <3> QED BY <1>3, <2>3, <3>2
  <2> QED BY <2>2, <2>4, <2>5
<1>5. ASSUME NEW t \in Tasks, NEW place \in Resting, Goes(t, place), UNCHANGED stored
      PROVE  stored' = NoCred /\ InFlight' = {}
  <2>1. /\ \A u \in Tasks \ {t} : task'[u] = task[u]
        /\ task'[t].at = place /\ place \notin InFlightSteps
    BY <1>5, GoesType DEF Resting, HoldingSteps
  <2> QED BY <1>3, <1>5, <2>1
<1>6. ASSUME NEW t \in Tasks, NEW reason \in Reasons, BeginRefresh(t, reason), UNCHANGED stored
      PROVE  stored' = NoCred /\ InFlight' = {}
  <2>1. /\ \A u \in Tasks \ {t} : task'[u] = task[u]
        /\ task'[t].at = "waiting"
    BY <1>6 DEF BeginRefresh, IInv, TypeOK
  <2> QED BY <1>3, <1>6, <2>1 DEF InFlightSteps
<1>7. ASSUME NEW t \in Requests, RequestStep(t)
      PROVE  stored' = NoCred /\ InFlight' = {}
  <2>1. ~Resolve(t) /\ ~ResolveNearExpiry(t)
    BY DEF Resolve, ResolveNearExpiry
  <2>2. t \in Tasks /\ "401" \in Reasons
    BY DEF Tasks, Reasons
  <2> QED BY <1>5, <1>6, <1>7, <2>1, <2>2, PlaceNames DEF RequestStep, Unauthorized, Answered, Dropped
<1>8. ASSUME NEW k \in Keepalives, KeepaliveStep(k) \/ Start(k) \/ Shutdown(k) \/ Stop(k)
      PROVE  stored' = NoCred /\ InFlight' = {}
  <2>1. k \in Tasks /\ "tick" \in Reasons
    BY DEF Tasks, Reasons
  <2>2. CASE KeepaliveStep(k) \/ Start(k)
    BY <1>5, <1>6, <2>1, <2>2, PlaceNames
       DEF KeepaliveStep, FirstPoll, InitialDelayOver, Sleep, Tick, AbortTakes, Start
  <2>3. CASE Shutdown(k) \/ Stop(k)
    <3>1. Notify(k) /\ UNCHANGED stored
      BY <2>3 DEF Shutdown, Stop
    <3>2. Goes(k, "gone") \/ UNCHANGED task
      BY <3>1 DEF Notify
    <3>3. ASSUME UNCHANGED task PROVE InFlight' = {}
      BY <3>3 DEF InFlight
    <3> QED BY <1>5, <2>1, <3>1, <3>2, <3>3, PlaceNames
  <2> QED BY <1>8, <2>2, <2>3
<1>9. ASSUME (\E s \in Services : WindowCloses(s)) \/ Logout \/ UNCHANGED vars
      PROVE  stored' = NoCred /\ InFlight' = {}
  BY <1>9 DEF WindowCloses, Logout, vars, InFlight
<1> QED BY <1>4, <1>7, <1>8, <1>9 DEF Next

\* After a logout with no refresh under way only a login brings a credential
\* back, whatever the requests and the keepalive still do (nous.rs:128-131, 180-187).
THEOREM LogoutFinal == Spec => LogoutIsFinal
<1>1. IInv /\ [Next]_vars =>
        [(stored = NoCred /\ InFlight = {}) =>
           \/ stored' = NoCred /\ InFlight' = {}
           \/ \E refreshed \in BOOLEAN : Login(refreshed)]_vars
  BY LogoutStep
<1> QED BY <1>1, InvariantHolds, PTL DEF Spec, LogoutIsFinal
===============================================================================
