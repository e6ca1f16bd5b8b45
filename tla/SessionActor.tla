----------------------------- MODULE SessionActor -----------------------------
(***************************************************************************)
(* The terminal session: an actor that owns the session or the one         *)
(* blocking task a turn runs in, the control through which the two share   *)
(* the cancellation token and the pending prompt, the command queue that   *)
(* feeds the actor and the broadcast of events that leaves both.  The      *)
(* steps of the turn are those of AgentTurn, seen from outside: what it    *)
(* publishes, where it waits and how it ends.                              *)
(***************************************************************************)
EXTENDS Naturals, Sequences, FiniteSets, TLC

CONSTANTS
  CallIds,    \* ids of tool calls; only a committed turn keeps its ids from reuse
  Keys,       \* approval cache keys: tool and normalized target
  NoKey,      \* a call that has no cache key
  MaxCmds     \* bound of the check: commands a client sends, so turns too

ASSUME NoKeyAssumption == NoKey \notin Keys
ASSUME BoundsAssumption == MaxCmds \in Nat

Modes == {"Auto", "Plan"}
PermissionChoices == {"AllowOnce", "AllowSession", "Deny"}

Submit(m) == [kind |-> "Submit", mode |-> m]
Resolve(id, choice) == [kind |-> "Resolve", id |-> id, choice |-> choice]
SetMode(arg) == [kind |-> "Mode", arg |-> arg]
Plain(kind) == [kind |-> kind]

\* Interrupt stands for /stop too, Shutdown for /quit, Slash for any other command.
PlainKinds == {"Interrupt", "Shutdown", "SelectModel", "Slash"}
Commands ==
  {Submit(m) : m \in Modes} \cup {SetMode(a) : a \in Modes \cup {"next"}}
    \cup {Resolve(id, c) : id \in CallIds, c \in PermissionChoices}
    \cup {Plain(k) : k \in PlainKinds}

VARIABLES
  \* The actor (SessionActor, its State and the phase of its shutdown).
  actor,      \* "Idle", "Running" or "Stopped"
  stopping,   \* where shutdown() is
  polled,     \* the running turn's join handle was polled and is pending
  turns,      \* TurnId of the latest turn
  live,       \* the session has a provider: neither setup nor offline demo
  mode,       \* SessionRuntime::mode
  cache,      \* SessionRuntime::permissions, shared with every turn's control
  \* The turn task and its ChannelRunControl.
  worker,     \* where the turn task is
  call,       \* the call it works on
  used,       \* call ids of the turn's transcript
  committed,  \* call ids of the committed conversation
  pending,    \* ids registered in the control, each with a reply channel
  answer,     \* the reply in the channel the worker waits on
  cancelled,  \* the turn's token
  \* The channels.
  cmds,       \* the unbounded command queue
  closed,     \* the client's end of it is dropped
  sent,       \* commands sent so far
  events,     \* all events ever broadcast, in order
  \* History.
  served,     \* commands dispatched since the turn task ended
  allowed,    \* prompts the actor resolved with an allowing choice
  ran         \* gated calls whose tool began

actorVars == <<actor, stopping, polled, turns, live, mode>>
workerVars == <<worker, call, used, committed>>
controlVars == <<cache, pending, answer, cancelled>>
chanVars == <<cmds, closed, sent>>
history == <<served, allowed, ran>>
vars == <<actorVars, workerVars, controlVars, chanVars, events, history>>

Call == [id : CallIds, key : Keys \cup {NoKey}, gated : BOOLEAN]
NoCall == [id |-> "none", key |-> NoKey, gated |-> FALSE]
Points == {"none", "begin", "loop", "asking", "waiting", "dispatch", "running",
           "ending", "returned", "panicked"}
WorkerDone == worker \in {"returned", "panicked"}

Event(turn, kind, arg) == [turn |-> turn, kind |-> kind, arg |-> arg]

Init ==
  /\ actor = "Idle" /\ stopping = "no" /\ polled = FALSE /\ turns = 0
  /\ live \in BOOLEAN /\ mode = "Auto" /\ cache = {}
  /\ worker = "none" /\ call = NoCall /\ used = {} /\ committed = {}
  /\ pending = {} /\ answer = "none" /\ cancelled = FALSE
  /\ cmds = <<>> /\ closed = FALSE /\ sent = 0
  /\ events = IF live THEN <<>> ELSE <<Event(0, "Status", "setup")>>
  /\ served = 0 /\ allowed = {} /\ ran = {}

-------------------------------------------------------------------------------
(* The actor.                                                                 *)

\* Events of the actor carry the running turn's id, or the default one.
Publish(kind, arg) ==
  events' = Append(events, Event(IF actor = "Running" THEN turns ELSE 0, kind, arg))

\* The select is biased: the join handle is polled before the queue.
PollJoin ==
  /\ actor = "Running" /\ stopping = "no" /\ ~polled /\ ~WorkerDone
  /\ polled' = TRUE
  /\ UNCHANGED <<actor, stopping, turns, live, mode, workerVars, controlVars,
                 chanVars, events, history>>

\* Mutant: the select polls its branches in any order.
MayReceiveUnbiased == actor # "Stopped" /\ stopping = "no"

MayReceive == actor # "Stopped" /\ stopping = "no" /\ (actor = "Running" => polled)

Receive(kind) ==
  /\ MayReceive
  /\ cmds # <<>> /\ Head(cmds).kind = kind
  /\ cmds' = Tail(cmds)
  /\ polled' = FALSE
  /\ served' = IF WorkerDone THEN served + 1 ELSE served
  /\ UNCHANGED <<closed, sent>>

SubmitRefused ==
  /\ Receive("Submit")
  /\ \/ actor = "Running" /\ Publish("Busy", "goal")
     \/ actor = "Idle" /\ ~live /\ Publish("Status", "setup")
  /\ UNCHANGED <<actor, stopping, turns, live, mode, workerVars, controlVars,
                 allowed, ran>>

\* The session moves into the task with a fresh token and a fresh control.
SubmitAccepted ==
  /\ Receive("Submit")
  /\ actor = "Idle" /\ live
  /\ actor' = "Running" /\ turns' = turns + 1 /\ mode' = Head(cmds).mode
  /\ worker' = "begin" /\ call' = NoCall /\ used' = committed
  /\ pending' = {} /\ answer' = "none" /\ cancelled' = FALSE
  /\ UNCHANGED <<stopping, live, cache, committed, events, allowed, ran>>

\* The reply goes to whichever prompt is registered under the id.
ResolvePermission ==
  /\ Receive("Resolve")
  /\ LET c == Head(cmds)
     IN IF actor = "Running" /\ c.id \in pending
        THEN /\ pending' = pending \ {c.id}
             /\ answer' = c.choice
             /\ allowed' = IF c.choice = "Deny" THEN allowed
                           ELSE allowed \cup {[turn |-> turns, id |-> c.id,
                                               choice |-> c.choice]}
        ELSE UNCHANGED <<pending, answer, allowed>>
  /\ UNCHANGED <<actor, stopping, turns, live, mode, workerVars, cache, cancelled,
                 events, ran>>

\* Mutant: the turn is reported done when it is interrupted, not when it is joined.
InterruptReportsDone ==
  /\ Receive("Interrupt")
  /\ cancelled' = (cancelled \/ actor = "Running")
  /\ events' = IF actor = "Running" THEN Append(events, Event(turns, "Done", "none"))
               ELSE events
  /\ UNCHANGED <<actor, stopping, turns, live, mode, workerVars, cache, pending,
                 answer, allowed, ran>>

Interrupt ==
  /\ Receive("Interrupt")
  /\ cancelled' = (cancelled \/ actor = "Running")
  /\ UNCHANGED <<actor, stopping, turns, live, mode, workerVars, cache, pending,
                 answer, events, allowed, ran>>

OtherMode(m) == IF m = "Auto" THEN "Plan" ELSE "Auto"

ModeCommand ==
  /\ Receive("Mode")
  /\ LET arg == Head(cmds).arg
     IN IF actor = "Running"
        THEN Publish("Busy", "slash") /\ UNCHANGED mode
        ELSE /\ mode' = IF arg = "next" THEN OtherMode(mode) ELSE arg
             /\ Publish("ModeChanged", mode')
  /\ UNCHANGED <<actor, stopping, turns, live, workerVars, controlVars, allowed, ran>>

\* A running session drops the selection without a word.
SelectModel ==
  /\ Receive("SelectModel")
  /\ IF actor = "Idle"
     THEN Publish("Status", "model") \/ Publish("Error", "model")
     ELSE UNCHANGED events
  /\ UNCHANGED <<actor, stopping, turns, live, mode, workerVars, controlVars,
                 allowed, ran>>

\* While a turn runs only commands that read are answered.
SlashCommand ==
  /\ Receive("Slash")
  /\ Publish("Status", "slash") \/ (actor = "Running" /\ Publish("Busy", "slash"))
  /\ UNCHANGED <<actor, stopping, turns, live, mode, workerVars, controlVars,
                 allowed, ran>>

\* The turn task is joined: the session comes home, or died with the task.
Restore ==
  /\ actor = "Running" /\ WorkerDone
  /\ IF worker = "returned"
     THEN /\ actor' = "Idle"
          /\ events' = Append(events, Event(turns, "Done", "none"))
     ELSE /\ actor' = "Stopped"
          /\ events' = events \o <<Event(0, "Error", "panic"), Event(turns, "Done", "none")>>
  /\ worker' = "none" /\ polled' = FALSE /\ served' = 0
  /\ stopping' = IF stopping = "no" THEN "no" ELSE "stop"
  /\ UNCHANGED <<turns, live, mode, call, used, committed, controlVars, chanVars,
                 allowed, ran>>

\* Mutant: shutdown waits for the task without cancelling its token.
ShutdownBeginsPatiently ==
  /\ stopping' = IF actor = "Running" THEN "joining" ELSE "stop"
  /\ UNCHANGED <<actor, turns, live, mode, workerVars, controlVars, events, allowed,
                 ran>>

\* shutdown(): cancel, wait for the task at most two seconds, report, and wait on.
ShutdownBegins ==
  /\ cancelled' = (cancelled \/ actor = "Running")
  /\ stopping' = IF actor = "Running" THEN "joining" ELSE "stop"
  /\ UNCHANGED <<actor, turns, live, mode, workerVars, cache, pending, answer,
                 events, allowed, ran>>

Shutdown == Receive("Shutdown") /\ ShutdownBegins

EndOfCommands ==
  /\ MayReceive /\ closed /\ cmds = <<>>
  /\ polled' = FALSE
  /\ ShutdownBegins
  /\ UNCHANGED <<chanVars, served>>

\* Mutant: a task that does not end in time is left behind.
ShutdownOverdueGivesUp ==
  /\ stopping = "joining" /\ ~WorkerDone
  /\ stopping' = "stop"
  /\ Publish("Error", "overdue")
  /\ UNCHANGED <<actor, polled, turns, live, mode, workerVars, controlVars, chanVars,
                 history>>

ShutdownOverdue ==
  /\ stopping = "joining" /\ ~WorkerDone
  /\ stopping' = "overdue"
  /\ Publish("Error", "overdue")
  /\ UNCHANGED <<actor, polled, turns, live, mode, workerVars, controlVars, chanVars,
                 history>>

Stop ==
  /\ stopping = "stop" /\ actor # "Stopped"
  /\ actor' = "Stopped"
  /\ UNCHANGED <<stopping, polled, turns, live, mode, workerVars, controlVars,
                 chanVars, events, history>>

-------------------------------------------------------------------------------
(* The turn task.                                                             *)

\* TurnSink tags every event with the turn and keeps the agent's own Done back.
Sink(kind, arg) == Append(events, Event(turns, kind, arg))

WorkerBegins ==
  /\ worker = "begin"
  /\ worker' = "loop"
  /\ events' = Sink("Header", "none")
  /\ UNCHANGED <<actorVars, call, used, committed, controlVars, chanVars, history>>

\* A final answer commits the transcript and publishes nothing more.
WorkerAnswers ==
  /\ worker = "loop"
  /\ worker' = "returned" /\ committed' = used
  /\ UNCHANGED <<actorVars, call, used, controlVars, chanVars, events, history>>

WorkerFails ==
  /\ \/ worker = "loop" /\ events' = Sink("Error", "turn")
     \/ (worker = "ending" \/ (worker = "loop" /\ cancelled))
          /\ events' = Sink("Interrupted", "none")
  /\ worker' = "returned"
  /\ UNCHANGED <<actorVars, call, used, committed, controlVars, chanVars, history>>

\* A panic unwinds the task from wherever its own code or a tool's runs.
WorkerPanics ==
  /\ worker \in {"begin", "loop", "running"}
  /\ worker' = "panicked"
  /\ UNCHANGED <<actorVars, call, used, committed, controlVars, chanVars, events,
                 history>>

NewCall(c) ==
  /\ worker = "loop" /\ ~cancelled /\ c.id \notin used
  /\ call' = c /\ used' = used \cup {c.id}

CallStarts(c) ==
  /\ NewCall(c)
  /\ ~c.gated \/ (mode = "Auto" /\ c.key \in cache)
  /\ worker' = "dispatch"
  /\ events' = Sink("ToolStart", c.id)
  /\ UNCHANGED <<actorVars, committed, controlVars, chanVars, history>>

CallPlanDenied(c) ==
  /\ NewCall(c)
  /\ c.gated /\ mode = "Plan"
  /\ events' = Sink("ToolEnd", c.id)
  /\ UNCHANGED <<actorVars, worker, committed, controlVars, chanVars, history>>

\* The reply channel is registered before the prompt is published.
CallRegisters(c) ==
  /\ NewCall(c)
  /\ c.gated /\ mode = "Auto" /\ c.key \notin cache
  /\ pending' = pending \cup {c.id} /\ answer' = "none"
  /\ worker' = "asking"
  /\ UNCHANGED <<actorVars, committed, cache, cancelled, chanVars, events, history>>

CallAsks ==
  /\ worker = "asking"
  /\ worker' = "waiting"
  /\ events' = Sink("PermissionRequired", call.id)
  /\ UNCHANGED <<actorVars, call, used, committed, controlVars, chanVars, history>>

\* Mutant: an approval for once is remembered too.
RememberAlways(choice) ==
  cache' = IF call.key # NoKey THEN cache \cup {call.key} ELSE cache

\* An approval for the session is remembered under the call's key, if it has one.
Remember(choice) ==
  cache' = IF choice = "AllowSession" /\ call.key # NoKey THEN cache \cup {call.key}
           ELSE cache

Allowed ==
  /\ worker = "waiting" /\ answer \in {"AllowOnce", "AllowSession"}
  /\ Remember(answer)
  /\ worker' = "dispatch"
  /\ events' = Sink("ToolStart", call.id)
  /\ UNCHANGED <<actorVars, call, used, committed, pending, answer, cancelled,
                 chanVars, history>>

Denied ==
  /\ worker = "waiting" /\ answer = "Deny"
  /\ worker' = "loop"
  /\ events' = events \o <<Event(turns, "PermissionResolved", call.id),
                           Event(turns, "ToolEnd", call.id)>>
  /\ UNCHANGED <<actorVars, call, used, committed, controlVars, chanVars, history>>

\* Mutant: a cancelled prompt leaves its reply channel registered.
PromptCancelledKeepsChannel ==
  /\ worker = "waiting" /\ cancelled
  /\ worker' = "ending"
  /\ UNCHANGED <<actorVars, call, used, committed, controlVars, chanVars, events,
                 history>>

\* The prompt polls the token every 50 ms and takes its channel back.
PromptCancelled ==
  /\ worker = "waiting" /\ cancelled
  /\ pending' = pending \ {call.id}
  /\ worker' = "ending"
  /\ UNCHANGED <<actorVars, call, used, committed, cache, answer, cancelled, chanVars,
                 events, history>>

ToolRuns ==
  /\ worker = "dispatch" /\ ~cancelled
  /\ worker' = "running"
  /\ ran' = IF call.gated THEN ran \cup {[turn |-> turns, id |-> call.id, key |-> call.key]}
            ELSE ran
  /\ UNCHANGED <<actorVars, call, used, committed, controlVars, chanVars, events,
                 served, allowed>>

\* The tool ended, or its context refused it; an interrupted one ends the turn.
ToolEnds ==
  /\ worker \in {"dispatch", "running"}
  /\ events' = Sink("ToolEnd", call.id)
  /\ \/ worker' = "loop"
     \/ cancelled /\ worker' = "ending"
  /\ UNCHANGED <<actorVars, call, used, committed, controlVars, chanVars, history>>

-------------------------------------------------------------------------------
(* The client, and the whole.                                                 *)

\* A client may send anything, but answers only prompts that were published.
Send(c) ==
  /\ ~closed /\ sent < MaxCmds
  /\ c.kind = "Resolve" =>
       \E i \in DOMAIN events : events[i].kind = "PermissionRequired" /\ events[i].arg = c.id
  /\ cmds' = Append(cmds, c) /\ sent' = sent + 1
  /\ UNCHANGED <<actorVars, workerVars, controlVars, closed, events, history>>

Close ==
  /\ ~closed
  /\ closed' = TRUE
  /\ UNCHANGED <<actorVars, workerVars, controlVars, cmds, sent, events, history>>

Dispatch ==
  \/ SubmitRefused \/ SubmitAccepted \/ ResolvePermission \/ Interrupt
  \/ ModeCommand \/ SelectModel \/ SlashCommand \/ Shutdown

ActorStep ==
  PollJoin \/ Dispatch \/ Restore \/ EndOfCommands \/ Stop

CallStep ==
  \/ \E c \in Call : CallStarts(c) \/ CallPlanDenied(c) \/ CallRegisters(c)
  \/ CallAsks \/ Allowed \/ Denied \/ PromptCancelled \/ ToolRuns \/ ToolEnds

WorkerStep == WorkerBegins \/ WorkerAnswers \/ WorkerFails \/ CallStep

Next ==
  \/ ActorStep \/ ShutdownOverdue
  \/ WorkerStep \/ WorkerPanics
  \/ \E c \in Commands : Send(c)
  \/ Close

\* The actor's loop and the turn task are scheduled; a task that is cancelled or
\* answered goes on.  Nobody has to answer a prompt or send a command.
Fairness == WF_vars(ActorStep) /\ WF_vars(WorkerStep)

Spec == Init /\ [][Next]_vars
FairSpec == Spec /\ Fairness

\* No definition tells one call id from another.
IdSymmetry == Permutations(CallIds)

-------------------------------------------------------------------------------
(* Properties.                                                                *)

\* The type of every variable of the session (state.rs, tui_runtime.rs, turn.rs).
TypeOK ==
  /\ actor \in {"Idle", "Running", "Stopped"}
  /\ stopping \in {"no", "joining", "overdue", "stop"}
  /\ polled \in BOOLEAN /\ turns \in 0..MaxCmds /\ live \in BOOLEAN /\ mode \in Modes
  /\ cache \subseteq Keys
  /\ worker \in Points /\ call \in Call \cup {NoCall}
  /\ used \subseteq CallIds /\ committed \subseteq CallIds /\ pending \subseteq CallIds
  /\ answer \in PermissionChoices \cup {"none"} /\ cancelled \in BOOLEAN
  /\ cmds \in Seq(Commands) /\ closed \in BOOLEAN /\ sent \in 0..MaxCmds
  /\ served \in Nat

\* The actor owns the session or its single turn task, never neither and never a
\* detached task: a task exists exactly while the actor is Running, so a stopped
\* session has none left behind (actor.rs:1, shutdown.rs:1).
TaskIsOwned == (worker # "none") <=> (actor = "Running")

\* Every turn is reported done exactly once, when its task has been joined; the
\* agent's own Done is never published (turn.rs TurnSink::emit, lifecycle.rs restore).
OneDonePerTurn ==
  \A t \in 1..turns :
    Cardinality({i \in DOMAIN events : events[i].turn = t /\ events[i].kind = "Done"})
      = IF actor = "Running" /\ t = turns THEN 0 ELSE 1

\* Turn ids never go back in the stream, and nothing of a turn follows its Done:
\* what the client's filter of stale events relies on (app_events.rs).
TurnsAreFramed ==
  \A i, j \in DOMAIN events :
    i < j /\ events[i].turn > 0 /\ events[j].turn > 0 =>
      /\ events[i].turn <= events[j].turn
      /\ events[i].kind = "Done" => events[i].turn < events[j].turn

\* A reply channel is registered only while its prompt waits for it, so an answer
\* can only reach the prompt that is open (tui_runtime.rs approve_tool, resolve).
PromptsAreLive ==
  pending # {} => worker \in {"asking", "waiting"} /\ pending = {call.id}

\* A gated tool ran only if the actor resolved that call of that turn with an
\* allowing choice, or an earlier prompt for the same key was allowed for the
\* session (tui_runtime.rs approve_tool; permissions.rs key).
RunsAreApproved ==
  \A r \in ran :
    \/ \E a \in allowed : a.turn = r.turn /\ a.id = r.id
    \/ r.key \in cache

\* The cache grows only by AllowSession, one key per answer.
CacheIsEarned ==
  Cardinality(cache) <= Cardinality({a \in allowed : a.choice = "AllowSession"})

\* A gated tool ran on an answer of its own or on one that covers it, and no answer covers
\* more than the key it was given for.
PermissionsHold == RunsAreApproved /\ CacheIsEarned

\* The stream a client filters by turn id: each turn a block of its own, closed by the one
\* Done of its join.
StreamIsFramed == TurnsAreFramed /\ OneDonePerTurn

\* The bias of the select: once the task has ended, at most one more command is
\* served before the session is restored, however many are queued (actor.rs run).
DoneIsNotStarved == served <= 1

\* A session told to shut down, or abandoned by its client, stops.
ShutdownStops ==
  (closed \/ \E i \in DOMAIN cmds : cmds[i].kind = "Shutdown") ~> (actor = "Stopped")
===============================================================================
