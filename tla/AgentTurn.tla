------------------------------ MODULE AgentTurn ------------------------------
(***************************************************************************)
(* One agent, turn after turn: the request loop over the model, the        *)
(* per-call policy, approval and dispatch, cancellation and deadline at    *)
(* every point where they can strike, and the transactional end of the     *)
(* turn.  The model provider, the tools and the approver answer whatever   *)
(* they like, as late as they like.  Of a call only its id and its risk    *)
(* class matter to the control flow; streamed text is left out of the log. *)
(***************************************************************************)
EXTENDS Transcript

CONSTANTS
  MaxTurns,   \* bound of the check: turns per behaviour
  MaxIters,   \* LoopPolicy::max_react_iters after its clamp to 1..12
  MaxCalls    \* bound of the check: tool calls in one model answer

ASSUME BoundsAssumption ==
  /\ MaxTurns \in Nat
  /\ MaxIters \in 1..12
  /\ MaxCalls \in Nat

\* "Gated" is Mutating or Shell; "Hidden" is a name outside the allowlist,
\* for which the risk table has no entry.
Risks == {"ReadOnly", "Gated", "Hidden"}
Call == [id : RawIds, risk : Risks]
Modes == {"Auto", "Plan"}

VARIABLES
  turns,      \* turns begun so far
  convo,      \* the session's committed Conversation
  msgs,       \* the turn's working copy of the transcript
  pc,         \* where the turn is
  round,      \* model requests made in this turn
  todo,       \* calls of the last answer not yet resolved
  mode,       \* the control's execution policy
  cancelled,  \* the turn's cancellation token
  expired,    \* the turn's deadline has passed
  outcome,    \* why the loop stopped
  log,        \* events the turn emitted, in order
  granted,    \* ids the approver allowed in this turn
  ran,        \* calls whose tool body began in this turn
  late        \* tool bodies begun after the token was cancelled

vars == <<turns, convo, msgs, pc, round, todo, mode, cancelled, expired,
          outcome, log, granted, ran, late>>

Points == {"idle", "round", "model", "calls", "approve", "dispatch", "running",
           "finish"}
Outcomes == {"None", "Text", "Cancelled", "Error"}
Kinds == {"Header", "UserMessage", "ToolStart", "Diff", "ToolEnd",
          "PermissionResolved", "Interrupted", "Error", "Done"}
Event(kind, id) == [kind |-> kind, id |-> id]
Events == [kind : Kinds, id : RawIds]

Init ==
  /\ turns = 0
  /\ convo = <<>> /\ msgs = <<>> /\ todo = <<>> /\ log = <<>>
  /\ pc = "idle" /\ round = 0 /\ mode = "Auto" /\ outcome = "None"
  /\ cancelled = FALSE /\ expired = FALSE
  /\ granted = {} /\ ran = {} /\ late = 0

-------------------------------------------------------------------------------
(* Beginning a turn, and the request loop.                                    *)

StartTurn(m) ==
  /\ pc = "idle" /\ turns < MaxTurns
  /\ turns' = turns + 1
  /\ msgs' = Append(convo, User)
  /\ log' = <<Event("Header", EmptyId), Event("UserMessage", EmptyId)>>
  /\ pc' = "round" /\ round' = 0 /\ todo' = <<>> /\ outcome' = "None"
  /\ mode' = m
  /\ cancelled' = FALSE /\ expired' = FALSE
  /\ granted' = {} /\ ran' = {} /\ late' = 0
  /\ UNCHANGED convo

Stop(o) == pc' = "finish" /\ outcome' = o

\* Mutant: the control was built around the token of an earlier turn.
IsCancelledStaleToken == FALSE

\* The context's token is the control's: the loop, the approval and the
\* dispatcher all watch the same one.
IsCancelled == cancelled

\* Mutant: the loop's bound is tested one request too late.
RoundCapOffByOne ==
  /\ pc = "round" /\ round > MaxIters
  /\ Stop("Error")
  /\ UNCHANGED <<turns, convo, msgs, round, todo, mode, cancelled, expired, log,
                 granted, ran, late>>

\* The for loop is over: no terminal text within the allowed requests.
RoundCap ==
  /\ pc = "round" /\ round = MaxIters
  /\ Stop("Error")
  /\ UNCHANGED <<turns, convo, msgs, round, todo, mode, cancelled, expired, log,
                 granted, ran, late>>

RoundCancelled ==
  /\ pc = "round" /\ round < MaxIters /\ IsCancelled
  /\ Stop("Cancelled")
  /\ UNCHANGED <<turns, convo, msgs, round, todo, mode, cancelled, expired, log,
                 granted, ran, late>>

\* The view fits the context budget and the request is sent, or it does not.
RoundRequest ==
  /\ pc = "round" /\ round < MaxIters /\ ~IsCancelled
  /\ \/ pc' = "model" /\ round' = round + 1 /\ UNCHANGED outcome
     \/ Stop("Error") /\ UNCHANGED round
  /\ UNCHANGED <<turns, convo, msgs, todo, mode, cancelled, expired, log,
                 granted, ran, late>>

\* A transport or provider error, the deadline, or the token; the scripted
\* model reports an expired deadline as a cancellation.
ModelFails ==
  /\ pc = "model"
  /\ \/ Stop("Error")
     \/ (IsCancelled \/ expired) /\ Stop("Cancelled")
  /\ UNCHANGED <<turns, convo, msgs, round, todo, mode, cancelled, expired, log,
                 granted, ran, late>>

\* Mutant: ids are checked within an answer but not against the transcript.
NewCallsUnchecked(calls) == TRUE

\* An answer's ids are non-empty and distinct, and none was used by an earlier
\* assistant message of the working transcript.
ValidAnswer(calls) ==
  /\ \A p \in DOMAIN calls : calls[p].id # EmptyId
  /\ \A p, q \in DOMAIN calls : calls[p].id = calls[q].id => p = q

NewCalls(calls) ==
  \A p \in DOMAIN calls, i \in DOMAIN msgs : calls[p].id \notin Called(msgs[i])

CallIds(calls) == [p \in DOMAIN calls |-> calls[p].id]

ModelText ==
  /\ pc = "model"
  /\ msgs' = Append(msgs, Assistant(<<>>))
  /\ Stop("Text")
  /\ UNCHANGED <<turns, convo, round, todo, mode, cancelled, expired, log,
                 granted, ran, late>>

ModelCalls(calls) ==
  /\ pc = "model" /\ calls # <<>>
  /\ IF ValidAnswer(calls) /\ NewCalls(calls)
     THEN /\ msgs' = Append(msgs, Assistant(CallIds(calls)))
          /\ todo' = calls
          /\ pc' = "calls" /\ UNCHANGED outcome
     ELSE Stop("Error") /\ UNCHANGED <<msgs, todo>>
  /\ UNCHANGED <<turns, convo, round, mode, cancelled, expired, log, granted, ran,
                 late>>

-------------------------------------------------------------------------------
(* Resolving one call after the other.                                        *)

\* Mutant: an interrupted tool leaves the loop before its ToolEnd is emitted.
RecordOutcomeSilentInterrupt(diff, interrupted) ==
  /\ msgs' = Append(msgs, Tool(Head(todo).id))
  /\ log' = IF interrupted THEN log
            ELSE log \o diff \o <<Event("ToolEnd", Head(todo).id)>>
  /\ todo' = Tail(todo)
  /\ IF interrupted THEN Stop("Cancelled") ELSE pc' = "calls" /\ UNCHANGED outcome

\* Mutant: a failed tool reports its end but adds no result message.
DenyWithoutResult ==
  /\ pc = "approve"
  /\ log' = log \o <<Event("PermissionResolved", Head(todo).id),
                     Event("ToolEnd", Head(todo).id)>>
  /\ todo' = Tail(todo)
  /\ pc' = "calls"
  /\ UNCHANGED <<turns, convo, msgs, round, mode, cancelled, expired, outcome,
                 granted, ran, late>>

\* One call, one result message, one ToolEnd, after the diff of a written file;
\* an interrupted tool ends the turn.
RecordOutcome(diff, interrupted) ==
  /\ msgs' = Append(msgs, Tool(Head(todo).id))
  /\ log' = log \o diff \o <<Event("ToolEnd", Head(todo).id)>>
  /\ todo' = Tail(todo)
  /\ IF interrupted THEN Stop("Cancelled") ELSE pc' = "calls" /\ UNCHANGED outcome

\* Mutant: Plan mode denies nothing by itself.
PolicyDeniesNothing(call) == FALSE

EmitStart ==
  /\ log' = Append(log, Event("ToolStart", Head(todo).id))
  /\ pc' = "dispatch"

PolicyDenies(call) == mode = "Plan" /\ call.risk = "Gated"

CallsResolved ==
  /\ pc = "calls" /\ todo = <<>>
  /\ pc' = "round"
  /\ UNCHANGED <<turns, convo, msgs, round, todo, mode, cancelled, expired,
                 outcome, log, granted, ran, late>>

\* The remaining calls stay without a result: such a turn cannot commit.
CallCancelled ==
  /\ pc = "calls" /\ todo # <<>> /\ IsCancelled
  /\ Stop("Cancelled")
  /\ UNCHANGED <<turns, convo, msgs, round, todo, mode, cancelled, expired, log,
                 granted, ran, late>>

CallPolicyDenied ==
  /\ pc = "calls" /\ todo # <<>> /\ ~IsCancelled
  /\ PolicyDenies(Head(todo))
  /\ RecordOutcome(<<>>, FALSE)
  /\ UNCHANGED <<turns, convo, round, mode, cancelled, expired, granted, ran,
                 late>>

CallAsksApproval ==
  /\ pc = "calls" /\ todo # <<>> /\ ~IsCancelled
  /\ ~PolicyDenies(Head(todo)) /\ Head(todo).risk = "Gated"
  /\ pc' = "approve"
  /\ UNCHANGED <<turns, convo, msgs, round, todo, mode, cancelled, expired,
                 outcome, log, granted, ran, late>>

CallStarts ==
  /\ pc = "calls" /\ todo # <<>> /\ ~IsCancelled
  /\ ~PolicyDenies(Head(todo)) /\ Head(todo).risk # "Gated"
  /\ EmitStart
  /\ UNCHANGED <<turns, convo, msgs, round, todo, mode, cancelled, expired,
                 outcome, granted, ran, late>>

Allow ==
  /\ pc = "approve"
  /\ granted' = granted \cup {Head(todo).id}
  /\ EmitStart
  /\ UNCHANGED <<turns, convo, msgs, round, todo, mode, cancelled, expired,
                 outcome, ran, late>>

Deny ==
  /\ pc = "approve"
  /\ log' = log \o <<Event("PermissionResolved", Head(todo).id),
                     Event("ToolEnd", Head(todo).id)>>
  /\ msgs' = Append(msgs, Tool(Head(todo).id))
  /\ todo' = Tail(todo)
  /\ pc' = "calls"
  /\ UNCHANGED <<turns, convo, round, mode, cancelled, expired, outcome, granted,
                 ran, late>>

ApprovalCancelled ==
  /\ pc = "approve" /\ IsCancelled
  /\ Stop("Cancelled")
  /\ UNCHANGED <<turns, convo, msgs, round, todo, mode, cancelled, expired, log,
                 granted, ran, late>>

\* The context is checked before the handler runs: the token first, then the
\* deadline, then the allowlist.
DispatchRefused ==
  /\ pc = "dispatch"
  /\ IsCancelled \/ expired \/ Head(todo).risk = "Hidden"
  /\ RecordOutcome(<<>>, IsCancelled)
  /\ UNCHANGED <<turns, convo, round, mode, cancelled, expired, granted, ran,
                 late>>

DispatchAdmitted ==
  /\ pc = "dispatch"
  /\ ~IsCancelled /\ ~expired /\ Head(todo).risk # "Hidden"
  /\ pc' = "running"
  /\ UNCHANGED <<turns, convo, msgs, round, todo, mode, cancelled, expired,
                 outcome, log, granted, ran, late>>

\* The handler begins.  The token may have been cancelled since the check.
ToolBegins ==
  /\ pc = "running" /\ Head(todo) \notin ran
  /\ ran' = ran \cup {Head(todo)}
  /\ late' = IF cancelled THEN late + 1 ELSE late
  /\ UNCHANGED <<turns, convo, msgs, pc, round, todo, mode, cancelled, expired,
                 outcome, log, granted>>

\* Ok, Err and TimedOut differ only in the text of the result; only the shell
\* watches the token and reports Interrupted.
ToolEnds ==
  /\ pc = "running" /\ Head(todo) \in ran
  /\ \/ RecordOutcome(<<>>, FALSE)
     \/ Head(todo).risk = "Gated" /\ RecordOutcome(<<Event("Diff", EmptyId)>>, FALSE)
     \/ IsCancelled /\ Head(todo).risk = "Gated" /\ RecordOutcome(<<>>, TRUE)
  /\ UNCHANGED <<turns, convo, round, mode, cancelled, expired, granted, ran,
                 late>>

-------------------------------------------------------------------------------
(* The end of the turn, and what may happen at any time during it.            *)

TerminalEvents(o) ==
  CASE o = "Text" -> <<Event("Done", EmptyId)>>
    [] o = "Cancelled" -> <<Event("Interrupted", EmptyId), Event("Done", EmptyId)>>
    [] OTHER -> <<Event("Error", EmptyId), Event("Done", EmptyId)>>

\* Mutant: the working transcript is kept whatever the outcome.
FinishAlwaysCommits ==
  /\ pc = "finish"
  /\ convo' = msgs
  /\ log' = log \o TerminalEvents(outcome)
  /\ pc' = "idle"
  /\ UNCHANGED <<turns, msgs, round, todo, mode, cancelled, expired, outcome,
                 granted, ran, late>>

\* Only an answer commits, and only if the working transcript is valid.
Finish ==
  /\ pc = "finish"
  /\ LET commits == outcome = "Text" /\ WellFormed(msgs)
         result == IF outcome = "Text" /\ ~commits THEN "Error" ELSE outcome
     IN /\ convo' = IF commits THEN msgs ELSE convo
        /\ outcome' = result
        /\ log' = log \o TerminalEvents(result)
  /\ pc' = "idle"
  /\ UNCHANGED <<turns, msgs, round, todo, mode, cancelled, expired, granted, ran,
                 late>>

Cancel ==
  /\ pc # "idle" /\ ~cancelled
  /\ cancelled' = TRUE
  /\ UNCHANGED <<turns, convo, msgs, pc, round, todo, mode, expired, outcome, log,
                 granted, ran, late>>

DeadlinePasses ==
  /\ pc # "idle" /\ ~expired
  /\ expired' = TRUE
  /\ UNCHANGED <<turns, convo, msgs, pc, round, todo, mode, cancelled, outcome,
                 log, granted, ran, late>>

Answer == UNION {[1..n -> Call] : n \in 1..MaxCalls}

Round == RoundCap \/ RoundCancelled \/ RoundRequest
Model == ModelFails \/ ModelText \/ \E calls \in Answer : ModelCalls(calls)
CallStep == CallsResolved \/ CallCancelled \/ CallPolicyDenied
              \/ CallAsksApproval \/ CallStarts
Dispatch == DispatchRefused \/ DispatchAdmitted
ToolStep == ToolBegins \/ ToolEnds

Next ==
  \/ \E m \in Modes : StartTurn(m)
  \/ Round \/ Model \/ CallStep
  \/ Allow \/ Deny \/ ApprovalCancelled
  \/ Dispatch \/ ToolStep
  \/ Finish \/ Cancel \/ DeadlinePasses

\* The loop itself always goes on; requests end (every client races the token
\* and the deadline) and tools end (shell by its deadline, the others are
\* bounded).  A person need never answer a prompt, but the prompt polls the token.
Fairness ==
  /\ WF_vars(Round) /\ WF_vars(Model) /\ WF_vars(CallStep)
  /\ WF_vars(ApprovalCancelled) /\ WF_vars(Dispatch) /\ WF_vars(ToolStep)
  /\ WF_vars(Finish)

Spec == Init /\ [][Next]_vars
FairSpec == Spec /\ Fairness

-------------------------------------------------------------------------------
(* Properties.                                                                *)

\* The type of every variable of the turn (agent_turn.rs drive, agent_loop.rs).
TypeOK ==
  /\ turns \in 0..MaxTurns
  /\ convo \in Seq(Message) /\ msgs \in Seq(Message)
  /\ pc \in Points /\ outcome \in Outcomes /\ mode \in Modes
  /\ round \in 0..MaxIters
  /\ todo \in Seq(Call)
  /\ cancelled \in BOOLEAN /\ expired \in BOOLEAN
  /\ log \in Seq(Events)
  /\ granted \subseteq RawIds /\ ran \subseteq Call
  /\ late \in Nat

\* No finished answer is thrown away: whatever was denied, refused, timed out or
\* failed on the way, a turn that reaches its final text has a transcript that
\* Conversation::from_messages accepts (agent_finish.rs finish, Ok arm).
FinishedTurnCommits == pc = "finish" /\ outcome = "Text" => WellFormed(msgs)

\* A mutating or shell tool body begins only in Auto mode and only under this
\* turn's approval of that very call; a name outside the allowlist never begins
\* (agent_exec.rs execute_calls, execution_policy.rs denial, model_dispatch.rs).
OnlyApprovedRuns ==
  \A call \in ran :
    /\ call.risk # "Hidden"
    /\ call.risk = "Gated" => mode = "Auto" /\ call.id \in granted

\* The positions of the ToolEnds in the turn's events, and of the results in what the
\* turn has added to the transcript.
Ends == {i \in DOMAIN log : log[i].kind = "ToolEnd"}
Results == {i \in DOMAIN msgs : i > Len(convo) /\ msgs[i].role = "tool"}

\* f takes each end to the result it shows: one for one, in order, of the same id.
Mirrors(f) ==
  /\ {f[i] : i \in Ends} = Results
  /\ \A i \in Ends : log[i].id = Head(msgs[f[i]].ids)
  /\ \A i, j \in Ends : i < j => f[i] < f[j]

\* What the user is shown and what the model is replayed never diverge: at every
\* moment of a turn the ToolEnd events are the tool results of the working
\* transcript, one for one and in order (agent_outcome.rs, agent_events.rs deny_call).
EventsMirrorTranscript == pc # "idle" => \E f \in [Ends -> Results] : Mirrors(f)

\* When a turn has ended, every ToolStart was closed by exactly one later ToolEnd
\* of its id, on each of the paths that leave the loop (cancel, deadline, error).
StartsAreClosed ==
  pc = "idle" =>
    \A i \in DOMAIN log : log[i].kind = "ToolStart" =>
      \E j \in (i + 1)..Len(log) :
        /\ log[j] = Event("ToolEnd", log[i].id)
        /\ \A k \in DOMAIN log : log[k] = log[j] => k = j

\* "Exactly-once terminal events" (agent_finish.rs:1): a finished turn's last event
\* is its only Done, and at most one Interrupted or Error stands right before it.
OneTerminal ==
  pc = "idle" /\ turns > 0 =>
    /\ log[Len(log)].kind = "Done"
    /\ \A i \in 1..(Len(log) - 1) : log[i].kind # "Done"
    /\ \A i \in DOMAIN log :
         log[i].kind \in {"Interrupted", "Error"} => i = Len(log) - 1

\* Cancellation is prompt: of all the calls still to come, at most the one whose
\* admission was already checked begins after the token is cancelled.
AtMostOneLateTool == late <= 1

\* The loop keeps the promise of a transactional turn: the conversation grows only
\* by complete exchanges (agent_loop.rs run_turn, agent_finish.rs finish).
Transaction == INSTANCE TurnTransaction WITH active <- pc # "idle"
TurnIsTransaction == Transaction!Spec

\* A cancelled turn ends, wherever the cancellation found it, with no answer from
\* the approver (the 60 s deadline and the 50 ms poll of the prompt).
CancelEndsTurn == (pc # "idle" /\ cancelled) ~> (pc = "idle")

\* A turn reaches its end or a prompt: it never spins in the request loop.
TurnProgress == (pc # "idle") ~> (pc \in {"idle", "approve"})

\* Every path out of the loop leaves a log a client can close: no start without its end,
\* nothing after the turn's one Done (agent_loop.rs, agent_outcome.rs, agent_finish.rs).
TurnIsClosed == StartsAreClosed /\ OneTerminal

\* A turn ends, by cancellation wherever it is, and otherwise by itself.
TurnEnds == CancelEndsTurn /\ TurnProgress
===============================================================================
