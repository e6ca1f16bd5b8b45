---------------------------- MODULE Session_proofs ----------------------------
(***************************************************************************)
(* Theorems about the session actor and its turn task, for any call ids,   *)
(* any cache keys and any number of commands, and about the terminal in    *)
(* front of them, for any capacity of the event channel.                   *)
(***************************************************************************)
EXTENDS TuiSession, FiniteSetTheorems, WellFoundedInduction, TLAPS

Kinds == {"Busy", "Status", "Error", "ModeChanged", "Done", "Header", "Interrupted",
          "ToolStart", "ToolEnd", "PermissionRequired", "PermissionResolved"}
Args == CallIds \cup Modes \cup
        {"none", "goal", "setup", "slash", "model", "panic", "overdue", "turn"}
Events == [turn : Nat, kind : Kinds, arg : Args]

Answers == [turn : Nat, id : CallIds, choice : PermissionChoices]
Runs == [turn : Nat, id : CallIds \cup {"none"}, key : Keys \cup {NoKey}]

HistoryOK ==
  /\ events \in Seq(Events)
  /\ allowed \subseteq Answers /\ IsFiniteSet(allowed) /\ ran \subseteq Runs

\* Each turn takes a command.
TurnsAreSent == turns + Len(cmds) <= sent

TypeInv == TypeOK /\ HistoryOK /\ TurnsAreSent

USE DEF Modes, PermissionChoices, Points

LEMMA EventType ==
  ASSUME NEW t \in Nat, NEW kind \in Kinds, NEW arg \in Args
  PROVE  Event(t, kind, arg) \in Events
BY DEF Event, Events

LEMMA PublishType ==
  ASSUME TypeInv, NEW kind \in Kinds, NEW arg \in Args
  PROVE  /\ Publish(kind, arg) => events' \in Seq(Events)
         /\ Sink(kind, arg) \in Seq(Events)
<1>1. turns \in Nat /\ events \in Seq(Events)
  BY BoundsAssumption DEF TypeInv, TypeOK, HistoryOK
<1> QED BY <1>1, EventType DEF Publish, Sink

LEMMA CallArgs ==
  ASSUME TypeInv
  PROVE  /\ call.id \in CallIds \cup {"none"} /\ call.id \in Args
         /\ call.key \in Keys \cup {NoKey} /\ call.gated \in BOOLEAN
<1>1. call \in Call \/ call = NoCall
  BY DEF TypeInv, TypeOK
<1>2. CASE call \in Call
  BY <1>2 DEF Call, Args
<1>3. CASE call = NoCall
  BY <1>3 DEF NoCall, Args
<1> QED BY <1>1, <1>2, <1>3

LEMMA CommandFields ==
  ASSUME NEW c \in Commands
  PROVE  /\ c.kind = "Submit" => c.mode \in Modes
         /\ c.kind = "Mode" => c.arg \in Modes \cup {"next"}
         /\ c.kind = "Resolve" => c.id \in CallIds /\ c.choice \in PermissionChoices
BY DEF Commands, Submit, SetMode, Resolve, Plain, PlainKinds

\* What receiving a command leaves of the queue.
LEMMA Received ==
  ASSUME TypeInv, NEW kind, Receive(kind)
  PROVE  /\ Head(cmds) \in Commands /\ Head(cmds).kind = kind
         /\ cmds' \in Seq(Commands) /\ Len(cmds') = Len(cmds) - 1 /\ Len(cmds) \in Nat
         /\ polled' \in BOOLEAN /\ served' \in Nat
         /\ closed' = closed /\ sent' = sent /\ MayReceive
<1>1. cmds \in Seq(Commands) /\ cmds # <<>> /\ served \in Nat
  BY DEF TypeInv, TypeOK, Receive
<1>2. Head(cmds) \in Commands /\ Tail(cmds) \in Seq(Commands)
      /\ Len(Tail(cmds)) = Len(cmds) - 1 /\ Len(cmds) \in Nat
  BY <1>1
<1>3. polled' \in BOOLEAN
  BY DEF Receive
<1>4. served' \in Nat
  BY <1>1 DEF Receive
<1>5. /\ Head(cmds).kind = kind /\ cmds' = Tail(cmds)
      /\ closed' = closed /\ sent' = sent /\ MayReceive
  BY DEF Receive
<1> QED BY <1>2, <1>3, <1>4, <1>5

LEMMA TypeInit == Init => TypeInv
<1> SUFFICES ASSUME Init PROVE TypeInv
  OBVIOUS
<1>1. Event(0, "Status", "setup") \in Events
  BY EventType DEF Kinds, Args
<1>2. events \in Seq(Events)
  BY <1>1 DEF Init
<1>3. IsFiniteSet({})
  BY FS_EmptySet
<1>4. MaxCmds \in Nat /\ 0 \in 0..MaxCmds /\ 0 \in Nat
  BY BoundsAssumption
<1>5. live \in BOOLEAN
  BY DEF Init
<1>6. cmds \in Seq(Commands) /\ turns \in 0..MaxCmds /\ sent \in 0..MaxCmds /\ served \in Nat
  BY <1>4 DEF Init
<1>7. TypeOK
  BY <1>5, <1>6 DEF Init, TypeOK
<1> QED BY <1>2, <1>3, <1>7 DEF Init, TypeInv, HistoryOK, TurnsAreSent

-------------------------------------------------------------------------------
(* Types.                                                                     *)

\* What the actor does with a command.
LEMMA DispatchTypes == TypeInv /\ Dispatch => TypeInv'
<1> SUFFICES ASSUME TypeInv, Dispatch PROVE TypeInv'
  OBVIOUS
<1> USE DEF TypeInv, TypeOK, HistoryOK, TurnsAreSent, actorVars, workerVars, controlVars
<1>0. turns \in Nat /\ sent \in Nat /\ MaxCmds \in Nat
  BY BoundsAssumption
<1>1. CASE SubmitRefused
  <2>1. events' \in Seq(Events)
    BY <1>1, PublishType DEF SubmitRefused, Kinds, Args
  <2> QED BY <1>0, <1>1, <2>1, Received DEF SubmitRefused
<1>2. CASE SubmitAccepted
  <2>1. Head(cmds).mode \in Modes
    BY <1>2, Received, CommandFields DEF SubmitAccepted
  <2>2. NoCall \in Call \cup {NoCall}
    OBVIOUS
  <2>3. turns' = turns + 1 /\ turns' \in 0..MaxCmds /\ turns' + Len(cmds') <= sent'
    BY <1>0, <1>2, Received DEF SubmitAccepted
  <2> QED BY <1>2, <2>1, <2>2, <2>3, Received DEF SubmitAccepted
<1>3. CASE ResolvePermission
  <2> DEFINE c == Head(cmds)
  <2>1. Receive("Resolve") /\ c.id \in CallIds /\ c.choice \in PermissionChoices
    BY <1>3, Received, CommandFields DEF ResolvePermission
  <2>2. [turn |-> turns, id |-> c.id, choice |-> c.choice] \in Answers
    BY <1>0, <2>1 DEF Answers
  <2>3. /\ pending' \subseteq CallIds /\ answer' \in PermissionChoices \cup {"none"}
        /\ allowed' = allowed \/ allowed' = allowed \cup {[turn |-> turns, id |-> c.id, choice |-> c.choice]}
    BY <1>3, <2>1 DEF ResolvePermission
  <2>4. allowed' \subseteq Answers /\ IsFiniteSet(allowed')
    <3>1. CASE allowed' = allowed
      BY <3>1
    <3>2. CASE allowed' = allowed \cup {[turn |-> turns, id |-> c.id, choice |-> c.choice]}
      BY <2>2, <3>2, FS_AddElement
    <3> QED BY <2>3, <3>1, <3>2
  <2> HIDE DEF c
  <2> QED BY <1>0, <1>3, <2>1, <2>3, <2>4, Received DEF ResolvePermission
<1>4. CASE Interrupt
  BY <1>0, <1>4, Received DEF Interrupt
<1>5. CASE ModeCommand
  <2>1. Head(cmds).arg \in Modes \cup {"next"}
    BY <1>5, Received, CommandFields DEF ModeCommand
  <2>2. mode' \in Modes
    BY <1>5, <2>1 DEF ModeCommand, OtherMode
  <2>3. events' \in Seq(Events)
    BY <1>5, <2>2, PublishType DEF ModeCommand, Kinds, Args
  <2> QED BY <1>0, <1>5, <2>2, <2>3, Received DEF ModeCommand
<1>6. CASE SelectModel
  <2>1. events' \in Seq(Events)
    BY <1>6, PublishType DEF SelectModel, Kinds, Args
  <2> QED BY <1>0, <1>6, <2>1, Received DEF SelectModel
<1>7. CASE SlashCommand
  <2>1. events' \in Seq(Events)
    BY <1>7, PublishType DEF SlashCommand, Kinds, Args
  <2> QED BY <1>0, <1>7, <2>1, Received DEF SlashCommand
<1>8. CASE Shutdown
  BY <1>0, <1>8, Received DEF Shutdown, ShutdownBegins
<1> QED BY <1>1, <1>2, <1>3, <1>4, <1>5, <1>6, <1>7, <1>8 DEF Dispatch

\* What the actor does by itself.
LEMMA ActorTypes == TypeInv /\ (ActorStep \/ ShutdownOverdue) => TypeInv'
<1> SUFFICES ASSUME TypeInv, ActorStep \/ ShutdownOverdue PROVE TypeInv'
  OBVIOUS
<1>1. CASE Dispatch
  BY <1>1, DispatchTypes
<1> USE DEF TypeInv, TypeOK, HistoryOK, TurnsAreSent, actorVars, workerVars, controlVars, chanVars, history
<1>0. turns \in Nat /\ sent \in Nat /\ MaxCmds \in Nat
  BY BoundsAssumption
<1>2. CASE PollJoin
  BY <1>2 DEF PollJoin
<1>3. CASE Restore
  <2>1. /\ Event(turns, "Done", "none") \in Events
        /\ Event(0, "Error", "panic") \in Events
    BY <1>0, EventType DEF Kinds, Args
  <2>2. events' \in Seq(Events)
    <3>1. \/ events' = Append(events, Event(turns, "Done", "none"))
          \/ events' = events \o <<Event(0, "Error", "panic"), Event(turns, "Done", "none")>>
      BY <1>3 DEF Restore
    <3>2. \A e1, e2 \in Events :
            Append(events, e1) \in Seq(Events) /\ events \o <<e1, e2>> \in Seq(Events)
      OBVIOUS
    <3> QED BY <2>1, <3>1, <3>2
  <2>3. actor' \in {"Idle", "Stopped"} /\ stopping' \in {"no", "stop"}
        /\ polled' = FALSE /\ worker' = "none" /\ served' = 0
    <3>1. polled' = FALSE /\ worker' = "none" /\ served' = 0
      BY <1>3 DEF Restore
    <3>2. actor' \in {"Idle", "Stopped"}
      BY <1>3 DEF Restore
    <3>3. stopping' \in {"no", "stop"}
      BY <1>3 DEF Restore
    <3> QED BY <3>1, <3>2, <3>3
  <2>4. UNCHANGED <<turns, live, mode, call, used, committed, controlVars, chanVars, allowed, ran>>
    BY <1>3 DEF Restore
  <2> QED BY <2>2, <2>3, <2>4
<1>4. CASE EndOfCommands
  <2>1. PICK gone \in BOOLEAN : cancelled' = gone
    BY <1>4 DEF EndOfCommands, ShutdownBegins
  <2>2. stopping' \in {"joining", "stop"} /\ polled' = FALSE
    BY <1>4 DEF EndOfCommands, ShutdownBegins
  <2>3. UNCHANGED <<actor, turns, live, mode, workerVars, cache, pending, answer, events, allowed, ran,
                    chanVars, served>>
    BY <1>4 DEF EndOfCommands, ShutdownBegins
  <2>4. TypeOK'
    <3>1. /\ actor' \in {"Idle", "Running", "Stopped"} /\ stopping' \in {"no", "joining", "overdue", "stop"}
          /\ polled' \in BOOLEAN /\ turns' \in 0..MaxCmds /\ live' \in BOOLEAN /\ mode' \in Modes
      BY <2>2, <2>3
    <3>2. /\ worker' \in Points /\ call' \in Call \cup {NoCall}
          /\ used' \subseteq CallIds /\ committed' \subseteq CallIds
      BY <2>3
    <3>3. /\ cache' \subseteq Keys /\ pending' \subseteq CallIds
          /\ answer' \in PermissionChoices \cup {"none"} /\ cancelled' \in BOOLEAN
      BY <2>1, <2>3
    <3>4. cmds' \in Seq(Commands) /\ closed' \in BOOLEAN /\ sent' \in 0..MaxCmds /\ served' \in Nat
      BY <2>3
    <3> QED BY <3>1, <3>2, <3>3, <3>4
  <2>5. HistoryOK' /\ TurnsAreSent'
    BY <2>3
  <2> QED BY <2>4, <2>5
<1>5. CASE Stop
  BY <1>5 DEF Stop
<1>6. CASE ShutdownOverdue
  <2>1. events' \in Seq(Events)
    BY <1>6, PublishType DEF ShutdownOverdue, Kinds, Args
  <2> QED BY <1>6, <2>1 DEF ShutdownOverdue
<1> QED BY <1>1, <1>2, <1>3, <1>4, <1>5, <1>6 DEF ActorStep

\* What the turn task does.
LEMMA WorkerTypes == TypeInv /\ (WorkerStep \/ WorkerPanics) => TypeInv'
<1> SUFFICES ASSUME TypeInv, WorkerStep \/ WorkerPanics PROVE TypeInv'
  OBVIOUS
<1>0. turns \in Nat /\ \A kind \in Kinds, arg \in Args : Sink(kind, arg) \in Seq(Events)
  BY PublishType, BoundsAssumption DEF TypeInv, TypeOK
<1>1. ASSUME NEW c \in Call, NewCall(c)
      PROVE  c.id \in CallIds /\ c.id \in Args /\ used' \subseteq CallIds /\ call' \in Call
  BY <1>1 DEF NewCall, Call, Args, TypeInv, TypeOK
<1>2. call.id \in CallIds \cup {"none"} /\ call.id \in Args /\ call.key \in Keys \cup {NoKey}
  BY CallArgs
<1>3. {"Header", "Error", "Interrupted", "ToolStart", "ToolEnd", "PermissionRequired",
       "PermissionResolved"} \subseteq Kinds /\ {"none", "turn"} \subseteq Args
  BY DEF Kinds, Args
<1> USE DEF TypeInv, TypeOK, HistoryOK, TurnsAreSent, actorVars, workerVars, controlVars, chanVars, history
<1>4. CASE WorkerBegins \/ WorkerAnswers \/ WorkerFails \/ WorkerPanics
  <2>1. CASE WorkerBegins
    <3>1. events' \in Seq(Events) /\ worker' \in Points
      BY <1>0, <1>3, <2>1 DEF WorkerBegins
    <3> QED BY <2>1, <3>1 DEF WorkerBegins
  <2>2. CASE WorkerAnswers
    BY <2>2 DEF WorkerAnswers
  <2>3. CASE WorkerFails
    <3>1. events' \in Seq(Events)
      BY <1>0, <1>3, <2>3 DEF WorkerFails
    <3> QED BY <2>3, <3>1 DEF WorkerFails
  <2>4. CASE WorkerPanics
    BY <2>4 DEF WorkerPanics
  <2> QED BY <1>4, <2>1, <2>2, <2>3, <2>4
<1>5. ASSUME NEW c \in Call, CallStarts(c) \/ CallPlanDenied(c) \/ CallRegisters(c)
      PROVE  TypeInv'
  <2>1. c.id \in CallIds /\ c.id \in Args /\ used' \subseteq CallIds /\ call' \in Call
    BY <1>1, <1>5 DEF CallStarts, CallPlanDenied, CallRegisters
  <2>2. CASE CallStarts(c)
    <3>1. events' \in Seq(Events) /\ worker' \in Points
      BY <1>0, <1>3, <2>1, <2>2 DEF CallStarts
    <3> QED BY <2>1, <2>2, <3>1 DEF CallStarts
  <2>3. CASE CallPlanDenied(c)
    <3>1. events' \in Seq(Events)
      BY <1>0, <1>3, <2>1, <2>3 DEF CallPlanDenied
    <3> QED BY <2>1, <2>3, <3>1 DEF CallPlanDenied
  <2>4. CASE CallRegisters(c)
    <3>1. pending' \subseteq CallIds /\ worker' \in Points
      BY <2>1, <2>4 DEF CallRegisters
    <3> QED BY <2>1, <2>4, <3>1 DEF CallRegisters
  <2> QED BY <1>5, <2>2, <2>3, <2>4
<1>6. CASE CallAsks \/ PromptCancelled \/ ToolEnds
  <2>1. CASE CallAsks
    <3>1. events' \in Seq(Events) /\ worker' \in Points
      BY <1>0, <1>2, <1>3, <2>1 DEF CallAsks
    <3> QED BY <2>1, <3>1 DEF CallAsks
  <2>2. CASE PromptCancelled
    BY <2>2 DEF PromptCancelled
  <2>3. CASE ToolEnds
    <3>1. events' \in Seq(Events) /\ worker' \in Points
      BY <1>0, <1>2, <1>3, <2>3 DEF ToolEnds
    <3> QED BY <2>3, <3>1 DEF ToolEnds
  <2> QED BY <1>6, <2>1, <2>2, <2>3
<1>7. CASE Allowed
  <2>1. cache' \subseteq Keys
    BY <1>2, <1>7 DEF Allowed, Remember
  <2>2. worker' \in Points /\ events' \in Seq(Events)
    BY <1>0, <1>2, <1>3, <1>7 DEF Allowed
  <2> QED BY <1>7, <2>1, <2>2 DEF Allowed
<1>8. CASE Denied
  <2>1. /\ Event(turns, "PermissionResolved", call.id) \in Events
        /\ Event(turns, "ToolEnd", call.id) \in Events
    BY <1>0, <1>2, <1>3, EventType
  <2>2. events' \in Seq(Events)
    BY <1>8, <2>1 DEF Denied
  <2> QED BY <1>8, <2>2 DEF Denied
<1>9. CASE ToolRuns
  <2>1. [turn |-> turns, id |-> call.id, key |-> call.key] \in Runs
    BY <1>0, <1>2 DEF Runs
  <2>2. ran' \subseteq Runs
    BY <1>9, <2>1 DEF ToolRuns
  <2> QED BY <1>9, <2>2 DEF ToolRuns
<1> QED BY <1>4, <1>5, <1>6, <1>7, <1>8, <1>9 DEF WorkerStep, CallStep

LEMMA TypeStep == TypeInv /\ [Next]_vars => TypeInv'
<1> SUFFICES ASSUME TypeInv, [Next]_vars PROVE TypeInv'
  OBVIOUS
<1> USE DEF TypeInv, TypeOK, HistoryOK, TurnsAreSent, actorVars, workerVars, controlVars, chanVars, history
<1>1. ASSUME NEW c \in Commands, Send(c) PROVE TypeInv'
  <2>1. cmds' \in Seq(Commands) /\ Len(cmds') = Len(cmds) + 1 /\ Len(cmds) \in Nat
    BY <1>1 DEF Send
  <2>2. sent' \in 0..MaxCmds /\ turns' + Len(cmds') <= sent'
    BY <1>1, <2>1, BoundsAssumption DEF Send
  <2> QED BY <1>1, <2>1, <2>2 DEF Send
<1>2. CASE Close
  BY <1>2 DEF Close
<1>3. CASE UNCHANGED vars
  BY <1>3 DEF vars
<1> QED BY <1>1, <1>2, <1>3, ActorTypes, WorkerTypes DEF Next

\* Every variable keeps its type, and turns are not numbered beyond the commands sent.
THEOREM TypeCorrect == Spec => []TypeOK
<1>1. Spec => []TypeInv
  BY TypeInit, TypeStep, PTL DEF Spec
<1>2. TypeInv => TypeOK
  BY DEF TypeInv
<1> QED BY <1>1, <1>2, PTL

-------------------------------------------------------------------------------
(* The task, the prompt and what an answer allows.                            *)

\* Beside the ownership of the task: a session is not stopping when its task has been
\* left behind, and a command is served after the end of the task only by the select
\* that had polled it before.
Owned ==
  /\ TaskIsOwned
  /\ stopping = "stop" => actor # "Running"
  /\ served # 0 => served = 1 /\ ~polled /\ WorkerDone

\* An answer takes the reply channel with it.
Prompts ==
  /\ PromptsAreLive
  /\ worker \in {"asking", "waiting"} /\ answer # "none" => pending = {}

\* The call in hand is approved before its tool begins, and an answer in the channel
\* is one the actor gave to this call.
Approvals ==
  /\ RunsAreApproved
  /\ worker = "dispatch" /\ call.gated =>
       (\E a \in allowed : a.turn = turns /\ a.id = call.id) \/ call.key \in cache
  /\ worker \in {"asking", "waiting"} /\ answer \in {"AllowOnce", "AllowSession"} =>
       [turn |-> turns, id |-> call.id, choice |-> answer] \in allowed

LEMMA OwnedStep == TypeInv /\ Owned /\ [Next]_vars => Owned'
<1> SUFFICES ASSUME TypeInv, Owned, [Next]_vars PROVE Owned'
  OBVIOUS
<1>0. served \in Nat /\ worker \in Points
  BY DEF TypeInv, TypeOK
<1> USE DEF Owned, TaskIsOwned, WorkerDone, actorVars, workerVars, controlVars, chanVars, history
<1>1. CASE PollJoin
  BY <1>0, <1>1 DEF PollJoin
<1>2. CASE SubmitRefused
  BY <1>0, <1>2 DEF SubmitRefused, Receive, MayReceive
<1>3. CASE SubmitAccepted
  BY <1>0, <1>3 DEF SubmitAccepted, Receive, MayReceive
<1>4. CASE ResolvePermission \/ Interrupt
  BY <1>0, <1>4 DEF ResolvePermission, Interrupt, Receive, MayReceive
<1>5. CASE ModeCommand \/ SelectModel \/ SlashCommand
  BY <1>0, <1>5 DEF ModeCommand, SelectModel, SlashCommand, Receive, MayReceive
<1>6. CASE Shutdown
  BY <1>0, <1>6 DEF Shutdown, ShutdownBegins, Receive, MayReceive
<1>7. CASE EndOfCommands
  BY <1>0, <1>7 DEF EndOfCommands, ShutdownBegins, MayReceive
<1>8. CASE Restore
  BY <1>0, <1>8 DEF Restore
<1>9. CASE Stop \/ ShutdownOverdue
  BY <1>0, <1>9 DEF Stop, ShutdownOverdue
<1>10. CASE WorkerStep \/ WorkerPanics
  <2>1. /\ worker \notin {"none", "returned", "panicked"} /\ worker' # "none"
        /\ UNCHANGED <<actor, stopping, polled, served>>
    <3>1. CASE WorkerBegins \/ WorkerAnswers \/ WorkerFails \/ WorkerPanics
      BY <3>1 DEF WorkerBegins, WorkerAnswers, WorkerFails, WorkerPanics
    <3>2. ASSUME NEW c \in Call, CallStarts(c) \/ CallPlanDenied(c) \/ CallRegisters(c)
          PROVE  /\ worker \notin {"none", "returned", "panicked"} /\ worker' # "none"
                 /\ UNCHANGED <<actor, stopping, polled, served>>
      BY <3>2 DEF CallStarts, CallPlanDenied, CallRegisters, NewCall
    <3>3. CASE CallAsks \/ Allowed \/ Denied \/ PromptCancelled
      BY <3>3 DEF CallAsks, Allowed, Denied, PromptCancelled
    <3>4. CASE ToolRuns \/ ToolEnds
      BY <3>4 DEF ToolRuns, ToolEnds
    <3> QED BY <1>10, <3>1, <3>2, <3>3, <3>4 DEF WorkerStep, CallStep
  <2> QED BY <1>0, <2>1
<1>11. ASSUME NEW c \in Commands, Send(c) PROVE Owned'
  BY <1>11 DEF Send
<1>12. CASE Close \/ UNCHANGED vars
  BY <1>12 DEF Close, vars
<1> QED BY <1>1, <1>2, <1>3, <1>4, <1>5, <1>6, <1>7, <1>8, <1>9, <1>10, <1>11, <1>12
        DEF Next, ActorStep, Dispatch

\* Steps that are not the task's, an answer's or a new turn's.
LEMMA Elsewhere ==
  ASSUME TypeInv, Owned, [Next]_vars, ~WorkerStep, ~WorkerPanics, ~ResolvePermission,
         ~SubmitAccepted, ~Restore
  PROVE  UNCHANGED <<turns, worker, call, used, committed, cache, pending, answer, allowed, ran>>
<1> USE DEF actorVars, workerVars, controlVars, chanVars, history
<1>1. CASE PollJoin \/ SubmitRefused \/ Interrupt \/ ModeCommand
  BY <1>1 DEF PollJoin, SubmitRefused, Interrupt, ModeCommand
<1>2. CASE SelectModel \/ SlashCommand \/ Shutdown \/ EndOfCommands
  BY <1>2 DEF SelectModel, SlashCommand, Shutdown, EndOfCommands, ShutdownBegins
<1>3. CASE Stop \/ ShutdownOverdue \/ Close \/ UNCHANGED vars
  BY <1>3 DEF Stop, ShutdownOverdue, Close, vars
<1>4. ASSUME NEW c \in Commands, Send(c)
      PROVE  UNCHANGED <<turns, worker, call, used, committed, cache, pending, answer, allowed, ran>>
  BY <1>4 DEF Send
<1> QED BY <1>1, <1>2, <1>3, <1>4 DEF Next, ActorStep, Dispatch

LEMMA PromptsStep == TypeInv /\ Owned /\ Prompts /\ [Next]_vars => Prompts'
<1> SUFFICES ASSUME TypeInv, Owned, Prompts, [Next]_vars PROVE Prompts'
  OBVIOUS
<1>0. worker \in Points
  BY DEF TypeInv, TypeOK
<1> USE DEF Prompts, PromptsAreLive, actorVars, workerVars, controlVars, chanVars, history
<1>1. CASE WorkerBegins \/ WorkerAnswers \/ WorkerFails \/ WorkerPanics
  BY <1>0, <1>1 DEF WorkerBegins, WorkerAnswers, WorkerFails, WorkerPanics
<1>2. ASSUME NEW c \in Call, CallStarts(c) \/ CallPlanDenied(c) PROVE Prompts'
  BY <1>0, <1>2 DEF CallStarts, CallPlanDenied, NewCall
<1>3. ASSUME NEW c \in Call, CallRegisters(c) PROVE Prompts'
  BY <1>0, <1>3 DEF CallRegisters, NewCall
<1>4. CASE CallAsks \/ Allowed \/ Denied \/ PromptCancelled
  BY <1>0, <1>4 DEF CallAsks, Allowed, Denied, PromptCancelled
<1>5. CASE ToolRuns \/ ToolEnds
  BY <1>0, <1>5 DEF ToolRuns, ToolEnds
<1>6. CASE ResolvePermission
  BY <1>0, <1>6 DEF ResolvePermission
<1>7. CASE SubmitAccepted
  BY <1>0, <1>7 DEF SubmitAccepted
<1>8. CASE Restore
  BY <1>0, <1>8 DEF Restore, WorkerDone
<1>9. CASE UNCHANGED <<turns, worker, call, used, committed, cache, pending, answer, allowed, ran>>
  BY <1>9
<1> QED BY <1>1, <1>2, <1>3, <1>4, <1>5, <1>6, <1>7, <1>8, <1>9, Elsewhere
        DEF WorkerStep, CallStep

LEMMA ApprovalsStep == TypeInv /\ Owned /\ Prompts /\ Approvals /\ [Next]_vars => Approvals'
<1> SUFFICES ASSUME TypeInv, Owned, Prompts, Approvals, [Next]_vars PROVE Approvals'
  OBVIOUS
<1>0. worker \in Points
  BY DEF TypeInv, TypeOK
<1> USE DEF Approvals, RunsAreApproved, actorVars, workerVars, controlVars, chanVars, history
<1>1. CASE WorkerBegins \/ WorkerAnswers \/ WorkerFails \/ WorkerPanics
  BY <1>0, <1>1 DEF WorkerBegins, WorkerAnswers, WorkerFails, WorkerPanics
<1>2. ASSUME NEW c \in Call, CallStarts(c) \/ CallPlanDenied(c) PROVE Approvals'
  BY <1>0, <1>2 DEF CallStarts, CallPlanDenied, NewCall
<1>3. ASSUME NEW c \in Call, CallRegisters(c) PROVE Approvals'
  BY <1>0, <1>3 DEF CallRegisters, NewCall
<1>4. CASE CallAsks \/ Denied \/ PromptCancelled \/ ToolEnds
  BY <1>0, <1>4 DEF CallAsks, Denied, PromptCancelled, ToolEnds
<1>5. CASE Allowed
  <2>1. [turn |-> turns, id |-> call.id, choice |-> answer] \in allowed
    BY <1>5 DEF Allowed
  <2>2. \E a \in allowed : a.turn = turns /\ a.id = call.id
    BY <2>1
  <2>3. cache \subseteq cache' /\ worker' = "dispatch" /\ UNCHANGED <<turns, call, allowed, ran>>
    BY <1>5 DEF Allowed, Remember
  <2> QED BY <2>2, <2>3
<1>6. CASE ToolRuns
  <2>1. ASSUME call.gated PROVE RunsAreApproved'
    <3> DEFINE r == [turn |-> turns, id |-> call.id, key |-> call.key]
    <3>1. ran' = ran \cup {r} /\ UNCHANGED <<allowed, cache>>
      BY <1>6, <2>1 DEF ToolRuns
    <3>2. (\E a \in allowed : a.turn = r.turn /\ a.id = r.id) \/ r.key \in cache
      BY <1>6, <2>1 DEF ToolRuns
    <3> HIDE DEF r
    <3> QED BY <3>1, <3>2
  <2>2. ASSUME ~call.gated PROVE RunsAreApproved'
    BY <1>6, <2>2 DEF ToolRuns
  <2> QED BY <1>6, <2>1, <2>2 DEF ToolRuns
<1>7. CASE ResolvePermission
  <2> DEFINE c == Head(cmds)
  <2>1. CASE actor = "Running" /\ c.id \in pending
    <3>1. /\ c.id = call.id /\ answer' = c.choice
          /\ allowed \subseteq allowed'
          /\ c.choice \in {"AllowOnce", "AllowSession"} =>
               [turn |-> turns, id |-> c.id, choice |-> c.choice] \in allowed'
          /\ UNCHANGED <<turns, worker, call, cache, ran>>
      BY <1>7, <2>1 DEF ResolvePermission, Prompts, PromptsAreLive
    <3> HIDE DEF c
    <3> QED BY <3>1
  <2>2. CASE ~(actor = "Running" /\ c.id \in pending)
    <3>1. UNCHANGED <<turns, worker, call, cache, ran, answer, allowed>>
      BY <1>7, <2>2 DEF ResolvePermission
    <3> QED BY <3>1
  <2> QED BY <2>1, <2>2
<1>8. CASE SubmitAccepted
  BY <1>8 DEF SubmitAccepted
<1>9. CASE Restore
  BY <1>9 DEF Restore
<1>10. CASE UNCHANGED <<turns, worker, call, used, committed, cache, pending, answer, allowed, ran>>
  BY <1>10
<1> QED BY <1>1, <1>2, <1>3, <1>4, <1>5, <1>6, <1>7, <1>8, <1>9, <1>10, Elsewhere
        DEF WorkerStep, CallStep

LEMMA FirstState == Init => Owned /\ Prompts /\ Approvals
BY DEF Init, Owned, TaskIsOwned, Prompts, PromptsAreLive, Approvals, RunsAreApproved

\* The session has exactly one owner, the actor or the task it has yet to join, and no
\* stopped session leaves a task behind.
THEOREM OwnershipHolds == Spec => []TaskIsOwned
<1>1. Spec => [](TypeInv /\ Owned)
  BY TypeInit, TypeStep, FirstState, OwnedStep, PTL DEF Spec
<1>2. Owned => TaskIsOwned
  BY DEF Owned
<1> QED BY <1>1, <1>2, PTL

\* The end of a task is served after at most one more command, however many are queued.
THEOREM DoneIsServed == Spec => []DoneIsNotStarved
<1>1. Spec => [](TypeInv /\ Owned)
  BY TypeInit, TypeStep, FirstState, OwnedStep, PTL DEF Spec
<1>2. Owned => DoneIsNotStarved
  BY DEF Owned, DoneIsNotStarved
<1> QED BY <1>1, <1>2, PTL

\* An answer reaches the prompt that is open, or none.
THEOREM PromptsLive == Spec => []PromptsAreLive
<1>1. Spec => [](TypeInv /\ Owned /\ Prompts)
  BY TypeInit, TypeStep, FirstState, OwnedStep, PromptsStep, PTL DEF Spec
<1>2. Prompts => PromptsAreLive
  BY DEF Prompts
<1> QED BY <1>1, <1>2, PTL

-------------------------------------------------------------------------------
(* What the cache remembers.                                                  *)

Lasting == {a \in allowed : a.choice = "AllowSession"}

\* An answer for the session that the prompt has not acted on yet.
Unspent == IF worker \in {"asking", "waiting"} /\ answer = "AllowSession" THEN 1 ELSE 0

\* Each call is answered at most once, so that answers can be told apart by turn and id.
Answered ==
  /\ worker \in {"asking", "waiting"} => call.id \in used
  /\ \A a \in allowed :
       /\ a.turn <= turns
       /\ a.turn = turns /\ actor = "Running" => a.id \in used
       /\ ~(a.turn = turns /\ a.id \in pending)

Earned ==
  /\ Answered
  /\ IsFiniteSet(cache) /\ Cardinality(cache) + Unspent <= Cardinality(Lasting)

LEMMA AnsweredStep == TypeInv /\ Owned /\ Prompts /\ Answered /\ [Next]_vars => Answered'
<1> SUFFICES ASSUME TypeInv, Owned, Prompts, Answered, [Next]_vars PROVE Answered'
  OBVIOUS
<1>0. /\ worker \in Points /\ turns \in Nat /\ allowed \subseteq Answers /\ pending \subseteq CallIds
      /\ \A a \in allowed : a.turn \in Nat
  BY BoundsAssumption DEF TypeInv, TypeOK, HistoryOK, Answers
<1> USE DEF Answered, actorVars, workerVars, controlVars, chanVars, history
<1>1. CASE WorkerBegins \/ WorkerAnswers \/ WorkerFails \/ WorkerPanics
  BY <1>0, <1>1 DEF WorkerBegins, WorkerAnswers, WorkerFails, WorkerPanics
<1>2. ASSUME NEW c \in Call, CallStarts(c) \/ CallPlanDenied(c) PROVE Answered'
  BY <1>0, <1>2 DEF CallStarts, CallPlanDenied, NewCall
<1>3. ASSUME NEW c \in Call, CallRegisters(c) PROVE Answered'
  <2>1. actor = "Running" /\ pending = {} /\ pending' = {c.id} /\ c.id \notin used
        /\ call'.id = c.id /\ used' = used \cup {c.id} /\ UNCHANGED <<turns, actor, allowed>>
    BY <1>3 DEF CallRegisters, NewCall, Owned, TaskIsOwned, Prompts, PromptsAreLive
  <2> QED BY <2>1
<1>4. CASE CallAsks \/ Allowed \/ Denied \/ PromptCancelled
  BY <1>0, <1>4 DEF CallAsks, Allowed, Denied, PromptCancelled
<1>5. CASE ToolRuns \/ ToolEnds
  BY <1>0, <1>5 DEF ToolRuns, ToolEnds
<1>6. CASE ResolvePermission
  <2> DEFINE c == Head(cmds)
  <2>1. CASE actor = "Running" /\ c.id \in pending
    <3>1. /\ pending = {call.id} /\ c.id = call.id /\ worker \in {"asking", "waiting"}
          /\ pending' = {} /\ UNCHANGED <<turns, actor, worker, call, used>>
          /\ \A a \in allowed' : a \in allowed \/ (a.turn = turns /\ a.id = c.id)
      BY <1>6, <2>1 DEF ResolvePermission, Prompts, PromptsAreLive
    <3> HIDE DEF c
    <3> QED BY <1>0, <3>1
  <2>2. CASE ~(actor = "Running" /\ c.id \in pending)
    <3>1. UNCHANGED <<turns, actor, worker, call, used, pending, allowed>>
      BY <1>6, <2>2 DEF ResolvePermission
    <3> QED BY <3>1
  <2> QED BY <2>1, <2>2
<1>7. CASE SubmitAccepted
  <2>1. turns' = turns + 1 /\ pending' = {} /\ worker' = "begin" /\ allowed' = allowed
    BY <1>7 DEF SubmitAccepted
  <2> QED BY <1>0, <2>1
<1>8. CASE Restore
  BY <1>0, <1>8 DEF Restore
<1>9. CASE UNCHANGED <<turns, worker, call, used, committed, cache, pending, answer, allowed, ran>>
  <2>1. actor' = "Running" <=> actor = "Running"
    BY <1>9, OwnedStep DEF Owned, TaskIsOwned
  <2> QED BY <1>9, <2>1
<1> QED BY <1>1, <1>2, <1>3, <1>4, <1>5, <1>6, <1>7, <1>8, <1>9, Elsewhere
        DEF WorkerStep, CallStep

LEMMA EarnedStep == TypeInv /\ Owned /\ Prompts /\ Earned /\ [Next]_vars => Earned'
<1> SUFFICES ASSUME TypeInv, Owned, Prompts, Earned, [Next]_vars PROVE Earned'
  OBVIOUS
<1>0. Answered'
  BY AnsweredStep DEF Earned
<1>1. /\ IsFiniteSet(Lasting) /\ Cardinality(Lasting) \in Nat
      /\ IsFiniteSet(cache) /\ Cardinality(cache) \in Nat
      /\ Unspent \in {0, 1} /\ Cardinality(cache) + Unspent <= Cardinality(Lasting)
  <2>1. Lasting \in SUBSET allowed /\ IsFiniteSet(allowed)
    BY DEF Lasting, TypeInv, HistoryOK
  <2>2. IsFiniteSet(Lasting)
    BY <2>1, FS_Subset
  <2> QED BY <2>2, FS_CardinalityType DEF Earned, Unspent
<1>2. ASSUME UNCHANGED <<cache, allowed>>, Unspent' <= Unspent, Unspent' \in {0, 1}
      PROVE  Earned'
  BY <1>0, <1>1, <1>2 DEF Earned, Lasting
<1> USE DEF actorVars, workerVars, controlVars, chanVars, history
<1>3. CASE WorkerBegins \/ WorkerAnswers \/ WorkerFails \/ WorkerPanics
  <2>1. UNCHANGED <<cache, allowed>> /\ worker' \notin {"asking", "waiting"}
    BY <1>3 DEF WorkerBegins, WorkerAnswers, WorkerFails, WorkerPanics
  <2> QED BY <1>1, <1>2, <2>1 DEF Unspent
<1>4. ASSUME NEW c \in Call, CallStarts(c) \/ CallPlanDenied(c) \/ CallRegisters(c) PROVE Earned'
  <2>1. /\ UNCHANGED <<cache, allowed>>
        /\ worker' \notin {"asking", "waiting"} \/ answer' = "none"
    BY <1>4 DEF CallStarts, CallPlanDenied, CallRegisters, NewCall
  <2> QED BY <1>1, <1>2, <2>1 DEF Unspent
<1>5. CASE CallAsks
  <2>1. UNCHANGED <<cache, allowed, answer>> /\ worker = "asking"
    BY <1>5 DEF CallAsks
  <2> QED BY <1>1, <1>2, <2>1 DEF Unspent
<1>6. CASE Denied \/ PromptCancelled \/ ToolRuns \/ ToolEnds
  <2>1. UNCHANGED <<cache, allowed>> /\ worker' \notin {"asking", "waiting"}
    BY <1>6 DEF Denied, PromptCancelled, ToolRuns, ToolEnds
  <2> QED BY <1>1, <1>2, <2>1 DEF Unspent
<1>7. CASE Allowed
  <2>1. Unspent' = 0 /\ allowed' = allowed
    BY <1>7 DEF Allowed, Unspent
  <2>2. CASE answer = "AllowSession" /\ call.key # NoKey
    <3>1. cache' = cache \cup {call.key} /\ Unspent = 1
      BY <1>7, <2>2 DEF Allowed, Remember, Unspent
    <3> DEFINE grown == cache \cup {call.key}
    <3>2. IsFiniteSet(grown) /\ Cardinality(grown) <= Cardinality(cache) + 1
          /\ Cardinality(grown) \in Nat
      <4>1. /\ IsFiniteSet(grown)
            /\ Cardinality(grown) = IF call.key \in cache THEN Cardinality(cache) ELSE Cardinality(cache) + 1
        BY <1>1, FS_AddElement
      <4> QED BY <1>1, <4>1
    <3>3. Lasting' = Lasting
      BY <2>1 DEF Lasting
    <3>4. Cardinality(grown) + 0 <= Cardinality(Lasting)
      BY <1>1, <3>1, <3>2
    <3> QED BY <1>0, <2>1, <3>1, <3>2, <3>3, <3>4 DEF Earned
  <2>3. CASE ~(answer = "AllowSession" /\ call.key # NoKey)
    <3>1. cache' = cache
      BY <1>7, <2>3 DEF Allowed, Remember
    <3> QED BY <1>1, <1>2, <2>1, <3>1
  <2> QED BY <2>2, <2>3
<1>8. CASE ResolvePermission
  <2> DEFINE c == Head(cmds)
             a == [turn |-> turns, id |-> c.id, choice |-> c.choice]
  <2>1. CASE actor = "Running" /\ c.id \in pending /\ c.choice = "AllowSession"
    <3>1. allowed' = allowed \cup {a} /\ UNCHANGED cache
      BY <1>8, <2>1 DEF ResolvePermission
    <3>2. a \notin allowed /\ a.choice = "AllowSession"
      BY <2>1 DEF Earned, Answered
    <3>3. Lasting' = Lasting \cup {a} /\ a \notin Lasting
      BY <3>1, <3>2 DEF Lasting
    <3>4. Cardinality(Lasting') = Cardinality(Lasting) + 1
      BY <1>1, <3>3, FS_AddElement
    <3>5. Unspent' \in {0, 1}
      BY DEF Unspent
    <3> QED BY <1>0, <1>1, <3>1, <3>4, <3>5 DEF Earned
  <2>2. CASE actor = "Running" /\ c.id \in pending /\ c.choice # "AllowSession"
    <3>1. UNCHANGED cache /\ answer' = c.choice /\ (allowed' = allowed \/ allowed' = allowed \cup {a})
      BY <1>8, <2>2 DEF ResolvePermission
    <3>2. Lasting' = Lasting
      BY <2>2, <3>1 DEF Lasting
    <3>3. Unspent' = 0
      BY <2>2, <3>1 DEF Unspent
    <3> QED BY <1>0, <1>1, <3>1, <3>2, <3>3 DEF Earned
  <2>3. CASE ~(actor = "Running" /\ c.id \in pending)
    <3>1. UNCHANGED <<cache, allowed, answer, worker>>
      BY <1>8, <2>3 DEF ResolvePermission
    <3> QED BY <1>1, <1>2, <3>1 DEF Unspent
  <2> QED BY <2>1, <2>2, <2>3
<1>9. CASE SubmitAccepted \/ Restore
  <2>1. UNCHANGED <<cache, allowed>> /\ worker' \notin {"asking", "waiting"}
    BY <1>9 DEF SubmitAccepted, Restore
  <2> QED BY <1>1, <1>2, <2>1 DEF Unspent
<1>10. CASE UNCHANGED <<turns, worker, call, used, committed, cache, pending, answer, allowed, ran>>
  BY <1>1, <1>2, <1>10 DEF Unspent
<1> QED BY <1>3, <1>4, <1>5, <1>6, <1>7, <1>8, <1>9, <1>10, Elsewhere DEF WorkerStep, CallStep

\* A gated tool runs under an answer of its own or a remembered one, and no answer is
\* remembered for more than the key it was given for, whatever is sent and whenever.
THEOREM PermissionsAreKept == Spec => []PermissionsHold
<1>1. Init => Earned
  <2> SUFFICES ASSUME Init PROVE Earned
    OBVIOUS
  <2>1. Lasting = {} /\ cache = {} /\ Unspent = 0
    BY DEF Init, Lasting, Unspent
  <2>2. Answered
    BY DEF Init, Answered
  <2> QED BY <2>1, <2>2, FS_EmptySet DEF Earned
<1>2. Spec => [](TypeInv /\ Owned /\ Prompts /\ Approvals /\ Earned)
  BY <1>1, TypeInit, TypeStep, FirstState, OwnedStep, PromptsStep, ApprovalsStep, EarnedStep,
     PTL DEF Spec
<1>3. TypeInv /\ Approvals /\ Earned => PermissionsHold
  <2> SUFFICES ASSUME TypeInv, Approvals, Earned PROVE PermissionsHold
    OBVIOUS
  <2>1. Lasting \in SUBSET allowed /\ IsFiniteSet(allowed)
    BY DEF Lasting, TypeInv, HistoryOK
  <2>2. Cardinality(Lasting) \in Nat /\ Cardinality(cache) \in Nat
    BY <2>1, FS_Subset, FS_CardinalityType DEF Earned
  <2>3. Cardinality(cache) <= Cardinality(Lasting)
    BY <2>2 DEF Earned, Unspent
  <2> QED BY <2>3 DEF PermissionsHold, CacheIsEarned, Approvals, Lasting
<1> QED BY <1>2, <1>3, PTL

-------------------------------------------------------------------------------
(* The stream.                                                                *)

Dones(t) == {i \in DOMAIN events : events[i].turn = t /\ events[i].kind = "Done"}

\* No event is of a turn to come, and none but the running turn lacks its one Done.
Framed ==
  /\ TurnsAreFramed
  /\ actor = "Running" => turns > 0
  /\ \A i \in DOMAIN events : events[i].turn <= turns
  /\ actor = "Running" => Dones(turns) = {}
  /\ \A t \in 1..turns : ~(actor = "Running" /\ t = turns) => \E i : Dones(t) = {i}

\* An event that ends nothing and is of no turn or of the running one.
Calm(e) == e.kind # "Done" /\ e.turn \in Nat /\ (e.turn = 0 \/ (actor = "Running" /\ e.turn = turns))

\* Such events are published behind those that were.
Grows ==
  /\ Len(events) <= Len(events')
  /\ \A i \in 1..Len(events) : events'[i] = events[i]
  /\ \A i \in 1..Len(events') : i > Len(events) => Calm(events'[i])

LEMMA AppendGrows ==
  ASSUME TypeInv, NEW d, NEW e, Calm(d), Calm(e),
         events' \in {events, Append(events, e), events \o <<d, e>>}
  PROVE  Grows
<1>1. events \in Seq(Events) /\ Len(events) \in Nat
  BY DEF TypeInv, HistoryOK
<1>2. CASE events' = events
  BY <1>1, <1>2 DEF Grows
<1>3. CASE events' = Append(events, e)
  <2>1. /\ Len(events') = Len(events) + 1 /\ events'[Len(events) + 1] = e
        /\ \A i \in 1..Len(events) : events'[i] = events[i]
    BY <1>1, <1>3
  <2> QED BY <1>1, <2>1 DEF Grows
<1>4. CASE events' = events \o <<d, e>>
  <2>1. /\ Len(events') = Len(events) + 2
        /\ events'[Len(events) + 1] = d /\ events'[Len(events) + 2] = e
        /\ \A i \in 1..Len(events) : events'[i] = events[i]
    BY <1>1, <1>4
  <2>2. \A i \in 1..Len(events') : i > Len(events) => i \in {Len(events) + 1, Len(events) + 2}
    BY <1>1, <2>1
  <2> QED BY <1>1, <2>1, <2>2 DEF Grows
<1> QED BY <1>2, <1>3, <1>4

\* Only a new turn and the joining of a task are more than calm.
LEMMA CalmStep ==
  ASSUME TypeInv, Owned, [Next]_vars, ~SubmitAccepted, ~Restore
  PROVE  Grows /\ turns' = turns /\ (actor' = "Running" <=> actor = "Running")
<1>0. turns \in Nat
  BY BoundsAssumption DEF TypeInv, TypeOK
<1>1. ASSUME NEW kind \in Kinds \ {"Done"}, NEW arg PROVE Calm(Event(0, kind, arg))
  BY <1>1 DEF Calm, Event
<1>2. ASSUME actor = "Running", NEW kind \in Kinds \ {"Done"}, NEW arg
      PROVE  Calm(Event(turns, kind, arg))
  BY <1>0, <1>2 DEF Calm, Event
<1>3. ASSUME NEW kind \in Kinds \ {"Done"}, NEW arg, Publish(kind, arg) PROVE Grows
  <2> DEFINE e == Event(IF actor = "Running" THEN turns ELSE 0, kind, arg)
  <2>1. Calm(e) /\ events' = Append(events, e)
    BY <1>1, <1>2, <1>3 DEF Publish
  <2> HIDE DEF e
  <2> QED BY <2>1, AppendGrows
<1>4. ASSUME worker # "none", NEW kind \in Kinds \ {"Done"}, NEW arg, events' = Sink(kind, arg)
      PROVE  Grows
  <2>1. Calm(Event(turns, kind, arg))
    BY <1>2, <1>4 DEF Owned, TaskIsOwned
  <2> QED BY <1>4, <2>1, AppendGrows DEF Sink
<1>5. ASSUME UNCHANGED events PROVE Grows
  <2>1. Calm(Event(0, "Status", "none"))
    BY <1>1 DEF Kinds
  <2> QED BY <1>5, <2>1, AppendGrows
<1>6. {"Busy", "Status", "Error", "ModeChanged", "Header", "Interrupted", "ToolStart",
       "ToolEnd", "PermissionRequired", "PermissionResolved"} \subseteq Kinds \ {"Done"}
  BY DEF Kinds
<1> USE DEF actorVars, workerVars, controlVars, chanVars, history
<1>7. turns' = turns
  <2>1. CASE ResolvePermission
    BY <2>1 DEF ResolvePermission
  <2>2. CASE WorkerBegins \/ WorkerAnswers \/ WorkerFails \/ WorkerPanics
    BY <2>2 DEF WorkerBegins, WorkerAnswers, WorkerFails, WorkerPanics
  <2>3. CASE CallStep
    BY <2>3 DEF CallStep, CallStarts, CallPlanDenied, CallRegisters, CallAsks, Allowed, Denied,
                PromptCancelled, ToolRuns, ToolEnds
  <2> QED BY <2>1, <2>2, <2>3, Elsewhere DEF WorkerStep
<1>8. actor' = "Running" <=> actor = "Running"
  <2>1. worker' # "none" <=> worker # "none"
    <3>1. CASE ResolvePermission
      BY <3>1 DEF ResolvePermission
    <3>2. CASE WorkerBegins \/ WorkerAnswers \/ WorkerFails \/ WorkerPanics
      BY <3>2 DEF WorkerBegins, WorkerAnswers, WorkerFails, WorkerPanics
    <3>3. ASSUME NEW c \in Call, CallStarts(c) \/ CallPlanDenied(c) \/ CallRegisters(c)
          PROVE  worker' # "none" <=> worker # "none"
      BY <3>3 DEF CallStarts, CallPlanDenied, CallRegisters, NewCall
    <3>4. CASE CallAsks \/ Allowed \/ Denied \/ PromptCancelled \/ ToolRuns \/ ToolEnds
      BY <3>4 DEF CallAsks, Allowed, Denied, PromptCancelled, ToolRuns, ToolEnds
    <3> QED BY <3>1, <3>2, <3>3, <3>4, Elsewhere DEF WorkerStep, CallStep
  <2> QED BY <2>1, OwnedStep DEF Owned, TaskIsOwned
<1>9. Grows
  <2>1. CASE SubmitRefused \/ ModeCommand \/ SelectModel \/ SlashCommand \/ ShutdownOverdue
    BY <1>3, <1>5, <1>6, <2>1 DEF SubmitRefused, ModeCommand, SelectModel, SlashCommand, ShutdownOverdue
  <2>2. CASE PollJoin \/ ResolvePermission \/ Interrupt \/ Shutdown \/ EndOfCommands \/ Stop
    BY <1>5, <2>2 DEF PollJoin, ResolvePermission, Interrupt, Shutdown, EndOfCommands, ShutdownBegins, Stop
  <2>3. CASE WorkerBegins \/ WorkerAnswers \/ WorkerFails \/ WorkerPanics
    BY <1>4, <1>5, <1>6, <2>3 DEF WorkerBegins, WorkerAnswers, WorkerFails, WorkerPanics
  <2>4. ASSUME NEW c \in Call, CallStarts(c) \/ CallPlanDenied(c) \/ CallRegisters(c) PROVE Grows
    BY <1>4, <1>5, <1>6, <2>4 DEF CallStarts, CallPlanDenied, CallRegisters, NewCall
  <2>5. CASE CallAsks \/ Allowed \/ PromptCancelled \/ ToolRuns \/ ToolEnds
    BY <1>4, <1>5, <1>6, <2>5 DEF CallAsks, Allowed, PromptCancelled, ToolRuns, ToolEnds
  <2>6. CASE Denied
    <3>1. Calm(Event(turns, "PermissionResolved", call.id)) /\ Calm(Event(turns, "ToolEnd", call.id))
      BY <1>2, <1>6, <2>6 DEF Denied, Owned, TaskIsOwned
    <3> QED BY <2>6, <3>1, AppendGrows DEF Denied
  <2>7. ASSUME NEW c \in Commands, Send(c) PROVE Grows
    BY <1>5, <2>7 DEF Send
  <2>8. CASE Close \/ UNCHANGED vars
    BY <1>5, <2>8 DEF Close, vars
  <2> QED BY <2>1, <2>2, <2>3, <2>4, <2>5, <2>6, <2>7, <2>8
          DEF Next, ActorStep, Dispatch, WorkerStep, CallStep
<1> QED BY <1>7, <1>8, <1>9

LEMMA EventsShape ==
  ASSUME TypeInv
  PROVE  /\ turns \in Nat /\ Len(events) \in Nat /\ events \in Seq(Events)
         /\ DOMAIN events = 1..Len(events) /\ \A i \in DOMAIN events : events[i].turn \in Nat
<1>1. turns \in Nat
  BY BoundsAssumption DEF TypeInv, TypeOK
<1>2. events \in Seq(Events)
  BY DEF TypeInv, HistoryOK
<1>3. Len(events) \in Nat /\ DOMAIN events = 1..Len(events) /\ \A i \in DOMAIN events : events[i] \in Events
  BY <1>2
<1>4. \A e \in Events : e.turn \in Nat
  BY DEF Events
<1> QED BY <1>1, <1>2, <1>3, <1>4

LEMMA CalmKeepsFramed ==
  ASSUME TypeInv, TypeInv', Framed, Grows, turns' = turns, actor' = "Running" <=> actor = "Running"
  PROVE  Framed'
<1>1. /\ turns \in Nat /\ Len(events) \in Nat /\ Len(events') \in Nat
      /\ DOMAIN events = 1..Len(events) /\ DOMAIN events' = 1..Len(events')
      /\ \A i \in DOMAIN events : events[i].turn \in Nat
  <2>1. Len(events') \in Nat /\ DOMAIN events' = 1..Len(events')
    BY DEF TypeInv, HistoryOK
  <2> QED BY <2>1, EventsShape
<1>2. \A i \in DOMAIN events' : i \in DOMAIN events \/ i > Len(events)
  BY <1>1
<1>3. \A i \in DOMAIN events : i \in DOMAIN events' /\ events'[i] = events[i]
  BY <1>1 DEF Grows
<1>4. \A i \in DOMAIN events' : i \notin DOMAIN events => i > Len(events) /\ Calm(events'[i])
  BY <1>1, <1>2 DEF Grows
<1>5. \A t : Dones(t)' = Dones(t)
  <2> SUFFICES ASSUME NEW t PROVE Dones(t)' = Dones(t)
    OBVIOUS
  <2>1. \A i \in DOMAIN events' : events'[i].kind = "Done" => i \in DOMAIN events
    BY <1>4 DEF Calm
  <2> QED BY <1>3, <2>1 DEF Dones
<1>6. \A i \in DOMAIN events' : events'[i].turn <= turns'
  BY <1>1, <1>3, <1>4 DEF Framed, Calm
<1>7. TurnsAreFramed'
  <2> SUFFICES ASSUME NEW i \in DOMAIN events', NEW j \in DOMAIN events', i < j,
                      events'[i].turn > 0, events'[j].turn > 0
               PROVE  /\ events'[i].turn <= events'[j].turn
                      /\ events'[i].kind = "Done" => events'[i].turn < events'[j].turn
    BY DEF TurnsAreFramed
  <2>1. CASE j \in DOMAIN events
    BY <1>1, <1>3, <2>1 DEF Framed, TurnsAreFramed
  <2>2. CASE j \notin DOMAIN events
    <3>1. actor = "Running" /\ events'[j].turn = turns
      BY <1>4, <2>2 DEF Calm
    <3>2. CASE i \in DOMAIN events
      <4>1. events'[i] = events[i] /\ events[i].turn <= turns /\ events[i].turn \in Nat
        BY <1>1, <1>3, <3>2 DEF Framed
      <4>2. events[i].kind = "Done" => events[i].turn # turns
        BY <3>1, <3>2 DEF Framed, Dones
      <4> QED BY <1>1, <3>1, <4>1, <4>2
    <3>3. CASE i \notin DOMAIN events
      BY <1>1, <1>4, <3>1, <3>3 DEF Calm
    <3> QED BY <3>2, <3>3
  <2> QED BY <2>1, <2>2
<1> QED BY <1>5, <1>6, <1>7 DEF Framed

LEMMA FramedStep == TypeInv /\ Owned /\ Framed /\ [Next]_vars => Framed'
<1> SUFFICES ASSUME TypeInv, Owned, Framed, [Next]_vars PROVE Framed'
  OBVIOUS
<1>0. TypeInv'
  BY TypeStep
<1>1. /\ turns \in Nat /\ Len(events) \in Nat /\ events \in Seq(Events)
      /\ DOMAIN events = 1..Len(events) /\ \A i \in DOMAIN events : events[i].turn \in Nat
  BY EventsShape
<1>2. CASE SubmitAccepted
  <2>1. actor = "Idle" /\ actor' = "Running" /\ turns' = turns + 1 /\ events' = events
    BY <1>2 DEF SubmitAccepted
  <2>2. Dones(turns + 1) = {}
    BY <1>1 DEF Framed, Dones
  <2>3. ASSUME NEW t \in 1..turns', t # turns' PROVE \E i : Dones(t)' = {i}
    <3>1. t \in 1..turns
      BY <1>1, <2>1, <2>3
    <3>2. \E i : Dones(t) = {i}
      BY <2>1, <3>1, Zenon DEF Framed
    <3> QED BY <2>1, <3>2 DEF Dones
  <2>4. Dones(turns)' = {}
    BY <2>1, <2>2 DEF Dones
  <2>5. TurnsAreFramed' /\ \A i \in DOMAIN events' : events'[i].turn <= turns'
    BY <1>1, <2>1 DEF Framed, TurnsAreFramed
  <2>6. turns' > 0 /\ actor' = "Running"
    BY <1>1, <2>1
  <2> QED BY <2>3, <2>4, <2>5, <2>6, Zenon DEF Framed
<1>3. CASE Restore
  <2> DEFINE done == Event(turns, "Done", "none")
             error == Event(0, "Error", "panic")
  <2>1. /\ actor = "Running" /\ actor' # "Running" /\ turns' = turns /\ turns > 0
        /\ events' = Append(events, done) \/ events' = events \o <<error, done>>
    BY <1>3 DEF Restore, Framed
  <2>2. /\ done.turn = turns /\ done.kind = "Done" /\ error.turn = 0 /\ error.kind = "Error"
    BY DEF Event
  <2> HIDE DEF done, error
  <2>3. PICK n \in Nat :
          /\ n > Len(events) /\ DOMAIN events' = 1..n /\ events'[n] = done
          /\ \A i \in 1..Len(events) : events'[i] = events[i]
          /\ \A i \in 1..n : i > Len(events) /\ i # n => events'[i] = error
    <3>1. CASE events' = Append(events, done)
      <4>1. /\ Len(events') = Len(events) + 1 /\ events'[Len(events) + 1] = done
            /\ DOMAIN events' = 1..(Len(events) + 1)
            /\ \A i \in 1..Len(events) : events'[i] = events[i]
        BY <1>1, <3>1
      <4> QED BY <1>1, <4>1
    <3>2. CASE events' = events \o <<error, done>>
      <4>1. /\ Len(events') = Len(events) + 2 /\ DOMAIN events' = 1..(Len(events) + 2)
            /\ events'[Len(events) + 1] = error /\ events'[Len(events) + 2] = done
            /\ \A i \in 1..Len(events) : events'[i] = events[i]
        BY <1>1, <3>2
      <4>2. \A i \in 1..(Len(events) + 2) :
              i > Len(events) /\ i # Len(events) + 2 => i = Len(events) + 1
        BY <1>1
      <4> QED BY <1>1, <4>1, <4>2
    <3> QED BY <2>1, <3>1, <3>2
  <2>4. \A i \in DOMAIN events' :
          \/ i \in DOMAIN events /\ events'[i] = events[i]
          \/ i > Len(events) /\ i # n /\ events'[i] = error
          \/ i = n /\ events'[i] = done
    BY <1>1, <2>3
  <2>5. \A i \in DOMAIN events' : events'[i].turn <= turns'
    BY <1>1, <2>1, <2>2, <2>4 DEF Framed
  <2>6. TurnsAreFramed'
    <3> SUFFICES ASSUME NEW i \in DOMAIN events', NEW j \in DOMAIN events', i < j,
                        events'[i].turn > 0, events'[j].turn > 0
                 PROVE  /\ events'[i].turn <= events'[j].turn
                        /\ events'[i].kind = "Done" => events'[i].turn < events'[j].turn
      BY DEF TurnsAreFramed
    <3>1. i # n /\ i \in DOMAIN events /\ events'[i] = events[i]
      BY <1>1, <2>2, <2>3, <2>4
    <3>2. CASE j \in DOMAIN events /\ events'[j] = events[j]
      BY <3>1, <3>2 DEF Framed, TurnsAreFramed
    <3>3. CASE events'[j] = done
      <4>1. events[i].turn <= turns /\ events[i].turn \in Nat
        BY <1>1, <3>1 DEF Framed
      <4>2. events[i].kind = "Done" => events[i].turn # turns
        BY <2>1, <3>1 DEF Framed, Dones
      <4> QED BY <1>1, <2>2, <3>1, <3>3, <4>1, <4>2
    <3>4. CASE events'[j] = error
      BY <2>2, <3>4
    <3> QED BY <2>4, <3>2, <3>3, <3>4
  <2>7. Dones(turns)' = {n}
    <3>1. n \in DOMAIN events' /\ events'[n] = done
      BY <1>1, <2>3
    <3>2. \A i \in DOMAIN events' : events'[i].turn = turns /\ events'[i].kind = "Done" => i = n
      BY <2>1, <2>2, <2>4 DEF Framed, Dones
    <3> QED BY <2>1, <2>2, <3>1, <3>2 DEF Dones
  <2>8. ASSUME NEW t \in 1..turns, t # turns PROVE Dones(t)' = Dones(t)
    <3>1. \A i \in DOMAIN events : i \in DOMAIN events'
      BY <1>1, <2>3
    <3>2. \A i \in DOMAIN events : events'[i] = events[i]
      BY <1>1, <2>3
    <3>3. \A i \in DOMAIN events' : events'[i].turn = t /\ events'[i].kind = "Done" => i \in DOMAIN events
      BY <2>2, <2>4, <2>8
    <3> QED BY <3>1, <3>2, <3>3 DEF Dones
  <2>9. \A t \in 1..turns' : \E i : Dones(t)' = {i}
    <3> SUFFICES ASSUME NEW t \in 1..turns' PROVE \E i : Dones(t)' = {i}
      OBVIOUS
    <3>1. CASE t = turns
      BY <2>1, <2>7, <3>1 DEF Dones
    <3>2. CASE t # turns
      BY <2>1, <2>8, <3>2 DEF Framed
    <3> QED BY <3>1, <3>2
  <2> QED BY <2>1, <2>5, <2>6, <2>9 DEF Framed
<1>4. CASE ~SubmitAccepted /\ ~Restore
  BY <1>0, <1>4, CalmStep, CalmKeepsFramed
<1> QED BY <1>2, <1>3, <1>4

\* In the stream a client filters by turn, the turns are blocks in their order, each
\* closed by exactly one Done, whatever is sent, fails or panics.
THEOREM StreamFramed == Spec => []StreamIsFramed
<1>1. Init => Framed
  <2> SUFFICES ASSUME Init PROVE Framed
    OBVIOUS
  <2>1. actor = "Idle" /\ turns = 0 /\ 1..turns = {}
    BY DEF Init
  <2>2. \A i \in DOMAIN events : i = 1 /\ events[i].turn = 0
    BY DEF Init, Event
  <2> QED BY <2>1, <2>2 DEF Framed, TurnsAreFramed
<1>2. Spec => [](TypeInv /\ Owned /\ Framed)
  BY <1>1, TypeInit, TypeStep, FirstState, OwnedStep, FramedStep, PTL DEF Spec
<1>3. Framed => StreamIsFramed
  <2> SUFFICES ASSUME Framed PROVE StreamIsFramed
    OBVIOUS
  <2>1. ASSUME NEW t \in 1..turns
        PROVE  Cardinality(Dones(t)) = IF actor = "Running" /\ t = turns THEN 0 ELSE 1
    BY <2>1, FS_EmptySet, FS_Singleton DEF Framed
  <2> QED BY <2>1 DEF StreamIsFramed, OneDonePerTurn, Dones, Framed
<1> QED BY <1>2, <1>3, PTL

-------------------------------------------------------------------------------
(* Replaying the event stream.                                                *)

\* Any set of naturals has a least element, so induction needs no more than a set.
LEMMA Induction ==
  ASSUME NEW S, 0 \in S, \A n \in Nat : n \in S => n + 1 \in S
  PROVE  Nat \subseteq S
<1> SUFFICES ASSUME NEW k \in Nat \ S PROVE FALSE
  OBVIOUS
<1> DEFINE R == OpToRel(<, Nat)
           T == Nat \ S
<1>1. IsWellFoundedOn(R, Nat)
  BY NatLessThanWellFounded
<1>2. \A x, y \in Nat : x < y => <<x, y>> \in R
  BY DEF OpToRel
<1> HIDE DEF R
<1>3. PICK x \in T : \A y \in T : ~ (<<y, x>> \in R)
  BY <1>1, WFMin
<1>4. x # 0 /\ x - 1 \in Nat /\ x - 1 < x /\ x - 1 + 1 = x
  OBVIOUS
<1>5. x - 1 \in S
  BY <1>2, <1>3, <1>4
<1> QED BY <1>4, <1>5

\* g solves the recursion of Replayed.
Replays(g, v, from) ==
  g = [i \in from..Len(events) |->
         IF i = from THEN v ELSE ApplyRuntimeEvent(g[i - 1], events[i])]

\* That recursion has a solution ...
LEMMA ReplayExists ==
  ASSUME NEW v, NEW from \in Nat, Len(events) \in Nat, from <= Len(events)
  PROVE  \E g : Replays(g, v, from)
<1> DEFINE last == Len(events)
           Solution(g, n) ==
             g = [i \in from..n |->
                    IF i = from THEN v ELSE ApplyRuntimeEvent(g[i - 1], events[i])]
           S == {n \in Nat : \E g : Solution(g, from + n)}
<1>1. 0 \in S
  <2> DEFINE g == [i \in from..(from + 0) |-> v]
  <2>1. Solution(g, from + 0)
    OBVIOUS
  <2> QED BY <2>1
<1>2. ASSUME NEW n \in Nat, n \in S PROVE n + 1 \in S
  <2>1. PICK g : Solution(g, from + n)
    BY <1>2
  <2> DEFINE top == from + n + 1
             h == [i \in from..top |->
                     IF i = top THEN ApplyRuntimeEvent(g[i - 1], events[i]) ELSE g[i]]
  <2>2. \A i \in from..top :
          h[i] = IF i = from THEN v ELSE ApplyRuntimeEvent(h[i - 1], events[i])
    <3> SUFFICES ASSUME NEW i \in from..top
                 PROVE  h[i] = IF i = from THEN v ELSE ApplyRuntimeEvent(h[i - 1], events[i])
      OBVIOUS
    <3>1. i # from => i - 1 \in from..top /\ i - 1 # top
      OBVIOUS
    <3>2. (i # top => i \in from..(from + n)) /\ top # from
      OBVIOUS
    <3>3. i # from => h[i - 1] = g[i - 1]
      BY <3>1
    <3>4. i # top => g[i] = IF i = from THEN v ELSE ApplyRuntimeEvent(g[i - 1], events[i])
      BY <2>1, <3>2
    <3>5. h[i] = IF i = top THEN ApplyRuntimeEvent(g[i - 1], events[i]) ELSE g[i]
      OBVIOUS
    <3> HIDE DEF h, top
    <3> QED BY <3>2, <3>3, <3>4, <3>5
  <2>3. Solution(h, top)
    BY <2>2
  <2>4. top = from + (n + 1)
    OBVIOUS
  <2> HIDE DEF h, top, Solution
  <2> QED BY <2>3, <2>4
<1> HIDE DEF S
<1>3. Nat \subseteq S
  BY <1>1, <1>2, Induction
<1>4. last - from \in Nat /\ last = from + (last - from)
  OBVIOUS
<1>5. \E g : Solution(g, from + (last - from))
  BY <1>3, <1>4 DEF S
<1> QED BY <1>4, <1>5 DEF Replays

\* ... and so it replays the stream event by event.
LEMMA ReplaySteps ==
  ASSUME TypeInv, NEW v, NEW from \in Nat, from <= Len(events)
  PROVE  /\ Replayed(v, from)[from] = v
         /\ \A i \in from..Len(events) : i # from =>
              Replayed(v, from)[i] = ApplyRuntimeEvent(Replayed(v, from)[i - 1], events[i])
<1> DEFINE f == Replayed(v, from)
<1>1. Len(events) \in Nat
  BY EventsShape
<1>2. f = CHOOSE g : Replays(g, v, from)
  BY DEF Replayed, Replays
<1>3. \E g : Replays(g, v, from)
  BY <1>1, ReplayExists
<1>4. Replays(f, v, from)
  <2> HIDE DEF f
  <2> QED BY <1>2, <1>3
<1>5. from \in from..Len(events)
  BY <1>1
<1> HIDE DEF f
<1>6. f[from] = v /\ \A i \in from..Len(events) : i # from =>
              f[i] = ApplyRuntimeEvent(f[i - 1], events[i])
  BY <1>4, <1>5 DEF Replays
<1> QED BY <1>6 DEF f

-------------------------------------------------------------------------------
(* What the stream tells about the turn.                                      *)

\* The events a client acts on by their turn.
Turned == {"Header", "PermissionRequired", "Done", "Interrupted"}

\* Events a client can apply, and those of them that change nothing of a turn.
Sound == {e \in Events : /\ e.kind \in Turned => e.turn > 0
                         /\ e.kind = "PermissionRequired" => e.arg \in CallIds
                         /\ e.kind = "ModeChanged" => e.arg \in Modes}
Quiet == {e \in Sound : e.kind \notin Turned}

\* The stream is extended, by events of S alone.
Adds(S) ==
  /\ Len(events) <= Len(events')
  /\ \A i \in 1..Len(events) : events'[i] = events[i]
  /\ \A i \in 1..Len(events') : i > Len(events) => events'[i] \in S

LEMMA AppendAdds ==
  ASSUME TypeInv, NEW S, NEW d \in S, NEW e \in S,
         events' \in {events, Append(events, e), events \o <<d, e>>}
  PROVE  Adds(S)
<1>1. events \in Seq(Events) /\ Len(events) \in Nat
  BY DEF TypeInv, HistoryOK
<1>2. CASE events' = events
  BY <1>1, <1>2 DEF Adds
<1>3. CASE events' = Append(events, e)
  <2>1. /\ Len(events') = Len(events) + 1 /\ events'[Len(events) + 1] = e
        /\ \A i \in 1..Len(events) : events'[i] = events[i]
    BY <1>1, <1>3
  <2>2. \A i \in 1..Len(events') : i > Len(events) => i = Len(events) + 1
    BY <1>1, <2>1
  <2> QED BY <1>1, <2>1, <2>2 DEF Adds
<1>4. CASE events' = events \o <<d, e>>
  <2>1. /\ Len(events') = Len(events) + 2
        /\ events'[Len(events) + 1] = d /\ events'[Len(events) + 2] = e
        /\ \A i \in 1..Len(events) : events'[i] = events[i]
    BY <1>1, <1>4
  <2>2. \A i \in 1..Len(events') : i > Len(events) => i \in {Len(events) + 1, Len(events) + 2}
    BY <1>1, <2>1
  <2> QED BY <1>1, <2>1, <2>2 DEF Adds
<1> QED BY <1>2, <1>3, <1>4

LEMMA AppendOne ==
  ASSUME TypeInv, NEW S, NEW e \in S, events' = Append(events, e) PROVE Adds(S)
<1>1. events' \in {events, Append(events, e), events \o <<e, e>>}
  OBVIOUS
<1> QED BY <1>1, AppendAdds

LEMMA QuietEvent ==
  ASSUME NEW t \in Nat, NEW kind \in Kinds \ Turned, NEW arg \in Args,
         kind = "ModeChanged" => arg \in Modes
  PROVE  Event(t, kind, arg) \in Quiet
<1>1. Event(t, kind, arg) \in Events
  BY EventType
<1> QED BY <1>1 DEF Event, Quiet, Sound, Turned

\* Beside a turn's beginning, its prompts and its end only quiet events are published.
LEMMA QuietStep ==
  ASSUME TypeInv, Owned, [Next]_vars, ~Restore, ~WorkerBegins, ~WorkerFails, ~CallAsks
  PROVE  Adds(Quiet)
<1>0. turns \in Nat /\ mode \in Modes /\ worker \in Points
  BY BoundsAssumption DEF TypeInv, TypeOK
<1>1. ASSUME NEW kind \in Kinds \ Turned, NEW arg \in Args, kind = "ModeChanged" => arg \in Modes,
             Publish(kind, arg)
      PROVE  Adds(Quiet)
  <2> DEFINE e == Event(IF actor = "Running" THEN turns ELSE 0, kind, arg)
  <2>1. e \in Quiet /\ events' = Append(events, e)
    BY <1>0, <1>1, QuietEvent DEF Publish
  <2> HIDE DEF e
  <2> QED BY <2>1, AppendAdds
<1>2. ASSUME NEW kind \in Kinds \ Turned, NEW arg \in Args, kind # "ModeChanged",
             events' = Sink(kind, arg)
      PROVE  Adds(Quiet)
  <2>1. Event(turns, kind, arg) \in Quiet
    BY <1>0, <1>2, QuietEvent
  <2> QED BY <1>2, <2>1, AppendAdds DEF Sink
<1>3. ASSUME UNCHANGED events PROVE Adds(Quiet)
  <2>1. Event(0, "Status", "none") \in Quiet
    BY QuietEvent DEF Kinds, Turned, Args
  <2> QED BY <1>3, <2>1, AppendAdds
<1>4. /\ {"Busy", "Status", "Error", "ModeChanged", "ToolStart", "ToolEnd", "PermissionResolved"}
           \subseteq Kinds \ Turned
      /\ {"none", "goal", "setup", "slash", "model", "panic", "overdue", "turn"} \subseteq Args
      /\ call.id \in Args /\ Modes \subseteq Args /\ CallIds \subseteq Args
  BY CallArgs DEF Kinds, Turned, Args
<1> USE DEF actorVars, workerVars, controlVars, chanVars, history
<1>5. CASE SubmitRefused \/ SelectModel \/ SlashCommand \/ ShutdownOverdue
  BY <1>1, <1>3, <1>4, <1>5 DEF SubmitRefused, SelectModel, SlashCommand, ShutdownOverdue
<1>6. CASE ModeCommand
  <2>1. Head(cmds).arg \in Modes \cup {"next"}
    BY <1>6, Received, CommandFields DEF ModeCommand
  <2>2. mode' \in Modes
    BY <1>0, <1>6, <2>1 DEF ModeCommand, OtherMode
  <2>3. Publish("Busy", "slash") \/ Publish("ModeChanged", mode')
    BY <1>6 DEF ModeCommand
  <2>4. CASE Publish("Busy", "slash")
    BY <1>1, <1>4, <2>4
  <2>5. CASE Publish("ModeChanged", mode')
    <3>1. "ModeChanged" \in Kinds \ Turned /\ mode' \in Args
      BY <1>4, <2>2
    <3> QED BY <1>1, <2>2, <2>5, <3>1
  <2> QED BY <2>3, <2>4, <2>5
<1>7. CASE PollJoin \/ SubmitAccepted \/ ResolvePermission \/ Interrupt \/ Shutdown
           \/ EndOfCommands \/ Stop
  BY <1>3, <1>7 DEF PollJoin, SubmitAccepted, ResolvePermission, Interrupt, Shutdown, EndOfCommands,
                    ShutdownBegins, Stop
<1>8. CASE WorkerAnswers \/ WorkerPanics
  BY <1>3, <1>8 DEF WorkerAnswers, WorkerPanics
<1>9. ASSUME NEW c \in Call, CallStarts(c) \/ CallPlanDenied(c) \/ CallRegisters(c)
      PROVE  Adds(Quiet)
  <2>1. c.id \in Args
    BY <1>4 DEF Call
  <2> QED BY <1>2, <1>3, <1>4, <1>9, <2>1 DEF CallStarts, CallPlanDenied, CallRegisters
<1>10. CASE Allowed \/ PromptCancelled \/ ToolRuns \/ ToolEnds
  BY <1>2, <1>3, <1>4, <1>10 DEF Allowed, PromptCancelled, ToolRuns, ToolEnds
<1>11. CASE Denied
  <2>1. /\ Event(turns, "PermissionResolved", call.id) \in Quiet
        /\ Event(turns, "ToolEnd", call.id) \in Quiet
    BY <1>0, <1>4, QuietEvent
  <2> QED BY <1>11, <2>1, AppendAdds DEF Denied
<1>12. ASSUME NEW c \in Commands, Send(c) PROVE Adds(Quiet)
  BY <1>3, <1>12 DEF Send
<1>13. CASE Close \/ UNCHANGED vars
  BY <1>3, <1>13 DEF Close, vars
<1> QED BY <1>5, <1>6, <1>7, <1>8, <1>9, <1>10, <1>11, <1>12, <1>13
        DEF Next, ActorStep, Dispatch, WorkerStep, CallStep

\* Where the task moves, and what it takes there.
Started == {"loop", "asking", "waiting", "dispatch", "running", "ending"}

LEMMA Moves ==
  ASSUME TypeInv, Owned, [Next]_vars
  PROVE  /\ worker' \in Started => worker \in Started \/ WorkerBegins
         /\ worker' = "waiting" => worker = "waiting" \/ CallAsks
         /\ worker' \in {"asking", "waiting"} =>
              \/ \E c \in Call : CallRegisters(c)
              \/ /\ worker \in {"asking", "waiting"} /\ call' = call
                 /\ (pending' = pending /\ answer' = answer) \/ answer' # "none"
                 /\ cancelled => cancelled'
         /\ ~SubmitAccepted /\ ~Restore /\ worker = "returned" => worker' = "returned"
<1> DEFINE Goal ==
         /\ worker' \in Started => worker \in Started \/ WorkerBegins
         /\ worker' = "waiting" => worker = "waiting" \/ CallAsks
         /\ worker' \in {"asking", "waiting"} =>
              \/ \E c \in Call : CallRegisters(c)
              \/ /\ worker \in {"asking", "waiting"} /\ call' = call
                 /\ (pending' = pending /\ answer' = answer) \/ answer' # "none"
                 /\ cancelled => cancelled'
         /\ ~SubmitAccepted /\ ~Restore /\ worker = "returned" => worker' = "returned"
<1> USE DEF Started, actorVars, workerVars, controlVars, chanVars, history
<1>1. CASE WorkerBegins \/ WorkerAnswers \/ WorkerFails \/ WorkerPanics
  BY <1>1 DEF WorkerBegins, WorkerAnswers, WorkerFails, WorkerPanics
<1>2. ASSUME NEW c \in Call, CallStarts(c) \/ CallPlanDenied(c) \/ CallRegisters(c)
      PROVE  Goal
  <2>1. worker = "loop" /\ (worker' \in {"dispatch", "loop"} \/ CallRegisters(c)) /\ worker' # "waiting"
    BY <1>2 DEF CallStarts, CallPlanDenied, CallRegisters, NewCall
  <2> QED BY <2>1
<1>3. CASE Allowed \/ Denied \/ PromptCancelled \/ ToolRuns \/ ToolEnds
  BY <1>3 DEF Allowed, Denied, PromptCancelled, ToolRuns, ToolEnds
<1>4. CASE CallAsks
  BY <1>4 DEF CallAsks
<1>5. CASE ResolvePermission
  <2>1. Head(cmds).choice # "none"
    BY <1>5, Received, CommandFields DEF ResolvePermission
  <2>2. (pending' = pending /\ answer' = answer) \/ answer' = Head(cmds).choice
    BY <1>5 DEF ResolvePermission
  <2>3. UNCHANGED <<worker, call, cancelled>>
    BY <1>5 DEF ResolvePermission
  <2> QED BY <2>1, <2>2, <2>3
<1>6. CASE SubmitAccepted
  BY <1>6 DEF SubmitAccepted
<1>7. CASE Restore
  BY <1>7 DEF Restore
<1>8. ASSUME ~WorkerStep, ~WorkerPanics, ~ResolvePermission, ~SubmitAccepted, ~Restore
      PROVE  Goal
  <2>1. UNCHANGED <<worker, call, pending, answer>>
    BY <1>8, Elsewhere
  <2>2. cancelled => cancelled'
    <3>1. CASE PollJoin \/ SubmitRefused \/ Interrupt \/ ModeCommand \/ SelectModel
      BY <3>1 DEF PollJoin, SubmitRefused, Interrupt, ModeCommand, SelectModel
    <3>2. CASE SlashCommand \/ Shutdown \/ EndOfCommands \/ Stop \/ ShutdownOverdue
      BY <3>2 DEF SlashCommand, Shutdown, EndOfCommands, ShutdownBegins, Stop, ShutdownOverdue
    <3>3. CASE Close \/ UNCHANGED vars
      BY <3>3 DEF Close, vars
    <3>4. ASSUME NEW c \in Commands, Send(c) PROVE cancelled => cancelled'
      BY <3>4 DEF Send
    <3> QED BY <1>8, <3>1, <3>2, <3>3, <3>4 DEF Next, ActorStep, Dispatch
  <2> QED BY <2>1, <2>2
<1> QED BY <1>1, <1>2, <1>3, <1>4, <1>5, <1>6, <1>7, <1>8 DEF WorkerStep, CallStep

\* A prompt without an answer is registered under its call.
Registered ==
  worker \in {"asking", "waiting"} =>
    call.id \in CallIds /\ (answer = "none" => pending = {call.id})

LEMMA RegisteredStep == TypeInv /\ Owned /\ Prompts /\ Registered /\ [Next]_vars => Registered'
<1> SUFFICES ASSUME TypeInv, Owned, Prompts, Registered, [Next]_vars, worker' \in {"asking", "waiting"}
             PROVE  call'.id \in CallIds /\ (answer' = "none" => pending' = {call'.id})
  BY DEF Registered
<1>1. ASSUME NEW c \in Call, CallRegisters(c)
      PROVE  call'.id \in CallIds /\ (answer' = "none" => pending' = {call'.id})
  <2>1. call' = c /\ pending' = pending \cup {c.id} /\ worker = "loop"
    BY <1>1 DEF CallRegisters, NewCall
  <2>2. pending = {} /\ c.id \in CallIds
    BY <2>1 DEF Prompts, PromptsAreLive, Call
  <2> QED BY <2>1, <2>2
<1>2. CASE /\ worker \in {"asking", "waiting"} /\ call' = call
           /\ (pending' = pending /\ answer' = answer) \/ answer' # "none"
  BY <1>2 DEF Registered
<1> QED BY <1>1, <1>2, Moves

\* The stream never loses an event, and it stays applicable.
LEMMA SoundStep ==
  ASSUME TypeInv, Owned, Registered, Framed, [Next]_vars
  PROVE  Adds(Sound) /\ turns <= turns'
<1>0. turns \in Nat
  BY BoundsAssumption DEF TypeInv, TypeOK
<1>1. ASSUME NEW kind \in Turned \ {"PermissionRequired"}, actor = "Running"
      PROVE  Event(turns, kind, "none") \in Sound
  <2>1. turns > 0 /\ Event(turns, kind, "none") \in Events
    BY <1>0, <1>1, EventType DEF Framed, Turned, Kinds, Args
  <2> QED BY <2>1 DEF Event, Sound, Turned
<1>2. Event(0, "Error", "panic") \in Sound /\ Event(turns, "Error", "turn") \in Sound
  <2>1. Event(0, "Error", "panic") \in Quiet /\ Event(turns, "Error", "turn") \in Quiet
    BY <1>0, QuietEvent DEF Kinds, Turned, Args
  <2> QED BY <2>1 DEF Quiet
<1>3. CASE Restore
  <2>1. Event(turns, "Done", "none") \in Sound
    BY <1>1, <1>3 DEF Restore, Turned
  <2>2. turns' = turns /\ events' \in {Append(events, Event(turns, "Done", "none")),
              events \o <<Event(0, "Error", "panic"), Event(turns, "Done", "none")>>}
    BY <1>3 DEF Restore
  <2> QED BY <1>0, <1>2, <2>1, <2>2, AppendAdds
<1>4. CASE WorkerBegins
  <2>1. Event(turns, "Header", "none") \in Sound
    BY <1>1, <1>4 DEF WorkerBegins, Turned, Owned, TaskIsOwned
  <2>2. turns' = turns /\ events' = Append(events, Event(turns, "Header", "none"))
    BY <1>4 DEF WorkerBegins, Sink, actorVars
  <2> QED BY <1>0, <2>1, <2>2, AppendOne
<1>5. CASE WorkerFails
  <2>1. Event(turns, "Interrupted", "none") \in Sound
    BY <1>1, <1>5 DEF WorkerFails, Turned, Owned, TaskIsOwned
  <2>2. turns' = turns /\ events' \in {Append(events, Event(turns, "Interrupted", "none")),
                                       Append(events, Event(turns, "Error", "turn"))}
    BY <1>5 DEF WorkerFails, Sink, actorVars
  <2>3. PICK e \in Sound : events' = Append(events, e)
    BY <1>2, <2>1, <2>2
  <2> QED BY <1>0, <2>2, <2>3, AppendOne
<1>6. CASE CallAsks
  <2>1. turns > 0 /\ call.id \in CallIds
    BY <1>6 DEF CallAsks, Framed, Owned, TaskIsOwned, Registered
  <2>2. Event(turns, "PermissionRequired", call.id) \in Events
    BY <1>0, <2>1, EventType DEF Kinds, Args
  <2>3. Event(turns, "PermissionRequired", call.id) \in Sound
    BY <2>1, <2>2 DEF Event, Sound
  <2>4. turns' = turns /\ events' = Append(events, Event(turns, "PermissionRequired", call.id))
    BY <1>6 DEF CallAsks, Sink, actorVars
  <2> QED BY <1>0, <2>3, <2>4, AppendOne
<1>7. CASE ~Restore /\ ~WorkerBegins /\ ~WorkerFails /\ ~CallAsks
  <2>1. Adds(Sound)
    BY <1>7, QuietStep DEF Adds, Quiet
  <2>2. turns <= turns'
    <3>1. CASE SubmitAccepted
      BY <1>0, <3>1 DEF SubmitAccepted
    <3>2. CASE ~SubmitAccepted
      BY <1>0, <1>7, <3>2, CalmStep
    <3> QED BY <3>1, <3>2
  <2> QED BY <2>1, <2>2
<1> QED BY <1>3, <1>4, <1>5, <1>6, <1>7

\* What the running turn has published: its Header, its prompt last while it waits, and
\* its end only with the task's.
Heads(t) == {i \in DOMAIN events : events[i].turn = t /\ events[i].kind = "Header"}
Ends(t) == {i \in DOMAIN events : events[i].turn = t /\ events[i].kind \in {"Done", "Interrupted"}}

IsPrompt(p) ==
  /\ p \in DOMAIN events /\ events[p] = Event(turns, "PermissionRequired", call.id)
  /\ \A j \in DOMAIN events : j > p => events[j].kind \notin {"Header", "PermissionRequired"}

Announced ==
  /\ \A i \in DOMAIN events : events[i] \in Sound
  /\ actor = "Running" /\ worker # "returned" => Ends(turns) = {}
  /\ worker \in Started => Heads(turns) # {}
  /\ worker = "waiting" => \E p : IsPrompt(p)

LEMMA AnnouncedStep ==
  ASSUME TypeInv, Owned, Registered, Framed, Announced, [Next]_vars PROVE Announced'
<1>0. /\ turns \in Nat /\ Len(events) \in Nat /\ DOMAIN events = 1..Len(events)
      /\ Len(events') \in Nat /\ DOMAIN events' = 1..Len(events')
  <2>1. TypeInv'
    BY TypeStep
  <2>2. Len(events') \in Nat /\ DOMAIN events' = 1..Len(events')
    BY <2>1 DEF TypeInv, HistoryOK
  <2> QED BY <2>2, EventsShape
<1>1. /\ turns <= turns'
      /\ \A i \in DOMAIN events : i \in DOMAIN events' /\ events'[i] = events[i]
      /\ \A i \in DOMAIN events' : i \in DOMAIN events \/ (i > Len(events) /\ events'[i] \in Sound)
  BY <1>0, SoundStep DEF Adds
<1>2. \A i \in DOMAIN events' : events'[i] \in Sound
  BY <1>1 DEF Announced
<1>3. \A t : Heads(t) \subseteq Heads(t)'
  BY <1>1 DEF Heads
<1>4. ASSUME turns' = turns, worker' \in Started => worker \in Started
      PROVE  worker' \in Started => Heads(turns)' # {}
  BY <1>3, <1>4 DEF Announced
<1>5. CASE SubmitAccepted
  <2>1. turns' = turns + 1 /\ worker' = "begin" /\ events' = events
    BY <1>5 DEF SubmitAccepted
  <2>2. \A i \in DOMAIN events' : events'[i].turn # turns'
    <3>1. \A i \in DOMAIN events : events[i].turn <= turns /\ events[i].turn \in Nat
      BY EventsShape DEF Framed
    <3> QED BY <1>0, <2>1, <3>1
  <2>3. Ends(turns)' = {}
    BY <2>2 DEF Ends
  <2> QED BY <1>2, <2>1, <2>3 DEF Announced, Started
<1>6. CASE Restore
  <2>1. actor' # "Running" /\ worker' = "none"
    BY <1>6 DEF Restore
  <2> QED BY <1>2, <2>1 DEF Announced, Started
<1>7. CASE WorkerFails
  <2>1. worker' = "returned"
    BY <1>7 DEF WorkerFails
  <2> QED BY <1>2, <2>1 DEF Announced, Started
<1>8. CASE WorkerBegins \/ CallAsks
  <2> DEFINE e == IF worker = "begin" THEN Event(turns, "Header", "none")
                  ELSE Event(turns, "PermissionRequired", call.id)
  <2>1. /\ events' = Append(events, e) /\ turns' = turns /\ call' = call /\ actor' = actor
        /\ (worker = "begin" /\ worker' = "loop") \/ (worker = "asking" /\ worker' = "waiting")
    <3>1. CASE WorkerBegins
      <4>1. e = Event(turns, "Header", "none")
        BY <3>1 DEF WorkerBegins
      <4>2. worker = "begin" /\ worker' = "loop" /\ events' = Append(events, Event(turns, "Header", "none"))
        BY <3>1 DEF WorkerBegins, Sink
      <4>3. turns' = turns /\ call' = call /\ actor' = actor
        BY <3>1 DEF WorkerBegins, actorVars
      <4> HIDE DEF e
      <4> QED BY <4>1, <4>2, <4>3
    <3>2. CASE CallAsks
      <4>1. e = Event(turns, "PermissionRequired", call.id)
        BY <3>2 DEF CallAsks
      <4>2. /\ worker = "asking" /\ worker' = "waiting"
            /\ events' = Append(events, Event(turns, "PermissionRequired", call.id))
        BY <3>2 DEF CallAsks, Sink
      <4>3. turns' = turns /\ call' = call /\ actor' = actor
        BY <3>2 DEF CallAsks, actorVars
      <4> HIDE DEF e
      <4> QED BY <4>1, <4>2, <4>3
    <3> QED BY <1>8, <3>1, <3>2
  <2>2. e.kind \in {"Header", "PermissionRequired"} /\ e.turn = turns
        /\ (worker = "begin" => e.kind = "Header")
        /\ (worker = "asking" => e = Event(turns, "PermissionRequired", call.id))
    BY DEF Event
  <2> HIDE DEF e
  <2>3. /\ Len(events') = Len(events) + 1 /\ events'[Len(events) + 1] = e
        /\ Len(events) + 1 \in DOMAIN events'
    <3>1. events \in Seq(Events)
      BY EventsShape
    <3> QED BY <1>0, <2>1, <3>1
  <2>4. \A i \in DOMAIN events' : i \in DOMAIN events \/ i = Len(events) + 1
    BY <1>0, <2>3
  <2>5. actor' = "Running" => Ends(turns)' = {}
    <3> SUFFICES ASSUME actor' = "Running", NEW i \in DOMAIN events', events'[i].turn = turns',
                        events'[i].kind \in {"Done", "Interrupted"}
                 PROVE  FALSE
      BY DEF Ends
    <3>1. i \in DOMAIN events
      BY <2>2, <2>3, <2>4
    <3>2. events[i].turn = turns /\ events[i].kind \in {"Done", "Interrupted"}
      BY <1>1, <2>1, <3>1
    <3> QED BY <2>1, <3>1, <3>2 DEF Announced, Ends
  <2>6. worker' \in Started => Heads(turns)' # {}
    <3>1. CASE worker = "begin"
      BY <2>1, <2>2, <2>3, <3>1 DEF Heads
    <3>2. CASE worker # "begin"
      BY <1>4, <2>1, <3>2 DEF Started
    <3> QED BY <3>1, <3>2
  <2>7. ASSUME worker' = "waiting", NEW p, p = Len(events) + 1 PROVE IsPrompt(p)'
    <3>1. \A j \in DOMAIN events' : ~ (j > p)
      BY <1>0, <2>3, <2>7
    <3>2. worker = "asking" /\ e = Event(turns', "PermissionRequired", call'.id)
      BY <2>1, <2>2, <2>7
    <3> QED BY <2>3, <2>7, <3>1, <3>2 DEF IsPrompt
  <2>8. worker' = "waiting" => \E p : IsPrompt(p)'
    BY <2>7
  <2> QED BY <1>2, <2>5, <2>6, <2>8 DEF Announced
<1>9. CASE ~SubmitAccepted /\ ~Restore /\ ~WorkerBegins /\ ~WorkerFails /\ ~CallAsks
  <2>1. turns' = turns /\ (actor' = "Running" => actor = "Running")
    BY <1>9, CalmStep
  <2>2. /\ worker' \in Started => worker \in Started
        /\ worker' = "waiting" => worker = "waiting" /\ call' = call
        /\ worker' # "returned" => worker # "returned"
    <3>1. ASSUME NEW c \in Call, CallRegisters(c) PROVE worker' # "waiting"
      BY <3>1 DEF CallRegisters
    <3> QED BY <1>9, <3>1, Moves
  <2>3. \A i \in DOMAIN events' : i \in DOMAIN events \/ events'[i].kind \notin Turned
    BY <1>0, <1>1, <1>9, QuietStep DEF Adds, Quiet
  <2>4. actor' = "Running" /\ worker' # "returned" => Ends(turns)' = {}
    <3> SUFFICES ASSUME actor' = "Running", worker' # "returned", NEW i \in DOMAIN events',
                        events'[i].turn = turns', events'[i].kind \in {"Done", "Interrupted"}
                 PROVE  FALSE
      BY DEF Ends
    <3>1. i \in DOMAIN events
      BY <2>3 DEF Turned
    <3>2. events[i].turn = turns /\ events[i].kind \in {"Done", "Interrupted"}
      BY <1>1, <2>1, <3>1
    <3> QED BY <2>1, <2>2, <3>1, <3>2 DEF Announced, Ends
  <2>5. ASSUME worker' = "waiting" PROVE \E p : IsPrompt(p)'
    <3>1. PICK p : IsPrompt(p)
      BY <2>2, <2>5 DEF Announced
    <3>2. p \in DOMAIN events' /\ events'[p] = Event(turns', "PermissionRequired", call'.id)
      BY <1>1, <2>1, <2>2, <2>5, <3>1 DEF IsPrompt
    <3>3. \A j \in DOMAIN events' : j > p => events'[j].kind \notin {"Header", "PermissionRequired"}
      BY <1>1, <2>3, <3>1 DEF IsPrompt, Turned
    <3>4. IsPrompt(p)'
      BY <3>2, <3>3 DEF IsPrompt
    <3> QED BY <3>4
  <2>6. worker' \in Started => Heads(turns)' # {}
    BY <1>4, <2>1, <2>2
  <2> QED BY <1>2, <2>4, <2>5, <2>6 DEF Announced
<1> QED BY <1>5, <1>6, <1>7, <1>8, <1>9

-------------------------------------------------------------------------------
(* What the terminal knows.                                                   *)

Views == [latest : 0..MaxCmds, running : BOOLEAN, dialog : Dialogs, mode : Modes,
          lagged : BOOLEAN]

\* A view that has n events behind it knows the latest turn begun among them, and shows it
\* running until its end is among them too.
Follows(v, n) ==
  /\ v.latest <= turns
  /\ \A i \in DOMAIN events : i <= n /\ events[i].kind = "Header" => events[i].turn <= v.latest
  /\ v.running => v.latest > 0 /\ \A i \in Dones(v.latest) : i > n
  /\ v.latest > 0 /\ (\A i \in Ends(v.latest) : i > n) => v.running

\* The turn waits for an answer, and a command that ends the wait has been sent.
Waits == worker = "waiting" /\ answer = "none" /\ ~cancelled
Prompt == [turn |-> turns, id |-> call.id]
EndsWait(c) == c.kind \in {"Interrupt", "Shutdown"} \/ (c.kind = "Resolve" /\ c.id = call.id)
OnItsWay == \E i \in DOMAIN cmds : EndsWait(cmds[i])

\* Once the prompt is behind it, it shows the prompt until it is answered.
Shows(v, n) ==
  Waits => \A p : IsPrompt(p) /\ p <= n => v.dialog = Prompt \/ OnItsWay

\* The screen of a terminal that lost events shows nothing for certain.
Good(v, n) == v \in Views /\ (~v.lagged => Follows(v, n) /\ Shows(v, n))

\* What an event does to a view.
LEMMA Applied ==
  ASSUME NEW v \in Views, NEW e \in Sound, e.turn <= MaxCmds
  PROVE  /\ ApplyRuntimeEvent(v, e) \in Views
         /\ ApplyRuntimeEvent(v, e).lagged = v.lagged
         /\ e.turn = 0 =>
              /\ ApplyRuntimeEvent(v, e).latest = v.latest
              /\ ApplyRuntimeEvent(v, e).running = v.running
              /\ ApplyRuntimeEvent(v, e).dialog = v.dialog
         /\ e.turn > v.latest /\ e.kind = "Header" =>
              ApplyRuntimeEvent(v, e).latest = e.turn /\ ApplyRuntimeEvent(v, e).running
         /\ e.turn > 0 /\ e.turn = v.latest /\ v.running /\ e.kind # "Header" =>
              /\ ApplyRuntimeEvent(v, e).latest = v.latest
              /\ ApplyRuntimeEvent(v, e).running <=> e.kind \notin {"Done", "Interrupted"}
              /\ ApplyRuntimeEvent(v, e).dialog =
                   IF e.kind = "PermissionRequired" THEN [turn |-> e.turn, id |-> e.arg]
                   ELSE v.dialog
         /\ ~ (e.turn = 0) /\ ~ (e.turn > v.latest /\ e.kind = "Header")
              /\ ~ (e.turn > 0 /\ e.turn = v.latest /\ v.running /\ e.kind # "Header") =>
              ApplyRuntimeEvent(v, e) = v
<1> DEFINE w == ApplyRuntimeEvent(v, e)
           fresh == [v EXCEPT !.latest = e.turn, !.dialog = NoDialog]
<1>0. /\ e.turn \in Nat /\ (e.turn > 0 => e.turn \in 1..MaxCmds /\ e.turn \in 0..MaxCmds)
      /\ e.kind \in Turned => e.turn > 0
      /\ e.kind = "PermissionRequired" => [turn |-> e.turn, id |-> e.arg] \in Dialogs
      /\ e.kind = "ModeChanged" => e.arg \in Modes
      /\ NoDialog \in Dialogs
  <2>1. /\ e.turn \in Nat /\ (e.kind \in Turned => e.turn > 0)
        /\ (e.kind = "PermissionRequired" => e.arg \in CallIds)
        /\ (e.kind = "ModeChanged" => e.arg \in Modes)
    BY DEF Sound, Events
  <2>2. e.turn > 0 => e.turn \in 1..MaxCmds /\ e.turn \in 0..MaxCmds
    BY <2>1, BoundsAssumption
  <2>3. e.kind = "PermissionRequired" => [turn |-> e.turn, id |-> e.arg] \in Dialogs
    BY <2>1, <2>2 DEF Dialogs, Turned
  <2>4. NoDialog \in Dialogs
    BY DEF Dialogs
  <2> QED BY <2>1, <2>2, <2>3, <2>4
<1>1. ASSUME NEW u \in Views
      PROVE  /\ Apply(u, e) \in Views /\ Apply(u, e).lagged = u.lagged
             /\ Apply(u, e).latest = u.latest
             /\ Apply(u, e).running <=>
                  e.kind = "Header" \/ (u.running /\ e.kind \notin {"Done", "Interrupted"})
             /\ Apply(u, e).dialog = IF e.kind = "PermissionRequired" THEN [turn |-> e.turn, id |-> e.arg]
                                     ELSE u.dialog
  <2>1. CASE e.kind = "Header"
    BY <2>1 DEF Apply, Views
  <2>2. CASE e.kind = "PermissionRequired"
    BY <1>0, <2>2 DEF Apply, Views
  <2>3. CASE e.kind = "ModeChanged"
    BY <1>0, <2>3 DEF Apply, Views
  <2>4. CASE e.kind \in {"Done", "Interrupted"}
    BY <2>4 DEF Apply, Views
  <2>5. CASE e.kind \notin {"Header", "PermissionRequired", "ModeChanged", "Done", "Interrupted"}
    BY <2>5 DEF Apply, Views
  <2> QED BY <2>1, <2>2, <2>3, <2>4, <2>5
<1>2. v.latest \in Nat
  BY BoundsAssumption DEF Views
<1>3. CASE e.turn = 0
  <2>1. w = Apply(v, e) /\ e.kind \notin Turned
    <3>1. ~ (e.turn > 0) /\ ~ (e.turn > v.latest)
      BY <1>0, <1>2, <1>3
    <3>2. w = Apply(v, e)
      BY <1>3, <3>1 DEF ApplyRuntimeEvent
    <3> QED BY <1>0, <3>1, <3>2
  <2> HIDE DEF w
  <2>2. w \in Views /\ w.lagged = v.lagged /\ w.latest = v.latest /\ w.running = v.running
        /\ w.dialog = v.dialog
    <3>1. w.running \in BOOLEAN /\ v.running \in BOOLEAN /\ (w.running <=> v.running)
      BY <1>1, <2>1 DEF Views, Turned
    <3> QED BY <1>1, <2>1, <3>1 DEF Turned
  <2> QED BY <1>0, <1>2, <1>3, <2>1, <2>2 DEF w, Turned
<1>4. CASE e.turn > v.latest /\ e.kind = "Header"
  <2>1. e.turn # 0 /\ w = Apply(fresh, e)
    <3>1. e.turn # 0
      BY <1>0, <1>2, <1>4
    <3>2. w = Apply(fresh, e)
      BY <1>4, <3>1 DEF ApplyRuntimeEvent
    <3> QED BY <3>1, <3>2
  <2>2. fresh \in Views /\ fresh.lagged = v.lagged /\ fresh.latest = e.turn
    <3>1. e.turn \in 0..MaxCmds /\ NoDialog \in Dialogs
      BY <1>0, <1>2, <1>4
    <3> QED BY <3>1 DEF Views
  <2> HIDE DEF w, fresh
  <2>3. w \in Views /\ w.lagged = v.lagged /\ w.latest = e.turn /\ w.running
    BY <1>1, <1>4, <2>1, <2>2
  <2> QED BY <1>4, <2>1, <2>3 DEF w
<1>5. CASE e.turn > 0 /\ e.turn = v.latest /\ v.running /\ e.kind # "Header"
  <2>1. e.turn # 0 /\ w = Apply(v, e)
    BY <1>0, <1>2, <1>5 DEF ApplyRuntimeEvent
  <2> HIDE DEF w
  <2> QED BY <1>1, <1>5, <2>1 DEF w
<1>6. CASE /\ e.turn # 0 /\ ~ (e.turn > v.latest /\ e.kind = "Header")
           /\ ~ (e.turn > 0 /\ e.turn = v.latest /\ v.running /\ e.kind # "Header")
  <2>1. w = v
    BY <1>0, <1>2, <1>6 DEF ApplyRuntimeEvent
  <2> HIDE DEF w
  <2> QED BY <1>6, <2>1 DEF w
<1> QED BY <1>3, <1>4, <1>5, <1>6

\* Applying the next event keeps up with the stream.
LEMMA ApplyGood ==
  ASSUME TypeInv, Owned, Framed, Announced,
         NEW v, NEW i \in DOMAIN events, Good(v, i - 1)
  PROVE  Good(ApplyRuntimeEvent(v, events[i]), i)
<1> DEFINE e == events[i]
           w == ApplyRuntimeEvent(v, e)
           C1 == e.turn = 0
           C2 == e.turn > v.latest /\ e.kind = "Header"
           C3 == e.turn > 0 /\ e.turn = v.latest /\ v.running /\ e.kind # "Header"
<1>0. /\ turns \in Nat /\ turns <= MaxCmds /\ Len(events) \in Nat
      /\ DOMAIN events = 1..Len(events) /\ \A j \in DOMAIN events : events[j].turn \in Nat
      /\ \A j \in DOMAIN events : events[j] \in Sound /\ events[j].turn <= turns
  <2>1. turns <= MaxCmds
    BY BoundsAssumption DEF TypeInv, TypeOK
  <2>2. \A j \in DOMAIN events : events[j] \in Sound
    BY DEF Announced
  <2>3. \A j \in DOMAIN events : events[j].turn <= turns
    BY DEF Framed
  <2> QED BY <2>1, <2>2, <2>3, EventsShape
<1>1. v \in Views /\ v.latest \in Nat
  BY BoundsAssumption DEF Good, Views
<1>2. e \in Sound /\ e.turn \in Nat /\ e.turn <= turns /\ e.turn <= MaxCmds
  <2>1. e \in Sound /\ e.turn \in Nat /\ e.turn <= turns
    BY <1>0
  <2> HIDE DEF e
  <2> QED BY <1>0, <2>1, BoundsAssumption
<1>3. /\ w \in Views /\ w.lagged = v.lagged
      /\ C1 => w.latest = v.latest /\ w.running = v.running /\ w.dialog = v.dialog
      /\ C2 => w.latest = e.turn /\ w.running
      /\ C3 => /\ w.latest = v.latest
               /\ w.running <=> e.kind \notin {"Done", "Interrupted"}
               /\ w.dialog = IF e.kind = "PermissionRequired" THEN [turn |-> e.turn, id |-> e.arg]
                             ELSE v.dialog
      /\ ~C1 /\ ~C2 /\ ~C3 => w = v
  <2> HIDE DEF e
  <2> QED BY <1>1, <1>2, Applied DEF w, C1, C2, C3
<1>4. e.kind \in Turned => e.turn > 0
  BY <1>2 DEF Sound
<1>5. \A j \in DOMAIN events : j <= i => j <= i - 1 \/ j = i
  BY <1>0
<1> SUFFICES ASSUME ~v.lagged PROVE Follows(w, i) /\ Shows(w, i)
  BY <1>3 DEF Good
<1>6. Follows(v, i - 1) /\ Shows(v, i - 1)
  BY DEF Good
<1> HIDE DEF e, w
<1>7. Follows(w, i)
  <2>1. w.latest <= turns
    BY <1>1, <1>2, <1>3, <1>6 DEF Follows
  <2>2. v.latest <= w.latest /\ (w.latest # v.latest => C2)
    BY <1>0, <1>1, <1>2, <1>3
  <2>3. e.kind = "Header" => e.turn <= w.latest
    <3>1. e.kind = "Header" => e.turn > 0
      BY <1>4 DEF Turned
    <3>2. CASE C2
      BY <1>2, <1>3, <3>2
    <3>3. CASE ~C2
      BY <1>1, <1>2, <2>2, <3>3
    <3> QED BY <3>2, <3>3
  <2>4. ASSUME NEW j \in DOMAIN events, j <= i, events[j].kind = "Header"
        PROVE  events[j].turn <= w.latest
    <3>1. CASE j = i
      BY <2>3, <2>4, <3>1 DEF e
    <3>2. CASE j <= i - 1
      <4>1. events[j].turn <= v.latest
        BY <1>6, <2>4, <3>2 DEF Follows
      <4>2. w.latest \in Nat /\ events[j].turn \in Nat
        BY <1>0, <1>1, <1>2, <1>3, <2>2
      <4> QED BY <1>1, <2>2, <4>1, <4>2
    <3> QED BY <1>5, <2>4, <3>1, <3>2
  <2>5. ASSUME w.running PROVE w.latest > 0 /\ \A j \in Dones(w.latest) : j > i
    <3>1. CASE C2
      <4>1. w.latest = e.turn /\ e.turn > 0
        BY <1>1, <1>2, <1>3, <3>1
      <4>2. ASSUME NEW j \in Dones(w.latest), ~(j > i) PROVE FALSE
        <5>1. j \in DOMAIN events /\ events[j].turn = e.turn /\ events[j].kind = "Done" /\ j # i
          BY <3>1, <4>1, <4>2 DEF Dones, e
        <5>2. j < i
          BY <1>0, <4>2, <5>1
        <5>3. events[j].turn < events[i].turn
          BY <4>1, <5>1, <5>2 DEF Framed, TurnsAreFramed, e
        <5> QED BY <1>2, <5>1, <5>3 DEF e
      <4> QED BY <4>1, <4>2
    <3>2. CASE ~C2
      <4>1. w.latest = v.latest /\ v.running
        BY <1>3, <2>2, <2>5, <3>2
      <4>2. v.latest > 0 /\ \A j \in Dones(v.latest) : j > i - 1
        BY <1>6, <4>1 DEF Follows
      <4>3. i \notin Dones(v.latest)
        <5>1. ~(e.turn = v.latest /\ e.kind = "Done")
          BY <1>3, <2>5, <4>1, <4>2
        <5> QED BY <5>1 DEF Dones, e
      <4>4. \A j \in Dones(v.latest) : j > i
        <5>1. \A j \in Dones(v.latest) : j \in DOMAIN events /\ j # i
          BY <4>3 DEF Dones
        <5> QED BY <1>0, <4>2, <5>1
      <4> QED BY <4>1, <4>2, <4>4
    <3> QED BY <3>1, <3>2
  <2>6. ASSUME w.latest > 0, \A j \in Ends(w.latest) : j > i PROVE w.running
    <3>1. CASE C2
      BY <1>3, <3>1
    <3>2. CASE ~C2
      <4>1. w.latest = v.latest
        BY <2>2, <3>2
      <4>2. \A j \in Ends(v.latest) : j > i - 1
        <5>1. \A j \in Ends(v.latest) : j \in DOMAIN events /\ j > i
          BY <2>6, <4>1 DEF Ends
        <5> QED BY <1>0, <5>1
      <4>3. v.running
        BY <1>6, <2>6, <4>1, <4>2 DEF Follows
      <4>4. ~(e.turn = v.latest /\ e.kind \in {"Done", "Interrupted"})
        <5>1. i \notin Ends(v.latest)
          BY <1>0, <2>6, <4>1
        <5> QED BY <5>1 DEF Ends, e
      <4> QED BY <1>3, <3>2, <4>3, <4>4
    <3> QED BY <3>1, <3>2
  <2> QED BY <2>1, <2>4, <2>5, <2>6 DEF Follows
<1>8. Shows(w, i)
  <2> SUFFICES ASSUME Waits, NEW p, IsPrompt(p), p <= i, ~OnItsWay PROVE w.dialog = Prompt
    BY DEF Shows
  <2>1. /\ p \in DOMAIN events /\ events[p] = Event(turns, "PermissionRequired", call.id)
        /\ \A j \in DOMAIN events : j > p => events[j].kind \notin {"Header", "PermissionRequired"}
    BY DEF IsPrompt
  <2>2. ~C2
    <3>1. CASE p = i
      BY <2>1, <3>1 DEF Event, e
    <3>2. CASE p # i
      BY <1>0, <2>1, <3>2 DEF e
    <3> QED BY <3>1, <3>2
  <2>3. CASE p # i
    <3>1. i > p /\ p <= i - 1
      BY <1>0, <2>1, <2>3
    <3>2. v.dialog = Prompt
      BY <1>6, <3>1 DEF Shows
    <3>3. e.kind # "PermissionRequired"
      BY <2>1, <3>1 DEF e
    <3> QED BY <1>3, <2>2, <3>2, <3>3
  <2>4. CASE p = i
    <3>1. e.turn = turns /\ e.kind = "PermissionRequired" /\ e.arg = call.id
      BY <2>1, <2>4 DEF Event, e
    <3>2. PICK h \in DOMAIN events : events[h].turn = turns /\ events[h].kind = "Header"
      BY DEF Announced, Heads, Waits, Started
    <3>3. h <= i - 1
      BY <1>0, <2>1, <2>4, <3>1, <3>2 DEF e
    <3>4. v.latest = turns
      <4>1. turns <= v.latest /\ v.latest <= turns
        BY <1>6, <3>2, <3>3 DEF Follows
      <4> QED BY <1>0, <1>1, <4>1
    <3>5. turns > 0 /\ Ends(turns) = {}
      BY DEF Announced, Framed, Owned, TaskIsOwned, Waits
    <3>6. v.running
      BY <1>6, <3>4, <3>5 DEF Follows
    <3>7. C3
      BY <3>1, <3>4, <3>5, <3>6
    <3> QED BY <1>3, <3>1, <3>7 DEF Prompt
  <2> QED BY <2>3, <2>4
<1> QED BY <1>7, <1>8

\* So does draining the stream to its end, whether or not events were lost.
LEMMA DrainGood ==
  ASSUME TypeInv, Owned, Framed, Announced, NEW v, NEW from \in Nat, from <= Len(events),
         Good(v, from)
  PROVE  Good(Replayed(v, from)[Len(events)], Len(events))
<1> DEFINE f == Replayed(v, from)
           S == {n \in Nat : from + n <= Len(events) => Good(f[from + n], from + n)}
<1>0. Len(events) \in Nat /\ DOMAIN events = 1..Len(events)
  BY EventsShape
<1>1. /\ f[from] = v
      /\ \A i \in from..Len(events) : i # from => f[i] = ApplyRuntimeEvent(f[i - 1], events[i])
  BY ReplaySteps
<1> HIDE DEF f
<1>2. 0 \in S
  BY <1>1
<1>3. ASSUME NEW n \in Nat, n \in S PROVE n + 1 \in S
  <2> SUFFICES ASSUME from + (n + 1) <= Len(events)
               PROVE  Good(f[from + (n + 1)], from + (n + 1))
    OBVIOUS
  <2> DEFINE i == from + (n + 1)
  <2>1. /\ i \in from..Len(events) /\ i # from /\ i - 1 = from + n /\ i \in DOMAIN events
        /\ from + n <= Len(events)
    BY <1>0
  <2>2. Good(f[i - 1], i - 1)
    BY <1>3, <2>1
  <2>3. f[i] = ApplyRuntimeEvent(f[i - 1], events[i])
    BY <1>1, <2>1
  <2> HIDE DEF i
  <2>4. Good(ApplyRuntimeEvent(f[i - 1], events[i]), i)
    BY <2>1, <2>2, ApplyGood
  <2>5. Good(f[i], i)
    BY <2>3, <2>4
  <2> QED BY <2>5 DEF i
<1> HIDE DEF S
<1>4. Nat \subseteq S
  BY <1>2, <1>3, Induction
<1>5. Len(events) - from \in Nat /\ from + (Len(events) - from) = Len(events)
  BY <1>0
<1>6. Len(events) - from \in S
  BY <1>4, <1>5
<1>7. Good(f[from + (Len(events) - from)], from + (Len(events) - from))
  BY <1>0, <1>5, <1>6 DEF S
<1> QED BY <1>5, <1>7 DEF f

LEMMA DrainedGood ==
  ASSUME TypeInv, Owned, Framed, Announced, next \in 0..Len(events), Good(view, next)
  PROVE  Good(Drained, Len(events))
<1>0. Len(events) \in Nat /\ Capacity \in Nat /\ next \in Nat /\ next <= Len(events)
  BY EventsShape, CapacityAssumption
<1>1. CASE Lags
  <2> DEFINE v == [view EXCEPT !.lagged = TRUE]
             from == Len(events) - Capacity
  <2>1. from \in Nat /\ from <= Len(events)
    BY <1>0, <1>1 DEF Lags
  <2>2. Good(v, from)
    BY DEF Good, Views
  <2>3. Drained = Replayed(v, from)[Len(events)]
    BY <1>1 DEF Drained
  <2> HIDE DEF v, from
  <2> QED BY <2>1, <2>2, <2>3, DrainGood
<1>2. CASE ~Lags
  BY <1>0, <1>2, DrainGood DEF Drained
<1> QED BY <1>1, <1>2

-------------------------------------------------------------------------------
(* The session behind the terminal.                                           *)

\* A step takes at most one command from the queue, and what it takes ends the wait.
LEMMA QueueMoves ==
  ASSUME TypeInv, Owned, Registered, [Next]_vars, Waits, OnItsWay, Waits', call' = call
  PROVE  OnItsWay'
<1>0. /\ cmds \in Seq(Commands) /\ actor = "Running"
      /\ pending = {call.id}
  BY DEF TypeInv, TypeOK, Owned, TaskIsOwned, Waits, Registered
<1> USE DEF actorVars, workerVars, controlVars, chanVars, history
<1>1. PICK i \in DOMAIN cmds : EndsWait(cmds[i])
  BY DEF OnItsWay
<1>2. CASE cmds' = cmds
  BY <1>1, <1>2 DEF OnItsWay, EndsWait
<1>3. ASSUME NEW c \in Commands, Send(c) PROVE OnItsWay'
  <2>1. cmds' = Append(cmds, c)
    BY <1>3 DEF Send
  <2>2. i \in DOMAIN cmds' /\ cmds'[i] = cmds[i]
    BY <1>0, <1>1, <2>1
  <2> QED BY <1>1, <2>2 DEF OnItsWay, EndsWait
<1>4. CASE Dispatch
  <2>1. cmds # <<>> /\ cmds' = Tail(cmds)
    BY <1>4 DEF Dispatch, SubmitRefused, SubmitAccepted, ResolvePermission, Interrupt, ModeCommand,
                SelectModel, SlashCommand, Shutdown, Receive
  <2>2. CASE i # 1
    <3>1. i - 1 \in DOMAIN cmds' /\ cmds'[i - 1] = cmds[i]
      BY <1>0, <1>1, <2>1, <2>2
    <3> QED BY <1>1, <3>1 DEF OnItsWay, EndsWait
  <2>3. CASE i = 1
    <3>1. EndsWait(Head(cmds))
      BY <1>0, <1>1, <2>1, <2>3
    <3>2. CASE Interrupt
      BY <1>0, <3>2 DEF Interrupt, Waits
    <3>3. CASE Shutdown
      BY <1>0, <3>3 DEF Shutdown, ShutdownBegins, Waits
    <3>4. CASE ResolvePermission
      <4>1. Head(cmds).kind = "Resolve" /\ Head(cmds).choice \in PermissionChoices
        BY <3>4, Received, CommandFields DEF ResolvePermission
      <4>2. Head(cmds).id \in pending
        BY <1>0, <3>1, <4>1 DEF EndsWait
      <4>3. answer' = Head(cmds).choice
        BY <1>0, <3>4, <4>2 DEF ResolvePermission
      <4> QED BY <4>1, <4>3 DEF Waits
    <3>5. CASE SubmitRefused \/ SubmitAccepted \/ ModeCommand \/ SelectModel \/ SlashCommand
      BY <3>1, <3>5 DEF SubmitRefused, SubmitAccepted, ModeCommand, SelectModel, SlashCommand, Receive,
                        EndsWait
    <3> QED BY <1>4, <3>2, <3>3, <3>4, <3>5 DEF Dispatch
  <2> QED BY <2>2, <2>3
<1>5. CASE PollJoin \/ Restore \/ EndOfCommands \/ Stop \/ ShutdownOverdue \/ Close \/ UNCHANGED vars
  BY <1>2, <1>5 DEF PollJoin, Restore, EndOfCommands, Stop, ShutdownOverdue, Close, vars
<1>6. CASE WorkerStep \/ WorkerPanics
  <2>1. CASE WorkerBegins \/ WorkerAnswers \/ WorkerFails \/ WorkerPanics
    BY <1>2, <2>1 DEF WorkerBegins, WorkerAnswers, WorkerFails, WorkerPanics
  <2>2. ASSUME NEW c \in Call, CallStarts(c) \/ CallPlanDenied(c) \/ CallRegisters(c) PROVE OnItsWay'
    BY <1>2, <2>2 DEF CallStarts, CallPlanDenied, CallRegisters
  <2>3. CASE CallAsks \/ Allowed \/ Denied \/ PromptCancelled \/ ToolRuns \/ ToolEnds
    BY <1>2, <2>3 DEF CallAsks, Allowed, Denied, PromptCancelled, ToolRuns, ToolEnds
  <2> QED BY <1>6, <2>1, <2>2, <2>3 DEF WorkerStep, CallStep
<1> QED BY <1>3, <1>4, <1>5, <1>6 DEF Next, ActorStep

\* What the session does while the terminal does nothing keeps the view good.
LEMMA SessionKeepsGood ==
  ASSUME TypeInv, Owned, Registered, Framed, Announced, [Next]_vars,
         next \in 0..Len(events), Good(view, next), UNCHANGED <<view, next>>
  PROVE  Good(view, next)' /\ next' \in 0..Len(events')
<1>0. /\ turns \in Nat /\ turns' \in Nat /\ Len(events) \in Nat /\ Len(events') \in Nat
      /\ DOMAIN events = 1..Len(events) /\ DOMAIN events' = 1..Len(events')
  <2>1. TypeInv'
    BY TypeStep
  <2>2. Len(events') \in Nat /\ DOMAIN events' = 1..Len(events') /\ turns' \in Nat
    BY <2>1, BoundsAssumption DEF TypeInv, HistoryOK, TypeOK
  <2> QED BY <2>2, EventsShape
<1>1. /\ turns <= turns' /\ Len(events) <= Len(events')
      /\ \A i \in DOMAIN events : i \in DOMAIN events' /\ events'[i] = events[i]
      /\ \A i \in DOMAIN events' : i \in DOMAIN events \/ i > Len(events)
  BY <1>0, SoundStep DEF Adds
<1>2. next' \in 0..Len(events') /\ next \in Nat
  BY <1>0, <1>1
<1>3. view \in Views /\ view.latest \in Nat
  BY BoundsAssumption DEF Good, Views
<1> SUFFICES ASSUME ~view.lagged PROVE Follows(view, next)' /\ Shows(view, next)'
  BY <1>2, <1>3 DEF Good, Views
<1>4. Follows(view, next) /\ Shows(view, next)
  BY DEF Good
<1>5. \A i \in DOMAIN events' : i <= next => i \in DOMAIN events /\ events'[i] = events[i]
  BY <1>0, <1>1
<1>6. Follows(view, next)'
  <2>1. view'.latest <= turns'
    BY <1>0, <1>1, <1>3, <1>4 DEF Follows
  <2>2. \A i \in DOMAIN events' : i <= next' /\ events'[i].kind = "Header" =>
          events'[i].turn <= view'.latest
    BY <1>4, <1>5 DEF Follows
  <2>3. \A i \in Dones(view.latest)' : i \in DOMAIN events' /\ (i > next \/ i \in Dones(view.latest))
    <3>1. \A i \in Dones(view.latest)' : i \in DOMAIN events' /\ events'[i].turn = view.latest /\ events'[i].kind = "Done"
      BY DEF Dones
    <3>2. \A i \in DOMAIN events' : i > next \/ (i \in DOMAIN events /\ events'[i] = events[i])
      BY <1>0, <1>2, <1>5
    <3> QED BY <3>1, <3>2 DEF Dones
  <2>4. \A i \in Ends(view.latest) : i \in Ends(view.latest)'
    BY <1>1 DEF Ends
  <2> QED BY <1>4, <2>1, <2>2, <2>3, <2>4 DEF Follows
<1>7. Shows(view, next)'
  <2> SUFFICES ASSUME Waits', NEW p, IsPrompt(p)', p <= next, ~OnItsWay'
               PROVE  view.dialog = Prompt'
    BY DEF Shows
  <2>1. p \in DOMAIN events /\ events'[p] = events[p]
    BY <1>5 DEF IsPrompt
  <2>2. ~CallAsks /\ worker = "waiting"
    <3>1. ASSUME CallAsks PROVE FALSE
      <4>1. events' = Append(events, Event(turns, "PermissionRequired", call.id))
        BY <3>1 DEF CallAsks, Sink
      <4>2. /\ Len(events) + 1 \in DOMAIN events' /\ Len(events) + 1 > p
            /\ events'[Len(events) + 1] = Event(turns, "PermissionRequired", call.id)
        <5>1. events \in Seq(Events)
          BY EventsShape
        <5> QED BY <1>0, <2>1, <4>1, <5>1
      <4> QED BY <4>2 DEF IsPrompt, Event
    <3> QED BY <3>1, Moves DEF Waits
  <2>3. call' = call /\ answer = "none" /\ ~cancelled
    <3>1. ASSUME NEW c \in Call, CallRegisters(c) PROVE FALSE
      BY <2>2, <3>1 DEF CallRegisters, NewCall
    <3> QED BY <3>1, Moves DEF Waits
  <2>4. ~SubmitAccepted /\ ~Restore
    BY <2>2 DEF SubmitAccepted, Restore, Waits
  <2>5. turns' = turns
    BY <2>4, CalmStep
  <2>6. IsPrompt(p)
    BY <1>1, <2>1, <2>3, <2>5 DEF IsPrompt
  <2>7. ~OnItsWay
    BY <2>2, <2>3, QueueMoves DEF Waits
  <2>8. view.dialog = Prompt
    BY <1>4, <2>2, <2>3, <2>6, <2>7 DEF Shows, Waits
  <2> QED BY <2>3, <2>5, <2>8 DEF Prompt
<1> QED BY <1>2, <1>6, <1>7

\* What holds of the session whatever its client is.
Session == TypeInv /\ Owned /\ Prompts /\ Registered /\ Framed /\ Announced

LEMMA SessionInit == Init => Session
<1> SUFFICES ASSUME Init PROVE Session
  OBVIOUS
<1>1. TypeInv /\ Owned /\ Prompts
  BY TypeInit, FirstState
<1>2. actor = "Idle" /\ worker = "none" /\ turns = 0
  BY DEF Init
<1>3. \A i \in DOMAIN events : i = 1 /\ events[i] = Event(0, "Status", "setup")
  BY DEF Init
<1>4. Framed
  <2>1. 1..turns = {}
    BY <1>2
  <2>2. \A i \in DOMAIN events : i = 1 /\ events[i].turn = 0
    BY <1>3 DEF Event
  <2> QED BY <1>2, <2>1, <2>2 DEF Framed, TurnsAreFramed
<1>5. Event(0, "Status", "setup") \in Sound
  <2>1. Event(0, "Status", "setup") \in Quiet
    BY QuietEvent DEF Kinds, Turned, Args
  <2> QED BY <2>1 DEF Quiet
<1> QED BY <1>1, <1>2, <1>3, <1>4, <1>5 DEF Session, Registered, Announced, Started

LEMMA SessionStays == Session /\ [Next]_vars => Session'
BY TypeStep, OwnedStep, PromptsStep, RegisteredStep, FramedStep, AnnouncedStep DEF Session

\* The terminal's last command goes with the drop of its channels.
LEMMA QuitKeeps == Session /\ Quit => Session'
<1> SUFFICES ASSUME Session, Quit PROVE Session'
  OBVIOUS
<1>1. TypeInv
  BY DEF Session
<1>2. /\ UNCHANGED <<actorVars, workerVars, controlVars, events, history>>
      /\ cmds' = Append(cmds, Plain("Shutdown")) /\ sent' = sent + 1 /\ closed' = TRUE
      /\ sent < MaxCmds
  BY DEF Quit, KeyRead, Leave
<1> USE DEF actorVars, workerVars, controlVars, history
<1>3. TypeInv'
  <2>1. Plain("Shutdown") \in Commands
    BY DEF Commands, PlainKinds
  <2>2. cmds \in Seq(Commands) /\ turns \in 0..MaxCmds /\ sent \in 0..MaxCmds
        /\ turns + Len(cmds) <= sent
    BY <1>1 DEF TypeInv, TypeOK, TurnsAreSent
  <2>3. cmds' \in Seq(Commands) /\ Len(cmds') = Len(cmds) + 1 /\ Len(cmds) \in Nat
    BY <1>2, <2>1, <2>2
  <2>4. sent' \in 0..MaxCmds /\ turns' + Len(cmds') <= sent'
    BY <1>2, <2>2, <2>3, BoundsAssumption
  <2>5. TypeOK'
    BY <1>1, <1>2, <2>3, <2>4 DEF TypeInv, TypeOK
  <2>6. HistoryOK'
    BY <1>1, <1>2 DEF TypeInv, HistoryOK
  <2> QED BY <2>4, <2>5, <2>6 DEF TypeInv, TurnsAreSent
<1>4. Owned' /\ Prompts' /\ Registered'
  BY <1>2 DEF Session, Owned, TaskIsOwned, WorkerDone, Prompts, PromptsAreLive, Registered
<1>5. Framed'
  BY <1>2 DEF Session, Framed, TurnsAreFramed, Dones
<1>6. Announced'
  BY <1>2 DEF Session, Announced, IsPrompt, Heads, Ends
<1> QED BY <1>3, <1>4, <1>5, <1>6 DEF Session

\* What the terminal has on the screen while it polls, beside the type of its state.
Screen ==
  /\ TuiTypeOK
  /\ ui # "gone" => Good(view, next)
  /\ ui = "poll" => shown = view.dialog

LEMMA ScreenInit == TuiInit => Screen
<1> SUFFICES ASSUME TuiInit PROVE Screen
  OBVIOUS
<1>1. MaxCmds \in Nat /\ Len(events) \in Nat
  BY TypeInit, EventsShape, BoundsAssumption DEF TuiInit
<1>2. NoDialog \in Dialogs /\ "Auto" \in Modes
  BY DEF Dialogs
<1>3. InitialView \in Views /\ InitialView.latest = 0 /\ ~InitialView.running
  BY <1>1, <1>2 DEF InitialView, Views
<1>4. ui = "draw" /\ next = 0 /\ shown = NoDialog /\ view = InitialView
      /\ turns = 0 /\ worker = "none"
  BY DEF TuiInit, Init
<1>5. \A i \in DOMAIN events : events[i].turn = 0
  BY DEF TuiInit, Init, Event
<1>6. TuiTypeOK
  BY <1>1, <1>2, <1>3, <1>4 DEF TuiTypeOK, Views
<1>7. Follows(view, next)
  BY <1>3, <1>4, <1>5 DEF Follows
<1>8. Shows(view, next)
  BY <1>4 DEF Shows, Waits
<1> QED BY <1>3, <1>4, <1>6, <1>7, <1>8 DEF Screen, Good

\* A key that sends a command leaves no dialog open that the command does not answer.
LEMMA PressGood ==
  ASSUME Session, NEW d, Good(d, Len(events)), NEW c \in Commands, Send(c),
         view' = [d EXCEPT !.dialog = NoDialog], next' = Len(events),
         d.dialog # NoDialog => c.kind = "Interrupt" \/ (c.kind = "Resolve" /\ c.id = d.dialog.id)
  PROVE  Good(view, next)'
<1>1. /\ UNCHANGED <<worker, call, answer, cancelled, turns, actor, events>>
      /\ cmds' = Append(cmds, c)
  BY DEF Send, actorVars, workerVars, controlVars
<1>2. /\ d \in Views /\ view' \in Views
      /\ view'.latest = d.latest /\ view'.running = d.running /\ view'.lagged = d.lagged
  BY DEF Good, Views, Dialogs
<1> SUFFICES ASSUME ~d.lagged PROVE Follows(view, next)' /\ Shows(view, next)'
  BY <1>2 DEF Good
<1>3. Follows(d, Len(events)) /\ Shows(d, Len(events))
  BY DEF Good
<1>4. Follows(view, next)'
  BY <1>1, <1>2, <1>3 DEF Follows, Dones, Ends
<1>5. Shows(view, next)'
  <2> SUFFICES ASSUME Waits', NEW p, IsPrompt(p)', p <= next' PROVE OnItsWay'
    BY DEF Shows
  <2>1. cmds \in Seq(Commands)
    BY DEF Session, TypeInv, TypeOK
  <2>2. /\ Len(cmds) + 1 \in DOMAIN cmds' /\ cmds'[Len(cmds) + 1] = c
        /\ \A i \in DOMAIN cmds : i \in DOMAIN cmds' /\ cmds'[i] = cmds[i]
    BY <1>1, <2>1
  <2>3. d.dialog = Prompt \/ OnItsWay
    BY <1>1, <1>3 DEF Shows, Waits, IsPrompt
  <2>4. CASE OnItsWay
    BY <1>1, <2>2, <2>4 DEF OnItsWay, EndsWait
  <2>5. CASE d.dialog = Prompt
    <3>1. turns > 0 /\ turns \in Nat
      BY <1>1, EventsShape DEF Session, Framed, Owned, TaskIsOwned, Waits
    <3>2. Prompt.turn # NoDialog.turn /\ Prompt.id = call.id
      BY <3>1 DEF Prompt, NoDialog
    <3>3. EndsWait(c)
      BY <2>5, <3>2 DEF EndsWait
    <3> QED BY <1>1, <2>2, <3>3 DEF OnItsWay, EndsWait
  <2> QED BY <2>3, <2>4, <2>5
<1> QED BY <1>2, <1>4, <1>5 DEF Good

LEMMA FrameGood ==
  ASSUME NEW d, Good(d, Len(events)), UNCHANGED vars, view' = d, next' = Len(events)
  PROVE  Good(view, next)'
BY DEF Good, Follows, Shows, Waits, Prompt, OnItsWay, EndsWait, IsPrompt, Dones, Ends,
       vars, actorVars, workerVars, controlVars, chanVars

\* A key means what the view says, so the session only gets commands it knows.
LEMMA KeyStep ==
  ASSUME Session, Screen, KeyRead, NEW d, Good(d, Len(events)), Key(d)
  PROVE  Session' /\ Screen'
<1>1. d \in Views /\ Len(events) \in Nat
  BY EventsShape DEF Good, Session
<1>2. ASSUME NEW c \in Commands, Press(d, c),
             d.dialog # NoDialog => c.kind = "Interrupt" \/ (c.kind = "Resolve" /\ c.id = d.dialog.id)
      PROVE  Session' /\ Screen'
  <2>1. Send(c) /\ view' = [d EXCEPT !.dialog = NoDialog] /\ next' = Len(events) /\ ui' = "draw"
        /\ shown' = shown
    BY <1>2 DEF Press
  <2>2. Session'
    BY <1>2, <2>1, SessionStays DEF Next
  <2>3. Good(view, next)'
    BY <1>2, <2>1, PressGood
  <2>4. events' = events
    BY <2>1 DEF Send
  <2>5. TuiTypeOK'
    BY <1>1, <2>1, <2>3, <2>4 DEF TuiTypeOK, Screen, Good, Views
  <2> QED BY <2>1, <2>2, <2>3, <2>5 DEF Screen
<1>3. CASE Quit
  <2>1. ui' = "gone" /\ view' = InitialView /\ next' = 0 /\ shown' = NoDialog /\ events' = events
    BY <1>3 DEF Quit, Leave
  <2>2. Screen'
    <3>1. NoDialog \in Dialogs /\ MaxCmds \in Nat
      BY BoundsAssumption DEF Dialogs
    <3>2. InitialView \in Views
      BY <3>1 DEF InitialView, Views
    <3> QED BY <1>1, <2>1, <3>1, <3>2 DEF Screen, TuiTypeOK, Views
  <2> QED BY <1>3, <2>2, QuitKeeps
<1>4. ASSUME NEW choice \in PermissionChoices, AnswerKey(d, choice) PROVE Session' /\ Screen'
  <2>1. d.dialog.id \in CallIds
    BY <1>1, <1>4 DEF AnswerKey, Views, Dialogs
  <2>2. /\ Resolve(d.dialog.id, choice) \in Commands
        /\ Resolve(d.dialog.id, choice).kind = "Resolve" /\ Resolve(d.dialog.id, choice).id = d.dialog.id
    BY <2>1 DEF Commands, Resolve
  <2> QED BY <1>2, <1>4, <2>2 DEF AnswerKey
<1>5. \A k \in PlainKinds : Plain(k) \in Commands
  BY DEF Commands
<1>6. CASE CtrlC(d)
  <2>1. Plain("Interrupt") \in Commands /\ Plain("Interrupt").kind = "Interrupt"
    BY <1>5 DEF Plain, PlainKinds
  <2> QED BY <1>2, <1>3, <1>6, <2>1 DEF CtrlC
<1>7. CASE EnterGoal(d)
  <2>1. Submit(d.mode) \in Commands
    BY <1>1 DEF Views, Commands
  <2> QED BY <1>2, <1>7, <2>1 DEF EnterGoal
<1>8. CASE EnterSlash(d)
  <2>1. \A m \in Modes : SetMode(m) \in Commands
    BY DEF Commands
  <2>2. {"Interrupt", "SelectModel", "Slash"} \subseteq PlainKinds
    BY DEF PlainKinds
  <2> QED BY <1>2, <1>3, <1>5, <1>8, <2>1, <2>2 DEF EnterSlash
<1>9. CASE ShiftTab(d)
  <2>1. SetMode("next") \in Commands
    BY DEF Commands
  <2> QED BY <1>2, <1>9, <2>1 DEF ShiftTab
<1> QED BY <1>4, <1>6, <1>7, <1>8, <1>9 DEF Key

LEMMA TuiStep == Session /\ Screen /\ [TuiNext]_allVars => Session' /\ Screen'
<1> SUFFICES ASSUME Session, Screen, [TuiNext]_allVars PROVE Session' /\ Screen'
  OBVIOUS
<1>0. Len(events) \in Nat /\ next \in 0..Len(events)
  BY EventsShape DEF Session, Screen, TuiTypeOK
<1>1. CASE [Next]_vars /\ UNCHANGED uiVars
  <2>1. UNCHANGED <<ui, next, view, shown>>
    BY <1>1 DEF uiVars
  <2>2. Session'
    BY <1>1, SessionStays
  <2>3. Len(events') \in Nat /\ Len(events) <= Len(events')
    <3>1. Len(events) <= Len(events')
      BY <1>1, SoundStep DEF Session, Adds
    <3> QED BY <2>2, <3>1 DEF Session, TypeInv, HistoryOK
  <2>4. ASSUME ui # "gone" PROVE Good(view, next)'
    BY <1>0, <1>1, <2>1, <2>4, SessionKeepsGood DEF Session, Screen
  <2>5. TuiTypeOK'
    <3>1. next' \in 0..Len(events')
      BY <1>0, <2>1, <2>3
    <3> QED BY <2>1, <3>1 DEF Screen, TuiTypeOK
  <2> QED BY <2>1, <2>2, <2>4, <2>5 DEF Screen
<1>2. CASE UiFrame
  <2>1. UNCHANGED vars /\ view' = Drained /\ next' = Len(events) /\ shown' = view'.dialog
        /\ ui' = "poll" /\ ui # "gone"
    BY <1>2 DEF UiFrame
  <2>2. Session'
    BY <2>1, SessionStays
  <2>3. Good(Drained, Len(events))
    BY <1>0, <2>1, DrainedGood DEF Session, Screen
  <2>4. Good(view, next)'
    BY <2>1, <2>3, FrameGood
  <2>5. TuiTypeOK'
    <3>1. view' \in Views /\ events' = events
      BY <2>1, <2>3 DEF Good, vars
    <3>2. shown' \in Dialogs
      BY <2>1, <3>1 DEF Views
    <3> QED BY <1>0, <2>1, <3>1, <3>2 DEF TuiTypeOK, Views
  <2> QED BY <2>1, <2>2, <2>4, <2>5 DEF Screen
<1>3. CASE UiFindsStreamClosed \/ UiFails
  <2>1. /\ ui' = "gone" /\ closed' = TRUE /\ view' = InitialView /\ next' = 0 /\ shown' = NoDialog
        /\ UNCHANGED <<actorVars, workerVars, controlVars, cmds, sent, events, history>>
    BY <1>3 DEF UiFindsStreamClosed, UiFails, Leave
  <2>2. [Next]_vars
    <3>1. closed \in BOOLEAN
      BY DEF Session, TypeInv, TypeOK
    <3>2. CASE closed
      BY <2>1, <3>1, <3>2 DEF vars, chanVars
    <3>3. CASE ~closed
      BY <2>1, <3>3 DEF Next, Close
    <3> QED BY <3>2, <3>3
  <2>3. Session'
    BY <2>2, SessionStays
  <2>4. Screen'
    <3>1. NoDialog \in Dialogs /\ MaxCmds \in Nat
      BY BoundsAssumption DEF Dialogs
    <3>2. InitialView \in Views
      BY <3>1 DEF InitialView, Views
    <3> QED BY <1>0, <2>1, <3>1, <3>2 DEF Screen, TuiTypeOK, Views
  <2> QED BY <2>3, <2>4
<1>4. CASE KeyRead /\ Key(Drained)
  <2>1. Good(Drained, Len(events))
    BY <1>0, <1>4, DrainedGood DEF Session, Screen, KeyRead
  <2> QED BY <1>4, <2>1, KeyStep
<1>5. SessionStep => Next
  BY DEF SessionStep, Next
<1>6. UNCHANGED allVars => UNCHANGED vars /\ UNCHANGED uiVars
  BY DEF allVars
<1> QED BY <1>1, <1>2, <1>3, <1>4, <1>5, <1>6 DEF TuiNext, UiStep

LEMMA TuiInvariant == TuiSpec => [](Session /\ Screen)
<1>1. TuiInit => Session /\ Screen
  BY SessionInit, ScreenInit DEF TuiInit
<1> QED BY <1>1, TuiStep, PTL DEF TuiSpec

\* Every variable of the terminal keeps its type, lagging or not.
THEOREM TuiTypes == TuiSpec => []TuiTypeOK
<1>1. Screen => TuiTypeOK
  BY DEF Screen
<1> QED BY <1>1, TuiInvariant, PTL

\* When neither side has anything on its way, a prompt the turn waits on is on the screen
\* and a session at rest is not shown busy, whatever was typed, answered or interrupted
\* before; a terminal that fell behind is excepted.
THEOREM ScreenAgreement == TuiSpec => []ScreenAgrees
<1>1. Session /\ Screen => ScreenAgrees
  <2> SUFFICES ASSUME Session, Screen, UpToDate PROVE ScreenAgrees
    BY DEF ScreenAgrees, PromptIsVisible, ScreenSettles
  <2>1. /\ ui = "poll" /\ next = Len(events) /\ cmds = <<>> /\ shown = view.dialog
        /\ Follows(view, next) /\ Shows(view, next)
    BY DEF UpToDate, Screen, Good
  <2>2. ASSUME worker = "waiting", answer = "none", ~cancelled
        PROVE  view.dialog = [turn |-> turns, id |-> call.id]
    <3>1. PICK p : IsPrompt(p)
      BY <2>2 DEF Session, Announced
    <3>2. p <= next
      BY <2>1, <3>1, EventsShape DEF Session, IsPrompt
    <3>3. ~OnItsWay
      BY <2>1 DEF OnItsWay
    <3> QED BY <2>1, <2>2, <3>1, <3>2, <3>3 DEF Shows, Waits, Prompt
  <2>3. ASSUME actor = "Idle", view.running PROVE FALSE
    <3>1. view.latest > 0 /\ view.latest <= turns /\ \A i \in Dones(view.latest) : i > Len(events)
      BY <2>1, <2>3 DEF Follows
    <3>2. view.latest \in 1..turns
      <4>1. view.latest \in Nat
        BY BoundsAssumption DEF Screen, Good, Views, UpToDate
      <4> QED BY <3>1, <4>1, EventsShape DEF Session
    <3>3. PICK i : Dones(view.latest) = {i}
      BY <2>3, <3>2 DEF Session, Framed
    <3>4. i \in DOMAIN events
      BY <3>3 DEF Dones
    <3> QED BY <3>1, <3>3, <3>4, EventsShape DEF Session
  <2> QED BY <2>1, <2>2, <2>3 DEF ScreenAgrees, PromptIsVisible, ScreenSettles
<1> QED BY <1>1, TuiInvariant, PTL
===============================================================================
