--------------------------- MODULE AgentTurn_proofs ---------------------------
(***************************************************************************)
(* Theorems about the turn loop, for any set of identifiers, any number of *)
(* turns, any round cap and any number of calls per answer.                *)
(***************************************************************************)
EXTENDS AgentTurn, TLAPS

USE DEF Points, Outcomes, Modes, Risks

LEMMA CallType ==
  ASSUME NEW c \in Call
  PROVE  c.id \in RawIds /\ c.risk \in Risks
BY DEF Call

LEMMA MessageTypes ==
  /\ User \in Message /\ Assistant(<<>>) \in Message
  /\ \A ids \in Seq(RawIds) : Assistant(ids) \in Message
  /\ \A id \in RawIds : Tool(id) \in Message
BY DEF User, Assistant, Tool, Message

LEMMA EventType ==
  ASSUME NEW kind \in Kinds, NEW id \in RawIds
  PROVE  Event(kind, id) \in Events
BY DEF Event, Events

LEMMA AnswerType ==
  ASSUME NEW calls \in Answer
  PROVE  calls \in Seq(Call) /\ CallIds(calls) \in Seq(RawIds)
<1>1. PICK n \in 1..MaxCalls : calls \in [1..n -> Call]
  BY DEF Answer
<1>2. n \in Nat /\ calls \in Seq(Call)
  BY <1>1, BoundsAssumption
<1>3. CallIds(calls) \in [1..n -> RawIds]
  BY <1>1, CallType DEF CallIds
<1> QED BY <1>2, <1>3

\* Every variable keeps its type, whatever the model and the approver answer.

\* What resolving the first pending call does to the typed state.
LEMMA ResolvedTypes ==
  ASSUME todo \in Seq(Call), todo # <<>>, msgs \in Seq(Message), log \in Seq(Events)
  PROVE  /\ Head(todo) \in Call /\ Tail(todo) \in Seq(Call)
         /\ Append(msgs, Tool(Head(todo).id)) \in Seq(Message)
         /\ \A kind \in Kinds : Append(log, Event(kind, Head(todo).id)) \in Seq(Events)
         /\ \A k1, k2 \in Kinds : \A id \in RawIds :
              /\ log \o <<Event(k1, id), Event(k2, id)>> \in Seq(Events)
              /\ log \o <<Event(k1, id)>> \o <<Event(k2, Head(todo).id)>> \in Seq(Events)
              /\ log \o <<>> \o <<Event(k2, Head(todo).id)>> \in Seq(Events)
<1>1. Head(todo) \in Call /\ Tail(todo) \in Seq(Call)
  OBVIOUS
<1>2. Head(todo).id \in RawIds
  BY <1>1, CallType
<1>3. Tool(Head(todo).id) \in Message
  BY <1>2, MessageTypes
<1>4. \A kind \in Kinds, id \in RawIds : Event(kind, id) \in Events
  BY EventType
<1> QED BY <1>1, <1>2, <1>3, <1>4

LEMMA RecordOutcomeType ==
  ASSUME TypeOK, todo # <<>>, NEW i,
         NEW diff \in {<<>>, <<Event("Diff", EmptyId)>>}, RecordOutcome(diff, i)
  PROVE  /\ msgs' \in Seq(Message) /\ log' \in Seq(Events) /\ todo' \in Seq(Call)
         /\ pc' \in Points /\ outcome' \in Outcomes
<1>1. EmptyId \in RawIds /\ "Diff" \in Kinds /\ "ToolEnd" \in Kinds
  BY DEF RawIds, Kinds
<1>2. log \o diff \o <<Event("ToolEnd", Head(todo).id)>> \in Seq(Events)
  BY <1>1, ResolvedTypes DEF TypeOK
<1> QED BY <1>2, ResolvedTypes DEF TypeOK, RecordOutcome, Stop

\* A call is pending wherever the loop works on one.
CallPending == pc \in {"approve", "dispatch", "running"} => todo # <<>>

\* Every variable keeps its type, whatever the model and the approver answer.
THEOREM TypeCorrect == Spec => [](TypeOK /\ CallPending)
<1>0. EmptyId \in RawIds
  BY DEF RawIds
<1>1. Init => TypeOK /\ CallPending
  <2> SUFFICES ASSUME Init PROVE TypeOK /\ CallPending
    OBVIOUS
  <2>1. cancelled \in BOOLEAN /\ expired \in BOOLEAN
    BY DEF Init
  <2> QED BY <2>1, BoundsAssumption DEF Init, TypeOK, CallPending
<1>2. TypeOK /\ CallPending /\ [Next]_vars => (TypeOK /\ CallPending)'
  <2> SUFFICES ASSUME TypeOK, CallPending, [Next]_vars PROVE (TypeOK /\ CallPending)'
    OBVIOUS
  <2> USE <1>0, BoundsAssumption DEF TypeOK, CallPending, Stop
  <2>1. ASSUME NEW m \in Modes, StartTurn(m) PROVE (TypeOK /\ CallPending)'
    <3>1. cancelled' \in BOOLEAN /\ expired' \in BOOLEAN
      BY <2>1 DEF StartTurn
    <3>2. msgs' \in Seq(Message)
      BY <2>1, MessageTypes DEF StartTurn
    <3>3. log' \in Seq(Events)
      BY <2>1, EventType DEF StartTurn, Kinds
    <3> QED BY <2>1, <3>1, <3>2, <3>3 DEF StartTurn
  <2>2. CASE Round
    BY <2>2 DEF Round, RoundCap, RoundCancelled, RoundRequest
  <2>3. CASE Model
    <3>1. CASE ModelFails
      BY <3>1 DEF ModelFails
    <3>2. CASE ModelText
      <4>1. msgs' \in Seq(Message)
        BY <3>2, MessageTypes DEF ModelText
      <4> QED BY <3>2, <4>1 DEF ModelText
    <3>3. ASSUME NEW calls \in Answer, ModelCalls(calls) PROVE (TypeOK /\ CallPending)'
      <4>1. calls \in Seq(Call) /\ Assistant(CallIds(calls)) \in Message
        BY AnswerType, MessageTypes
      <4>2. CASE ValidAnswer(calls) /\ NewCalls(calls)
        <5>1. /\ msgs' = Append(msgs, Assistant(CallIds(calls)))
              /\ todo' = calls /\ pc' = "calls" /\ outcome' = outcome
              /\ UNCHANGED <<turns, convo, round, mode, cancelled, expired, log,
                             granted, ran, late>>
          BY <3>3, <4>2, Zenon DEF ModelCalls
        <5> QED BY <4>1, <5>1
      <4>3. CASE ~(ValidAnswer(calls) /\ NewCalls(calls))
        BY <3>3, <4>3 DEF ModelCalls
      <4> QED BY <4>2, <4>3
    <3> QED BY <2>3, <3>1, <3>2, <3>3 DEF Model
  <2>4. CASE CallsResolved \/ CallCancelled \/ CallAsksApproval
    BY <2>4 DEF CallsResolved, CallCancelled, CallAsksApproval
  <2>5. CASE CallPolicyDenied
    BY <2>5, RecordOutcomeType DEF CallPolicyDenied, RecordOutcome
  <2>6. CASE CallStarts \/ Allow
    <3>1. todo # <<>> /\ "ToolStart" \in Kinds
      BY <2>6 DEF CallStarts, Allow, Kinds
    <3>2. Append(log, Event("ToolStart", Head(todo).id)) \in Seq(Events)
          /\ Head(todo).id \in RawIds
      BY <3>1, ResolvedTypes, CallType
    <3> QED BY <2>6, <3>1, <3>2 DEF CallStarts, Allow, EmitStart
  <2>7. CASE Deny
    <3>1. todo # <<>> /\ {"PermissionResolved", "ToolEnd"} \subseteq Kinds
      BY <2>7 DEF Deny, Kinds
    <3>2. Head(todo).id \in RawIds
      BY <3>1, ResolvedTypes, CallType
    <3> QED BY <2>7, <3>1, <3>2, ResolvedTypes DEF Deny
  <2>8. CASE ApprovalCancelled \/ DispatchAdmitted
    BY <2>8 DEF ApprovalCancelled, DispatchAdmitted
  <2>9. CASE DispatchRefused
    BY <2>9, RecordOutcomeType DEF DispatchRefused, RecordOutcome
  <2>10. CASE ToolBegins
    <3>1. Head(todo) \in Call
      BY <2>10, ResolvedTypes DEF ToolBegins
    <3> QED BY <2>10, <3>1 DEF ToolBegins
  <2>11. CASE ToolEnds
    BY <2>11, RecordOutcomeType DEF ToolEnds, RecordOutcome
  <2>12. CASE Finish
    <3>1. \A o \in Outcomes : TerminalEvents(o) \in Seq(Events)
      BY EventType DEF TerminalEvents, Kinds
    <3> QED BY <2>12, <3>1 DEF Finish
  <2>13. CASE Cancel \/ DeadlinePasses
    <3>1. cancelled' \in BOOLEAN /\ expired' \in BOOLEAN
      BY <2>13 DEF Cancel, DeadlinePasses
    <3> QED BY <2>13, <3>1 DEF Cancel, DeadlinePasses
  <2>14. CASE UNCHANGED vars
    BY <2>14 DEF vars
  <2> QED BY <2>1, <2>2, <2>3, <2>4, <2>5, <2>6, <2>7, <2>8, <2>9, <2>10, <2>11,
             <2>12, <2>13, <2>14 DEF Next, CallStep, Dispatch, ToolStep
<1> QED BY <1>1, <1>2, PTL DEF Spec

-------------------------------------------------------------------------------
(* Approval.                                                                  *)

\* What the loop has established about the call it is working on.
Admission ==
  /\ pc = "approve" => Head(todo).risk = "Gated" /\ mode = "Auto"
  /\ pc \in {"dispatch", "running"} /\ Head(todo).risk = "Gated" =>
       mode = "Auto" /\ Head(todo).id \in granted
  /\ pc = "running" => Head(todo).risk # "Hidden"

\* No mutating or shell tool begins without Auto mode and an approval of that
\* very call in that very turn, and nothing outside the allowlist begins at all.
THEOREM ApprovalHolds == Spec => []OnlyApprovedRuns
<1> DEFINE IInv == Admission /\ OnlyApprovedRuns
<1>1. Init => IInv
  BY DEF Init, Admission, OnlyApprovedRuns
<1>2. TypeOK /\ CallPending /\ IInv /\ [Next]_vars => IInv'
  <2> SUFFICES ASSUME TypeOK, CallPending, IInv, [Next]_vars PROVE IInv'
    OBVIOUS
  <2> USE DEF TypeOK, Admission, OnlyApprovedRuns, Stop
  <2>1. ASSUME NEW m \in Modes, StartTurn(m) PROVE IInv'
    BY <2>1 DEF StartTurn
  <2>2. CASE Round
    BY <2>2 DEF Round, RoundCap, RoundCancelled, RoundRequest
  <2>3. CASE Model
    <3>1. pc' \in {"finish", "calls"} /\ UNCHANGED <<mode, granted, ran>>
      BY <2>3 DEF Model, ModelFails, ModelText, ModelCalls
    <3> QED BY <3>1
  <2>4. CASE CallsResolved \/ CallCancelled \/ CallPolicyDenied
    BY <2>4 DEF CallsResolved, CallCancelled, CallPolicyDenied, RecordOutcome
  <2>5. CASE CallAsksApproval \/ CallStarts
    BY <2>5 DEF CallAsksApproval, CallStarts, EmitStart, PolicyDenies
  <2>6. CASE Allow \/ Deny \/ ApprovalCancelled
    BY <2>6 DEF Allow, Deny, ApprovalCancelled, EmitStart
  <2>7. CASE DispatchRefused \/ ToolEnds
    BY <2>7 DEF DispatchRefused, ToolEnds, RecordOutcome
  <2>8. CASE DispatchAdmitted \/ Cancel \/ DeadlinePasses \/ UNCHANGED vars
    BY <2>8 DEF DispatchAdmitted, Cancel, DeadlinePasses, vars
  <2>9. CASE ToolBegins
    BY <2>9 DEF ToolBegins
  <2>10. CASE Finish
    BY <2>10 DEF Finish
  <2> QED BY <2>1, <2>2, <2>3, <2>4, <2>5, <2>6, <2>7, <2>8, <2>9, <2>10
          DEF Next, CallStep, Dispatch, ToolStep
<1> QED BY <1>1, <1>2, TypeCorrect, PTL DEF Spec

\* A late tool needs a token that was cancelled after the admission it passed.
LateNeedsCancel ==
  /\ ~cancelled => late = 0
  /\ pc = "running" /\ Head(todo) \notin ran => late = 0

\* At most one tool body begins after the token is cancelled.
THEOREM CancellationIsPrompt == Spec => []AtMostOneLateTool
<1> DEFINE IInv == LateNeedsCancel /\ AtMostOneLateTool
<1>1. Init => IInv
  BY DEF Init, LateNeedsCancel, AtMostOneLateTool
<1>2. TypeOK /\ CallPending /\ IInv /\ [Next]_vars => IInv'
  <2> SUFFICES ASSUME TypeOK, CallPending, IInv, [Next]_vars PROVE IInv'
    OBVIOUS
  <2> USE DEF TypeOK, LateNeedsCancel, AtMostOneLateTool, Stop, IsCancelled
  <2>1. ASSUME NEW m \in Modes, StartTurn(m) PROVE IInv'
    BY <2>1 DEF StartTurn
  <2>2. CASE Round
    BY <2>2 DEF Round, RoundCap, RoundCancelled, RoundRequest
  <2>3. CASE Model
    <3>1. pc' \in {"finish", "calls"} /\ UNCHANGED <<cancelled, late>>
      BY <2>3 DEF Model, ModelFails, ModelText, ModelCalls
    <3> QED BY <3>1
  <2>4. CASE CallStep
    BY <2>4 DEF CallStep, CallsResolved, CallCancelled, CallPolicyDenied,
                CallAsksApproval, CallStarts, RecordOutcome, EmitStart
  <2>5. CASE Allow \/ Deny \/ ApprovalCancelled
    BY <2>5 DEF Allow, Deny, ApprovalCancelled, EmitStart
  <2>6. CASE DispatchRefused \/ ToolEnds
    BY <2>6 DEF DispatchRefused, ToolEnds, RecordOutcome
  <2>7. CASE DispatchAdmitted
    BY <2>7 DEF DispatchAdmitted
  <2>8. CASE ToolBegins
    BY <2>8 DEF ToolBegins
  <2>9. CASE Finish \/ Cancel \/ DeadlinePasses \/ UNCHANGED vars
    BY <2>9 DEF Finish, Cancel, DeadlinePasses, vars
  <2> QED BY <2>1, <2>2, <2>3, <2>4, <2>5, <2>6, <2>7, <2>8, <2>9
          DEF Next, Dispatch, ToolStep
<1> QED BY <1>1, <1>2, TypeCorrect, PTL DEF Spec

-------------------------------------------------------------------------------
(* The turn as a transaction.                                                 *)

\* During a turn the working copy is the committed conversation, one user
\* message, and nothing else a user said; a finished answer closes it.
WorkingCopy ==
  pc # "idle" =>
    /\ Len(msgs) > Len(convo)
    /\ \A i \in 1..Len(convo) : msgs[i] = convo[i]
    /\ msgs[Len(convo) + 1] = User
    /\ \A i \in (Len(convo) + 2)..Len(msgs) : msgs[i].role # "user"
    /\ pc = "finish" /\ outcome = "Text" => msgs[Len(msgs)] = Assistant(<<>>)

\* Appending anything but a user's message keeps the shape of the working copy.
LEMMA WorkingCopyGrows ==
  ASSUME convo \in Seq(Message), msgs \in Seq(Message), pc # "idle", WorkingCopy,
         NEW m \in Message, m.role # "user",
         msgs' = Append(msgs, m), convo' = convo,
         pc' = "finish" /\ outcome' = "Text" => m = Assistant(<<>>)
  PROVE  WorkingCopy'
<1>1. /\ Len(msgs') = Len(msgs) + 1
      /\ \A i \in 1..Len(msgs) : msgs'[i] = msgs[i]
      /\ msgs'[Len(msgs')] = m
      /\ Len(msgs) \in Nat /\ Len(convo) \in Nat
  OBVIOUS
<1>2. pc' # "idle" => \A i \in (Len(convo') + 2)..Len(msgs') : msgs'[i].role # "user"
  <2> SUFFICES ASSUME NEW i \in (Len(convo) + 2)..(Len(msgs) + 1)
               PROVE  msgs'[i].role # "user"
    BY <1>1
  <2>1. CASE i = Len(msgs) + 1
    BY <1>1, <2>1
  <2>2. CASE i # Len(msgs) + 1
    <3>1. i \in 1..Len(msgs) /\ i \in (Len(convo) + 2)..Len(msgs)
      BY <1>1, <2>2
    <3> QED BY <1>1, <3>1 DEF WorkingCopy
  <2> QED BY <2>1, <2>2
<1>3. /\ Len(msgs') > Len(convo')
      /\ \A i \in 1..Len(convo') : msgs'[i] = convo'[i]
      /\ msgs'[Len(convo') + 1] = User
  BY <1>1 DEF WorkingCopy
<1> QED BY <1>1, <1>2, <1>3 DEF WorkingCopy

LEMMA WorkingCopyInvariant == Spec => []WorkingCopy
<1>1. Init => WorkingCopy
  BY DEF Init, WorkingCopy
<1>2. TypeOK /\ CallPending /\ WorkingCopy /\ [Next]_vars => WorkingCopy'
  <2> SUFFICES ASSUME TypeOK, CallPending, WorkingCopy, [Next]_vars PROVE WorkingCopy'
    OBVIOUS
  <2>0. convo \in Seq(Message) /\ msgs \in Seq(Message)
    BY DEF TypeOK
  <2>1. ASSUME NEW m \in Modes, StartTurn(m) PROVE WorkingCopy'
    BY <2>0, <2>1 DEF StartTurn, WorkingCopy
  <2>2. ASSUME todo # <<>>, convo' = convo, pc # "idle", outcome' # "Text" \/ pc' # "finish",
               msgs' = Append(msgs, Tool(Head(todo).id))
        PROVE  WorkingCopy'
    <3>1. Tool(Head(todo).id) \in Message
      BY <2>2, CallType, MessageTypes DEF TypeOK
    <3>2. Tool(Head(todo).id).role # "user"
      BY DEF Tool
    <3> QED BY <2>0, <2>2, <3>1, <3>2, WorkingCopyGrows
  <2>3. CASE Round
    BY <2>3 DEF Round, RoundCap, RoundCancelled, RoundRequest, WorkingCopy, Stop
  <2>4. CASE ModelFails
    BY <2>4 DEF ModelFails, WorkingCopy, Stop
  <2>5. CASE ModelText
    <3>1. Assistant(<<>>).role # "user"
      BY DEF Assistant
    <3> QED BY <2>0, <2>5, <3>1, MessageTypes, WorkingCopyGrows DEF ModelText, Stop
  <2>6. ASSUME NEW calls \in Answer, ModelCalls(calls) PROVE WorkingCopy'
    <3>1. CASE ValidAnswer(calls) /\ NewCalls(calls)
      <4>1. /\ msgs' = Append(msgs, Assistant(CallIds(calls)))
            /\ pc' = "calls" /\ pc = "model" /\ convo' = convo
        BY <2>6, <3>1, Zenon DEF ModelCalls
      <4>2. Assistant(CallIds(calls)) \in Message
        BY AnswerType, MessageTypes
      <4>3. Assistant(CallIds(calls)).role # "user"
        BY DEF Assistant
      <4> QED BY <2>0, <4>1, <4>2, <4>3, WorkingCopyGrows
    <3>2. CASE ~(ValidAnswer(calls) /\ NewCalls(calls))
      <4>1. /\ pc' = "finish" /\ outcome' = "Error" /\ pc = "model"
            /\ msgs' = msgs /\ convo' = convo
        BY <2>6, <3>2, Zenon DEF ModelCalls, Stop
      <4> QED BY <4>1 DEF WorkingCopy
    <3> QED BY <3>1, <3>2
  <2>7. CASE CallsResolved \/ CallCancelled \/ CallAsksApproval \/ CallStarts
    BY <2>7 DEF CallsResolved, CallCancelled, CallAsksApproval, CallStarts, EmitStart,
                WorkingCopy, Stop
  <2>8. CASE Allow \/ ApprovalCancelled \/ DispatchAdmitted \/ ToolBegins
    BY <2>8 DEF Allow, ApprovalCancelled, DispatchAdmitted, ToolBegins, EmitStart,
                WorkingCopy, Stop
  <2>9. CASE CallPolicyDenied \/ Deny \/ DispatchRefused \/ ToolEnds
    <3>1. /\ todo # <<>> /\ convo' = convo /\ pc # "idle"
          /\ msgs' = Append(msgs, Tool(Head(todo).id))
          /\ outcome' # "Text" \/ pc' # "finish"
      BY <2>9 DEF CallPolicyDenied, Deny, DispatchRefused, ToolEnds, RecordOutcome, Stop,
                  CallPending
    <3> QED BY <2>2, <3>1
  <2>10. CASE Finish
    BY <2>10 DEF Finish, WorkingCopy
  <2>11. CASE Cancel \/ DeadlinePasses \/ UNCHANGED vars
    BY <2>11 DEF Cancel, DeadlinePasses, vars, WorkingCopy
  <2> QED BY <2>1, <2>3, <2>4, <2>5, <2>6, <2>7, <2>8, <2>9, <2>10, <2>11
          DEF Next, Model, CallStep, Dispatch, ToolStep
<1> QED BY <1>1, <1>2, TypeCorrect, PTL DEF Spec

\* The abstract specification speaks of the same transcripts.
LEMMA SameTranscripts ==
  /\ Transaction!User = User /\ Transaction!Assistant(<<>>) = Assistant(<<>>)
  /\ \A ms : WellFormed(ms) => Transaction!WellFormed(ms)
BY DEF Transaction!User, User, Transaction!Assistant, Assistant,
       Transaction!WellFormed, Transaction!NoEmptyId, Transaction!NoDuplicateCall,
       Transaction!NoDuplicateResult, Transaction!NoOrphanResult,
       Transaction!NoUnresolvedCall, Transaction!Answered, Transaction!Called,
       WellFormed, NoEmptyId, NoDuplicateCall, NoDuplicateResult,
       NoOrphanResult, NoUnresolvedCall, Answered, Called

\* The loop implements the transactional turn: the conversation only ever grows
\* by whole well-formed exchanges, and a turn that does not answer leaves no trace.
THEOREM TurnRefinement == Spec => TurnIsTransaction
<1>1. Init => Transaction!Init
  BY DEF Init, Transaction!Init
<1>2. TypeOK /\ WorkingCopy /\ [Next]_vars => [Transaction!Next]_<<convo, pc # "idle">>
  <2> SUFFICES ASSUME TypeOK, WorkingCopy, [Next]_vars
               PROVE  [Transaction!Next]_<<convo, pc # "idle">>
    OBVIOUS
  <2>1. ASSUME NEW m \in Modes, StartTurn(m) PROVE Transaction!Begin
    BY <2>1 DEF StartTurn, Transaction!Begin
  <2>2. CASE Finish
    <3>1. CASE convo' = convo
      BY <2>2, <3>1 DEF Finish, Transaction!Next, Transaction!Abort
    <3>2. CASE convo' # convo
      <4>1. convo' = msgs /\ outcome = "Text" /\ pc = "finish" /\ pc' = "idle"
            /\ WellFormed(msgs)
        BY <2>2, <3>2, Zenon DEF Finish
      <4>2. convo \in Seq(Message) /\ msgs \in Seq(Message)
        BY DEF TypeOK
      <4>3. Transaction!Extends(msgs, convo)
        BY <4>1, <4>2 DEF WorkingCopy, Transaction!Extends
      <4>4. Transaction!Exchange(msgs, convo)
        BY <4>1, <4>2, SameTranscripts DEF WorkingCopy, Transaction!Exchange
      <4>5. Transaction!WellFormed(msgs)
        BY <4>1, SameTranscripts
      <4> QED BY <4>1, <4>3, <4>4, <4>5 DEF Transaction!Next, Transaction!Commit
    <3> QED BY <3>1, <3>2
  <2>3. ASSUME ~Finish, \A m \in Modes : ~StartTurn(m)
        PROVE  UNCHANGED <<convo, pc # "idle">>
    BY <2>3 DEF Next, Round, RoundCap, RoundCancelled, RoundRequest, Model, ModelFails,
       ModelText, ModelCalls, CallStep, CallsResolved, CallCancelled, CallPolicyDenied,
       CallAsksApproval, CallStarts, Allow, Deny, ApprovalCancelled, Dispatch,
       DispatchRefused, DispatchAdmitted, ToolStep, ToolBegins, ToolEnds, Cancel,
       DeadlinePasses, RecordOutcome, EmitStart, Stop, vars
  <2> QED BY <2>1, <2>2, <2>3 DEF Transaction!Next
<1> QED BY <1>1, <1>2, TypeCorrect, WorkingCopyInvariant, PTL
        DEF Spec, TurnIsTransaction, Transaction!Spec

-------------------------------------------------------------------------------
(* Correlation of calls and results.                                          *)

\* A transcript that is well formed but for the ids in open, which are called
\* and not yet answered.
Correlated(ms, open) ==
  /\ NoEmptyId(ms) /\ NoDuplicateCall(ms) /\ NoDuplicateResult(ms)
  /\ NoOrphanResult(ms)
  /\ \A i \in DOMAIN ms : \A id \in Called(ms[i]) :
       id \in open \/ \E j \in DOMAIN ms : id \in Answered(ms[j])
  /\ \A id \in open :
       /\ \E i \in DOMAIN ms : id \in Called(ms[i])
       /\ \A j \in DOMAIN ms : id \notin Answered(ms[j])

LEMMA CorrelatedIsWellFormed ==
  ASSUME NEW ms
  PROVE  WellFormed(ms) <=> Correlated(ms, {})
BY DEF WellFormed, Correlated, NoUnresolvedCall

LEMMA AppendedMessage ==
  ASSUME NEW ms \in Seq(Message), NEW m \in Message
  PROVE  /\ Append(ms, m) \in Seq(Message)
         /\ DOMAIN Append(ms, m) = DOMAIN ms \cup {Len(ms) + 1}
         /\ Append(ms, m)[Len(ms) + 1] = m
         /\ \A i \in DOMAIN ms : Append(ms, m)[i] = ms[i] /\ i < Len(ms) + 1
OBVIOUS

LEMMA AppendPlain ==
  ASSUME NEW ms \in Seq(Message), NEW m \in Message, m.ids = <<>>,
         NEW open, Correlated(ms, open)
  PROVE  Correlated(Append(ms, m), open)
<1> DEFINE new == Append(ms, m)
<1>0. DOMAIN m.ids = {} /\ Called(m) = {} /\ Answered(m) = {}
  BY DEF Called, Answered
<1>1. /\ DOMAIN new = DOMAIN ms \cup {Len(ms) + 1} /\ new[Len(ms) + 1] = m
      /\ \A i \in DOMAIN ms : new[i] = ms[i] /\ i < Len(ms) + 1
  BY AppendedMessage
<1> HIDE DEF new
<1>2. NoEmptyId(new)
  BY <1>0, <1>1 DEF Correlated, NoEmptyId
<1>3. NoDuplicateCall(new)
  BY <1>0, <1>1 DEF Correlated, NoDuplicateCall
<1>4. NoDuplicateResult(new) /\ NoOrphanResult(new)
  BY <1>0, <1>1 DEF Correlated, NoDuplicateResult, NoOrphanResult
<1>5. \A i \in DOMAIN new : \A id \in Called(new[i]) :
        id \in open \/ \E j \in DOMAIN new : id \in Answered(new[j])
  BY <1>0, <1>1 DEF Correlated
<1>6. \A id \in open : /\ \E i \in DOMAIN new : id \in Called(new[i])
                      /\ \A j \in DOMAIN new : id \notin Answered(new[j])
  BY <1>0, <1>1 DEF Correlated
<1>7. Correlated(new, open)
  BY <1>2, <1>3, <1>4, <1>5, <1>6 DEF Correlated
<1> QED BY <1>7 DEF new

LEMMA AppendResult ==
  ASSUME NEW ms \in Seq(Message), NEW open, NEW id \in open, id \in RawIds,
         Correlated(ms, open)
  PROVE  Correlated(Append(ms, Tool(id)), open \ {id})
<1> DEFINE new == Append(ms, Tool(id))
<1>0. /\ Tool(id) \in Message /\ Tool(id).role # "assistant"
      /\ Called(Tool(id)) = {} /\ Answered(Tool(id)) = {id}
  BY MessageTypes DEF Tool, Called, Answered
<1>1. /\ DOMAIN new = DOMAIN ms \cup {Len(ms) + 1} /\ new[Len(ms) + 1] = Tool(id)
      /\ \A i \in DOMAIN ms : new[i] = ms[i] /\ i < Len(ms) + 1
  BY <1>0, AppendedMessage
<1> HIDE DEF new
<1>2. PICK k \in DOMAIN ms : id \in Called(ms[k])
  BY DEF Correlated
<1>3. id # EmptyId
  BY <1>2 DEF Correlated, NoEmptyId
<1>4. NoEmptyId(new)
  BY <1>0, <1>1, <1>3 DEF Correlated, NoEmptyId
<1>5. NoDuplicateCall(new)
  BY <1>0, <1>1 DEF Correlated, NoDuplicateCall
<1>6. NoDuplicateResult(new)
  BY <1>0, <1>1 DEF Correlated, NoDuplicateResult
<1>7. NoOrphanResult(new)
  BY <1>0, <1>1, <1>2 DEF Correlated, NoOrphanResult
<1>8. \A i \in DOMAIN new : \A c \in Called(new[i]) :
        c \in open \ {id} \/ \E j \in DOMAIN new : c \in Answered(new[j])
  BY <1>0, <1>1 DEF Correlated
<1>9. \A c \in open \ {id} : /\ \E i \in DOMAIN new : c \in Called(new[i])
                            /\ \A j \in DOMAIN new : c \notin Answered(new[j])
  BY <1>0, <1>1 DEF Correlated
<1>10. Correlated(new, open \ {id})
  BY <1>4, <1>5, <1>6, <1>7, <1>8, <1>9 DEF Correlated
<1> QED BY <1>10 DEF new

LEMMA AppendCalls ==
  ASSUME NEW ms \in Seq(Message), NEW ids \in Seq(RawIds), Correlated(ms, {}),
         \A p \in DOMAIN ids : ids[p] # EmptyId,
         \A p, q \in DOMAIN ids : ids[p] = ids[q] => p = q,
         \A p \in DOMAIN ids, i \in DOMAIN ms : ids[p] \notin Called(ms[i])
  PROVE  Correlated(Append(ms, Assistant(ids)), {ids[p] : p \in DOMAIN ids})
<1> DEFINE new == Append(ms, Assistant(ids))
           open == {ids[p] : p \in DOMAIN ids}
<1>0. /\ Assistant(ids) \in Message /\ Assistant(ids).ids = ids
      /\ Called(Assistant(ids)) = open /\ Answered(Assistant(ids)) = {}
  BY MessageTypes DEF Assistant, Called, Answered
<1>1. /\ DOMAIN new = DOMAIN ms \cup {Len(ms) + 1} /\ new[Len(ms) + 1] = Assistant(ids)
      /\ \A i \in DOMAIN ms : new[i] = ms[i] /\ i < Len(ms) + 1
  BY <1>0, AppendedMessage
<1>2. /\ EmptyId \notin open
      /\ \A i \in DOMAIN ms : open \cap Called(ms[i]) = {}
      /\ \A i \in DOMAIN ms : open \cap Answered(ms[i]) = {}
  <2>1. EmptyId \notin open /\ \A i \in DOMAIN ms : open \cap Called(ms[i]) = {}
    OBVIOUS
  <2> QED BY <2>1 DEF Correlated, NoOrphanResult
<1> HIDE DEF new, open
<1>3. NoEmptyId(new)
  BY <1>0, <1>1, <1>2 DEF Correlated, NoEmptyId
<1>4. NoDuplicateCall(new)
  BY <1>0, <1>1, <1>2 DEF Correlated, NoDuplicateCall
<1>5. NoDuplicateResult(new) /\ NoOrphanResult(new)
  BY <1>0, <1>1 DEF Correlated, NoDuplicateResult, NoOrphanResult
<1>6. \A i \in DOMAIN new : \A c \in Called(new[i]) :
        c \in open \/ \E j \in DOMAIN new : c \in Answered(new[j])
  BY <1>0, <1>1 DEF Correlated
<1>7. \A c \in open : /\ \E i \in DOMAIN new : c \in Called(new[i])
                     /\ \A j \in DOMAIN new : c \notin Answered(new[j])
  BY <1>0, <1>1, <1>2
<1>8. Correlated(new, open)
  BY <1>3, <1>4, <1>5, <1>6, <1>7 DEF Correlated
<1> QED BY <1>8 DEF new, open

OpenIds == {todo[p].id : p \in DOMAIN todo}

\* While the loop runs, exactly the pending calls lack a result, each of them
\* once; a turn that has answered lacks none.
Correlation ==
  /\ WellFormed(convo)
  /\ pc \in Points \ {"idle", "finish"} => Correlated(msgs, OpenIds)
  /\ \A p, q \in DOMAIN todo : todo[p].id = todo[q].id => p = q
  /\ pc \in {"round", "model"} => todo = <<>>
  /\ pc = "finish" /\ outcome = "Text" => Correlated(msgs, {})

LEMMA ResolvedOpenIds ==
  ASSUME todo \in Seq(Call), todo # <<>>,
         \A p, q \in DOMAIN todo : todo[p].id = todo[q].id => p = q,
         todo' = Tail(todo)
  PROVE  /\ Head(todo).id \in OpenIds /\ Head(todo).id \in RawIds
         /\ OpenIds' = OpenIds \ {Head(todo).id}
         /\ \A p, q \in DOMAIN todo' : todo'[p].id = todo'[q].id => p = q
<1>1. /\ Head(todo) = todo[1] /\ 1 \in DOMAIN todo
      /\ DOMAIN todo = 1..Len(todo) /\ Len(todo) \in Nat
      /\ DOMAIN todo' = 1..(Len(todo) - 1)
      /\ \A p \in DOMAIN todo' : p + 1 \in DOMAIN todo /\ todo'[p] = todo[p + 1]
  OBVIOUS
<1>2. Head(todo).id \in OpenIds /\ Head(todo).id \in RawIds
  BY <1>1, CallType DEF OpenIds
<1>3. OpenIds' \subseteq OpenIds \ {Head(todo).id}
  BY <1>1 DEF OpenIds
<1>4. OpenIds \ {Head(todo).id} \subseteq OpenIds'
  <2> SUFFICES ASSUME NEW p \in DOMAIN todo, p # 1 PROVE todo[p].id \in OpenIds'
    BY <1>1 DEF OpenIds
  <2>1. p - 1 \in DOMAIN todo' /\ todo'[p - 1] = todo[p]
    BY <1>1
  <2> QED BY <2>1 DEF OpenIds
<1>5. \A p, q \in DOMAIN todo' : todo'[p].id = todo'[q].id => p = q
  BY <1>1
<1> QED BY <1>2, <1>3, <1>4, <1>5

LEMMA CorrelationInvariant == Spec => []Correlation
<1>1. Init => Correlation
  <2> SUFFICES ASSUME Init PROVE Correlation
    OBVIOUS
  <2>1. convo = <<>> /\ todo = <<>> /\ pc = "idle" /\ DOMAIN convo = {} /\ DOMAIN todo = {}
    BY DEF Init
  <2>2. WellFormed(convo)
    BY <2>1 DEF WellFormed, NoEmptyId, NoDuplicateCall, NoDuplicateResult,
                NoOrphanResult, NoUnresolvedCall
  <2> QED BY <2>1, <2>2 DEF Correlation
<1>2. TypeOK /\ CallPending /\ Correlation /\ [Next]_vars => Correlation'
  <2> SUFFICES ASSUME TypeOK, CallPending, Correlation, [Next]_vars PROVE Correlation'
    OBVIOUS
  <2>0. /\ convo \in Seq(Message) /\ msgs \in Seq(Message) /\ todo \in Seq(Call)
        /\ pc \in Points /\ (todo = <<>> => OpenIds = {})
    BY DEF TypeOK, OpenIds
  <2>1. ASSUME NEW m \in Modes, StartTurn(m) PROVE Correlation'
    <3>1. User.ids = <<>> /\ User \in Message
      BY MessageTypes DEF User
    <3>2. Correlated(Append(convo, User), {})
      BY <2>0, <3>1, AppendPlain, CorrelatedIsWellFormed DEF Correlation
    <3>3. /\ msgs' = Append(convo, User) /\ convo' = convo /\ todo' = <<>>
          /\ pc' = "round" /\ OpenIds' = {}
      BY <2>1 DEF StartTurn, OpenIds
    <3> QED BY <3>2, <3>3 DEF Correlation
  <2>2. ASSUME /\ pc \in {"calls", "approve", "dispatch", "running"} /\ todo # <<>>
               /\ msgs' = Append(msgs, Tool(Head(todo).id)) /\ todo' = Tail(todo)
               /\ convo' = convo
               /\ pc' = "calls" \/ (pc' = "finish" /\ outcome' # "Text")
        PROVE  Correlation'
    <3>1. /\ Head(todo).id \in OpenIds /\ Head(todo).id \in RawIds
          /\ OpenIds' = OpenIds \ {Head(todo).id}
          /\ \A p, q \in DOMAIN todo' : todo'[p].id = todo'[q].id => p = q
      BY <2>0, <2>2, ResolvedOpenIds DEF Correlation
    <3>2. Correlated(msgs, OpenIds)
      BY <2>2 DEF Correlation
    <3>3. Correlated(msgs', OpenIds')
      BY <2>0, <2>2, <3>1, <3>2, AppendResult
    <3> QED BY <2>2, <3>1, <3>3 DEF Correlation
  <2>3. ASSUME /\ UNCHANGED <<convo, msgs, todo>> /\ pc \notin {"idle", "finish"}
               /\ pc' = "finish" => outcome' # "Text"
               /\ pc' # "idle" /\ (pc' \in {"round", "model"} => todo = <<>>)
        PROVE  Correlation'
    BY <2>0, <2>3 DEF Correlation, OpenIds
  <2>4. CASE Round
    <3>1. /\ UNCHANGED <<convo, msgs, todo>> /\ pc = "round" /\ pc' \in {"model", "finish"}
          /\ pc' = "finish" => outcome' # "Text"
      BY <2>4 DEF Round, RoundCap, RoundCancelled, RoundRequest, Stop
    <3> QED BY <2>3, <3>1 DEF Correlation
  <2>5. CASE ModelFails
    BY <2>3, <2>5 DEF ModelFails, Stop
  <2>6. CASE ModelText
    <3>1. Assistant(<<>>).ids = <<>> /\ Assistant(<<>>) \in Message
      BY MessageTypes DEF Assistant
    <3>2. todo = <<>> /\ Correlated(msgs, {})
      BY <2>0, <2>6 DEF ModelText, Correlation
    <3>3. Correlated(msgs', {})
      BY <2>0, <2>6, <3>1, <3>2, AppendPlain DEF ModelText
    <3>4. pc' = "finish" /\ todo' = todo /\ convo' = convo
      BY <2>6 DEF ModelText, Stop
    <3> QED BY <3>2, <3>3, <3>4 DEF Correlation
  <2>7. ASSUME NEW calls \in Answer, ModelCalls(calls) PROVE Correlation'
    <3>1. CASE ValidAnswer(calls) /\ NewCalls(calls)
      <4>1. /\ msgs' = Append(msgs, Assistant(CallIds(calls))) /\ todo' = calls
            /\ pc' = "calls" /\ pc = "model" /\ convo' = convo
        BY <2>7, <3>1, Zenon DEF ModelCalls
      <4>2. CallIds(calls) \in Seq(RawIds) /\ DOMAIN CallIds(calls) = DOMAIN calls
            /\ \A p \in DOMAIN calls : CallIds(calls)[p] = calls[p].id
        BY AnswerType DEF CallIds
      <4>3. /\ \A p \in DOMAIN calls : calls[p].id # EmptyId
            /\ \A p, q \in DOMAIN calls : calls[p].id = calls[q].id => p = q
            /\ \A p \in DOMAIN calls, i \in DOMAIN msgs : calls[p].id \notin Called(msgs[i])
        BY <3>1, Zenon DEF ValidAnswer, NewCalls
      <4>4. Correlated(msgs, {})
        BY <2>0, <4>1 DEF Correlation
      <4>5. Correlated(msgs', {CallIds(calls)[p] : p \in DOMAIN CallIds(calls)})
        <5> DEFINE ids == CallIds(calls)
        <5>1. /\ \A p \in DOMAIN ids : ids[p] # EmptyId
              /\ \A p, q \in DOMAIN ids : ids[p] = ids[q] => p = q
              /\ \A p \in DOMAIN ids, i \in DOMAIN msgs : ids[p] \notin Called(msgs[i])
          BY <4>2, <4>3
        <5>2. ids \in Seq(RawIds) /\ msgs' = Append(msgs, Assistant(ids))
          BY <4>1, <4>2
        <5> HIDE DEF ids
        <5>3. Correlated(Append(msgs, Assistant(ids)), {ids[p] : p \in DOMAIN ids})
          BY <2>0, <4>4, <5>1, <5>2, AppendCalls
        <5> QED BY <5>2, <5>3 DEF ids
      <4>6. {CallIds(calls)[p] : p \in DOMAIN CallIds(calls)} = OpenIds'
        BY <4>1, <4>2 DEF OpenIds
      <4> QED BY <4>1, <4>3, <4>5, <4>6 DEF Correlation
    <3>2. CASE ~(ValidAnswer(calls) /\ NewCalls(calls))
      <4>1. /\ pc' = "finish" /\ outcome' = "Error" /\ pc = "model"
            /\ UNCHANGED <<convo, msgs, todo>>
        BY <2>7, <3>2, Zenon DEF ModelCalls, Stop
      <4> QED BY <2>3, <4>1
    <3> QED BY <3>1, <3>2
  <2>8. CASE CallsResolved \/ CallCancelled \/ CallAsksApproval \/ CallStarts
    BY <2>3, <2>8 DEF CallsResolved, CallCancelled, CallAsksApproval, CallStarts,
                      EmitStart, Stop
  <2>9. CASE Allow \/ ApprovalCancelled \/ DispatchAdmitted \/ ToolBegins
    BY <2>3, <2>9 DEF Allow, ApprovalCancelled, DispatchAdmitted, ToolBegins,
                      EmitStart, Stop
  <2>10. CASE CallPolicyDenied \/ Deny \/ DispatchRefused \/ ToolEnds
    <3>1. /\ pc \in {"calls", "approve", "dispatch", "running"} /\ todo # <<>>
          /\ msgs' = Append(msgs, Tool(Head(todo).id)) /\ todo' = Tail(todo)
          /\ convo' = convo
          /\ pc' = "calls" \/ (pc' = "finish" /\ outcome' # "Text")
      BY <2>10 DEF CallPolicyDenied, Deny, DispatchRefused, ToolEnds, RecordOutcome,
                   Stop, CallPending
    <3> QED BY <2>2, <3>1
  <2>11. CASE Finish
    <3>1. /\ pc' = "idle" /\ todo' = todo
          /\ convo' = convo \/ (convo' = msgs /\ WellFormed(msgs))
      BY <2>11, Zenon DEF Finish
    <3> QED BY <3>1 DEF Correlation
  <2>12. CASE Cancel \/ DeadlinePasses \/ UNCHANGED vars
    BY <2>12 DEF Cancel, DeadlinePasses, vars, Correlation, OpenIds
  <2> QED BY <2>1, <2>4, <2>5, <2>6, <2>7, <2>8, <2>9, <2>10, <2>11, <2>12
          DEF Next, Model, CallStep, Dispatch, ToolStep
<1> QED BY <1>1, <1>2, TypeCorrect, PTL DEF Spec

\* A turn that reached its final text always commits: Conversation::from_messages
\* cannot reject what the loop has built, on any path through denials, refusals,
\* timeouts and failures.
THEOREM AnswerIsNeverLost == Spec => []FinishedTurnCommits
<1>1. Correlation => FinishedTurnCommits
  BY CorrelatedIsWellFormed DEF Correlation, FinishedTurnCommits
<1> QED BY <1>1, CorrelationInvariant, PTL

-------------------------------------------------------------------------------
(* The turn's events against its transcript.                                  *)

\* What a step does to the events and to what they are about: it begins a turn,
\* starts a call, resolves a call, ends the turn, or adds no event.
LogBegins ==
  /\ pc = "idle" /\ pc' = "round" /\ convo' = convo /\ msgs' = Append(convo, User)
  /\ log' = <<Event("Header", EmptyId), Event("UserMessage", EmptyId)>>

LogStarts ==
  /\ pc \in {"calls", "approve"} /\ pc' = "dispatch" /\ todo # <<>>
  /\ UNCHANGED <<convo, msgs, todo>>
  /\ log' = Append(log, Event("ToolStart", Head(todo).id))

LogResolves ==
  /\ pc \in {"calls", "approve", "dispatch", "running"} /\ pc' \in {"calls", "finish"}
  /\ todo # <<>> /\ todo' = Tail(todo) /\ convo' = convo
  /\ msgs' = Append(msgs, Tool(Head(todo).id))
  /\ \/ log' = Append(log, Event("ToolEnd", Head(todo).id))
     \/ \E id \in RawIds, kind \in {"Diff", "PermissionResolved"} :
          log' = Append(Append(log, Event(kind, id)), Event("ToolEnd", Head(todo).id))

LogEnds ==
  /\ pc = "finish" /\ pc' = "idle"
  /\ \/ log' = Append(log, Event("Done", EmptyId))
     \/ \E kind \in {"Interrupted", "Error"} :
          log' = Append(Append(log, Event(kind, EmptyId)), Event("Done", EmptyId))

LogWaits ==
  /\ UNCHANGED <<turns, log, convo>> /\ (pc' = "idle") = (pc = "idle")
  /\ msgs' = msgs \/ \E m \in Message : m.role # "tool" /\ msgs' = Append(msgs, m)
  /\ pc \in {"dispatch", "running"} => pc' \in {"dispatch", "running"} /\ todo' = todo

LEMMA LogSteps ==
  ASSUME TypeOK, CallPending, [Next]_vars
  PROVE  LogBegins \/ LogStarts \/ LogResolves \/ LogEnds \/ LogWaits
<1>0. /\ EmptyId \in RawIds /\ (todo # <<>> => Head(todo).id \in RawIds)
      /\ log \in Seq(Events)
  BY CallType DEF RawIds, TypeOK
<1>1. ASSUME NEW m \in Modes, StartTurn(m) PROVE LogBegins
  BY <1>1 DEF StartTurn, LogBegins
<1>2. CASE CallStarts \/ Allow
  <2>1. LogStarts
    BY <1>2 DEF CallStarts, Allow, EmitStart, LogStarts, CallPending
  <2> QED BY <2>1
<1>3. ASSUME NEW d, NEW i, RecordOutcome(d, i), todo # <<>>, convo' = convo,
             d \in {<<>>, <<Event("Diff", EmptyId)>>},
             pc \in {"calls", "dispatch", "running"}
      PROVE  LogResolves
  <2>1. Event("Diff", EmptyId) \in Events /\ Event("ToolEnd", Head(todo).id) \in Events
    BY <1>0, <1>3, EventType DEF Kinds
  <2>2. /\ log \o <<>> \o <<Event("ToolEnd", Head(todo).id)>>
             = Append(log, Event("ToolEnd", Head(todo).id))
        /\ log \o <<Event("Diff", EmptyId)>> \o <<Event("ToolEnd", Head(todo).id)>>
             = Append(Append(log, Event("Diff", EmptyId)), Event("ToolEnd", Head(todo).id))
    BY <1>0, <2>1
  <2>3. \/ log' = Append(log, Event("ToolEnd", Head(todo).id))
        \/ log' = Append(Append(log, Event("Diff", EmptyId)), Event("ToolEnd", Head(todo).id))
    BY <1>3, <2>2 DEF RecordOutcome
  <2>4. /\ pc' \in {"calls", "finish"} /\ todo' = Tail(todo)
        /\ msgs' = Append(msgs, Tool(Head(todo).id))
    BY <1>3 DEF RecordOutcome, Stop
  <2> QED BY <1>0, <1>3, <2>3, <2>4 DEF LogResolves
<1>4. CASE CallPolicyDenied \/ DispatchRefused \/ ToolEnds
  <2>1. LogResolves
    BY <1>3, <1>4 DEF CallPolicyDenied, DispatchRefused, ToolEnds, CallPending
  <2> QED BY <2>1
<1>5. CASE Deny
  <2>1. /\ todo # <<>> /\ pc = "approve" /\ pc' = "calls" /\ convo' = convo
        /\ todo' = Tail(todo) /\ msgs' = Append(msgs, Tool(Head(todo).id))
        /\ log' = log \o <<Event("PermissionResolved", Head(todo).id),
                           Event("ToolEnd", Head(todo).id)>>
    BY <1>5 DEF Deny, CallPending
  <2>2. /\ Event("PermissionResolved", Head(todo).id) \in Events
        /\ Event("ToolEnd", Head(todo).id) \in Events
    BY <1>0, <2>1, EventType DEF Kinds
  <2>3. log' = Append(Append(log, Event("PermissionResolved", Head(todo).id)),
                      Event("ToolEnd", Head(todo).id))
    BY <1>0, <2>1, <2>2
  <2>4. LogResolves
    BY <1>0, <2>1, <2>3 DEF LogResolves
  <2> QED BY <2>4
<1>6. CASE Finish
  <2>1. PICK o \in Outcomes : log' = log \o TerminalEvents(o) /\ pc = "finish" /\ pc' = "idle"
    BY <1>6 DEF Finish, TypeOK
  <2>2. \A kind \in {"Interrupted", "Error"} :
          log \o <<Event(kind, EmptyId), Event("Done", EmptyId)>>
            = Append(Append(log, Event(kind, EmptyId)), Event("Done", EmptyId))
    BY <1>0, EventType DEF Kinds
  <2>3. log \o <<Event("Done", EmptyId)>> = Append(log, Event("Done", EmptyId))
    BY <1>0
  <2>4. LogEnds
    BY <2>1, <2>2, <2>3 DEF TerminalEvents, LogEnds
  <2> QED BY <2>4
<1>7. CASE ModelText
  <2>1. Assistant(<<>>) \in Message /\ Assistant(<<>>).role # "tool"
    BY MessageTypes DEF Assistant
  <2>2. LogWaits
    BY <1>7, <2>1 DEF ModelText, Stop, LogWaits
  <2> QED BY <2>2
<1>8. ASSUME NEW calls \in Answer, ModelCalls(calls) PROVE LogWaits
  <2>1. Assistant(CallIds(calls)) \in Message /\ Assistant(CallIds(calls)).role # "tool"
    BY AnswerType, MessageTypes DEF Assistant
  <2>2. /\ pc = "model" /\ pc' # "idle" /\ log' = log /\ convo' = convo /\ turns' = turns
        /\ msgs' = msgs \/ msgs' = Append(msgs, Assistant(CallIds(calls)))
    BY <1>8 DEF ModelCalls, Stop
  <2> QED BY <2>1, <2>2 DEF LogWaits
<1>9. CASE Round \/ ModelFails
  <2>1. LogWaits
    BY <1>9 DEF Round, RoundCap, RoundCancelled, RoundRequest, ModelFails, Stop, LogWaits
  <2> QED BY <2>1
<1>10. CASE CallsResolved \/ CallCancelled \/ CallAsksApproval \/ ApprovalCancelled
  <2>1. LogWaits
    BY <1>10 DEF CallsResolved, CallCancelled, CallAsksApproval, ApprovalCancelled,
                 Stop, LogWaits
  <2> QED BY <2>1
<1>11. CASE DispatchAdmitted \/ ToolBegins \/ Cancel \/ DeadlinePasses \/ UNCHANGED vars
  <2>1. LogWaits
    BY <1>11 DEF DispatchAdmitted, ToolBegins, Cancel, DeadlinePasses, vars, LogWaits
  <2> QED BY <2>1
<1> QED BY <1>1, <1>2, <1>4, <1>5, <1>6, <1>7, <1>8, <1>9, <1>10, <1>11
        DEF Next, Model, CallStep, Dispatch, ToolStep

\* What resolving a call adds: one last event, the end of that call, and one last
\* message, its result; the positions before them keep what they hold.
LEMMA Resolution ==
  ASSUME TypeOK, WorkingCopy, pc # "idle", LogResolves
  PROVE  /\ log' \in Seq(Events) /\ Len(log') \in Nat /\ Len(log) < Len(log')
         /\ \A i \in DOMAIN log : i \in DOMAIN log' /\ log'[i] = log[i]
         /\ \A i \in DOMAIN log' : i > Len(log) /\ i # Len(log') =>
              log'[i].kind \in {"Diff", "PermissionResolved"}
         /\ log'[Len(log')] = Event("ToolEnd", Head(todo).id)
         /\ Ends' = Ends \cup {Len(log')} /\ \A i \in Ends : i < Len(log')
         /\ Results' = Results \cup {Len(msgs) + 1} /\ \A i \in Results : i < Len(msgs) + 1
         /\ \A i \in DOMAIN msgs : msgs'[i] = msgs[i]
         /\ DOMAIN msgs' = DOMAIN msgs \cup {Len(msgs) + 1}
         /\ msgs'[Len(msgs) + 1] = Tool(Head(todo).id)
<1> DEFINE end == Event("ToolEnd", Head(todo).id)
<1>0. /\ log \in Seq(Events) /\ Len(log) \in Nat /\ DOMAIN log = 1..Len(log)
      /\ convo \in Seq(Message) /\ msgs \in Seq(Message) /\ todo \in Seq(Call)
      /\ Len(msgs) \in Nat /\ Len(convo) \in Nat /\ DOMAIN msgs = 1..Len(msgs)
      /\ Len(msgs) > Len(convo) /\ convo' = convo /\ Head(todo).id \in RawIds
  BY CallType DEF TypeOK, WorkingCopy, LogResolves
<1>1. end \in Events /\ end.kind = "ToolEnd"
  BY <1>0, EventType DEF Kinds, Event
<1>2. /\ log' \in Seq(Events) /\ Len(log') \in {Len(log) + 1, Len(log) + 2}
      /\ \A i \in 1..Len(log) : log'[i] = log[i]
      /\ \A i \in 1..Len(log') : i > Len(log) /\ i # Len(log') =>
           log'[i].kind \in {"Diff", "PermissionResolved"}
      /\ log'[Len(log')] = end
  <2>1. CASE log' = Append(log, end)
    BY <1>0, <1>1, <2>1
  <2>2. CASE log' # Append(log, end)
    <3>1. PICK id \in RawIds, kind \in {"Diff", "PermissionResolved"} :
            log' = Append(Append(log, Event(kind, id)), end)
      BY <2>2 DEF LogResolves
    <3>2. Event(kind, id) \in Events /\ Event(kind, id).kind = kind
      BY EventType DEF Kinds, Event
    <3> HIDE DEF end
    <3> QED BY <1>0, <1>1, <3>1, <3>2
  <2> QED BY <2>1, <2>2
<1>3. Ends' = Ends \cup {Len(log')} /\ \A i \in Ends : i < Len(log')
  <2>1. DOMAIN log' = 1..Len(log') /\ Len(log') \in Nat /\ Len(log) < Len(log')
    BY <1>0, <1>2
  <2>2. \A i \in DOMAIN log' : i \in Ends' <=> i \in Ends \/ i = Len(log')
    <3> SUFFICES ASSUME NEW i \in 1..Len(log')
                 PROVE  log'[i].kind = "ToolEnd" <=> i \in Ends \/ i = Len(log')
      BY <2>1 DEF Ends
    <3>1. CASE i \in 1..Len(log)
      BY <1>0, <1>2, <3>1 DEF Ends
    <3>2. CASE i \notin 1..Len(log) /\ i # Len(log')
      <4>1. i > Len(log)
        <5>1. Len(log) \in Nat /\ i \in Nat /\ i >= 1
          BY <1>0, <2>1
        <5> QED BY <3>2, <5>1
      <4>2. log'[i].kind \in {"Diff", "PermissionResolved"}
        BY <1>2, <3>2, <4>1
      <4> QED BY <1>0, <3>2, <4>2 DEF Ends
    <3>3. CASE i = Len(log')
      BY <1>1, <1>2, <3>3
    <3> QED BY <3>1, <3>2, <3>3
  <2>3. Ends \subseteq DOMAIN log' /\ Ends' \subseteq DOMAIN log' /\ Len(log') \in DOMAIN log'
    <3>1. 1..Len(log) \subseteq DOMAIN log' /\ Len(log') \in DOMAIN log'
      BY <1>0, <2>1
    <3> QED BY <1>0, <3>1 DEF Ends
  <2>4. \A i \in Ends : i < Len(log')
    BY <1>0, <1>2 DEF Ends
  <2> QED BY <2>2, <2>3, <2>4
<1>4. /\ DOMAIN msgs' = DOMAIN msgs \cup {Len(msgs) + 1}
      /\ msgs'[Len(msgs) + 1] = Tool(Head(todo).id)
      /\ \A i \in DOMAIN msgs : msgs'[i] = msgs[i] /\ i < Len(msgs) + 1
  <2>1. Tool(Head(todo).id) \in Message /\ msgs' = Append(msgs, Tool(Head(todo).id))
    BY <1>0, MessageTypes DEF LogResolves
  <2> QED BY <1>0, <2>1, AppendedMessage
<1>5. Results' = Results \cup {Len(msgs) + 1} /\ \A i \in Results : i < Len(msgs) + 1
  BY <1>0, <1>4 DEF Results, Tool
<1> QED BY <1>0, <1>2, <1>3, <1>4, <1>5

\* The ToolEnds of a turn are its results, one for one and in order: every path that
\* appends the one appends the other, whichever way the call was resolved.
THEOREM EventsMirror == Spec => []EventsMirrorTranscript
<1>1. Init => EventsMirrorTranscript
  BY DEF Init, EventsMirrorTranscript
<1>2. TypeOK /\ TypeOK' /\ CallPending /\ WorkingCopy /\ EventsMirrorTranscript /\ [Next]_vars
        => EventsMirrorTranscript'
  <2> SUFFICES ASSUME TypeOK, TypeOK', CallPending, WorkingCopy, EventsMirrorTranscript,
                      [Next]_vars, pc' # "idle"
               PROVE  \E g \in [Ends' -> Results'] : Mirrors(g)'
    BY DEF EventsMirrorTranscript
  <2>0. /\ log \in Seq(Events) /\ convo \in Seq(Message) /\ msgs \in Seq(Message)
    BY DEF TypeOK
  <2>1. CASE LogBegins
    <3>1. DOMAIN log' = {1, 2} /\ \A i \in DOMAIN log' : log'[i].kind # "ToolEnd"
      BY <2>1 DEF LogBegins, Event
    <3>2. DOMAIN msgs' = DOMAIN convo \cup {Len(convo) + 1} /\ convo' = convo
          /\ msgs'[Len(convo) + 1] = User /\ \A i \in DOMAIN convo : i < Len(convo) + 1
      BY <2>0, <2>1, MessageTypes DEF LogBegins
    <3>3. Ends' = {} /\ Results' = {}
      BY <2>0, <3>1, <3>2 DEF Ends, Results, User
    <3> DEFINE g == [i \in {} |-> 0]
    <3>4. g \in [Ends' -> Results'] /\ Mirrors(g)'
      BY <3>3 DEF Mirrors
    <3> HIDE DEF g
    <3> QED BY <3>4
  <2>2. CASE LogStarts \/ LogWaits
    <3>1. PICK f \in [Ends -> Results] : Mirrors(f)
      BY <2>2 DEF LogStarts, LogWaits, EventsMirrorTranscript
    <3>2. Ends' = Ends /\ \A i \in Ends : log'[i] = log[i]
      <4>1. CASE log' = log
        BY <4>1 DEF Ends
      <4>2. CASE log' # log
        <5>1. /\ Event("ToolStart", Head(todo).id) \in Events
              /\ log' = Append(log, Event("ToolStart", Head(todo).id))
          BY <2>2, <4>2, CallType, EventType DEF LogStarts, LogWaits, TypeOK, Kinds
        <5> QED BY <2>0, <5>1 DEF Ends, Event
      <4> QED BY <4>1, <4>2
    <3>3. convo' = convo /\ Results' = Results /\ \A i \in Results : msgs'[i] = msgs[i]
      <4>1. CASE msgs' = msgs
        BY <2>2, <4>1 DEF Results, LogStarts, LogWaits
      <4>2. CASE msgs' # msgs
        <5>1. PICK m \in Message : m.role # "tool" /\ msgs' = Append(msgs, m)
          BY <2>2, <4>2 DEF LogStarts, LogWaits
        <5>2. /\ DOMAIN msgs' = DOMAIN msgs \cup {Len(msgs) + 1} /\ msgs'[Len(msgs) + 1] = m
              /\ \A i \in DOMAIN msgs : msgs'[i] = msgs[i]
          BY <2>0, <5>1, AppendedMessage
        <5>3. convo' = convo
          BY <2>2 DEF LogStarts, LogWaits
        <5> QED BY <5>1, <5>2, <5>3 DEF Results
      <4> QED BY <4>1, <4>2
    <3>4. Mirrors(f)'
      BY <3>1, <3>2, <3>3 DEF Mirrors
    <3> QED BY <3>1, <3>2, <3>3, <3>4
  <2>3. CASE LogResolves
    <3>0. pc # "idle"
      BY <2>3 DEF LogResolves
    <3>1. PICK f \in [Ends -> Results] : Mirrors(f)
      BY <3>0 DEF EventsMirrorTranscript
    <3> DEFINE last == Len(log')
               new == Len(msgs) + 1
               g == [i \in Ends' |-> IF i = last THEN new ELSE f[i]]
    <3>2. /\ Ends' = Ends \cup {last} /\ \A i \in Ends : i < last
          /\ Results' = Results \cup {new} /\ \A i \in Results : i < new
          /\ \A i \in Ends : log'[i] = log[i]
          /\ log'[last] = Event("ToolEnd", Head(todo).id)
          /\ \A i \in Results : msgs'[i] = msgs[i]
          /\ msgs'[new] = Tool(Head(todo).id)
          /\ last \in Nat /\ new \in Nat /\ Ends \subseteq Nat /\ Results \subseteq Nat
      BY <2>0, <2>3, <3>0, Resolution DEF Ends, Results
    <3>3. Event("ToolEnd", Head(todo).id).id = Head(Tool(Head(todo).id).ids)
      BY DEF Event, Tool
    <3> HIDE DEF last, new
    <3>4. g \in [Ends' -> Results'] /\ g[last] = new /\ \A i \in Ends : g[i] = f[i]
      BY <3>1, <3>2
    <3> HIDE DEF g
    <3>5. {g[i] : i \in Ends'} = Results'
      <4>1. {f[i] : i \in Ends} = Results
        BY <3>1 DEF Mirrors
      <4>2. Results' \subseteq {g[i] : i \in Ends'}
        BY <3>2, <3>4, <4>1
      <4> QED BY <3>4, <4>2
    <3>6. \A i \in Ends' : log'[i].id = Head(msgs'[g[i]].ids)
      <4>1. \A i \in Ends : log[i].id = Head(msgs[f[i]].ids) /\ f[i] \in Results
        BY <3>1 DEF Mirrors
      <4> SUFFICES ASSUME NEW i \in Ends' PROVE log'[i].id = Head(msgs'[g[i]].ids)
        OBVIOUS
      <4>2. CASE i \in Ends
        BY <3>2, <3>4, <4>1, <4>2
      <4>3. CASE i = last
        <5>1. log'[last].id = Head(Tool(Head(todo).id).ids) /\ msgs'[g[last]] = Tool(Head(todo).id)
          BY <3>2, <3>3, <3>4
        <5> QED BY <4>3, <5>1
      <4> QED BY <3>2, <4>2, <4>3
    <3>7. \A i, j \in Ends' : i < j => g[i] < g[j]
      <4> SUFFICES ASSUME NEW i \in Ends', NEW j \in Ends', i < j PROVE g[i] < g[j]
        OBVIOUS
      <4>0. last \notin Ends /\ i \in Ends \cup {last} /\ j \in Ends \cup {last}
        BY <3>2
      <4>1. i \in Ends /\ f[i] \in Results
        BY <3>1, <3>2, <4>0
      <4>2. CASE j \in Ends
        BY <3>1, <3>4, <4>1, <4>2 DEF Mirrors
      <4>3. CASE j = last
        BY <3>2, <3>4, <4>1, <4>3
      <4> QED BY <3>2, <4>2, <4>3
    <3> QED BY <3>4, <3>5, <3>6, <3>7 DEF Mirrors
  <2>4. ~LogEnds
    BY DEF LogEnds
  <2> QED BY <2>1, <2>2, <2>3, <2>4, LogSteps
<1> QED BY <1>1, <1>2, TypeCorrect, WorkingCopyInvariant, PTL DEF Spec

Final == {"Done", "Interrupted", "Error"}
ClosedAfter(i) == \E j \in (i + 1)..Len(log) : log[j] = Event("ToolEnd", log[i].id)

\* While a turn runs: nothing final is emitted; an end is of a call that is answered,
\* and no call has two; a start is closed, or it is that of the call being run.
Ledger ==
  pc # "idle" =>
    /\ \A i \in DOMAIN log : log[i].kind \notin Final
    /\ \A i \in Ends : \E j \in DOMAIN msgs : log[i].id \in Answered(msgs[j])
    /\ \A i, j \in Ends : log[i].id = log[j].id => i = j
    /\ \A i \in DOMAIN log : log[i].kind = "ToolStart" =>
         \/ ClosedAfter(i)
         \/ pc \in {"dispatch", "running"} /\ log[i].id = Head(todo).id

LEMMA TwoAppended ==
  ASSUME NEW S, NEW s \in Seq(S), NEW a \in S, NEW b \in S
  PROVE  /\ Len(Append(Append(s, a), b)) = Len(s) + 2
         /\ \A i \in 1..Len(s) : Append(Append(s, a), b)[i] = s[i]
         /\ Append(Append(s, a), b)[Len(s) + 1] = a
         /\ Append(Append(s, a), b)[Len(s) + 2] = b
OBVIOUS

\* What stays closed when the log grows.
LEMMA StaysClosed ==
  ASSUME log \in Seq(Events), log' \in Seq(Events), Len(log) <= Len(log'),
         \A i \in DOMAIN log : log'[i] = log[i],
         NEW i \in DOMAIN log, ClosedAfter(i)
  PROVE  ClosedAfter(i)'
<1>1. PICK j \in (i + 1)..Len(log) : log[j] = Event("ToolEnd", log[i].id)
  BY DEF ClosedAfter
<1>2. /\ Len(log) \in Nat /\ Len(log') \in Nat /\ DOMAIN log = 1..Len(log)
      /\ j \in DOMAIN log /\ j \in (i + 1)..Len(log')
  BY <1>1
<1> QED BY <1>1, <1>2 DEF ClosedAfter

\* Every turn, whichever way it left the loop, leaves a log that can be closed: each
\* start was ended exactly once, and the one Done is the last event.
THEOREM TurnsAreClosed == Spec => []TurnIsClosed
<1> DEFINE IInv == Ledger /\ TurnIsClosed
<1>1. Init => IInv
  BY DEF Init, Ledger, TurnIsClosed, StartsAreClosed, OneTerminal
<1>2. TypeOK /\ TypeOK' /\ CallPending /\ WorkingCopy /\ Correlation /\ IInv /\ [Next]_vars => IInv'
  <2> SUFFICES ASSUME TypeOK, TypeOK', CallPending, WorkingCopy, Correlation, IInv,
                      [Next]_vars
               PROVE  IInv'
    OBVIOUS
  <2>0. /\ log \in Seq(Events) /\ log' \in Seq(Events) /\ msgs \in Seq(Message)
        /\ todo \in Seq(Call) /\ EmptyId \in RawIds
        /\ Len(log) \in Nat /\ DOMAIN log = 1..Len(log)
        /\ Len(log') \in Nat /\ DOMAIN log' = 1..Len(log')
        /\ turns \in Nat
    BY DEF TypeOK, RawIds
  <2>1. CASE LogBegins
    <3>1. /\ DOMAIN log' = {1, 2} /\ pc' # "idle"
          /\ \A i \in DOMAIN log' : log'[i].kind \in {"Header", "UserMessage"}
      BY <2>1 DEF LogBegins, Event
    <3>2. Ends' = {}
      BY <3>1 DEF Ends
    <3> QED BY <3>1, <3>2 DEF Ledger, TurnIsClosed, StartsAreClosed, OneTerminal, Final
  <2>2. CASE LogStarts
    <3> DEFINE start == Event("ToolStart", Head(todo).id)
    <3>1. /\ pc # "idle" /\ pc' = "dispatch" /\ todo' = todo /\ msgs' = msgs
          /\ log' = Append(log, start) /\ pc \notin {"dispatch", "running"}
      BY <2>2 DEF LogStarts
    <3>2. start \in Events /\ start.kind = "ToolStart" /\ start.id = Head(todo).id
      BY <2>0, <2>2, CallType, EventType DEF Kinds, Event, LogStarts
    <3> HIDE DEF start
    <3>3. /\ Len(log') = Len(log) + 1 /\ log'[Len(log')] = start
          /\ \A i \in DOMAIN log : log'[i] = log[i]
          /\ \A i \in DOMAIN log' : i \in DOMAIN log \/ i = Len(log')
      BY <2>0, <3>1, <3>2
    <3>4. Ends' = Ends
      BY <2>0, <3>2, <3>3 DEF Ends
    <3>5. \A i \in DOMAIN log' : log'[i].kind \notin Final
      BY <3>1, <3>2, <3>3 DEF Ledger, Final
    <3>6. /\ \A i \in Ends' : \E j \in DOMAIN msgs' : log'[i].id \in Answered(msgs'[j])
          /\ \A i, j \in Ends' : log'[i].id = log'[j].id => i = j
      <4>1. \A i \in Ends : log'[i] = log[i]
        BY <3>3 DEF Ends
      <4>2. \A i \in Ends : \E j \in DOMAIN msgs : log[i].id \in Answered(msgs[j])
        BY <3>1 DEF Ledger
      <4>3. \A i, j \in Ends : log[i].id = log[j].id => i = j
        BY <3>1 DEF Ledger
      <4>4. \A i \in Ends' : \E j \in DOMAIN msgs' : log'[i].id \in Answered(msgs'[j])
        <5> SUFFICES ASSUME NEW i \in Ends
                     PROVE  \E j \in DOMAIN msgs : log[i].id \in Answered(msgs[j])
          BY <3>1, <3>4, <4>1
        <5> QED BY <4>2
      <4>5. \A i, j \in Ends' : log'[i].id = log'[j].id => i = j
        BY <3>4, <4>1, <4>3
      <4> QED BY <4>4, <4>5
    <3>7. ASSUME NEW i \in DOMAIN log', log'[i].kind = "ToolStart"
          PROVE  ClosedAfter(i)' \/ log'[i].id = Head(todo').id
      <4>1. CASE i \in DOMAIN log
        <5>1. ClosedAfter(i)
          BY <3>1, <3>3, <3>7, <4>1 DEF Ledger
        <5>2. Len(log) <= Len(log')
          BY <2>0, <3>3
        <5> QED BY <2>0, <3>3, <4>1, <5>1, <5>2, StaysClosed
      <4>2. CASE i = Len(log')
        BY <3>1, <3>2, <3>3, <4>2
      <4> QED BY <3>3, <4>1, <4>2
    <3> QED BY <3>1, <3>5, <3>6, <3>7 DEF Ledger, TurnIsClosed, StartsAreClosed, OneTerminal
  <2>3. CASE LogResolves
    <3> DEFINE id == Head(todo).id
               last == Len(log')
    <3>1. /\ pc # "idle" /\ pc \notin {"finish", "idle"} /\ pc' \in {"calls", "finish"}
          /\ todo # <<>> /\ todo' = Tail(todo)
      BY <2>3 DEF LogResolves
    <3>2. /\ last \in Nat /\ Len(log) < last
          /\ \A i \in DOMAIN log : i \in DOMAIN log' /\ log'[i] = log[i]
          /\ \A i \in DOMAIN log' : i > Len(log) /\ i # last =>
               log'[i].kind \in {"Diff", "PermissionResolved"}
          /\ log'[last] = Event("ToolEnd", id)
          /\ Ends' = Ends \cup {last} /\ \A i \in Ends : i < last
          /\ \A i \in DOMAIN msgs : msgs'[i] = msgs[i]
          /\ DOMAIN msgs' = DOMAIN msgs \cup {Len(msgs) + 1}
          /\ msgs'[Len(msgs) + 1] = Tool(id)
      BY <2>3, <3>1, Resolution
    <3>3. \A j \in DOMAIN msgs : id \notin Answered(msgs[j])
      <4>1. id \in OpenIds
        BY <2>0, <3>1 DEF OpenIds
      <4>2. Correlated(msgs, OpenIds)
        BY <3>1 DEF Correlation, TypeOK
      <4> QED BY <4>1, <4>2 DEF Correlated
    <3>4. Event("ToolEnd", id).kind = "ToolEnd" /\ Event("ToolEnd", id).id = id
          /\ Answered(Tool(id)) = {id}
      BY DEF Event, Tool, Answered
    <3>5. /\ last \in DOMAIN log' /\ DOMAIN log \subseteq DOMAIN log'
          /\ \A i \in DOMAIN log' : \/ i \in DOMAIN log \/ i = last
                                    \/ log'[i].kind \in {"Diff", "PermissionResolved"}
      BY <2>0, <3>2
    <3>6. Ends \subseteq DOMAIN log
      BY DEF Ends
    <3> HIDE DEF id, last
    <3>7. \A i \in DOMAIN log' : log'[i].kind \notin Final
      BY <3>1, <3>2, <3>4, <3>5 DEF Ledger, Final
    <3>8. \A i \in Ends' : \E j \in DOMAIN msgs' : log'[i].id \in Answered(msgs'[j])
      BY <3>1, <3>2, <3>4, <3>6 DEF Ledger
    <3>9. \A i, j \in Ends' : log'[i].id = log'[j].id => i = j
      BY <3>1, <3>2, <3>3, <3>4, <3>6 DEF Ledger
    <3>10. ASSUME NEW i \in DOMAIN log', log'[i].kind = "ToolStart" PROVE ClosedAfter(i)'
      <4>1. i \in DOMAIN log /\ log[i].kind = "ToolStart"
        BY <3>2, <3>4, <3>5, <3>10
      <4>2. CASE ClosedAfter(i)
        BY <2>0, <3>2, <4>1, <4>2, StaysClosed DEF last
      <4>3. CASE log[i].id = Head(todo).id
        <5>1. last \in (i + 1)..Len(log')
          BY <2>0, <3>2, <4>1 DEF last
        <5>2. log'[last] = Event("ToolEnd", log'[i].id)
          BY <3>2, <4>1, <4>3 DEF id
        <5> QED BY <5>1, <5>2 DEF ClosedAfter
      <4> QED BY <3>1, <4>1, <4>2, <4>3 DEF Ledger
    <3> QED BY <3>1, <3>7, <3>8, <3>9, <3>10
            DEF Ledger, TurnIsClosed, StartsAreClosed, OneTerminal
  <2>4. CASE LogEnds
    <3>1. pc = "finish" /\ pc' = "idle"
      BY <2>4 DEF LogEnds
    <3>2. /\ Len(log) < Len(log')
          /\ \A i \in DOMAIN log : i \in DOMAIN log' /\ log'[i] = log[i]
          /\ log'[Len(log')].kind = "Done"
          /\ \A i \in DOMAIN log' : i \notin DOMAIN log =>
               i = Len(log') \/ (i = Len(log') - 1 /\ log'[i].kind \in {"Interrupted", "Error"})
      <4> DEFINE done == Event("Done", EmptyId)
      <4>1. done \in Events /\ done.kind = "Done"
        BY <2>0, EventType DEF Kinds, Event
      <4>2. CASE log' = Append(log, done)
        <5> HIDE DEF done
        <5>1. /\ Len(log') = Len(log) + 1 /\ log'[Len(log) + 1] = done
              /\ \A i \in DOMAIN log : log'[i] = log[i]
          BY <2>0, <4>1, <4>2
        <5> QED BY <2>0, <4>1, <5>1
      <4>3. CASE log' # Append(log, done)
        <5>1. PICK kind \in {"Interrupted", "Error"} :
                log' = Append(Append(log, Event(kind, EmptyId)), done)
          BY <2>4, <4>3 DEF LogEnds
        <5> DEFINE why == Event(kind, EmptyId)
        <5>2. why \in Events /\ why.kind = kind /\ log' = Append(Append(log, why), done)
          BY <2>0, <5>1, EventType DEF Kinds, Event
        <5> HIDE DEF done, why
        <5>3. /\ Len(log') = Len(log) + 2 /\ log'[Len(log) + 1] = why
              /\ log'[Len(log) + 2] = done /\ \A i \in DOMAIN log : log'[i] = log[i]
          BY <2>0, <4>1, <5>2, TwoAppended
        <5> QED BY <2>0, <4>1, <5>2, <5>3
      <4> QED BY <4>2, <4>3
    <3>4. \A i \in DOMAIN log' : i \notin DOMAIN log => log'[i].kind \in Final
      BY <3>2 DEF Final
    <3>5. \A i \in DOMAIN log : log[i].kind \notin Final
      BY <3>1 DEF Ledger
    <3>6. OneTerminal'
      <4>1. \A i \in 1..(Len(log') - 1) : log'[i].kind # "Done"
        <5>1. \A i \in DOMAIN log' : i # Len(log') => log'[i].kind # "Done"
          BY <3>2, <3>5 DEF Final
        <5>2. Len(log') \in Nat /\ DOMAIN log' = 1..Len(log')
          BY <2>0
        <5>3. \A i \in 1..(Len(log') - 1) : i \in DOMAIN log' /\ i # Len(log')
          <6>1. ASSUME NEW n \in Nat, NEW i \in 1..(n - 1) PROVE i \in 1..n /\ i # n
            OBVIOUS
          <6> QED BY <5>2, <6>1
        <5> QED BY <5>1, <5>3
      <4>2. \A i \in DOMAIN log' : log'[i].kind \in {"Interrupted", "Error"} => i = Len(log') - 1
        BY <2>0, <3>2, <3>5 DEF Final
      <4> QED BY <3>2, <4>1, <4>2 DEF OneTerminal
    <3>7. StartsAreClosed'
      <4> SUFFICES ASSUME NEW i \in DOMAIN log', log'[i].kind = "ToolStart"
                   PROVE  \E j \in (i + 1)..Len(log') :
                            /\ log'[j] = Event("ToolEnd", log'[i].id)
                            /\ \A k \in DOMAIN log' : log'[k] = log'[j] => k = j
        BY DEF StartsAreClosed
      <4>1. i \in DOMAIN log /\ log'[i] = log[i]
        BY <3>2, <3>4 DEF Final
      <4>2. PICK j \in (i + 1)..Len(log) : log[j] = Event("ToolEnd", log[i].id)
        BY <3>1, <4>1 DEF Ledger, ClosedAfter
      <4>3. j \in DOMAIN log /\ j \in (i + 1)..Len(log') /\ log'[j] = log[j]
        <5>1. i \in Nat /\ i >= 1
          BY <2>0, <4>1
        <5>2. j \in DOMAIN log
          BY <2>0, <4>2, <5>1
        <5> QED BY <2>0, <3>2, <4>2, <5>1, <5>2
      <4>4. log[j].kind = "ToolEnd"
        BY <4>2 DEF Event
      <4>5. ASSUME NEW k \in DOMAIN log', log'[k] = log'[j] PROVE k = j
        <5>1. k \in DOMAIN log /\ log[k] = log[j]
          BY <3>2, <3>4, <4>3, <4>4, <4>5 DEF Final
        <5> QED BY <3>1, <4>3, <4>4, <5>1 DEF Ledger, Ends
      <4> QED BY <4>1, <4>2, <4>3, <4>5
    <3> QED BY <3>1, <3>6, <3>7 DEF Ledger, TurnIsClosed
  <2>5. CASE LogWaits
    <3>1. log' = log /\ turns' = turns /\ (pc' = "idle" <=> pc = "idle") /\ Ends' = Ends
      BY <2>5 DEF LogWaits, Ends
    <3>2. \A i : ClosedAfter(i)' <=> ClosedAfter(i)
      BY <3>1 DEF ClosedAfter
    <3>3. TurnIsClosed'
      BY <3>1 DEF TurnIsClosed, StartsAreClosed, OneTerminal
    <3>4. \A j \in DOMAIN msgs : j \in DOMAIN msgs' /\ msgs'[j] = msgs[j]
      BY <2>0, <2>5 DEF LogWaits
    <3>5. pc \in {"dispatch", "running"} => pc' \in {"dispatch", "running"} /\ todo' = todo
      BY <2>5 DEF LogWaits
    <3>6. Ledger'
      BY <3>1, <3>2, <3>4, <3>5 DEF Ledger
    <3> QED BY <3>3, <3>6
  <2> QED BY <2>1, <2>2, <2>3, <2>4, <2>5, LogSteps
<1> QED BY <1>1, <1>2, TypeCorrect, WorkingCopyInvariant, CorrelationInvariant, PTL DEF Spec
===============================================================================
