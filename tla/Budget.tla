-------------------------------- MODULE Budget --------------------------------
(***************************************************************************)
(* The token budgets of the model router (crates/darius-daemon/src/        *)
(* model_router/budget) and the requests that draw on them: a request      *)
(* reserves its estimated input and its output cap before it is sent, and  *)
(* settles afterwards with what the provider reported, with the whole      *)
(* reservation, or with nothing if it was never dispatched.  Requests of   *)
(* several clients of one enforcer interleave; each action is one critical *)
(* section of the budgets mutex, or none.                                  *)
(***************************************************************************)
EXTENDS Integers, FiniteSets

CONSTANTS
  Scopes,    \* the scopes the enforcer has a budget for
  Limit,     \* per scope, its limit
  Requests,  \* one for every call of complete or complete_stream
  MaxU64,    \* u64::MAX
  Inputs,    \* input estimates, at least one token
  Outputs,   \* output caps of the backends
  Reports,   \* totals a provider may report
  Prompts,   \* estimates of the requests the stub answers
  MaxStubs   \* bound on those requests

ASSUME BudgetAssumption ==
  /\ MaxU64 \in Nat /\ MaxStubs \in Nat /\ IsFiniteSet(Requests)
  /\ Limit \in [Scopes -> 0..MaxU64]
  /\ Inputs \subseteq 1..MaxU64 /\ Outputs \subseteq 1..MaxU64
  /\ Reports \subseteq 0..MaxU64 /\ Prompts \subseteq 0..MaxU64
  /\ \A s \in Scopes : 2 * Limit[s] < MaxU64   \* far below the range of the counter

VARIABLES
  used,      \* per scope, the tokens counted as used
  request,   \* per request, its reservation and how far it has come
  bill,      \* per settled request, what it was charged
  stubs      \* the estimates the stub has charged, per scope, and their number

vars == <<used, request, bill, stubs>>

Phases == {"idle", "reserved", "dispatched", "sent", "settled", "refused"}
NoScope == "none"
Idle == [phase |-> "idle", scope |-> NoScope, reserved |-> 0, output |-> 0,
         dispatched |-> FALSE, sent |-> FALSE]

Init ==
  /\ used = [s \in Scopes |-> 0]
  /\ request = [q \in Requests |-> Idle]
  /\ bill = [q \in Requests |-> 0]
  /\ stubs = [count |-> 0, total |-> [s \in Scopes |-> 0]]

-------------------------------------------------------------------------------
(* Arithmetic of the counters.                                               *)

Least(a, b) == IF a < b THEN a ELSE b
Most(a, b) == IF a > b THEN a ELSE b
SatAdd(a, b) == Least(a + b, MaxU64)
SatSub(a, b) == Most(a - b, 0)

Available(s) == SatSub(Limit[s], used[s])

-------------------------------------------------------------------------------
(* Reservations.                                                             *)

\* At least one token of output must fit besides the input.
Fits(s, input) == SatAdd(input, 1) <= Available(s)

\* Mutant: the whole output cap is granted.
GrantedUnclamped(s, input, desired) == desired

Granted(s, input, desired) == Least(desired, Available(s) - input)

Reserve(q, s, input, desired) ==
  LET output == Granted(s, input, desired)
      reserved == input + output
  IN /\ request[q].phase = "idle"
     /\ Fits(s, input)
     /\ used' = [used EXCEPT ![s] = @ + reserved]
     /\ request' = [request EXCEPT ![q] =
                      [phase |-> "reserved", scope |-> s, reserved |-> reserved,
                       output |-> output, dispatched |-> FALSE, sent |-> FALSE]]
     /\ UNCHANGED <<bill, stubs>>

\* Too little left, or no budget for the scope at all.
Refuse(q, s, input) ==
  /\ request[q].phase = "idle"
  /\ s \in Scopes => ~Fits(s, input)
  /\ request' = [request EXCEPT ![q].phase = "refused"]
  /\ UNCHANGED <<used, bill, stubs>>

\* What settling makes of the counter: the reservation out, the actual cost in.
ReplaceReserved(r, actual) ==
  used' = [used EXCEPT ![r.scope] = SatAdd(SatSub(@, r.reserved), actual)]

\* Reconciliation never lets a dispatched request go for nothing.
Reconciled(r, reported) == Most(reported, IF r.dispatched THEN 1 ELSE 0)

Settle(q) == request' = [request EXCEPT ![q].phase = "settled"]

-------------------------------------------------------------------------------
(* A request.                                                                *)

\* The select polls the cancellation first: a request that is already cancelled
\* is dropped before its fetch runs, and its reservation is released.
DropUndispatched(q) ==
  /\ request[q].phase = "reserved"
  /\ ReplaceReserved(request[q], 0)
  /\ Settle(q)
  /\ bill' = [bill EXCEPT ![q] = 0]
  /\ UNCHANGED stubs

\* The first poll of the fetch marks the reservation before anything else.
MarkDispatched(q) ==
  /\ request[q].phase = "reserved"
  /\ request' = [request EXCEPT ![q].phase = "dispatched", ![q].dispatched = TRUE]
  /\ UNCHANGED <<used, bill, stubs>>

\* Credentials are resolved inside the fetch; then the body goes out.
Send(q) ==
  /\ request[q].phase = "dispatched"
  /\ request' = [request EXCEPT ![q].phase = "sent", ![q].sent = TRUE]
  /\ UNCHANGED <<used, bill, stubs>>

\* The answer decoded and reported its usage; an event stream of the Anthropic
\* backend always does, as zero when no usage event was in it.
AnswerMetered(q, reported) ==
  /\ request[q].phase = "sent"
  /\ ReplaceReserved(request[q], Reconciled(request[q], reported))
  /\ Settle(q)
  /\ bill' = [bill EXCEPT ![q] = Most(reported, 1)]
  /\ UNCHANGED stubs

\* Everything else after dispatch keeps the reservation as the charge: an
\* answer without usage, an error status, an undecodable body, failed
\* authentication, cancellation, the deadline, and a future dropped by unwinding.
KeepReserved(q) ==
  /\ request[q].phase \in {"dispatched", "sent"}
  /\ Settle(q)
  /\ bill' = [bill EXCEPT ![q] = request[q].reserved]
  /\ UNCHANGED <<used, stubs>>

\* A route without an API key is answered by the stub, for an estimate.
ChargeStub(s, tokens) ==
  /\ stubs.count < MaxStubs
  /\ SatAdd(used[s], tokens) <= Limit[s]
  /\ used' = [used EXCEPT ![s] = SatAdd(@, tokens)]
  /\ stubs' = [count |-> stubs.count + 1, total |-> [stubs.total EXCEPT ![s] = @ + tokens]]
  /\ UNCHANGED <<request, bill>>

Next ==
  \/ \E q \in Requests, s \in Scopes, input \in Inputs, desired \in Outputs :
       Reserve(q, s, input, desired)
  \/ \E q \in Requests, s \in Scopes \cup {NoScope}, input \in Inputs : Refuse(q, s, input)
  \/ \E q \in Requests :
       DropUndispatched(q) \/ MarkDispatched(q) \/ Send(q) \/ KeepReserved(q)
  \/ \E q \in Requests, reported \in Reports : AnswerMetered(q, reported)
  \/ \E s \in Scopes, tokens \in Prompts : ChargeStub(s, tokens)

Spec == Init /\ [][Next]_vars

-------------------------------------------------------------------------------
(* Properties.                                                               *)

Open == {q \in Requests : request[q].phase \in {"reserved", "dispatched", "sent"}}
Settled == {q \in Requests : request[q].phase = "settled"}

\* Types; and a provider is never asked for an answer of no tokens.
TypeOK ==
  /\ used \in [Scopes -> 0..MaxU64]
  /\ request \in [Requests -> [phase : Phases, scope : Scopes \cup {NoScope},
                               reserved : 0..MaxU64, output : 0..MaxU64,
                               dispatched : BOOLEAN, sent : BOOLEAN]]
  /\ bill \in [Requests -> 0..MaxU64]
  /\ stubs.count \in 0..MaxStubs /\ stubs.total \in [Scopes -> Nat]
  /\ \A q \in Open : request[q].scope \in Scopes /\ request[q].output >= 1

\* What the requests of f come to: the tokens of each, counted one by one.
Sum(f) == Cardinality(UNION {{q} \X (1..f[q]) : q \in Requests})

\* What the requests of a scope hold while they are open, and were charged when they
\* are settled.
Held(s) ==
  [q \in Requests |-> IF request[q].scope = s /\ q \in Open THEN request[q].reserved ELSE 0]
Charged(s) ==
  [q \in Requests |-> IF request[q].scope = s /\ q \in Settled THEN bill[q] ELSE Held(s)[q]]

Owed(s) == stubs.total[s] + Sum(Charged(s))

\* However reservations, settlements and stub charges interleave, the counter is
\* exactly what they add up to, or the scope is exhausted: a sum that left the
\* range of the counter never reopens the budget.
Accounted ==
  \A s \in Scopes :
    /\ used[s] <= Owed(s)
    /\ used[s] = Owed(s) \/ used[s] > Limit[s]

Overrun(s) ==
  [q \in Requests |-> IF request[q].scope = s /\ q \in Settled
                      THEN SatSub(bill[q], request[q].reserved) ELSE 0]

\* Concurrent requests never overspend a budget together: it is exceeded by no
\* more than what providers reported beyond the reservations.
OverrunIsReported == \A s \in Scopes : used[s] <= Limit[s] + Sum(Overrun(s))

\* The counter against what was reserved and billed, alone and together.
BudgetHolds == Accounted /\ OverrunIsReported

-------------------------------------------------------------------------------
(* The inductive invariant of BudgetHolds.                                    *)

\* What is held fits the limit.  A counter that lost tokens to saturation stays above
\* the limit even when all that is held is released: that is what twice the limit
\* under the range of the counter is for.
Covered(s) ==
  /\ Sum(Held(s)) <= used[s] /\ Sum(Held(s)) <= Limit[s]
  /\ used[s] <= Owed(s)
  /\ used[s] = Owed(s) \/ used[s] >= MaxU64 - Limit[s] + Sum(Held(s))
  /\ used[s] <= Limit[s] + Sum(Overrun(s))

IInv ==
  /\ TypeOK
  /\ \A q \in Requests : request[q].phase \in {"dispatched", "sent"} => request[q].dispatched
  /\ \A s \in Scopes : Covered(s)
===============================================================================
