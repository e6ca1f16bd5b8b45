----------------------------- MODULE Clients_proofs -----------------------------
(***************************************************************************)
(* Theorems about what a session asks models with, for any callers,        *)
(* processes, models, requests and limits: what is shown of each component *)
(* by the inductive invariant of its module holds of every behaviour that  *)
(* runs it.                                                                *)
(***************************************************************************)
EXTENDS MCClients, FiniteSetTheorems, SequenceTheorems, WellFoundedInduction, TLAPS

-------------------------------------------------------------------------------
(* The arithmetic of the budgets: the plain additions and subtractions of     *)
(* reserve never leave u64, and whatever a request is granted is worth        *)
(* sending.                                                                   *)

\* What a limit is.
LEMMA LimitType ==
  ASSUME NEW s \in Scopes
  PROVE  Limit[s] \in Nat /\ MaxU64 \in Nat /\ 2 * Limit[s] < MaxU64
BY BudgetAssumption

\* Saturating sums and differences are 64-bit numbers.
LEMMA SaturationBounds ==
  ASSUME NEW a \in 0..MaxU64, NEW b \in 0..MaxU64
  PROVE  SatAdd(a, b) \in 0..MaxU64 /\ SatSub(a, b) \in 0..MaxU64
BY BudgetAssumption DEF SatAdd, SatSub, Least, Most

\* What fits leaves room for the input and a token of output, and what is
\* granted stays within what is left.
LEMMA GrantFits ==
  ASSUME NEW s \in Scopes, used[s] \in 0..MaxU64,
         NEW input \in Inputs, NEW desired \in Outputs, Fits(s, input)
  PROVE  /\ Granted(s, input, desired) \in 1..MaxU64
         /\ input + Granted(s, input, desired) \in 0..MaxU64
         /\ used[s] + (input + Granted(s, input, desired)) <= Limit[s]
<1> DEFINE u == used[s]  l == Limit[s]
<1>1. /\ u \in Nat /\ l \in Nat /\ MaxU64 \in Nat /\ 2 * l < MaxU64
      /\ input \in Nat /\ input >= 1 /\ desired \in Nat /\ desired >= 1
      /\ input <= MaxU64 /\ desired <= MaxU64
  BY LimitType, BudgetAssumption
<1>2. SatAdd(input, 1) <= SatSub(l, u)
  BY DEF Fits, Available
<1> HIDE DEF u, l
<1>3. SatSub(l, u) = l - u /\ input + 1 <= l - u
  BY <1>1, <1>2 DEF SatAdd, SatSub, Least, Most
<1>4. Granted(s, input, desired) = Least(desired, l - u - input)
  BY <1>3 DEF Granted, Available, u, l
<1> DEFINE g == Granted(s, input, desired)
<1>5. g = Least(desired, l - u - input)
  BY <1>4
<1> HIDE DEF g
<1>6. g \in 1..MaxU64 /\ input + g \in 0..MaxU64 /\ u + (input + g) <= l
  BY <1>1, <1>3, <1>5 DEF Least
<1> QED BY <1>6 DEF u, l, g

\* What is known of a request.
RequestRecord == [phase : Phases, scope : Scopes \cup {NoScope}, reserved : 0..MaxU64, output : 0..MaxU64,
                  dispatched : BOOLEAN, sent : BOOLEAN]

\* A request that goes on, within its type, keeps the types.
LEMMA RequestMoves ==
  ASSUME TypeOK, NEW q \in Requests, NEW new \in RequestRecord, request' = [request EXCEPT ![q] = new],
         new.phase \in {"reserved", "dispatched", "sent"} => new.scope \in Scopes /\ new.output >= 1,
         used' \in [Scopes -> 0..MaxU64], bill' \in [Requests -> 0..MaxU64], UNCHANGED stubs
  PROVE  TypeOK'
<1>0. request \in [Requests -> RequestRecord]
  BY DEF TypeOK, RequestRecord
<1>1. request' \in [Requests -> RequestRecord]
  BY <1>0
<1>2. ASSUME NEW p \in Requests, request'[p].phase \in {"reserved", "dispatched", "sent"}
      PROVE  request'[p].scope \in Scopes /\ request'[p].output >= 1
  <2>1. CASE p = q
    BY <1>0, <1>2, <2>1
  <2>2. CASE p # q
    <3>1. request'[p] = request[p]
      BY <1>0, <2>2
    <3> QED BY <1>2, <3>1 DEF TypeOK, Open
  <2> QED BY <2>1, <2>2
<1> QED BY <1>1, <1>2 DEF TypeOK, RequestRecord, Open

\* Every step keeps the types.
LEMMA TypesStay == TypeOK /\ [Next]_vars => TypeOK'
<1> SUFFICES ASSUME TypeOK, [Next]_vars PROVE TypeOK'
  OBVIOUS
<1> USE DEF TypeOK
<1>1. ASSUME NEW q \in Requests, NEW s \in Scopes, NEW input \in Inputs,
             NEW desired \in Outputs, Reserve(q, s, input, desired)
      PROVE  TypeOK'
  <2> DEFINE out == Granted(s, input, desired)  reserved == input + out
  <2>1. /\ out \in 1..MaxU64 /\ reserved \in 0..MaxU64
        /\ used[s] + reserved \in 0..MaxU64
    <3>1. Fits(s, input) /\ used[s] \in 0..MaxU64
      BY <1>1 DEF Reserve
    <3>2. out \in 1..MaxU64 /\ reserved \in 0..MaxU64 /\ used[s] + reserved <= Limit[s]
      BY <3>1, GrantFits
    <3> HIDE DEF out, reserved
    <3> QED BY <3>1, <3>2, LimitType
  <2>2. /\ used' = [used EXCEPT ![s] = @ + reserved]
        /\ request' = [request EXCEPT ![q] =
                         [phase |-> "reserved", scope |-> s, reserved |-> reserved,
                          output |-> out, dispatched |-> FALSE, sent |-> FALSE]]
        /\ UNCHANGED <<bill, stubs>>
    BY <1>1 DEF Reserve
  <2> HIDE DEF out, reserved
  <2> QED BY <2>1, <2>2 DEF Open, Phases
<1>2. ASSUME NEW q \in Requests, NEW s \in Scopes \cup {NoScope}, NEW input \in Inputs,
             Refuse(q, s, input)
      PROVE  TypeOK'
  BY <1>2 DEF Refuse, Open, Phases
<1>3. ASSUME NEW q \in Requests, DropUndispatched(q) PROVE TypeOK'
  <2>1. request[q].scope \in Scopes /\ q \in Open /\ request[q].reserved \in 0..MaxU64
    BY <1>3 DEF DropUndispatched, Open
  <2>2. SatAdd(SatSub(used[request[q].scope], request[q].reserved), 0) \in 0..MaxU64
    <3>1. SatSub(used[request[q].scope], request[q].reserved) \in 0..MaxU64
      BY <2>1, SaturationBounds
    <3>2. 0 \in 0..MaxU64
      BY BudgetAssumption
    <3> QED BY <3>1, <3>2, SaturationBounds
  <2>3. used' \in [Scopes -> 0..MaxU64]
    BY <1>3, <2>1, <2>2 DEF DropUndispatched, ReplaceReserved
  <2>4. bill' \in [Requests -> 0..MaxU64]
    BY <1>3, BudgetAssumption DEF DropUndispatched
  <2>5. PICK new : new = [request[q] EXCEPT !.phase = "settled"]
    OBVIOUS
  <2>6. new \in RequestRecord /\ new.phase = "settled"
    BY <2>5 DEF RequestRecord, Phases
  <2>7. request' = [request EXCEPT ![q] = new] /\ UNCHANGED stubs
    BY <1>3, <2>5 DEF DropUndispatched, Settle
  <2> QED BY <2>3, <2>4, <2>6, <2>7, RequestMoves
<1>4. ASSUME NEW q \in Requests, MarkDispatched(q) PROVE TypeOK'
  <2>0. PICK old : old = request[q]
    OBVIOUS
  <2>1. PICK new : new = [old EXCEPT !.phase = "dispatched", !.dispatched = TRUE]
    OBVIOUS
  <2>2. old \in RequestRecord /\ old.scope \in Scopes /\ old.output >= 1
    BY <1>4, <2>0 DEF MarkDispatched, Open, RequestRecord
  <2>3. new \in RequestRecord /\ new.scope = old.scope /\ new.output = old.output
    BY <2>1, <2>2 DEF RequestRecord, Phases
  <2>4. request' = [request EXCEPT ![q] = new] /\ UNCHANGED <<used, bill, stubs>>
    BY <1>4, <2>0, <2>1 DEF MarkDispatched
  <2> QED BY <2>2, <2>3, <2>4, RequestMoves
<1>5. ASSUME NEW q \in Requests, Send(q) PROVE TypeOK'
  <2>1. PICK old : old = request[q]
    OBVIOUS
  <2>2. PICK new : new = [old EXCEPT !.phase = "sent", !.sent = TRUE]
    OBVIOUS
  <2>3. old \in RequestRecord /\ old.scope \in Scopes /\ old.output >= 1
    BY <1>5, <2>1 DEF Send, Open, RequestRecord
  <2>4. new \in RequestRecord /\ new.scope = old.scope /\ new.output = old.output
    BY <2>2, <2>3 DEF RequestRecord, Phases
  <2>5. request' = [request EXCEPT ![q] = new] /\ UNCHANGED <<used, bill, stubs>>
    BY <1>5, <2>1, <2>2 DEF Send
  <2> QED BY <2>3, <2>4, <2>5, RequestMoves
<1>6. ASSUME NEW q \in Requests, KeepReserved(q) PROVE TypeOK'
  BY <1>6 DEF KeepReserved, Settle, Open, Phases
<1>7. ASSUME NEW q \in Requests, NEW reported \in Reports, AnswerMetered(q, reported)
      PROVE  TypeOK'
  <2>1. request[q].scope \in Scopes /\ q \in Open
    BY <1>7 DEF AnswerMetered, Open
  <2>2. Reconciled(request[q], reported) \in 0..MaxU64 /\ Most(reported, 1) \in 0..MaxU64
    <3>1. reported \in 0..MaxU64 /\ MaxU64 \in Nat /\ MaxU64 >= 1
      BY <2>1, LimitType, BudgetAssumption
    <3> QED BY <3>1 DEF Reconciled, Most
  <2>3. SatAdd(SatSub(used[request[q].scope], request[q].reserved),
               Reconciled(request[q], reported)) \in 0..MaxU64
    BY <2>1, <2>2, SaturationBounds
  <2>4. used' \in [Scopes -> 0..MaxU64]
    BY <1>7, <2>1, <2>3 DEF AnswerMetered, ReplaceReserved
  <2>5. bill' \in [Requests -> 0..MaxU64]
    BY <1>7, <2>2 DEF AnswerMetered
  <2> QED BY <1>7, <2>4, <2>5 DEF AnswerMetered, Settle, Open, Phases
<1>8. ASSUME NEW s \in Scopes, NEW tokens \in Prompts, ChargeStub(s, tokens) PROVE TypeOK'
  <2>1. SatAdd(used[s], tokens) \in 0..MaxU64
    BY SaturationBounds, BudgetAssumption
  <2>2. stubs.total[s] + tokens \in Nat /\ stubs.count + 1 \in 0..MaxStubs
    BY <1>8, BudgetAssumption DEF ChargeStub
  <2> QED BY <1>8, <2>1, <2>2 DEF ChargeStub, Open
<1>9. CASE UNCHANGED vars
  BY <1>9 DEF vars, Open
<1> QED BY <1>1, <1>2, <1>3, <1>4, <1>5, <1>6, <1>7, <1>8, <1>9 DEF Next

\* The counter and the reservations keep their types; no open request was granted an
\* answer of no tokens.
THEOREM TypeCorrect == ClientsSpec => []TypeOK
<1>1. ClientsInit => TypeOK
  BY BudgetAssumption DEF ClientsInit, Init, TypeOK, Idle, Open, Phases
<1>2. TypeOK /\ [ClientsNext]_clientsVars => TypeOK'
  <2>1. [ClientsNext]_clientsVars => [Next]_vars
    BY DEF ClientsNext, Only, clientsVars, vars
  <2> QED BY <2>1, TypesStay
<1> QED BY <1>1, <1>2, PTL DEF ClientsSpec

-------------------------------------------------------------------------------
(* Sums over the requests, as numbers of tokens.                              *)

\* What a request is owed, held or charged is within the counter's range.
Amounts == [Requests -> 0..MaxU64]

TokensBut(q, f) == UNION {{p} \X (1..f[p]) : p \in Requests \ {q}}

\* There are finitely many tokens to add up.
LEMMA TokensAreFinite ==
  ASSUME NEW f \in Amounts, NEW R \in SUBSET Requests
  PROVE  IsFiniteSet(UNION {{p} \X (1..f[p]) : p \in R})
<1> DEFINE all == Requests \X (1..MaxU64)
<1>1. IsFiniteSet(1..MaxU64)
  BY BudgetAssumption, FS_Interval
<1>2. IsFiniteSet(all)
  BY <1>1, BudgetAssumption, FS_Product
<1>3. (UNION {{p} \X (1..f[p]) : p \in R}) \in SUBSET all
  <2> SUFFICES ASSUME NEW p \in R, NEW t \in {p} \X (1..f[p]) PROVE t \in all
    OBVIOUS
  <2>1. f[p] \in 0..MaxU64 /\ p \in Requests
    BY DEF Amounts
  <2>2. PICK n \in 1..f[p] : t = <<p, n>>
    OBVIOUS
  <2>3. n \in 1..MaxU64
    BY <2>1, <2>2, BudgetAssumption
  <2> QED BY <2>1, <2>2, <2>3
<1> QED BY <1>2, <1>3, FS_Subset

\* The tokens of one request beside those of the others.
LEMMA SumSplits ==
  ASSUME NEW f \in Amounts, NEW q \in Requests
  PROVE  /\ Cardinality(TokensBut(q, f)) \in Nat
         /\ Sum(f) = Cardinality(TokensBut(q, f)) + f[q]
<1> DEFINE own == {q} \X (1..f[q])
<1>1. IsFiniteSet(TokensBut(q, f))
  BY TokensAreFinite DEF TokensBut
<1>2. f[q] \in Nat
  BY BudgetAssumption DEF Amounts
<1>3. IsFiniteSet(own) /\ Cardinality(own) = f[q]
  <2>1. IsFiniteSet(1..f[q]) /\ Cardinality(1..f[q]) = f[q]
    BY <1>2, FS_Interval
  <2>2. IsFiniteSet({q}) /\ Cardinality({q}) = 1
    BY FS_Singleton
  <2>3. IsFiniteSet(own) /\ Cardinality(own) = Cardinality({q}) * Cardinality(1..f[q])
    BY <2>1, <2>2, FS_Product, Zenon
  <2>4. 1 * f[q] = f[q]
    BY <1>2
  <2> QED BY <2>1, <2>2, <2>3, <2>4
<1>4. UNION {{p} \X (1..f[p]) : p \in Requests} = TokensBut(q, f) \cup own
  BY DEF TokensBut
<1>5. TokensBut(q, f) \cap own = {}
  BY DEF TokensBut
<1>6. Cardinality({}) = 0
  BY FS_EmptySet
<1> HIDE DEF own
<1>7. Sum(f) = Cardinality(TokensBut(q, f)) + Cardinality(own) - 0
  BY <1>1, <1>3, <1>4, <1>5, <1>6, FS_Union DEF Sum
<1>8. Cardinality(TokensBut(q, f)) \in Nat
  BY <1>1, FS_CardinalityType
<1> QED BY <1>2, <1>3, <1>7, <1>8

\* A sum changes by what one of its terms does.
LEMMA SumMoves ==
  ASSUME NEW f \in Amounts, NEW g \in Amounts, NEW q \in Requests,
         \A p \in Requests : p # q => g[p] = f[p]
  PROVE  /\ f[q] \in Nat /\ g[q] \in Nat /\ Sum(f) \in Nat /\ Sum(g) \in Nat
         /\ f[q] <= Sum(f) /\ Sum(g) = Sum(f) - f[q] + g[q]
<1>1. TokensBut(q, g) = TokensBut(q, f)
  BY DEF TokensBut
<1>2. f[q] \in Nat /\ g[q] \in Nat
  BY BudgetAssumption DEF Amounts
<1> DEFINE n == Cardinality(TokensBut(q, f))
<1>3. n \in Nat /\ Sum(f) = n + f[q] /\ Sum(g) = n + g[q]
  BY <1>1, SumSplits
<1> HIDE DEF n
<1> QED BY <1>2, <1>3

\* Nothing adds up to zero.
LEMMA SumOfNothing ==
  ASSUME NEW f \in Amounts, \A q \in Requests : f[q] = 0
  PROVE  Sum(f) = 0
<1>1. UNION {{p} \X (1..f[p]) : p \in Requests} = {}
  OBVIOUS
<1> QED BY <1>1, FS_EmptySet DEF Sum

\* Amounts add up to a natural number.
LEMMA SumIsNat ==
  ASSUME NEW f \in Amounts
  PROVE  Sum(f) \in Nat
BY TokensAreFinite, FS_CardinalityType DEF Sum

LedgersType == \A s \in Scopes : Held(s) \in Amounts /\ Charged(s) \in Amounts /\ Overrun(s) \in Amounts

\* What the ledgers hold are amounts.
LEMMA LedgersAreAmounts == TypeOK => LedgersType
<1> SUFFICES ASSUME TypeOK, NEW s \in Scopes
             PROVE  Held(s) \in Amounts /\ Charged(s) \in Amounts /\ Overrun(s) \in Amounts
  BY DEF LedgersType
<1> USE DEF TypeOK, Amounts
<1>1. 0 \in 0..MaxU64
  BY BudgetAssumption
<1>2. Held(s) \in Amounts
  BY <1>1 DEF Held
<1>3. Charged(s) \in Amounts
  BY <1>1, <1>2 DEF Charged
<1>4. \A q \in Requests : SatSub(bill[q], request[q].reserved) \in 0..MaxU64
  BY SaturationBounds
<1>5. Overrun(s) \in Amounts
  BY <1>1, <1>4 DEF Overrun
<1> QED BY <1>2, <1>3, <1>5

\* The same of the next state.
LEMMA LedgersStayAmounts == TypeOK' => LedgersType'
  BY LedgersAreAmounts, PTL

\* One request moves: the sums of a scope change by its own amounts.
LEMMA LedgersMove ==
  ASSUME TypeOK, TypeOK', NEW q \in Requests, NEW s \in Scopes,
         \A p \in Requests : p # q => request'[p] = request[p] /\ bill'[p] = bill[p]
  PROVE  /\ Held(s)[q] \in Nat /\ Held(s)'[q] \in Nat /\ Sum(Held(s)) \in Nat
         /\ Held(s)[q] <= Sum(Held(s)) /\ Sum(Held(s)') = Sum(Held(s)) - Held(s)[q] + Held(s)'[q]
         /\ Charged(s)[q] \in Nat /\ Charged(s)'[q] \in Nat /\ Sum(Charged(s)) \in Nat
         /\ Charged(s)[q] <= Sum(Charged(s))
         /\ Sum(Charged(s)') = Sum(Charged(s)) - Charged(s)[q] + Charged(s)'[q]
         /\ Overrun(s)[q] \in Nat /\ Overrun(s)'[q] \in Nat /\ Sum(Overrun(s)) \in Nat
         /\ Sum(Overrun(s)') = Sum(Overrun(s)) - Overrun(s)[q] + Overrun(s)'[q]
<1>1. Held(s) \in Amounts /\ Charged(s) \in Amounts /\ Overrun(s) \in Amounts
  BY LedgersAreAmounts DEF LedgersType
<1>2. Held(s)' \in Amounts /\ Charged(s)' \in Amounts /\ Overrun(s)' \in Amounts
  BY LedgersStayAmounts DEF LedgersType
<1>3. \A p \in Requests : p # q => Held(s)'[p] = Held(s)[p]
  BY DEF Held, Open
<1>4. \A p \in Requests : p # q => Charged(s)'[p] = Charged(s)[p]
  BY <1>3 DEF Charged, Settled
<1>5. \A p \in Requests : p # q => Overrun(s)'[p] = Overrun(s)[p]
  BY DEF Overrun, Settled
<1> DEFINE h == Held(s)  hn == Held(s)'  c == Charged(s)  cn == Charged(s)'
           o == Overrun(s)  on == Overrun(s)'
<1> HIDE DEF h, hn, c, cn, o, on
<1>6. /\ h[q] \in Nat /\ hn[q] \in Nat /\ Sum(h) \in Nat /\ h[q] <= Sum(h)
      /\ Sum(hn) = Sum(h) - h[q] + hn[q]
  BY <1>1, <1>2, <1>3, SumMoves DEF h, hn
<1>7. /\ c[q] \in Nat /\ cn[q] \in Nat /\ Sum(c) \in Nat /\ c[q] <= Sum(c)
      /\ Sum(cn) = Sum(c) - c[q] + cn[q]
  BY <1>1, <1>2, <1>4, SumMoves DEF c, cn
<1>8. /\ o[q] \in Nat /\ on[q] \in Nat /\ Sum(o) \in Nat
      /\ Sum(on) = Sum(o) - o[q] + on[q]
  BY <1>1, <1>2, <1>5, SumMoves DEF o, on
<1> QED BY <1>6, <1>7, <1>8 DEF h, hn, c, cn, o, on

OnlyMoves(q) ==
  \A p \in Requests : p # q => request'[p] = request[p] /\ bill'[p] = bill[p]

\* A step that neither charges nor holds more of a scope.
LEMMA CoveredSame ==
  ASSUME TypeOK, TypeOK', NEW q \in Requests, NEW s \in Scopes, OnlyMoves(q), Covered(s),
         used'[s] = used[s], stubs'.total[s] = stubs.total[s], Held(s)'[q] <= Held(s)[q],
         Charged(s)'[q] = Charged(s)[q], Overrun(s)'[q] = Overrun(s)[q]
  PROVE  Covered(s)'
<1> DEFINE h == Sum(Held(s))  hn == Sum(Held(s)')  c == Sum(Charged(s))  cn == Sum(Charged(s)')
           o == Sum(Overrun(s))  on == Sum(Overrun(s)')
<1>1. h \in Nat /\ hn \in Nat /\ hn <= h /\ cn = c /\ on = o /\ c \in Nat /\ o \in Nat
  <2> DEFINE a == Held(s)[q]  an == Held(s)'[q]  b == Charged(s)[q]  bn == Charged(s)'[q]
             d == Overrun(s)[q]  dn == Overrun(s)'[q]
  <2>1. /\ a \in Nat /\ an \in Nat /\ h \in Nat /\ a <= h /\ hn = h - a + an /\ an <= a
        /\ b \in Nat /\ c \in Nat /\ cn = c - b + bn /\ bn = b
        /\ d \in Nat /\ o \in Nat /\ on = o - d + dn /\ dn = d
    BY LedgersMove DEF OnlyMoves
  <2> HIDE DEF h, hn, c, cn, o, on, a, an, b, bn, d, dn
  <2> QED BY <2>1
<1>2. used[s] \in Nat /\ Limit[s] \in Nat /\ MaxU64 \in Nat /\ stubs.total[s] \in Nat
  BY LimitType, BudgetAssumption DEF TypeOK
<1>3. /\ h <= used[s] /\ h <= Limit[s] /\ used[s] <= stubs.total[s] + c
      /\ used[s] = stubs.total[s] + c \/ used[s] >= MaxU64 - Limit[s] + h
      /\ used[s] <= Limit[s] + o
  BY DEF Covered, Owed
<1> HIDE DEF h, hn, c, cn, o, on
<1>4. /\ hn <= used'[s] /\ hn <= Limit[s] /\ used'[s] <= stubs'.total[s] + cn
      /\ used'[s] = stubs'.total[s] + cn \/ used'[s] >= MaxU64 - Limit[s] + hn
      /\ used'[s] <= Limit[s] + on
  BY <1>1, <1>2, <1>3
<1> QED BY <1>4 DEF Covered, Owed, h, hn, c, cn, o, on

\* A reservation that fits is counted, held and charged alike.
LEMMA CoveredReserved ==
  ASSUME TypeOK, TypeOK', NEW q \in Requests, NEW s \in Scopes, OnlyMoves(q), Covered(s),
         NEW r \in Nat, used'[s] = used[s] + r, used[s] + r <= Limit[s],
         stubs'.total[s] = stubs.total[s], Held(s)[q] = 0, Held(s)'[q] = r,
         Charged(s)[q] = 0, Charged(s)'[q] = r, Overrun(s)[q] = 0, Overrun(s)'[q] = 0
  PROVE  Covered(s)'
<1> DEFINE h == Sum(Held(s))  hn == Sum(Held(s)')  c == Sum(Charged(s))  cn == Sum(Charged(s)')
           o == Sum(Overrun(s))  on == Sum(Overrun(s)')
<1>1. h \in Nat /\ hn = h + r /\ c \in Nat /\ cn = c + r /\ o \in Nat /\ on = o
  BY LedgersMove DEF OnlyMoves
<1>2. /\ used[s] \in Nat /\ Limit[s] \in Nat /\ MaxU64 \in Nat /\ stubs.total[s] \in Nat
      /\ 2 * Limit[s] < MaxU64
  BY LimitType, BudgetAssumption DEF TypeOK
<1>3. /\ h <= used[s] /\ h <= Limit[s] /\ used[s] <= stubs.total[s] + c
      /\ used[s] = stubs.total[s] + c \/ used[s] >= MaxU64 - Limit[s] + h
      /\ used[s] <= Limit[s] + o
  BY DEF Covered, Owed
<1> HIDE DEF h, hn, c, cn, o, on
<1>4. /\ hn <= used'[s] /\ hn <= Limit[s] /\ used'[s] <= stubs'.total[s] + cn
      /\ used'[s] = stubs'.total[s] + cn \/ used'[s] >= MaxU64 - Limit[s] + hn
      /\ used'[s] <= Limit[s] + on
  BY <1>1, <1>2, <1>3
<1> QED BY <1>4 DEF Covered, Owed, h, hn, c, cn, o, on

\* Settling takes the reservation out and puts the charge in, up to the range.
LEMMA CoveredSettled ==
  ASSUME TypeOK, TypeOK', NEW q \in Requests, NEW s \in Scopes, OnlyMoves(q), Covered(s),
         NEW r \in Nat, NEW a \in Nat, used'[s] = SatAdd(SatSub(used[s], r), a),
         stubs'.total[s] = stubs.total[s], Held(s)[q] = r, Held(s)'[q] = 0,
         Charged(s)[q] = r, Charged(s)'[q] = a, Overrun(s)[q] = 0, Overrun(s)'[q] = SatSub(a, r)
  PROVE  Covered(s)'
<1> DEFINE h == Sum(Held(s))  hn == Sum(Held(s)')  c == Sum(Charged(s))  cn == Sum(Charged(s)')
           o == Sum(Overrun(s))  on == Sum(Overrun(s)')
<1>1. /\ h \in Nat /\ r <= h /\ hn = h - r /\ c \in Nat /\ r <= c /\ cn = c - r + a
      /\ o \in Nat /\ on = o + SatSub(a, r)
  <2> DEFINE d == SatSub(a, r)
  <2>1. d \in Nat
    BY DEF SatSub, Most
  <2>2. /\ h \in Nat /\ r <= h /\ hn = h - r + 0 /\ c \in Nat /\ r <= c /\ cn = c - r + a
        /\ o \in Nat /\ on = o - 0 + d
    BY LedgersMove DEF OnlyMoves
  <2> HIDE DEF h, hn, c, cn, o, on, d
  <2>3. /\ h \in Nat /\ r <= h /\ hn = h - r /\ c \in Nat /\ r <= c /\ cn = c - r + a
        /\ o \in Nat /\ on = o + d
    BY <2>1, <2>2
  <2> QED BY <2>3 DEF d
<1>2. /\ used[s] \in Nat /\ Limit[s] \in Nat /\ MaxU64 \in Nat /\ stubs.total[s] \in Nat
      /\ 2 * Limit[s] < MaxU64 /\ used[s] <= MaxU64
  BY LimitType, BudgetAssumption DEF TypeOK
<1>3. /\ h <= used[s] /\ h <= Limit[s] /\ used[s] <= stubs.total[s] + c
      /\ used[s] = stubs.total[s] + c \/ used[s] >= MaxU64 - Limit[s] + h
      /\ used[s] <= Limit[s] + o
  BY DEF Covered, Owed
<1> DEFINE u == used[s]  un == used'[s]  l == Limit[s]  t == stubs.total[s]
<1>4. un = SatAdd(SatSub(u, r), a)
  OBVIOUS
<1>5. /\ u \in Nat /\ l \in Nat /\ MaxU64 \in Nat /\ t \in Nat /\ 2 * l < MaxU64 /\ u <= MaxU64
      /\ h <= u /\ h <= l /\ u <= t + c /\ u <= l + o
      /\ u = t + c \/ u >= MaxU64 - l + h
  BY <1>2, <1>3
<1> HIDE DEF h, hn, c, cn, o, on, u, un, l, t
<1>6. SatSub(u, r) = u - r
  BY <1>1, <1>5 DEF SatSub, Most
<1>7. un = IF u - r + a < MaxU64 THEN u - r + a ELSE MaxU64
  BY <1>4, <1>6 DEF SatAdd, Least
<1>8. SatSub(a, r) >= a - r /\ SatSub(a, r) >= 0 /\ SatSub(a, r) \in Int
  BY DEF SatSub, Most
<1>9. hn <= un /\ hn <= l /\ un <= t + cn
  BY <1>1, <1>5, <1>7
<1>10. un = t + cn \/ un >= MaxU64 - l + hn
  BY <1>1, <1>5, <1>7
<1>11. un <= l + on
  BY <1>1, <1>5, <1>7, <1>8
<1> QED BY <1>9, <1>10, <1>11 DEF Covered, Owed, h, hn, c, cn, o, on, u, un, l, t

Marked(q) == request[q].phase \in {"dispatched", "sent"} => request[q].dispatched

\* Nothing is reserved at first.
LEMMA BudgetStarts == Init => IInv
<1> SUFFICES ASSUME Init PROVE IInv
  OBVIOUS
<1>1. TypeOK
  BY BudgetAssumption DEF Init, TypeOK, Idle, Open, Phases
<1>2. \A q \in Requests : request[q].phase \notin {"dispatched", "sent"}
  BY DEF Init, Idle
<1>3. ASSUME NEW s \in Scopes PROVE Covered(s)
  <2>1. /\ \A q \in Requests : Held(s)[q] = 0
        /\ \A q \in Requests : Charged(s)[q] = 0
        /\ \A q \in Requests : Overrun(s)[q] = 0
    BY DEF Held, Charged, Overrun, Open, Settled, Init, Idle
  <2>2. Held(s) \in Amounts /\ Charged(s) \in Amounts /\ Overrun(s) \in Amounts
    BY <1>1, LedgersAreAmounts DEF LedgersType
  <2>3. Sum(Held(s)) = 0 /\ Sum(Charged(s)) = 0 /\ Sum(Overrun(s)) = 0
    BY <2>1, <2>2, SumOfNothing
  <2>4. used[s] = 0 /\ stubs.total[s] = 0 /\ Limit[s] \in Nat
    BY LimitType DEF Init
  <2> QED BY <2>3, <2>4 DEF Covered, Owed
<1> QED BY <1>1, <1>2, <1>3 DEF IInv

\* A step of a request that neither charges nor frees anything new.
LEMMA BudgetQuiet ==
  ASSUME IInv, TypeOK', NEW q \in Requests, OnlyMoves(q), Marked(q)', UNCHANGED <<used, stubs>>,
         \A s \in Scopes : /\ Held(s)'[q] <= Held(s)[q] /\ Charged(s)'[q] = Charged(s)[q]
                           /\ Overrun(s)'[q] = Overrun(s)[q]
  PROVE  IInv'
<1>1. \A s \in Scopes : Covered(s)'
  BY CoveredSame DEF IInv
<1>2. \A p \in Requests : Marked(p)'
  BY DEF IInv, OnlyMoves, Marked
<1> QED BY <1>1, <1>2 DEF IInv, Marked

\* A reservation adds what it grants to what is held.
LEMMA BudgetReserve ==
  ASSUME IInv, TypeOK', NEW q \in Requests, NEW s \in Scopes, NEW input \in Inputs,
         NEW desired \in Outputs, Reserve(q, s, input, desired)
  PROVE  IInv'
<1> DEFINE out == Granted(s, input, desired)  r == input + out
<1>1. TypeOK /\ request[q].phase = "idle" /\ Fits(s, input) /\ used[s] \in 0..MaxU64
  BY DEF IInv, TypeOK, Reserve
<1>2. r \in Nat /\ used[s] + r <= Limit[s]
  BY <1>1, GrantFits, BudgetAssumption
<1>3. /\ used' = [used EXCEPT ![s] = @ + r]
      /\ request' = [request EXCEPT ![q] =
                       [phase |-> "reserved", scope |-> s, reserved |-> r,
                        output |-> out, dispatched |-> FALSE, sent |-> FALSE]]
      /\ UNCHANGED <<bill, stubs>>
  BY DEF Reserve
<1> HIDE DEF out, r
<1>4. /\ request'[q].phase = "reserved" /\ request'[q].scope = s /\ request'[q].reserved = r
      /\ OnlyMoves(q) /\ used'[s] = used[s] + r /\ \A t \in Scopes : t # s => used'[t] = used[t]
  BY <1>1, <1>3 DEF OnlyMoves, TypeOK
<1>5. ASSUME NEW t \in Scopes
      PROVE  /\ Held(t)[q] = 0 /\ Charged(t)[q] = 0 /\ Overrun(t)[q] = 0 /\ Overrun(t)'[q] = 0
             /\ Held(t)'[q] = IF t = s THEN r ELSE 0
             /\ Charged(t)'[q] = IF t = s THEN r ELSE 0
  BY <1>1, <1>4 DEF Held, Charged, Overrun, Open, Settled
<1>6. Covered(s)'
  BY <1>1, <1>2, <1>3, <1>4, <1>5, CoveredReserved DEF IInv
<1>7. ASSUME NEW t \in Scopes, t # s PROVE Covered(t)'
  BY <1>1, <1>3, <1>4, <1>5, <1>7, CoveredSame DEF IInv
<1>8. \A p \in Requests : Marked(p)'
  BY <1>4 DEF IInv, OnlyMoves, Marked
<1> QED BY <1>6, <1>7, <1>8 DEF IInv, Marked

\* Settling for a charge of a.
LEMMA BudgetSettle ==
  ASSUME IInv, TypeOK', NEW q \in Requests, NEW a \in 0..MaxU64, q \in Open,
         NEW s, s = request[q].scope, NEW r, r = request[q].reserved,
         ReplaceReserved(request[q], a), Settle(q), bill' = [bill EXCEPT ![q] = a],
         UNCHANGED stubs
  PROVE  IInv'
<1>1. TypeOK /\ s \in Scopes /\ r \in Nat /\ a \in Nat
  BY BudgetAssumption DEF IInv, TypeOK
<1>2. /\ request'[q].phase = "settled" /\ request'[q].scope = s /\ request'[q].reserved = r
      /\ bill'[q] = a /\ OnlyMoves(q)
  BY <1>1 DEF Settle, OnlyMoves, TypeOK
<1>3. used'[s] = SatAdd(SatSub(used[s], r), a) /\ \A t \in Scopes : t # s => used'[t] = used[t]
  BY <1>1 DEF ReplaceReserved, TypeOK
<1>4. request[q].phase \in {"reserved", "dispatched", "sent"}
  BY DEF Open
<1>5. ASSUME NEW t \in Scopes
      PROVE  /\ Held(t)[q] = IF t = s THEN r ELSE 0
             /\ Held(t)'[q] = 0
             /\ Charged(t)[q] = IF t = s THEN r ELSE 0
             /\ Charged(t)'[q] = IF t = s THEN a ELSE 0
             /\ Overrun(t)[q] = 0
             /\ Overrun(t)'[q] = IF t = s THEN SatSub(a, r) ELSE 0
  BY <1>2, <1>4 DEF Held, Charged, Overrun, Open, Settled
<1>6. Covered(s)'
  BY <1>1, <1>2, <1>3, <1>5, CoveredSettled DEF IInv
<1>7. ASSUME NEW t \in Scopes, t # s PROVE Covered(t)'
  BY <1>1, <1>2, <1>3, <1>5, <1>7, CoveredSame DEF IInv
<1>8. \A p \in Requests : Marked(p)'
  <2>1. \A p \in Requests : Marked(p)
    BY DEF IInv, Marked
  <2>2. request'[q].phase = "settled" /\ \A p \in Requests : p # q => request'[p] = request[p]
    BY <1>2 DEF OnlyMoves
  <2> QED BY <2>1, <2>2 DEF Marked
<1> QED BY <1>6, <1>7, <1>8 DEF IInv, Marked

\* A stub is charged to its scope, as long as the limit allows it.
LEMMA BudgetStub ==
  ASSUME IInv, TypeOK', NEW s \in Scopes, NEW tokens \in Prompts, ChargeStub(s, tokens)
  PROVE  IInv'
<1>1. TypeOK /\ tokens \in Nat /\ used[s] \in Nat /\ MaxU64 \in Nat /\ Limit[s] \in Nat
      /\ 2 * Limit[s] < MaxU64 /\ stubs.total[s] \in Nat
  BY LimitType, BudgetAssumption DEF IInv, TypeOK
<1>2. used'[s] = used[s] + tokens /\ used[s] + tokens <= Limit[s]
  <2>1. SatAdd(used[s], tokens) <= Limit[s] /\ used'[s] = SatAdd(used[s], tokens)
    BY <1>1 DEF ChargeStub, TypeOK
  <2> DEFINE u == used[s]  un == used'[s]  l == Limit[s]
  <2>2. u \in Nat /\ l \in Nat /\ SatAdd(u, tokens) <= l /\ un = SatAdd(u, tokens) /\ 2 * l < MaxU64
    BY <1>1, <2>1
  <2> HIDE DEF u, un, l
  <2>3. un = u + tokens /\ u + tokens <= l
    BY <1>1, <2>2 DEF SatAdd, Least
  <2> QED BY <2>3 DEF u, un, l
<1>3. /\ stubs'.total[s] = stubs.total[s] + tokens /\ UNCHANGED <<request, bill>>
      /\ \A t \in Scopes : t # s => used'[t] = used[t] /\ stubs'.total[t] = stubs.total[t]
  BY <1>1 DEF ChargeStub, TypeOK
<1>4. \A t \in Scopes : Held(t)' = Held(t) /\ Charged(t)' = Charged(t) /\ Overrun(t)' = Overrun(t)
  BY <1>3 DEF Held, Charged, Overrun, Open, Settled
<1>5. Covered(s)'
  <2> DEFINE h == Sum(Held(s))  c == Sum(Charged(s))  o == Sum(Overrun(s))
             u == used[s]  un == used'[s]  l == Limit[s]  t == stubs.total[s]  tn == stubs'.total[s]
  <2>1. h \in Nat /\ c \in Nat /\ o \in Nat
    BY <1>1, LedgersAreAmounts, SumIsNat DEF LedgersType
  <2>2. /\ h <= u /\ h <= l /\ u <= t + c /\ u <= l + o
        /\ u = t + c \/ u >= MaxU64 - l + h
    BY DEF IInv, Covered, Owed
  <2>3. /\ u \in Nat /\ l \in Nat /\ t \in Nat /\ un = u + tokens /\ u + tokens <= l /\ tn = t + tokens
        /\ 2 * l < MaxU64 /\ MaxU64 \in Nat /\ tokens \in Nat
    BY <1>1, <1>2, <1>3
  <2>4. Sum(Held(s)') = h /\ Sum(Charged(s)') = c /\ Sum(Overrun(s)') = o
    BY <1>4
  <2> HIDE DEF h, c, o, u, un, l, t, tn
  <2>5. /\ h <= un /\ h <= l /\ un <= tn + c /\ un <= l + o /\ un = tn + c
    BY <2>1, <2>2, <2>3
  <2>6. /\ h <= used'[s] /\ h <= Limit[s] /\ used'[s] <= stubs'.total[s] + c
        /\ used'[s] <= Limit[s] + o /\ used'[s] = stubs'.total[s] + c
    BY <2>5 DEF un, l, tn
  <2> QED BY <2>4, <2>6 DEF Covered, Owed
<1>6. ASSUME NEW t \in Scopes, t # s PROVE Covered(t)'
  <2>1. Covered(t) /\ used'[t] = used[t] /\ stubs'.total[t] = stubs.total[t]
    BY <1>3, <1>6 DEF IInv
  <2>2. /\ Sum(Held(t)') = Sum(Held(t)) /\ Sum(Charged(t)') = Sum(Charged(t))
        /\ Sum(Overrun(t)') = Sum(Overrun(t))
    BY <1>4
  <2> QED BY <2>1, <2>2 DEF Covered, Owed
<1> QED BY <1>3, <1>5, <1>6 DEF IInv

\* Every step of the budgets keeps their invariant.
LEMMA BudgetStays == IInv /\ [Next]_vars => IInv'
<1> SUFFICES ASSUME IInv, [Next]_vars PROVE IInv'
  OBVIOUS
<1>0. TypeOK /\ TypeOK'
  BY TypesStay DEF IInv
<1>1. ASSUME NEW q \in Requests, NEW s \in Scopes, NEW input \in Inputs, NEW desired \in Outputs,
             Reserve(q, s, input, desired)
      PROVE  IInv'
  BY <1>0, <1>1, BudgetReserve
<1>2. ASSUME NEW q \in Requests, NEW s \in Scopes \cup {NoScope}, NEW input \in Inputs,
             Refuse(q, s, input)
      PROVE  IInv'
  <2>1. request[q].phase = "idle" /\ request' = [request EXCEPT ![q].phase = "refused"]
    BY <1>2 DEF Refuse
  <2>2. request'[q].phase = "refused" /\ OnlyMoves(q) /\ UNCHANGED <<used, stubs>>
    BY <1>0, <1>2, <2>1 DEF Refuse, OnlyMoves, TypeOK
  <2>3. \A t \in Scopes : /\ Held(t)'[q] = Held(t)[q] /\ Charged(t)'[q] = Charged(t)[q]
                          /\ Overrun(t)'[q] = Overrun(t)[q] /\ Held(t)[q] = 0
    BY <2>1, <2>2 DEF Held, Charged, Overrun, Open, Settled
  <2> QED BY <1>0, <2>2, <2>3, BudgetQuiet DEF Marked
<1>3. ASSUME NEW q \in Requests, DropUndispatched(q) PROVE IInv'
  <2>1. q \in Open /\ 0 \in 0..MaxU64
    BY <1>3, BudgetAssumption DEF DropUndispatched, Open
  <2> QED BY <1>0, <1>3, <2>1, BudgetSettle DEF DropUndispatched
<1>4. ASSUME NEW q \in Requests, MarkDispatched(q) \/ Send(q) PROVE IInv'
  <2>1. /\ request[q].phase \in {"reserved", "dispatched"} /\ request'[q].phase \in {"dispatched", "sent"}
        /\ request'[q].scope = request[q].scope /\ request'[q].reserved = request[q].reserved
        /\ OnlyMoves(q) /\ UNCHANGED <<used, stubs>> /\ request'[q].dispatched
    BY <1>0, <1>4 DEF IInv, MarkDispatched, Send, OnlyMoves, TypeOK
  <2>2. \A t \in Scopes : /\ Held(t)'[q] = Held(t)[q] /\ Charged(t)'[q] = Charged(t)[q]
                          /\ Overrun(t)'[q] = Overrun(t)[q]
    BY <2>1 DEF Held, Charged, Overrun, Open, Settled
  <2>3. \A t \in Scopes : Held(t)[q] \in Nat
    BY <1>0, LedgersAreAmounts, BudgetAssumption DEF LedgersType, Amounts
  <2>4. \A t \in Scopes : Held(t)'[q] <= Held(t)[q]
    BY <2>2, <2>3
  <2> QED BY <1>0, <2>1, <2>2, <2>4, BudgetQuiet DEF Marked
<1>5. ASSUME NEW q \in Requests, KeepReserved(q) PROVE IInv'
  <2>1. /\ request[q].phase \in {"dispatched", "sent"} /\ request'[q].phase = "settled"
        /\ request'[q].scope = request[q].scope /\ request'[q].reserved = request[q].reserved
        /\ bill'[q] = request[q].reserved /\ request[q].reserved \in Nat
        /\ OnlyMoves(q) /\ UNCHANGED <<used, stubs>>
    BY <1>0, <1>5, BudgetAssumption DEF KeepReserved, Settle, OnlyMoves, TypeOK
  <2>2. SatSub(request[q].reserved, request[q].reserved) = 0
    BY <2>1 DEF SatSub, Most
  <2>3. \A t \in Scopes : /\ Held(t)'[q] = 0 /\ Charged(t)'[q] = Charged(t)[q]
                          /\ Overrun(t)'[q] = Overrun(t)[q]
    BY <2>1, <2>2 DEF Held, Charged, Overrun, Open, Settled
  <2>4. \A t \in Scopes : Held(t)[q] \in Nat
    BY <1>0, LedgersAreAmounts, BudgetAssumption DEF LedgersType, Amounts
  <2>5. \A t \in Scopes : Held(t)'[q] <= Held(t)[q]
    BY <2>3, <2>4
  <2> QED BY <1>0, <2>1, <2>3, <2>5, BudgetQuiet DEF Marked
<1>6. ASSUME NEW q \in Requests, NEW reported \in Reports, AnswerMetered(q, reported) PROVE IInv'
  <2>1. request[q].phase = "sent" /\ request[q].dispatched /\ q \in Open
    BY <1>6 DEF IInv, AnswerMetered, Open
  <2>2. Reconciled(request[q], reported) = Most(reported, 1)
    BY <2>1 DEF Reconciled
  <2>3. Most(reported, 1) \in 0..MaxU64
    <3>1. request[q].scope \in Scopes
      BY <1>0, <2>1 DEF TypeOK
    <3>2. reported \in 0..MaxU64 /\ MaxU64 \in Nat /\ MaxU64 >= 1
      BY <3>1, LimitType, BudgetAssumption
    <3> QED BY <3>2 DEF Most
  <2> QED BY <1>0, <1>6, <2>1, <2>2, <2>3, BudgetSettle DEF AnswerMetered
<1>7. ASSUME NEW s \in Scopes, NEW tokens \in Prompts, ChargeStub(s, tokens) PROVE IInv'
  BY <1>0, <1>7, BudgetStub
<1>8. CASE UNCHANGED vars
  <2>1. \A t \in Scopes : /\ Held(t)' = Held(t) /\ Charged(t)' = Charged(t) /\ Overrun(t)' = Overrun(t)
                          /\ used'[t] = used[t] /\ stubs' = stubs
    BY <1>8 DEF vars, Held, Charged, Overrun, Open, Settled
  <2>2. \A t \in Scopes : Covered(t)'
    BY <2>1 DEF IInv, Covered, Owed
  <2> QED BY <1>0, <1>8, <2>2 DEF IInv, vars
<1> QED BY <1>1, <1>2, <1>3, <1>4, <1>5, <1>6, <1>7, <1>8 DEF Next

\* Whatever requests of whatever clients reserve, settle and overrun meanwhile, the
\* counter is what they add up to or the scope is exhausted, and a budget is exceeded
\* by no more than what providers reported beyond the reservations.
THEOREM BudgetSound == ClientsSpec => []BudgetHolds
<1>1. ClientsInit => IInv
  BY BudgetStarts DEF ClientsInit
<1>2. IInv /\ [ClientsNext]_clientsVars => IInv'
  <2>1. [ClientsNext]_clientsVars => [Next]_vars
    BY DEF ClientsNext, Only, clientsVars, vars
  <2> QED BY <2>1, BudgetStays
<1>3. IInv => BudgetHolds
  <2> SUFFICES ASSUME IInv, NEW s \in Scopes
               PROVE  /\ used[s] <= Owed(s) /\ (used[s] = Owed(s) \/ used[s] > Limit[s])
                      /\ used[s] <= Limit[s] + Sum(Overrun(s))
    BY DEF BudgetHolds, Accounted, OverrunIsReported
  <2> DEFINE h == Sum(Held(s))  u == used[s]  l == Limit[s]
  <2>1. u <= Owed(s) /\ u <= l + Sum(Overrun(s)) /\ (u = Owed(s) \/ u >= MaxU64 - l + h)
    BY DEF IInv, Covered
  <2>2. h \in Nat /\ u \in Nat /\ l \in Nat /\ MaxU64 \in Nat /\ 2 * l < MaxU64
    BY LedgersAreAmounts, SumIsNat, LimitType DEF LedgersType, IInv, TypeOK
  <2> HIDE DEF h, u, l
  <2>3. u >= MaxU64 - l + h => u > l
    BY <2>2
  <2> QED BY <2>1, <2>3 DEF u, l
<1> QED BY <1>1, <1>2, <1>3, PTL DEF ClientsSpec

-------------------------------------------------------------------------------
(* The file of credentials.                                                   *)

\* An entry of another provider stays one of the entries: a subset of them.
LEMMA StoreOthersAreEntries ==
  ASSUME NEW entries \in SUBSET Store!StoredEntries, NEW provider
  PROVE  Store!Others(entries, provider) \in SUBSET Store!StoredEntries
  BY DEF Store!Others

\* Whatever way an operation ends, the process is idle, and no longer the holder.
LEMMA StoreReturnPreserves ==
  ASSUME NEW p \in Processes, Store!IInv, Store!Return(p), UNCHANGED authFile,
         authDisk' \in SUBSET Store!Files, acked' \in Int, Store!SuccessLasts'
  PROVE  Store!IInv'
  <1>1. authOp' \in [Processes -> Store!Operations] /\ authLock' \in SUBSET Processes
    BY DEF Store!IInv, Store!TypeOK, Store!Return, Store!Idle, Store!Operation, Store!Operations
  <1>2. \A q \in Processes : authOp'[q] = IF q = p THEN Store!Idle ELSE authOp[q]
    BY DEF Store!IInv, Store!TypeOK, Store!Return
  <1>3. Store!HoldersHold'
    <2> SUFFICES ASSUME NEW q \in Processes, authOp'[q].at \in Store!Held PROVE authLock' = {q}
      BY DEF Store!HoldersHold
    <2>1. q # p /\ authOp'[q] = authOp[q]
      BY <1>2 DEF Store!Idle, Store!Operation, Store!Held
    <2>2. authLock = {q}
      BY <2>1 DEF Store!IInv, Store!HoldersHold
    <2> QED BY <2>1, <2>2 DEF Store!Return
  <1>4. Store!SyncedFirst' /\ Store!NoUpdateIsLost'
    BY <1>2 DEF Store!IInv, Store!SyncedFirst, Store!NoUpdateIsLost, Store!Changing, Store!Idle, Store!Operation
  <1>5. Store!TypeOK'
    BY <1>1 DEF Store!IInv, Store!TypeOK
  <1> QED BY <1>3, <1>4, <1>5 DEF Store!IInv

\* A step of one process that leaves the files alone and puts it at a place its
\* lock allows.
LEMMA StoreStepPreserves ==
  ASSUME NEW p \in Processes, Store!IInv, authOp' \in [Processes -> Store!Operations],
         \A q \in Processes : q # p => authOp'[q] = authOp[q],
         UNCHANGED <<authFile, authDisk, acked>>,
         authLock' = authLock \/ (authLock = {} /\ authLock' = {p}),
         authOp'[p].at \in Store!Held => authLock' = {p},
         authOp'[p].at = "synced" => authOp'[p].synced,
         Store!Changing(p)' => authOp'[p].old = authFile.entries
  PROVE  Store!IInv'
  <1>1. Store!TypeOK'
    BY DEF Store!IInv, Store!TypeOK
  <1>2. Store!HoldersHold'
    BY DEF Store!IInv, Store!HoldersHold
  <1>3. Store!SyncedFirst'
    BY DEF Store!IInv, Store!SyncedFirst
  <1>4. Store!NoUpdateIsLost'
    BY DEF Store!IInv, Store!NoUpdateIsLost, Store!Changing
  <1> QED BY <1>1, <1>2, <1>3, <1>4 DEF Store!IInv, Store!SuccessLasts

\* The rename: nobody else was changing the file.
LEMMA StoreRenamePreserves ==
  ASSUME NEW p \in Processes, Store!IInv, Store!Rename(p)
  PROVE  Store!IInv'
  <1> USE DEF Store!IInv
  <1>1. authLock = {p} /\ authOp[p].synced /\ authOp[p] \in Store!Operations
    BY DEF Store!Rename, Store!HoldersHold, Store!SyncedFirst, Store!Held, Store!TypeOK
  <1>2. /\ authOp' \in [Processes -> Store!Operations] /\ authOp'[p].at = "renamed"
        /\ \A q \in Processes : q # p => authOp'[q] = authOp[q]
    BY DEF Store!Rename, Store!TypeOK, Store!Operations, Store!Held
  <1>3. authFile' \in Store!Files /\ authFile'.synced /\ authFile'.version >= acked
    BY <1>1 DEF Store!Rename, Store!TypeOK, Store!Files, Store!Operations, Store!SuccessLasts
  <1>4. Store!TypeOK'
    BY <1>2, <1>3 DEF Store!Rename, Store!TypeOK
  <1>5. Store!HoldersHold' /\ Store!SyncedFirst'
    BY <1>1, <1>2 DEF Store!HoldersHold, Store!SyncedFirst, Store!Rename
  <1>6. Store!NoUpdateIsLost'
    <2> SUFFICES ASSUME NEW q \in Processes, authOp'[q].at \in {"loaded", "written", "synced"} PROVE FALSE
      BY DEF Store!NoUpdateIsLost, Store!Changing
    <2>1. q # p /\ authOp'[q] = authOp[q]
      BY <1>2
    <2> QED BY <1>1, <2>1 DEF Store!HoldersHold, Store!Held
  <1>7. Store!SuccessLasts'
    BY <1>3 DEF Store!SuccessLasts, Store!Rename
  <1> QED BY <1>4, <1>5, <1>6, <1>7

\* Everything is idle after a power failure, and auth.json one of the files it may be.
LEMMA StorePowerPreserves ==
  ASSUME Store!IInv, Store!PowerFails
  PROVE  Store!IInv'
  <1>1. Store!TypeOK'
    BY DEF Store!IInv, Store!TypeOK, Store!PowerFails, Store!Idle, Store!Operation, Store!Operations
  <1>2. Store!HoldersHold' /\ Store!SyncedFirst' /\ Store!NoUpdateIsLost'
    BY DEF Store!PowerFails, Store!HoldersHold, Store!SyncedFirst, Store!NoUpdateIsLost, Store!Changing, Store!Idle, Store!Operation, Store!Held
  <1>3. Store!SuccessLasts'
    BY DEF Store!IInv, Store!SuccessLasts, Store!PowerFails
  <1> QED BY <1>1, <1>2, <1>3 DEF Store!IInv

\* The steps of one process.
LEMMA StoreProcessPreserves ==
  ASSUME Store!IInv, NEW p \in Processes,
         \/ \E kind \in {"get", "update"}, provider \in Services : Store!Begin(p, kind, provider)
         \/ Store!Acquire(p) \/ Store!GiveUp(p) \/ Store!Read(p) \/ Store!Load(p) \/ Store!Sync(p) \/ Store!Rename(p)
         \/ Store!SyncDirectory(p) \/ Store!Fail(p) \/ Store!Crash(p)
         \/ \E states \in {{}} \cup {{s} : s \in States} : Store!Write(p, states)
  PROVE  Store!IInv'
  <1>0. Store!TypeOK /\ authOp[p] \in Store!Operations /\ Store!SuccessLasts
    BY DEF Store!IInv, Store!TypeOK
  <1>h. authOp[p].at \in Store!Held => authLock = {p}
    BY DEF Store!IInv, Store!HoldersHold
  <1>1. ASSUME NEW kind \in {"get", "update"}, NEW provider \in Services, Store!Begin(p, kind, provider)
        PROVE  Store!IInv'
    <2>1. Store!Operation("locking", kind, provider) \in Store!Operations
      BY DEF Store!Operation, Store!Operations
    <2>2. authOp'[p] = Store!Operation("locking", kind, provider) /\ authOp' \in [Processes -> Store!Operations]
      BY <1>0, <1>1, <2>1 DEF Store!Begin, Store!TypeOK
    <2>3. authOp'[p].at = "locking"
      BY <2>2 DEF Store!Operation
    <2> QED BY <1>0, <1>1, <2>2, <2>3, StoreStepPreserves DEF Store!Begin, Store!Held, Store!Changing, Store!TypeOK
  <1>2. CASE Store!Acquire(p)
    <2>1. authOp' \in [Processes -> Store!Operations] /\ authOp'[p].at = "holding"
      BY <1>0, <1>2 DEF Store!Acquire, Store!TypeOK, Store!Operations, Store!Held
    <2> QED BY <1>0, <1>2, <2>1, StoreStepPreserves DEF Store!Acquire, Store!Changing, Store!TypeOK
  <1>3. CASE Store!GiveUp(p)
    <2>1. authOp' \in [Processes -> Store!Operations] /\ authOp'[p].at = "idle"
      BY <1>0, <1>3 DEF Store!GiveUp, Store!TypeOK, Store!Operations, Store!Operation, Store!Idle
    <2> QED BY <1>0, <1>3, <2>1, StoreStepPreserves DEF Store!GiveUp, Store!Held, Store!Changing, Store!TypeOK
  <1>4. CASE Store!Read(p) \/ Store!Fail(p) \/ Store!Crash(p)
    <2>1. Store!Return(p) /\ UNCHANGED <<authFile, authDisk, acked>>
      BY <1>4 DEF Store!Read, Store!Fail, Store!Crash
    <2>2. authDisk' \in SUBSET Store!Files /\ acked' \in Int /\ Store!SuccessLasts'
      BY <1>0, <2>1 DEF Store!TypeOK, Store!SuccessLasts
    <2> QED BY <2>1, <2>2, StoreReturnPreserves
  <1>5. CASE Store!Load(p)
    <2>1. authOp' \in [Processes -> Store!Operations] /\ authOp'[p].at = "loaded" /\ authOp'[p].old = authFile.entries
      BY <1>0, <1>5 DEF Store!Load, Store!TypeOK, Store!Operations, Store!Held, Store!Files
    <2>2. authLock = {p}
      BY <1>h, <1>5 DEF Store!Load, Store!Held
    <2> QED BY <1>0, <1>5, <2>1, <2>2, StoreStepPreserves DEF Store!Load, Store!TypeOK
  <1>6. ASSUME NEW states \in {{}} \cup {{s} : s \in States}, Store!Write(p, states)
        PROVE  Store!IInv'
    <2> DEFINE entries == Store!Others(authOp[p].old, authOp[p].provider)
                            \cup {[provider |-> authOp[p].provider, state |-> s] : s \in states}
    <2>1. entries \in SUBSET Store!StoredEntries
      BY <1>0, StoreOthersAreEntries DEF Store!Operations, Store!StoredEntries
    <2>2. authOp' = [authOp EXCEPT ![p].at = "written", ![p].new = entries]
      BY <1>6 DEF Store!Write
    <2>3. authOp' \in [Processes -> Store!Operations] /\ authOp'[p].at = "written" /\ authOp'[p].old = authOp[p].old
      BY <1>0, <2>1, <2>2 DEF Store!TypeOK, Store!Operations, Store!Held
    <2>4. authLock = {p} /\ authOp[p].old = authFile.entries
      BY <1>h, <1>6 DEF Store!Write, Store!Held, Store!IInv, Store!NoUpdateIsLost, Store!Changing
    <2> QED BY <1>0, <1>6, <2>2, <2>3, <2>4, StoreStepPreserves DEF Store!Write, Store!TypeOK
  <1>7. CASE Store!Sync(p)
    <2>1. authOp' \in [Processes -> Store!Operations] /\ authOp'[p].at = "synced" /\ authOp'[p].synced
            /\ authOp'[p].old = authOp[p].old
      BY <1>0, <1>7 DEF Store!Sync, Store!TypeOK, Store!Operations, Store!Held
    <2>2. authLock = {p} /\ authOp[p].old = authFile.entries
      BY <1>h, <1>7 DEF Store!Sync, Store!Held, Store!IInv, Store!NoUpdateIsLost, Store!Changing
    <2> QED BY <1>0, <1>7, <2>1, <2>2, StoreStepPreserves DEF Store!Sync, Store!TypeOK
  <1>8. CASE Store!SyncDirectory(p)
    <2>1. Store!Return(p) /\ UNCHANGED authFile /\ authDisk' = {authFile} /\ acked' = authFile.version
      BY <1>8 DEF Store!SyncDirectory
    <2>2. authDisk' \in SUBSET Store!Files /\ acked' \in Int
      BY <1>0, <2>1 DEF Store!TypeOK, Store!Files
    <2>3. Store!SuccessLasts'
      BY <1>0, <2>1 DEF Store!TypeOK, Store!Files, Store!SuccessLasts
    <2> QED BY <2>1, <2>2, <2>3, StoreReturnPreserves
  <1> QED BY <1>1, <1>2, <1>3, <1>4, <1>5, <1>6, <1>7, <1>8, StoreRenamePreserves

\* The credential store at first.
LEMMA StoreStarts == Store!Init => Store!IInv
<1> SUFFICES ASSUME Store!Init PROVE Store!IInv
  OBVIOUS
<1>1. Store!Idle \in Store!Operations /\ Store!Idle.at = "idle"
  BY DEF Store!Idle, Store!Operation, Store!Operations
<1>2. \A p \in Processes : authOp[p] = Store!Idle
  BY DEF Store!Init
<1>3. Store!TypeOK
  BY <1>1 DEF Store!Init, Store!TypeOK, Store!Files
<1>4. Store!HoldersHold /\ Store!SyncedFirst /\ Store!NoUpdateIsLost
  BY <1>1, <1>2 DEF Store!HoldersHold, Store!SyncedFirst, Store!NoUpdateIsLost, Store!Changing, Store!Held
<1>5. Store!SuccessLasts
  BY DEF Store!Init, Store!SuccessLasts
<1> QED BY <1>3, <1>4, <1>5 DEF Store!IInv

\* Every step of the credential store keeps its invariant.
LEMMA StoreStays == Store!IInv /\ [Store!Next]_(Store!vars) => Store!IInv'
<1>1. ASSUME Store!IInv, Store!Next PROVE Store!IInv'
  BY <1>1, StoreProcessPreserves, StorePowerPreserves DEF Store!Next
<1>2. ASSUME Store!IInv, UNCHANGED Store!vars PROVE Store!IInv'
  BY <1>2 DEF Store!vars, Store!IInv, Store!TypeOK, Store!HoldersHold, Store!SyncedFirst,
              Store!NoUpdateIsLost, Store!Changing, Store!SuccessLasts
<1> QED BY <1>1, <1>2

\* No update of the stored credentials is lost to another process, and one reported a
\* success is there after crashes and power failures, whole: of the store by itself.
THEOREM StoreSafe == Store!Spec => []Store!StoreIsSafe
<1>1. Store!IInv => Store!StoreIsSafe
  BY DEF Store!IInv, Store!StoreIsSafe
<1> QED BY <1>1, StoreStarts, StoreStays, PTL DEF Store!Spec

-------------------------------------------------------------------------------
(* Listings and registries of models.                                         *)

\* The catalog at first.
LEMMA CatalogStarts == Catalog!Init => Catalog!IInv
<1> SUFFICES ASSUME Catalog!Init PROVE Catalog!IInv
  OBVIOUS
<1>1. Catalog!TypeOK /\ \A p \in Processes : Catalog!Kept(p)
  BY DEF Catalog!Init, Catalog!TypeOK, Catalog!Kept, Catalog!Idle, Catalog!Torn
<1>2. Catalog!ListingsAreWhole
  BY DelayAssumption DEF Catalog!Init, Catalog!Fallback, Catalog!ListingsAreWhole, Catalog!Torn
<1> QED BY <1>1, <1>2 DEF Catalog!IInv

\* What each process keeps stays whole when one of them moves on with such a listing.
LEMMA CatalogStep ==
  ASSUME Catalog!IInv, NEW p \in Processes, NEW new, DOMAIN new = DOMAIN Catalog!Idle,
         process' = [process EXCEPT ![p] = new],
         new.at \in {"open", "write", "rename"} => new.listing # Catalog!Torn,
         memory' = memory \/ (\E m : memory' = [memory EXCEPT ![p] = m]
                                     /\ \A e \in m : e.listing # Catalog!Torn),
         UNCHANGED offered, Catalog!ListingsAreWhole'
  PROVE  Catalog!IInv'
<1>1. Catalog!TypeOK'
  BY DEF Catalog!IInv, Catalog!TypeOK, Catalog!Idle
<1>2. ASSUME NEW q \in Processes PROVE Catalog!Kept(q)'
  BY DEF Catalog!IInv, Catalog!TypeOK, Catalog!Kept, Catalog!Torn
<1> QED BY <1>1, <1>2 DEF Catalog!IInv

\* A process that gives up what it had, and perhaps what it remembered.
LEMMA CatalogLeaves ==
  ASSUME Catalog!IInv, NEW p \in Processes, NEW to \in {"idle", "disk", "aside", "live"},
         Catalog!Moves(p, to), memory' = memory \/ memory' = [memory EXCEPT ![p] = {}],
         UNCHANGED offered, Catalog!ListingsAreWhole'
  PROVE  Catalog!IInv'
<1> DEFINE new == [Catalog!Idle EXCEPT !.at = to]
<1>1. process' = [process EXCEPT ![p] = new]
  BY DEF Catalog!Moves
<1>2. DOMAIN new = DOMAIN Catalog!Idle /\ new.at = to
  BY DEF Catalog!Idle
<1> HIDE DEF new
<1> QED BY <1>1, <1>2, CatalogStep

\* A process that has an answer, and remembers it.
LEMMA CatalogGives ==
  ASSUME Catalog!IInv, NEW p \in Processes, NEW l, l # Catalog!Torn,
         Catalog!Moves(p, "idle"), Catalog!Puts(p, l), UNCHANGED offered, Catalog!ListingsAreWhole'
  PROVE  Catalog!IInv'
<1> DEFINE new == [Catalog!Idle EXCEPT !.at = "idle"]  entries == {[listing |-> l, at |-> listNow]}
<1>1. process' = [process EXCEPT ![p] = new] /\ memory' = [memory EXCEPT ![p] = entries]
  BY DEF Catalog!Moves, Catalog!Puts
<1>2. DOMAIN new = DOMAIN Catalog!Idle /\ new.at = "idle"
  BY DEF Catalog!Idle
<1>3. \A e \in entries : e.listing # Catalog!Torn
  OBVIOUS
<1> HIDE DEF new, entries
<1> QED BY <1>1, <1>2, <1>3, CatalogStep

\* A process that goes on with a whole listing.
LEMMA CatalogGoesOn ==
  ASSUME Catalog!IInv, NEW p \in Processes, NEW new, DOMAIN new = DOMAIN Catalog!Idle,
         new.listing # Catalog!Torn, process' = [process EXCEPT ![p] = new],
         UNCHANGED <<offered, memory, listing>>
  PROVE  Catalog!IInv'
<1>1. Catalog!ListingsAreWhole'
  BY DEF Catalog!IInv, Catalog!ListingsAreWhole
<1> QED BY <1>1, CatalogStep

\* Every step of the catalog keeps its invariant.
LEMMA CatalogStays == Catalog!IInv /\ [Catalog!Next]_(Catalog!vars) => Catalog!IInv'
<1> SUFFICES ASSUME Catalog!IInv, [Catalog!Next]_(Catalog!vars) PROVE Catalog!IInv'
  OBVIOUS
<1>0. /\ Catalog!TypeOK /\ offered # Catalog!Torn /\ 0 < MemoryTtl
      /\ \A q \in Processes : Catalog!Kept(q)
  BY DelayAssumption DEF Catalog!IInv, Catalog!TypeOK, Catalog!Torn
<1>w. UNCHANGED listing => Catalog!ListingsAreWhole'
  BY DEF Catalog!IInv, Catalog!ListingsAreWhole
<1>g. ASSUME NEW source, NEW l, Catalog!Answers(source, l, 0), l # Catalog!Torn, source = "cached" => l # 0
      PROVE  Catalog!ListingsAreWhole'
  BY <1>0, <1>g DEF Catalog!Answers, Catalog!ListingsAreWhole
<1>1. CASE Catalog!Tick \/ UNCHANGED Catalog!vars
  BY <1>1, <1>w DEF Catalog!Tick, Catalog!vars, Catalog!IInv, Catalog!TypeOK, Catalog!Kept
<1>2. CASE Catalog!EndpointChanges
  <2>1. offered' \in Nat /\ UNCHANGED <<process, memory, listing>>
    BY <1>0, <1>2 DEF Catalog!EndpointChanges, Catalog!TypeOK
  <2> QED BY <1>0, <1>w, <2>1 DEF Catalog!IInv, Catalog!TypeOK, Catalog!Kept
<1>3. ASSUME NEW p \in Processes, Catalog!FetchModels(p) PROVE Catalog!IInv'
  <2>1. ASSUME NEW e \in memory[p], Catalog!Fresh(e), Catalog!Answers("memory", e.listing, listNow - e.at),
               UNCHANGED <<memory, process>>
        PROVE  Catalog!IInv'
    <3>1. Catalog!ListingsAreWhole'
      BY <1>0, <2>1 DEF Catalog!Kept, Catalog!Answers, Catalog!Fresh, Catalog!ListingsAreWhole
    <3>2. UNCHANGED offered
      BY <1>3 DEF Catalog!FetchModels
    <3> QED BY <2>1, <3>1, <3>2 DEF Catalog!IInv, Catalog!TypeOK, Catalog!Kept
  <2>2. ASSUME memory' = [memory EXCEPT ![p] = {}], Catalog!Moves(p, "disk"), UNCHANGED listing
        PROVE  Catalog!IInv'
    <3>1. UNCHANGED offered
      BY <1>3 DEF Catalog!FetchModels
    <3> QED BY <1>w, <2>2, <3>1, CatalogLeaves
  <2> QED BY <1>3, <2>1, <2>2 DEF Catalog!FetchModels
<1>4. ASSUME NEW p \in Processes, Catalog!ReadDisk(p) PROVE Catalog!IInv'
  <2>0. UNCHANGED offered
    BY <1>4 DEF Catalog!ReadDisk
  <2>1. ASSUME UNCHANGED <<memory, listing>>, Catalog!Moves(p, "live") \/ Catalog!Moves(p, "aside")
        PROVE  Catalog!IInv'
    BY <1>w, <2>0, <2>1, CatalogLeaves
  <2>2. ASSUME Catalog!Whole(data[file]), Catalog!Moves(p, "idle"),
               NEW l \in data[file] \cup (IF data[file] = {} THEN {Catalog!Torn} ELSE {}),
               Catalog!Puts(p, l), Catalog!Answers("cached", l, 0)
        PROVE  Catalog!IInv'
    <3>1. l # Catalog!Torn /\ l # 0
      BY <2>2 DEF Catalog!Whole
    <3>2. Catalog!ListingsAreWhole'
      BY <1>g, <2>2, <3>1
    <3> QED BY <2>0, <2>2, <3>1, <3>2, CatalogGives
  <2> QED BY <1>4, <2>1, <2>2 DEF Catalog!ReadDisk
<1>5. ASSUME NEW p \in Processes, Catalog!PutAside(p) PROVE Catalog!IInv'
  <2>1. Catalog!Moves(p, "live") /\ UNCHANGED <<offered, memory, listing>>
    BY <1>5 DEF Catalog!PutAside
  <2> QED BY <1>w, <2>1, CatalogLeaves
<1>6. ASSUME NEW p \in Processes, Catalog!FetchLive(p) PROVE Catalog!IInv'
  <2>0. UNCHANGED <<offered, memory>>
    BY <1>6 DEF Catalog!FetchLive
  <2>1. ASSUME process' = [process EXCEPT ![p] = [at |-> "open", listing |-> offered, inode |-> "none"]],
               UNCHANGED listing
        PROVE  Catalog!IInv'
    <3> DEFINE new == [at |-> "open", listing |-> offered, inode |-> "none"]
    <3>1. DOMAIN new = DOMAIN Catalog!Idle /\ new.listing # Catalog!Torn
      BY <1>0 DEF Catalog!Idle
    <3> HIDE DEF new
    <3>2. process' = [process EXCEPT ![p] = new]
      BY <2>1 DEF new
    <3> QED BY <2>0, <2>1, <3>1, <3>2, CatalogGoesOn
  <2>2. ASSUME Catalog!Moves(p, "idle"), listing' = Catalog!Fallback PROVE Catalog!IInv'
    <3>1. Catalog!ListingsAreWhole'
      BY <1>0, <2>2 DEF Catalog!ListingsAreWhole, Catalog!Fallback, Catalog!Torn
    <3> QED BY <2>0, <2>2, <3>1, CatalogLeaves
  <2> QED BY <1>6, <2>1, <2>2 DEF Catalog!FetchLive
<1>7. ASSUME NEW p \in Processes, Catalog!OpenTmp(p) PROVE Catalog!IInv'
  <2>0. PICK i : process' = [process EXCEPT ![p].at = "write", ![p].inode = i]
    BY <1>7 DEF Catalog!OpenTmp
  <2> DEFINE new == [process[p] EXCEPT !.at = "write", !.inode = i]
  <2>1. process' = [process EXCEPT ![p] = new]
    BY <1>0, <2>0 DEF Catalog!TypeOK
  <2>2. process[p].at = "open" /\ UNCHANGED <<offered, memory, listing>>
    BY <1>7 DEF Catalog!OpenTmp
  <2>3. DOMAIN new = DOMAIN Catalog!Idle /\ new.listing # Catalog!Torn
    BY <1>0, <2>2 DEF Catalog!TypeOK, Catalog!Kept, Catalog!Idle
  <2> HIDE DEF new
  <2> QED BY <2>1, <2>2, <2>3, CatalogGoesOn
<1>8. ASSUME NEW p \in Processes, Catalog!WriteTmp(p) PROVE Catalog!IInv'
  <2> DEFINE new == [process[p] EXCEPT !.at = "rename"]
  <2>1. process' = [process EXCEPT ![p] = new] /\ process[p].at = "write"
        /\ UNCHANGED <<offered, memory, listing>>
    BY <1>0, <1>8 DEF Catalog!WriteTmp, Catalog!TypeOK
  <2>2. DOMAIN new = DOMAIN Catalog!Idle /\ new.listing # Catalog!Torn
    BY <1>0, <2>1 DEF Catalog!TypeOK, Catalog!Kept, Catalog!Idle
  <2> HIDE DEF new
  <2> QED BY <2>1, <2>2, CatalogGoesOn
<1>9. ASSUME NEW p \in Processes, Catalog!RenameTmp(p) PROVE Catalog!IInv'
  <2>1. /\ process[p].at = "rename" /\ UNCHANGED offered /\ Catalog!Moves(p, "idle")
        /\ Catalog!Puts(p, process[p].listing) /\ Catalog!Answers("live", process[p].listing, 0)
    BY <1>9 DEF Catalog!RenameTmp
  <2>2. process[p].listing # Catalog!Torn
    BY <1>0, <2>1 DEF Catalog!Kept
  <2>3. Catalog!ListingsAreWhole'
    BY <1>g, <2>1, <2>2
  <2> QED BY <2>1, <2>2, <2>3, CatalogGives
<1>10. ASSUME NEW p \in Processes, Catalog!Restart(p) PROVE Catalog!IInv'
  <2>1. Catalog!Moves(p, "idle") /\ memory' = [memory EXCEPT ![p] = {}] /\ UNCHANGED <<offered, listing>>
    BY <1>10 DEF Catalog!Restart
  <2> QED BY <1>w, <2>1, CatalogLeaves
<1> QED BY <1>1, <1>2, <1>3, <1>4, <1>5, <1>6, <1>7, <1>8, <1>9, <1>10 DEF Catalog!Next

\* The listing of models.dev at first.
LEMMA DevStarts == Dev!Init => Dev!IInv
  BY DEF Dev!Init, Dev!IInv, Dev!TypeOK, Dev!Known, Dev!Served, Dev!BackOffHolds, Dev!None, Dev!Idle

\* Every step of the listing keeps its invariant.
LEMMA DevStays == Dev!IInv /\ [Dev!Next]_(Dev!vars) => Dev!IInv'
<1> SUFFICES ASSUME Dev!IInv, [Dev!Next]_(Dev!vars) PROVE Dev!IInv'
  OBVIOUS
<1> USE DEF Dev!TypeOK, Dev!Known, Dev!Served, Dev!BackOffHolds, Dev!None, Dev!Idle
<1>0. /\ Dev!TypeOK /\ Dev!Known /\ Dev!BackOffHolds /\ \A t \in Tasks : task[t].since <= devNow
      /\ RetryDelay \in Nat
  BY DelayAssumption DEF Dev!IInv
<1>1. CASE Dev!Tick
  BY <1>0, <1>1 DEF Dev!IInv, Dev!Tick
<1>2. CASE Dev!ServerChanges
  BY <1>0, <1>2 DEF Dev!IInv, Dev!ServerChanges
<1>3. CASE Dev!LoseFile
  BY <1>0, <1>3 DEF Dev!IInv, Dev!LoseFile
<1>4. CASE Dev!Restart
  BY <1>0, <1>4 DEF Dev!IInv, Dev!Restart
<1>5. ASSUME NEW t \in Tasks, Dev!Registry(t) PROVE Dev!IInv'
  BY <1>0, <1>5 DEF Dev!IInv, Dev!Registry, Dev!Gives, Dev!Cached, Dev!BackedOff
<1>6. ASSUME NEW t \in Tasks, Dev!NotModified(t) PROVE Dev!IInv'
  BY <1>0, <1>6 DEF Dev!IInv, Dev!NotModified, Dev!Settles, Dev!Gives, Dev!Cached
<1>7. ASSUME NEW t \in Tasks, Dev!Modified(t) PROVE Dev!IInv'
  BY <1>0, <1>7 DEF Dev!IInv, Dev!Modified
<1>8. ASSUME NEW t \in Tasks, Dev!SaveEtag(t) PROVE Dev!IInv'
  BY <1>0, <1>8 DEF Dev!IInv, Dev!SaveEtag, Dev!Settles, Dev!Gives, Dev!Cached
<1>9. ASSUME NEW t \in Tasks, Dev!Fails(t) PROVE Dev!IInv'
  BY <1>0, <1>9 DEF Dev!IInv, Dev!Fails, Dev!Settles, Dev!Gives, Dev!Cached
<1>10. CASE UNCHANGED Dev!vars
  BY <1>0, <1>10 DEF Dev!IInv, Dev!vars
<1> QED BY <1>1, <1>2, <1>3, <1>4, <1>5, <1>6, <1>7, <1>8, <1>9, <1>10 DEF Dev!Next

\* Whatever processes write over one another's temporary file, a listing given is one
\* that the endpoint served, whole and in time; and a request that failed holds back
\* those after it, for any number of tasks, restarts and versions.
THEOREM ListingsKept == ClientsSpec => []ListingsHold
<1>1. ClientsInit => Catalog!IInv /\ Dev!IInv
  BY CatalogStarts, DevStarts DEF ClientsInit
<1>2. Catalog!IInv /\ Dev!IInv /\ [ClientsNext]_clientsVars => (Catalog!IInv /\ Dev!IInv)'
  <2>1. [ClientsNext]_clientsVars => [Catalog!Next]_(Catalog!vars) /\ [Dev!Next]_(Dev!vars)
    BY DEF ClientsNext, Only, clientsVars, catalogVars, devVars, Catalog!vars, Dev!vars
  <2> QED BY <2>1, CatalogStays, DevStays
<1>3. Catalog!IInv /\ Dev!IInv => ListingsHold
  BY DEF Catalog!IInv, Dev!IInv, ListingsHold
<1> QED BY <1>1, <1>2, <1>3, PTL DEF ClientsSpec

-------------------------------------------------------------------------------
(* Who decides whether there is a credential.                                 *)

\* Whatever a session that was admitted sends, and is denied, is as it should be.
LEMMA AuthAgrees ==
  ASSUME NEW c, NEW k \in Credentials!Exports, NEW how, NEW stored, NEW given \in Credentials!Auth(c, k, stored),
         \/ how = "started" /\ Credentials!Selects(c, k)
         \/ how = "chosen" /\ Credentials!Applies(c, k)
  PROVE  /\ given = "denied" => /\ \/ c.profile = "nous" /\ stored # "fresh"
                                   \/ how = "chosen" /\ k = "blank"
                                /\ c.profile # "keyless" /\ c.key # "NONE" /\ k # "set"
                                /\ c.profile = "nous" => stored # "fresh"
         /\ c.profile = "keyless" => given \notin {"key", "token"}
BY DEF Credentials!Auth, Credentials!SkipsLookup, Credentials!Selects, Credentials!Applies,
       Credentials!Exports

\* The deciders at first.
LEMMA CredentialsStart == Credentials!Init => Credentials!IInv
  BY DEF Credentials!Init, Credentials!IInv, Credentials!CredentialsAgree, Credentials!Exports

\* Every step of the deciders keeps their invariant.
LEMMA CredentialsStay == Credentials!IInv /\ [Credentials!Next]_(Credentials!vars) => Credentials!IInv'
<1> SUFFICES ASSUME Credentials!IInv, [Credentials!Next]_(Credentials!vars) PROVE Credentials!IInv'
  OBVIOUS
<1>0. /\ Credentials!CredentialsAgree /\ exported \in Credentials!Exports
      /\ \A s \in running : Credentials!Admitted(s)
  BY DEF Credentials!IInv
<1>s. UNCHANGED running => \A s \in running' : Credentials!Admitted(s)'
  BY <1>0 DEF Credentials!Admitted, Credentials!Selects, Credentials!Applies
<1>l. last' = {} => Credentials!CredentialsAgree'
  BY DEF Credentials!CredentialsAgree
<1>1. CASE Credentials!Configure \/ Credentials!Export \/ Credentials!StoreChanges
  BY <1>0, <1>1, <1>s, <1>l
     DEF Credentials!Configure, Credentials!Export, Credentials!StoreChanges, Credentials!IInv
<1>2. CASE Credentials!Start
  <2>1. \A s \in running' : Credentials!Admitted(s)'
    BY <1>0, <1>2 DEF Credentials!Start, Credentials!Admitted, Credentials!Selects, Credentials!Applies,
                          Credentials!Merged, Credentials!Exports
  <2> QED BY <1>0, <1>2, <1>l, <2>1 DEF Credentials!Start, Credentials!IInv
<1>3. ASSUME NEW c \in Selectable, Credentials!Choose(c) PROVE Credentials!IInv'
  <2>1. \A s \in running' : Credentials!Admitted(s)'
    BY <1>0, <1>3 DEF Credentials!Choose, Credentials!Admitted, Credentials!Selects, Credentials!Applies
  <2> QED BY <1>0, <1>3, <1>l, <2>1 DEF Credentials!Choose, Credentials!IInv
<1>4. CASE Credentials!Request
  <2>1. PICK s \in running : \E given \in Credentials!Auth(s.choice, s.key, store) :
          /\ store' = IF given = "token" THEN "fresh" ELSE store
          /\ Credentials!Gives(s.choice, s.how, s.key, given)
    BY <1>4 DEF Credentials!Request
  <2>7. PICK given \in Credentials!Auth(s.choice, s.key, store) :
          /\ store' = IF given = "token" THEN "fresh" ELSE store
          /\ Credentials!Gives(s.choice, s.how, s.key, given)
    BY <2>1
  <2> DEFINE c == s.choice  k == s.key  how == s.how
  <2>6. /\ k \in Credentials!Exports /\ given \in Credentials!Auth(c, k, store)
        /\ \/ how = "started" /\ Credentials!Selects(c, k)
           \/ how = "chosen" /\ Credentials!Applies(c, k)
    BY <1>0, <2>7 DEF Credentials!Admitted
  <2> HIDE DEF c, k, how
  <2>2. /\ given = "denied" => /\ \/ c.profile = "nous" /\ store # "fresh"
                                  \/ how = "chosen" /\ k = "blank"
                               /\ c.profile # "keyless" /\ c.key # "NONE" /\ k # "set"
                               /\ c.profile = "nous" => store # "fresh"
        /\ c.profile = "keyless" => given \notin {"key", "token"}
    BY <2>6, AuthAgrees
  <2>3. /\ last' = {[choice |-> c, how |-> how, key |-> k, sent |-> given, store |-> store']}
        /\ given = "denied" => store' = store
    BY <2>7, <2>2 DEF Credentials!Gives, c, k, how
  <2>4. Credentials!CredentialsAgree'
    BY <2>2, <2>3 DEF Credentials!CredentialsAgree, Credentials!Resolves
  <2>5. UNCHANGED <<running, exported>>
    BY <1>4 DEF Credentials!Request
  <2> QED BY <1>0, <1>s, <2>4, <2>5 DEF Credentials!IInv
<1>5. CASE Credentials!Probe
  <2> DEFINE passes(c) == c.address # "remote" \/ c.profile = "keyless" \/ c.key = "NONE" \/ exported = "set"
  <2>7. PICK c \in chosen :
          /\ store' = IF c.profile = "nous" THEN "fresh" ELSE store
          /\ \E given \in Credentials!Auth(c, exported, store') :
               Credentials!Gives(c, "started", exported, IF passes(c) THEN given ELSE "refused")
    BY <1>5 DEF Credentials!Probe
  <2>1. PICK given \in Credentials!Auth(c, exported, store') :
          Credentials!Gives(c, "started", exported, IF passes(c) THEN given ELSE "refused")
    BY <2>7
  <2>2. given = "denied" /\ passes(c) => FALSE
    BY <2>7, <2>1 DEF Credentials!Auth, Credentials!SkipsLookup
  <2>3. c.profile = "keyless" => given \notin {"key", "token"}
    BY <2>1 DEF Credentials!Auth, Credentials!SkipsLookup
  <2>4. Credentials!CredentialsAgree'
    BY <2>1, <2>2, <2>3 DEF Credentials!CredentialsAgree, Credentials!Gives
  <2>5. UNCHANGED <<running, exported>>
    BY <1>5 DEF Credentials!Probe
  <2> QED BY <1>0, <1>s, <2>4, <2>5 DEF Credentials!IInv
<1>6. ASSUME NEW c \in Selectable, Credentials!List(c) PROVE Credentials!IInv'
  BY <1>0, <1>6, <1>s DEF Credentials!List, Credentials!Gives, Credentials!Bearer, Credentials!IInv,
                    Credentials!CredentialsAgree
<1>7. CASE Credentials!Quit
  BY <1>0, <1>7, <1>l DEF Credentials!Quit, Credentials!IInv
<1>8. CASE UNCHANGED Credentials!vars
  BY <1>0, <1>8, <1>s DEF Credentials!vars, Credentials!IInv, Credentials!CredentialsAgree,
                          Credentials!Resolves
<1> QED BY <1>1, <1>2, <1>3, <1>4, <1>5, <1>6, <1>7, <1>8 DEF Credentials!Next

-------------------------------------------------------------------------------
(* What a call on a provider posts.                                           *)

\* What CredentialsStayHome says of one call.
Home(call) ==
  /\ \A n \in DOMAIN call.posts :
       /\ Router!Suits(call, call.posts[n])
       /\ call.profile = "none" => call.gen > 0 /\ call.gen <= registry[call.role].gen
  /\ Len(call.posts) <= 2
  /\ Len(call.posts) = 2 => call.managed /\ call.posts[1].version < call.posts[2].version
  /\ call.at = "made up" => key = "unset" /\ call.posts = <<>>

Sound(call) == Router!Posted(call) /\ Router!Routed(call) /\ Home(call)

CallsRecord ==
  [at : {"idle", "no provider", "routed", "made up", "called", "ready", "unauthorized",
         "answered", "refused", "refreshed", "failed"},
   role : Roles \cup {""}, gen : Nat, model : {"", "registered", "override"},
   profile : Router!ProfileKinds, header : Router!Headers, managed : BOOLEAN, posts : Seq(Router!Headers)]

\* What all calls share.
Shared ==
  /\ registry \in [Roles -> [gen : Nat, enabled : BOOLEAN]]
  /\ token \in Nat /\ valid \in Nat /\ token <= valid
  /\ \A r \in Roles : registry[r].enabled => registry[r].gen > 0

CallsKnown == asked \in [Callers -> CallsRecord]
CallsSound == \A c \in Callers : Sound(asked[c])

\* The invariant of the calls in parts.
LEMMA RouterParts == Router!IInv <=> Shared /\ CallsKnown /\ CallsSound
  BY DEF Router!IInv, Router!TypeOK, Shared, CallsKnown, CallsSound, CallsRecord, Sound, Home,
         Router!CredentialsStayHome, Router!Suits

\* The same of the next state.
LEMMA RouterPartsNext == Router!IInv' <=> Shared' /\ CallsKnown' /\ CallsSound'
  BY RouterParts, PTL

\* A call that was not made sends nothing.
LEMMA IdleIsSound == Router!Idle \in CallsRecord /\ Sound(Router!Idle)
<1> USE DEF Router!Idle, Router!NoHeader
<1>1. Router!Idle \in CallsRecord
  BY DEF CallsRecord, Router!Headers, Router!ProfileKinds
<1>2. Router!Posted(Router!Idle) /\ Router!Routed(Router!Idle)
  BY DEF Router!Posted, Router!Routed
<1>3. Home(Router!Idle)
  BY DEF Home
<1> QED BY <1>1, <1>2, <1>3 DEF Sound

\* No call was made at first.
LEMMA RouterStarts == Router!Init => Router!IInv
<1> SUFFICES ASSUME Router!Init PROVE Router!IInv
  OBVIOUS
<1>1. Shared
  BY DEF Router!Init, Shared
<1>2. asked = [c \in Callers |-> Router!Idle]
  BY DEF Router!Init
<1>3. asked \in [Callers -> CallsRecord] /\ \A c \in Callers : Sound(asked[c])
  BY <1>2, IdleIsSound
<1> QED BY <1>1, <1>3, RouterParts DEF CallsKnown, CallsSound

\* Registrations only grow newer, and tokens too; so what held of a call still does.
LEMMA CallStaysSound ==
  ASSUME Shared, Shared', NEW call \in CallsRecord, Sound(call),
         \A r \in Roles : registry[r].gen <= registry'[r].gen, valid <= valid', key' = key
  PROVE  /\ Router!Suits(call, call.header)' = Router!Suits(call, call.header)
         /\ Router!Posted(call)' /\ Router!Routed(call)' /\ Home(call)'
<1> USE DEF Router!Suits
<1>0. /\ valid \in Nat /\ valid' \in Nat /\ call.gen \in Nat /\ call.header.version \in Nat
      /\ \A r \in Roles : registry[r].gen \in Nat /\ registry'[r].gen \in Nat
  BY DEF Shared, CallsRecord, Router!Headers
<1>7. call.header.version <= valid => call.header.version <= valid'
  BY <1>0
<1>1. Router!Posted(call)'
  BY <1>7 DEF Sound, Router!Posted
<1>6. call.role \in Roles /\ call.gen <= registry[call.role].gen => call.gen <= registry'[call.role].gen
  BY <1>0
<1>2. Router!Routed(call)'
  BY <1>6 DEF Sound, Router!Routed
<1>4. call.posts # <<>> /\ call.profile = "none" => call.gen > 0 /\ call.gen <= registry'[call.role].gen
  <2>1. call.posts # <<>> => call.at \notin {"idle", "no provider"}
    BY DEF Sound, Router!Posted
  <2>2. call.at \notin {"idle", "no provider"} /\ call.profile = "none" =>
          call.role \in Roles /\ call.gen > 0 /\ call.gen <= registry[call.role].gen
    BY DEF Sound, Router!Routed
  <2> QED BY <1>6, <2>1, <2>2
<1>5. \A n \in DOMAIN call.posts : call.posts # <<>>
  OBVIOUS
<1>3. Home(call)'
  BY <1>4, <1>5 DEF Sound, Home
<1> QED BY <1>1, <1>2, <1>3, <1>4

\* A step that leaves the calls alone, and one that moves a single call.
LEMMA RouterOthers ==
  ASSUME Router!IInv, Shared', asked' = asked,
         \A r \in Roles : registry[r].gen <= registry'[r].gen, valid <= valid', key' = key
  PROVE  Router!IInv'
<1>1. Shared /\ CallsKnown /\ \A c \in Callers : asked[c] \in CallsRecord /\ Sound(asked[c])
  BY RouterParts DEF CallsKnown, CallsSound
<1>2. ASSUME NEW call \in CallsRecord, Sound(call) PROVE Sound(call)'
  BY <1>1, <1>2, CallStaysSound DEF Sound
<1>3. ASSUME NEW c \in Callers PROVE Sound(asked[c])'
  <2>1. PICK call : call = asked[c]
    OBVIOUS
  <2>2. call \in CallsRecord /\ Sound(call)
    BY <1>1, <2>1
  <2>3. Sound(call)'
    BY <1>2, <2>2
  <2>4. asked'[c] = call
    BY <2>1
  <2> QED BY <2>3, <2>4
<1> QED BY <1>1, <1>3, RouterPartsNext DEF CallsKnown, CallsSound

\* A caller that moves to a sound call keeps all calls sound.
LEMMA RouterMoves ==
  ASSUME Router!IInv, Shared', NEW c \in Callers, NEW new \in CallsRecord,
         asked' = [asked EXCEPT ![c] = new], Sound(new)',
         registry' = registry, valid <= valid', key' = key
  PROVE  Router!IInv'
<1>1. Shared /\ CallsKnown /\ \A d \in Callers : asked[d] \in CallsRecord /\ Sound(asked[d])
  BY RouterParts DEF CallsKnown, CallsSound
<1>2. ASSUME NEW call \in CallsRecord, Sound(call) PROVE Sound(call)'
  <2>1. \A r \in Roles : registry[r].gen <= registry'[r].gen
    BY <1>1 DEF Shared
  <2> QED BY <1>1, <1>2, <2>1, CallStaysSound DEF Sound
<1>3. ASSUME NEW d \in Callers PROVE Sound(asked[d])'
  <2>1. PICK call : call = asked[d]
    OBVIOUS
  <2>2. call \in CallsRecord /\ Sound(call)
    BY <1>1, <2>1
  <2>3. Sound(call)'
    BY <1>2, <2>2
  <2>4. asked'[d] = IF d = c THEN new ELSE call
    BY <1>1, <2>1 DEF CallsKnown
  <2> QED BY <2>3, <2>4
<1>4. CallsKnown'
  BY <1>1 DEF CallsKnown
<1> QED BY <1>3, <1>4, RouterPartsNext DEF CallsSound

\* A second element behind a first.
LEMMA AppendSecond ==
  ASSUME NEW S, NEW p \in Seq(S), NEW h \in S, Len(p) = 1
  PROVE  /\ Len(Append(p, h)) = 2
         /\ DOMAIN Append(p, h) = 1..2
         /\ Append(p, h)[1] = p[1]
         /\ Append(p, h)[2] = h
<1>1. Append(p, h) \in Seq(S) /\ Len(Append(p, h)) = Len(p) + 1
  BY AppendProperties, ZenonT(30)
<1>2. Append(p, h)[Len(p) + 1] = h
  BY AppendProperties, ZenonT(30)
<1>3. \A i \in 1..Len(p) : Append(p, h)[i] = p[i]
  BY AppendProperties, ZenonT(30)
<1>4. Len(p) + 1 = 2 /\ 1 \in 1..Len(p)
  OBVIOUS
<1>5. DOMAIN Append(p, h) = 1..2
  BY <1>1, <1>4
<1> QED BY <1>1, <1>2, <1>3, <1>4, <1>5

\* What is posted is the header the call was made ready with.
LEMMA RouterPosts ==
  ASSUME NEW call \in CallsRecord, Sound(call), call.at \in {"ready", "refreshed"},
         NEW to \in {"answered", "refused", "failed"}, to = "refused" => call.at = "ready" /\ call.managed,
         UNCHANGED <<registry, key, valid>>
  PROVE  LET new == [call EXCEPT !.posts = Append(@, call.header), !.at = to]
         IN  new \in CallsRecord /\ Sound(new)'
<1> DEFINE new == [call EXCEPT !.posts = Append(@, call.header), !.at = to]
<1>1. /\ call.posts \in Seq(Router!Headers) /\ call.header \in Router!Headers
      /\ new \in CallsRecord
      /\ new.at = to /\ new.posts = Append(call.posts, call.header)
      /\ new.profile = call.profile /\ new.gen = call.gen /\ new.role = call.role
      /\ new.managed = call.managed /\ new.header = call.header
  <2>1. PICK posts : posts = Append(call.posts, call.header)
    OBVIOUS
  <2>6. call.posts \in Seq(Router!Headers) /\ call.header \in Router!Headers
    BY DEF CallsRecord
  <2>2. call.posts \in Seq(Router!Headers) /\ call.header \in Router!Headers /\ posts \in Seq(Router!Headers)
    BY <2>1, <2>6
  <2>3. new = [call EXCEPT !.posts = posts, !.at = to]
    BY <2>1
  <2> HIDE DEF new
  <2>4. new \in CallsRecord /\ new.at = to /\ new.posts = posts
    BY <2>2, <2>3 DEF CallsRecord
  <2>5. /\ new.profile = call.profile /\ new.gen = call.gen /\ new.role = call.role
        /\ new.managed = call.managed /\ new.header = call.header
    BY <2>3 DEF CallsRecord
  <2> QED BY <2>1, <2>2, <2>4, <2>5
<1> HIDE DEF new
<1>2. Router!Suits(call, call.header) /\ (call.managed <=> call.header.kind = "token")
  BY DEF Sound, Router!Posted
<1>3. call.profile = "none" => call.role \in Roles /\ call.gen > 0 /\ call.gen <= registry[call.role].gen
  BY DEF Sound, Router!Routed
<1>4. \A h : Router!Suits(new, h)' <=> Router!Suits(call, h)
  BY <1>1 DEF Router!Suits
<1>5. Router!Routed(new)'
  BY <1>1, <1>3 DEF Router!Routed
<1>6. CASE call.at = "ready"
  <2>1. call.posts = <<>>
    BY <1>6 DEF Sound, Router!Posted
  <2>2. new.posts = <<call.header>>
    BY <1>1, <2>1
  <2>3. Router!Posted(new)'
    BY <1>1, <1>2, <1>4, <1>6, <2>2 DEF Sound, Router!Posted
  <2>4. Home(new)'
    <3>1. Len(new.posts) = 1 /\ DOMAIN new.posts = {1} /\ new.posts[1] = call.header /\ Len(new.posts) <= 2
      BY <2>2
    <3>2. \A n \in DOMAIN new.posts : Router!Suits(new, new.posts[n])'
      BY <1>2, <1>4, <3>1
    <3>3. Len(new.posts) # 2
      BY <3>1
    <3>5. new.at # "made up"
      BY <1>1
    <3>4. new.profile = "none" => new.gen > 0 /\ new.gen <= registry'[new.role].gen
      BY <1>1, <1>3
    <3> QED BY <3>1, <3>2, <3>3, <3>4, <3>5 DEF Home
  <2> QED BY <1>1, <1>5, <2>3, <2>4 DEF Sound, new
<1>7. CASE call.at = "refreshed"
  <2>1. call.managed /\ Len(call.posts) = 1 /\ call.posts[1].version < call.header.version
    BY <1>7 DEF Sound, Router!Posted
  <2>2. /\ Len(new.posts) = 2 /\ DOMAIN new.posts = 1..2
        /\ new.posts[1] = call.posts[1] /\ new.posts[2] = call.header
    <3>1. PICK p, h : p = call.posts /\ h = call.header /\ p \in Seq(Router!Headers) /\ h \in Router!Headers
      BY <1>1
    <3>2. Len(p) = 1
      BY <2>1, <3>1
    <3>3. /\ Len(Append(p, h)) = 2 /\ DOMAIN Append(p, h) = 1..2
          /\ Append(p, h)[1] = p[1] /\ Append(p, h)[2] = h
      BY <3>1, <3>2, AppendSecond
    <3>4. new.posts = Append(p, h)
      BY <1>1, <3>1
    <3> QED BY <3>1, <3>3, <3>4
  <2>3. Router!Suits(call, call.posts[1])
    <3>1. 1 \in DOMAIN call.posts
      BY <1>1, <2>1
    <3> QED BY <3>1 DEF Sound, Home
  <2>4. Router!Posted(new)'
    BY <1>1, <1>7 DEF Router!Posted
  <2>5. Home(new)'
    <3>1. \A n \in 1..2 : n = 1 \/ n = 2
      OBVIOUS
    <3>2. \A n \in DOMAIN new.posts : Router!Suits(new, new.posts[n])'
      BY <1>2, <1>4, <2>2, <2>3, <3>1
    <3>3. new.at # "made up" /\ new.managed
      BY <1>1, <2>1
    <3>5. new.posts[1].version < new.posts[2].version
      BY <2>1, <2>2
    <3>6. Len(new.posts) <= 2
      BY <2>2
    <3>4. new.profile = "none" => new.gen > 0 /\ new.gen <= registry'[new.role].gen
      BY <1>1, <1>3
    <3> QED BY <3>2, <3>3, <3>4, <3>5, <3>6 DEF Home
  <2> QED BY <1>1, <1>5, <2>4, <2>5 DEF Sound, new
<1> QED BY <1>6, <1>7

\* The token that is stored is never later than the one the portal takes.
LEMMA SharedStays == Shared /\ [Router!Next]_(Router!vars) =>
  Shared' /\ valid <= valid' /\ key' = key /\ \A r \in Roles : registry[r].gen <= registry'[r].gen
<1> SUFFICES ASSUME Shared, [Router!Next]_(Router!vars)
             PROVE  /\ Shared' /\ valid <= valid' /\ key' = key
                    /\ \A r \in Roles : registry[r].gen <= registry'[r].gen
  OBVIOUS
<1> USE DEF Shared
<1>1. ASSUME NEW r \in Roles, NEW e \in BOOLEAN, Router!Register(r, e) \/ Router!SetEnabled(r, e)
      PROVE  /\ registry' \in [Roles -> [gen : Nat, enabled : BOOLEAN]]
             /\ \A o \in Roles : /\ registry[o].gen <= registry'[o].gen
                                 /\ registry'[o].enabled => registry'[o].gen > 0
             /\ UNCHANGED <<token, valid, key>>
  BY <1>1 DEF Router!Register, Router!SetEnabled
<1>2. ASSUME NEW c \in Callers, Router!Refresh(c)
      PROVE  /\ token' \in Nat /\ valid' \in Nat /\ token' <= valid' /\ valid <= valid'
             /\ UNCHANGED <<registry, key>>
  BY <1>2 DEF Router!Refresh
<1>3. CASE Router!Revoke \/ Router!Login \/ Router!Logout
  BY <1>3 DEF Router!Revoke, Router!Login, Router!Logout
<1>4. CASE UNCHANGED <<registry, token, valid, key>>
  BY <1>4, SMTT(30)
<1>5. \/ \E r \in Roles, e \in BOOLEAN : Router!Register(r, e) \/ Router!SetEnabled(r, e)
      \/ \E c \in Callers : Router!Refresh(c)
      \/ Router!Revoke \/ Router!Login \/ Router!Logout
      \/ UNCHANGED <<registry, token, valid, key>>
  BY DEF Router!Next, Router!vars, Router!SetOverride, Router!Resolve, Router!Authorize, Router!Break,
         Router!Route, Router!Call, Router!Post
<1> QED BY <1>1, <1>2, <1>3, <1>4, <1>5

\* A call that posts nothing more keeps what it posted.
LEMMA HomeStays ==
  ASSUME NEW call, NEW new, Home(call), new.posts = call.posts, new.managed = call.managed,
         new.profile = call.profile, new.role = call.role, new.gen = call.gen, new.at # "made up",
         UNCHANGED <<registry, key>>
  PROVE  Home(new)'
<1>1. \A h : Router!Suits(new, h)' <=> Router!Suits(call, h)
  BY DEF Router!Suits
<1>2. PICK posts : posts = call.posts
  OBVIOUS
<1>3. /\ \A n \in DOMAIN posts :
           /\ Router!Suits(call, posts[n])
           /\ call.profile = "none" => call.gen > 0 /\ call.gen <= registry[call.role].gen
      /\ Len(posts) <= 2
      /\ Len(posts) = 2 => call.managed /\ posts[1].version < posts[2].version
  BY <1>2 DEF Home
<1>4. new.posts = posts
  BY <1>2
<1>5. \A n \in DOMAIN posts :
        /\ Router!Suits(new, posts[n])'
        /\ new.profile = "none" => new.gen > 0 /\ new.gen <= registry'[new.role].gen
  BY <1>1, <1>3
<1> QED BY <1>3, <1>4, <1>5 DEF Home

\* Every step of the calls keeps their invariant.
LEMMA RouterStays == Router!IInv /\ [Router!Next]_(Router!vars) => Router!IInv'
<1> SUFFICES ASSUME Router!IInv, [Router!Next]_(Router!vars) PROVE Router!IInv'
  OBVIOUS
<1>0. /\ Shared /\ Shared' /\ valid <= valid' /\ key' = key
      /\ \A r \in Roles : registry[r].gen <= registry'[r].gen
  BY RouterParts, SharedStays
<1>t. /\ \A r \in Roles : registry[r].gen \in Nat /\ (registry[r].enabled => registry[r].gen > 0)
      /\ token \in Nat /\ valid \in Nat /\ token <= valid
  BY <1>0 DEF Shared
<1>c. \A c \in Callers : asked[c] \in CallsRecord /\ Sound(asked[c])
  BY RouterParts DEF CallsKnown, CallsSound
<1>m. ASSUME NEW c \in Callers, NEW new \in CallsRecord, Router!Set(c, new), Sound(new)', registry' = registry
      PROVE  Router!IInv'
  BY <1>0, <1>m, RouterMoves DEF Router!Set
<1>1. CASE asked' = asked
  BY <1>0, <1>1, RouterOthers
<1>2. ASSUME NEW c \in Callers, NEW r \in Roles, Router!Route(c, r) PROVE Router!IInv'
  <2>1. PICK new : /\ Router!Set(c, new) /\ registry' = registry
                   /\ new = IF registry[r].enabled
                            THEN [Router!Idle EXCEPT !.at = "routed", !.role = r, !.gen = registry[r].gen]
                            ELSE [Router!Idle EXCEPT !.at = "no provider", !.role = r]
    BY <1>2 DEF Router!Route
  <2>2. /\ new \in CallsRecord /\ new.posts = <<>> /\ new.at \in {"routed", "no provider"}
        /\ new.at = "routed" => new.role = r /\ new.gen = registry[r].gen /\ registry[r].gen > 0
    BY <1>t, <2>1, IdleIsSound DEF Router!Idle, CallsRecord
  <2>3. Sound(new)'
    BY <1>t, <2>1, <2>2 DEF Sound, Router!Posted, Router!Routed, Home
  <2> QED BY <1>m, <2>1, <2>2, <2>3
<1>3. ASSUME NEW c \in Callers, Router!Resolve(c) PROVE Router!IInv'
  <2>1. PICK call, new :
          /\ call = asked[c] /\ call.at = "routed" /\ Router!Set(c, new) /\ registry' = registry
          /\ new = [call EXCEPT !.model = IF call.role \in overrides THEN "override" ELSE "registered",
                                !.at = IF key = "unset" THEN "made up" ELSE "called"]
    BY <1>3 DEF Router!Resolve
  <2>2. call \in CallsRecord /\ Sound(call)
    BY <1>c, <2>1
  <2>3. /\ new \in CallsRecord /\ new.posts = call.posts /\ new.at \in {"made up", "called"}
        /\ new.role = call.role /\ new.gen = call.gen /\ new.profile = call.profile
        /\ new.at = "made up" => key = "unset"
    BY <2>1, <2>2 DEF CallsRecord
  <2>4. call.posts = <<>>
    BY <2>1, <2>2 DEF Sound, Router!Posted
  <2>5. Sound(new)'
    BY <1>0, <2>1, <2>2, <2>3, <2>4 DEF Sound, Router!Posted, Router!Routed, Home
  <2> QED BY <1>m, <2>1, <2>3, <2>5
<1>4. ASSUME NEW c \in Callers, NEW p \in Router!ProfileKinds, Router!Call(c, p) PROVE Router!IInv'
  <2>1. PICK new : /\ Router!Set(c, new) /\ registry' = registry /\ p # "none"
                   /\ new = [Router!Idle EXCEPT !.at = "called", !.profile = p]
    BY <1>4 DEF Router!Call
  <2>2. new \in CallsRecord /\ new.posts = <<>> /\ new.at = "called" /\ new.profile # "none"
    BY <2>1, IdleIsSound DEF Router!Idle, CallsRecord
  <2>3. Sound(new)'
    BY <2>2 DEF Sound, Router!Posted, Router!Routed, Home
  <2> QED BY <1>m, <2>1, <2>2, <2>3
<1>5. ASSUME NEW c \in Callers, Router!Authorize(c) PROVE Router!IInv'
  <2>1. PICK call : call = asked[c]
    OBVIOUS
  <2>2. call \in CallsRecord /\ Sound(call) /\ call.at = "called" /\ UNCHANGED <<registry, valid, token, key>>
    BY <1>5, <1>c, <2>1 DEF Router!Authorize
  <2>3. call.posts = <<>> /\ (call.profile = "none" =>
                                call.role \in Roles /\ call.gen > 0 /\ call.gen <= registry[call.role].gen)
    BY <2>2 DEF Sound, Router!Posted, Router!Routed
  <2>4. CASE Router!Set(c, [call EXCEPT !.at = "unauthorized"])
    <3>1. PICK new : Router!Set(c, new) /\ new = [call EXCEPT !.at = "unauthorized"]
      BY <2>4
    <3>2. /\ new \in CallsRecord /\ new.at = "unauthorized" /\ new.posts = <<>>
          /\ new.profile = call.profile /\ new.role = call.role /\ new.gen = call.gen
      BY <2>2, <2>3, <3>1 DEF CallsRecord
    <3>3. Sound(new)'
      BY <2>2, <2>3, <3>2 DEF Sound, Router!Posted, Router!Routed, Home
    <3> QED BY <1>m, <2>2, <3>1, <3>2, <3>3
  <2>5. ASSUME NEW kind \in {"empty", "key", "token", "ollama"}, NEW version \in 0..valid, NEW managed \in BOOLEAN,
               Router!Set(c, [call EXCEPT !.at = "ready", !.managed = managed,
                                          !.header = [kind |-> kind, version |-> version]]),
               kind = "token" <=> call.profile = "nous" /\ key # "set",
               kind = "empty" <=> call.profile = "keyless",
               kind = "ollama" => call.profile = "local" /\ key # "set",
               managed <=> kind = "token"
        PROVE  Router!IInv'
    <3>1. PICK header, new :
            /\ header = [kind |-> kind, version |-> version] /\ Router!Set(c, new)
            /\ new = [call EXCEPT !.at = "ready", !.managed = managed, !.header = header]
      BY <2>5
    <3>2. header \in Router!Headers /\ header.kind = kind /\ header.version <= valid
      BY <1>t, <3>1 DEF Router!Headers
    <3>3. /\ new \in CallsRecord /\ new.at = "ready" /\ new.posts = <<>> /\ new.header = header
          /\ new.managed = managed
          /\ new.profile = call.profile /\ new.role = call.role /\ new.gen = call.gen
      BY <2>2, <2>3, <3>1, <3>2 DEF CallsRecord
    <3>4. Router!Suits(new, header)'
      BY <2>2, <2>5, <3>2, <3>3 DEF Router!Suits
    <3>5. Sound(new)'
      BY <2>2, <2>3, <2>5, <3>2, <3>3, <3>4 DEF Sound, Router!Posted, Router!Routed, Home
    <3> QED BY <1>m, <2>2, <3>1, <3>3, <3>5
  <2> QED
    <3> DEFINE Gets(kind, version, managed) ==
                 Router!Set(c, [call EXCEPT !.at = "ready", !.managed = managed,
                                            !.header = [kind |-> kind, version |-> version]])
               p == call.profile
    <3>1. \/ p = "keyless" /\ Gets("empty", 0, FALSE)
          \/ p # "keyless" /\ key = "set" /\ Gets("key", 0, FALSE)
          \/ p = "nous" /\ key # "set" /\ token > 0 /\ Gets("token", token, TRUE)
          \/ p = "local" /\ key # "set" /\ Gets("ollama", 0, FALSE)
          \/ Router!Set(c, [call EXCEPT !.at = "unauthorized"])
      BY <1>5, <2>1 DEF Router!Authorize
    <3>2. 0 \in 0..valid /\ token \in 0..valid
      BY <1>t
    <3> QED BY <2>4, <2>5, <3>1, <3>2
<1>6. ASSUME NEW c \in Callers, NEW refused \in BOOLEAN, Router!Post(c, refused) PROVE Router!IInv'
  <2>1. PICK call, to :
          /\ call = asked[c] /\ call.at \in {"ready", "refreshed"}
          /\ to = IF ~refused THEN "answered"
                  ELSE IF call.at = "ready" /\ call.managed THEN "refused" ELSE "failed"
          /\ Router!Set(c, [call EXCEPT !.posts = Append(@, call.header), !.at = to])
          /\ UNCHANGED <<registry, key, valid>>
    BY <1>6 DEF Router!Post, Router!Retries
  <2>2. call \in CallsRecord /\ Sound(call)
    BY <1>c, <2>1
  <2>3. PICK new : new = [call EXCEPT !.posts = Append(@, call.header), !.at = to]
    BY SMTT(30)
  <2>4. new \in CallsRecord /\ Sound(new)'
    BY <2>1, <2>2, <2>3, RouterPosts
  <2> QED BY <1>m, <2>1, <2>3, <2>4
<1>7. ASSUME NEW c \in Callers, Router!Break(c) PROVE Router!IInv'
  <2>1. PICK call, new :
          /\ call = asked[c] /\ call.at \in {"called", "ready", "refused", "refreshed"}
          /\ Router!Set(c, new) /\ UNCHANGED <<registry, key, valid>>
          /\ new = [call EXCEPT !.at = "failed"]
    BY <1>7 DEF Router!Break
  <2>2. call \in CallsRecord /\ Sound(call)
    BY <1>c, <2>1
  <2>3. /\ new \in CallsRecord /\ new.at = "failed" /\ new.posts = call.posts /\ new.managed = call.managed
        /\ new.profile = call.profile /\ new.role = call.role /\ new.gen = call.gen
    BY <2>1, <2>2 DEF CallsRecord
  <2>4. Home(new)'
    BY <2>1, <2>2, <2>3, HomeStays DEF Sound
  <2>5. Router!Posted(new)' /\ Router!Routed(new)'
    BY <2>1, <2>2, <2>3 DEF Sound, Router!Posted, Router!Routed
  <2> QED BY <1>m, <2>1, <2>3, <2>4, <2>5 DEF Sound
<1>8. ASSUME NEW c \in Callers, Router!Refresh(c) PROVE Router!IInv'
  <2>1. PICK call : call = asked[c] /\ call.at = "refused" /\ UNCHANGED <<registry, key>>
    BY <1>8 DEF Router!Refresh
  <2>2. call \in CallsRecord /\ Sound(call)
    BY <1>c, <2>1
  <2>3. /\ call.managed /\ call.posts = <<call.header>> /\ call.header.kind = "token"
        /\ call.header.version <= valid /\ call.header.version \in Nat
        /\ Router!Suits(call, call.header)
        /\ call.profile = "nous"
    BY <2>1, <2>2 DEF Sound, Router!Posted, CallsRecord, Router!Headers, Router!Suits
  <2>4. PICK header, new :
          /\ header = [kind |-> "token", version |-> valid'] /\ Router!Set(c, new)
          /\ \/ new = [call EXCEPT !.at = "refreshed", !.header = header] /\ valid' = valid + 1
             \/ new = [call EXCEPT !.at = "unauthorized"] /\ valid' = valid
    BY <1>8, <2>1 DEF Router!Refresh
  <2>5. header \in Router!Headers /\ header.kind = "token" /\ header.version = valid'
    BY <1>0, <2>4 DEF Router!Headers, Shared
  <2>6. /\ new \in CallsRecord /\ new.posts = call.posts /\ new.managed = call.managed
        /\ new.profile = call.profile /\ new.role = call.role /\ new.gen = call.gen
        /\ new.at \in {"refreshed", "unauthorized"}
        /\ new.at = "refreshed" => new.header = header /\ valid' = valid + 1
    BY <2>2, <2>4, <2>5 DEF CallsRecord
  <2>7. Home(new)'
    BY <1>0, <2>1, <2>2, <2>6, HomeStays DEF Sound
  <2>8. Router!Routed(new)'
    BY <2>3, <2>6 DEF Router!Routed
  <2>9. Router!Posted(new)'
    <3>1. call.header.version < valid + 1 /\ Len(call.posts) = 1 /\ call.posts[1] = call.header
      BY <1>t, <2>3
    <3>2. Router!Suits(new, header)'
      BY <2>1, <2>3, <2>5, <2>6 DEF Router!Suits
    <3> QED BY <2>3, <2>5, <2>6, <3>1, <3>2 DEF Router!Posted
  <2> QED BY <1>m, <2>1, <2>4, <2>6, <2>7, <2>8, <2>9 DEF Sound
<1>9. \/ asked' = asked
      \/ \E c \in Callers :
           \/ Router!Resolve(c) \/ Router!Authorize(c) \/ Router!Refresh(c) \/ Router!Break(c)
           \/ \E r \in Roles : Router!Route(c, r)
           \/ \E profile \in Router!ProfileKinds : Router!Call(c, profile)
           \/ \E refused \in BOOLEAN : Router!Post(c, refused)
  BY DEF Router!Next, Router!vars, Router!Register, Router!SetEnabled, Router!SetOverride, Router!Revoke,
         Router!Login, Router!Logout
<1> QED BY <1>1, <1>2, <1>3, <1>4, <1>5, <1>6, <1>7, <1>8, <1>9

\* Of any number of processes, callers and roles: the deciders agree, a credential goes
\* only where it belongs, and no update of the stored ones is lost.
THEOREM CredentialsKept == ClientsSpec => []CredentialsHold
<1>1. ClientsInit => Credentials!IInv /\ Router!IInv /\ Store!IInv
  BY CredentialsStart, RouterStarts, StoreStarts DEF ClientsInit
<1>2. /\ Credentials!IInv /\ Router!IInv /\ Store!IInv
      /\ [ClientsNext]_clientsVars
      => (Credentials!IInv /\ Router!IInv /\ Store!IInv)'
  <2>1. [ClientsNext]_clientsVars => [Credentials!Next]_(Credentials!vars)
    BY DEF ClientsNext, Only, clientsVars, providerVars, Credentials!vars
  <2>2. [ClientsNext]_clientsVars => [Router!Next]_(Router!vars)
    BY DEF ClientsNext, Only, clientsVars, callVars, Router!vars
  <2>3. [ClientsNext]_clientsVars => [Store!Next]_(Store!vars)
    BY DEF ClientsNext, Only, clientsVars, storeVars, Store!vars
  <2> QED BY <2>1, <2>2, <2>3, CredentialsStay, RouterStays, StoreStays
<1>3. Credentials!IInv /\ Router!IInv /\ Store!IInv => CredentialsHold
  BY DEF Credentials!IInv, Router!IInv, Store!IInv, Store!StoreIsSafe, CredentialsHold
<1> QED BY <1>1, <1>2, <1>3, PTL DEF ClientsSpec

-------------------------------------------------------------------------------
(* The configuration.                                                         *)

SessionRecord ==
  [at : {"off", "env", "up", "saving"}, key : BOOLEAN, offline : BOOLEAN,
   label : Models \cup {"none", "offline-demo", "not-configured"},
   model : Models \cup {"none", "mock"}, choice : Models \cup {"none"}]

WizardRecord ==
  [at : {"done", "read", "truncate", "write", "look", "publish"},
   model : Models \cup {"none"}, force : BOOLEAN, read : BOOLEAN]

\* A session whose model in use is backed and whose choice is one.
Backed(r) ==
  /\ r.at \in {"up", "saving"} =>
       IF r.model = "mock" THEN r.offline \/ r.label = "not-configured" \/ r.label \in Models
       ELSE r.model \in Keyless \/ r.key
  /\ r.at = "saving" => r.choice \in Models

BackedSessions == {r \in SessionRecord : Backed(r)}
NamedWizards == {r \in WizardRecord : r.at # "done" => r.model \in Models}

FilesNamed ==
  /\ config.state \in {"absent", "torn", "whole"} /\ (config.state = "whole" => config.model \in Models)
  /\ dotenv \in [state : {"torn", "whole"}, key : BOOLEAN, others : BOOLEAN]

ConfigKnown == session \in [Sessions -> BackedSessions] /\ wizard \in [Wizards -> NamedWizards]

\* The invariant of the configuration in parts.
LEMMA ConfigParts == Config!IInv <=> FilesNamed /\ ConfigKnown
<1> USE DEF Config!TypeOK, Config!ModelsAreNamed, Config!ModelsAreBacked, FilesNamed, ConfigKnown,
            BackedSessions, NamedWizards, Backed
<1>1. Config!IInv => FilesNamed /\ ConfigKnown
  BY DEF Config!IInv, SessionRecord, WizardRecord
<1>2. FilesNamed /\ ConfigKnown => Config!IInv
  <2>1. FilesNamed /\ ConfigKnown => Config!TypeOK
    BY DEF SessionRecord, WizardRecord
  <2> QED BY <2>1 DEF Config!IInv
<1> QED BY <1>1, <1>2

\* The same of the next state.
LEMMA ConfigPartsNext == Config!IInv' <=> FilesNamed' /\ ConfigKnown'
  BY ConfigParts, PTL

\* The configuration at first.
LEMMA ConfigStarts == Config!Init => Config!IInv
<1> SUFFICES ASSUME Config!Init PROVE FilesNamed /\ ConfigKnown
  BY ConfigParts
<1>1. Config!Off \in BackedSessions /\ Config!Done \in NamedWizards
  BY DEF Config!Off, Config!Done, BackedSessions, NamedWizards, Backed, SessionRecord, WizardRecord
<1> QED BY <1>1 DEF Config!Init, Config!NoConfig, FilesNamed, ConfigKnown

\* Every step of the configuration keeps its invariant.
LEMMA ConfigStays == Config!IInv /\ [Config!Next]_(Config!vars) => Config!IInv'
<1> SUFFICES ASSUME Config!IInv, [Config!Next]_(Config!vars) PROVE FilesNamed' /\ ConfigKnown'
  BY ConfigPartsNext
<1> USE DEF Config!NoConfig, Config!Off, Config!Done, Config!Whole, Config!To
<1>0. FilesNamed /\ ConfigKnown
  BY ConfigParts
<1>k. /\ \A s \in Sessions : session[s] \in SessionRecord /\ Backed(session[s])
      /\ \A w \in Wizards : wizard[w] \in WizardRecord /\ (wizard[w].at # "done" => wizard[w].model \in Models)
  BY <1>0 DEF ConfigKnown, BackedSessions, NamedWizards
<1>u. UNCHANGED <<config, dotenv>> => FilesNamed'
  BY <1>0 DEF FilesNamed
<1>s. ASSUME NEW s \in Sessions, NEW new \in SessionRecord, Backed(new),
             session' = [session EXCEPT ![s] = new], wizard' = wizard
      PROVE  ConfigKnown'
  <2>1. new \in BackedSessions
    BY <1>s DEF BackedSessions
  <2> QED BY <1>0, <1>s, <2>1 DEF ConfigKnown
<1>w. ASSUME NEW w \in Wizards, NEW new \in WizardRecord, new.at # "done" => new.model \in Models,
             wizard' = [wizard EXCEPT ![w] = new], session' = session
      PROVE  ConfigKnown'
  <2>1. new \in NamedWizards
    BY <1>w DEF NamedWizards
  <2> QED BY <1>0, <1>w, <2>1 DEF ConfigKnown
<1>d. Config!Done \in WizardRecord /\ Config!Done.at = "done" /\ Config!Off \in SessionRecord /\ Backed(Config!Off)
  BY DEF SessionRecord, WizardRecord, Backed
<1>1. ASSUME NEW s \in Sessions, NEW offline \in BOOLEAN, Config!LoadDotenv(s, offline)
      PROVE  FilesNamed' /\ ConfigKnown'
  <2>1. PICK k, new : /\ new = [Config!Off EXCEPT !.at = "env", !.key = k, !.offline = offline]
                      /\ k \in {dotenv.key, FALSE} /\ session' = [session EXCEPT ![s] = new]
                      /\ UNCHANGED <<config, dotenv, wizard>>
    BY <1>1 DEF Config!LoadDotenv
  <2>2. k \in BOOLEAN
    BY <1>0, <2>1 DEF FilesNamed
  <2>3. new \in SessionRecord /\ Backed(new)
    BY <2>1, <2>2 DEF SessionRecord, Backed
  <2> QED BY <1>s, <1>u, <2>1, <2>3
<1>2. ASSUME NEW s \in Sessions, Config!Resolve(s) PROVE FilesNamed' /\ ConfigKnown'
  <2>1. UNCHANGED <<config, dotenv, wizard>>
    BY <1>2 DEF Config!Resolve
  <2>2. CASE session' = [session EXCEPT ![s] = Config!Off]
    BY <1>d, <1>s, <1>u, <2>1, <2>2
  <2>3. CASE session' # [session EXCEPT ![s] = Config!Off]
    <3>1. PICK r, new :
            /\ r \in Config!Selected(s) /\ config.state # "torn" /\ session' = [session EXCEPT ![s] = new]
            /\ new = [session[s] EXCEPT !.at = "up", !.label = r.label, !.model = r.model]
      <4>1. Config!Selected(s) # {} /\ config.state # "torn"
        BY <1>2, <2>3 DEF Config!Resolve
      <4>2. PICK r \in Config!Selected(s) : r = CHOOSE x \in Config!Selected(s) : TRUE
        BY <4>1
      <4>3. session' = [session EXCEPT ![s] = [session[s] EXCEPT !.at = "up", !.label = r.label, !.model = r.model]]
        BY <1>2, <2>3, <4>2 DEF Config!Resolve
      <4> QED BY <4>1, <4>2, <4>3
    <3>2. \/ session[s].offline /\ r = [label |-> "offline-demo", model |-> "mock"]
          \/ r = [label |-> "not-configured", model |-> "mock"]
          \/ /\ config.state # "absent" /\ (config.model \in Keyless \/ session[s].key)
             /\ r = [label |-> config.model, model |-> config.model]
      BY <3>1 DEF Config!Selected
    <3>3. config.state # "absent" => config.model \in Models
      BY <1>0, <3>1 DEF FilesNamed
    <3>4. /\ new \in SessionRecord /\ new.at = "up" /\ new.label = r.label /\ new.model = r.model
          /\ new.offline = session[s].offline /\ new.key = session[s].key
      <4>1. PICK old, label, model : old = session[s] /\ label = r.label /\ model = r.model
        OBVIOUS
      <4>2. old \in SessionRecord /\ new = [old EXCEPT !.at = "up", !.label = label, !.model = model]
        BY <1>k, <3>1, <4>1
      <4>3. label \in Models \cup {"none", "offline-demo", "not-configured"} /\ model \in Models \cup {"none", "mock"}
        BY <3>2, <3>3, <4>1
      <4>4. /\ new \in SessionRecord /\ new.at = "up" /\ new.label = label /\ new.model = model
            /\ new.offline = old.offline /\ new.key = old.key
        BY <4>2, <4>3 DEF SessionRecord
      <4> QED BY <4>1, <4>4
    <3>5. Backed(new)
      BY <3>2, <3>3, <3>4 DEF Backed
    <3> QED BY <1>s, <1>u, <2>1, <3>1, <3>4, <3>5
  <2> QED BY <2>2, <2>3
<1>3. ASSUME NEW s \in Sessions, NEW m \in Models, Config!BeginSave(s, m) PROVE FilesNamed' /\ ConfigKnown'
  <2>1. PICK old, new :
          /\ old = session[s] /\ old.at = "up" /\ session' = [session EXCEPT ![s] = new]
          /\ new = [old EXCEPT !.at = "saving", !.choice = m]
          /\ UNCHANGED <<dotenv, wizard>> /\ config' = [state |-> "torn", model |-> "none"]
    BY <1>3, <1>0 DEF Config!BeginSave, ConfigKnown
  <2>2. old \in SessionRecord /\ Backed(old)
    BY <1>k, <2>1
  <2>3. new \in SessionRecord /\ Backed(new)
    BY <2>1, <2>2 DEF SessionRecord, Backed
  <2>4. FilesNamed'
    BY <1>0, <2>1 DEF FilesNamed
  <2> QED BY <1>s, <2>1, <2>3, <2>4
<1>4. ASSUME NEW s \in Sessions, Config!FinishSave(s) PROVE FilesNamed' /\ ConfigKnown'
  <2>1. PICK old, new, m :
          /\ old = session[s] /\ old.at = "saving" /\ session' = [session EXCEPT ![s] = new] /\ m = old.choice
          /\ new = [old EXCEPT !.at = "up", !.label = m, !.choice = "none",
                               !.model = IF Config!Usable(s, m) THEN (IF m \in Mock THEN "mock" ELSE m) ELSE @]
          /\ UNCHANGED <<dotenv, wizard>> /\ config' = [state |-> "whole", model |-> m]
    BY <1>4, <1>0 DEF Config!FinishSave, ConfigKnown
  <2>2. old \in SessionRecord /\ Backed(old) /\ m \in Models
    BY <1>k, <2>1 DEF Backed
  <2>3. Config!Usable(s, m) <=> IF m \in Mock THEN old.offline ELSE m \in Keyless \/ old.key
    BY <2>1 DEF Config!Usable
  <2>4. /\ new \in SessionRecord /\ new.at = "up" /\ new.label = m
        /\ new.offline = old.offline /\ new.key = old.key
        /\ new.model = IF Config!Usable(s, m) THEN (IF m \in Mock THEN "mock" ELSE m) ELSE old.model
    <3>1. PICK model : model = IF Config!Usable(s, m) THEN (IF m \in Mock THEN "mock" ELSE m) ELSE old.model
      OBVIOUS
    <3>2. model \in Models \cup {"none", "mock"}
      BY <2>2, <3>1 DEF SessionRecord
    <3>3. new = [old EXCEPT !.at = "up", !.label = m, !.choice = "none", !.model = model]
      BY <2>1, <3>1
    <3>4. /\ new \in SessionRecord /\ new.at = "up" /\ new.label = m /\ new.model = model
          /\ new.offline = old.offline /\ new.key = old.key
      BY <2>2, <3>2, <3>3 DEF SessionRecord
    <3> QED BY <3>1, <3>4
  <2>5. Backed(new)
    BY <2>1, <2>2, <2>3, <2>4 DEF Backed
  <2>6. FilesNamed'
    BY <1>0, <2>1, <2>2 DEF FilesNamed
  <2> QED BY <1>s, <2>1, <2>4, <2>5, <2>6
<1>5. ASSUME NEW s \in Sessions, Config!Quit(s) PROVE FilesNamed' /\ ConfigKnown'
  BY <1>5, <1>d, <1>s, <1>u DEF Config!Quit
<1>6. ASSUME NEW w \in Wizards, NEW m \in Models, NEW b \in BOOLEAN, Config!BeginSetup(w, m, b)
      PROVE  FilesNamed' /\ ConfigKnown'
  <2>1. PICK to, new : /\ to \in {"read", "look"} /\ new = [Config!Done EXCEPT !.at = to, !.model = m]
                       /\ wizard' = [wizard EXCEPT ![w] = new] /\ UNCHANGED <<config, dotenv, session>>
    <3>1. PICK to : to = (IF b THEN "read" ELSE "look")
      OBVIOUS
    <3> QED BY <1>6, <3>1 DEF Config!BeginSetup
  <2>2. new \in WizardRecord /\ new.model = m
    BY <1>d, <2>1 DEF WizardRecord
  <2> QED BY <1>u, <1>w, <2>1, <2>2
<1>16. ASSUME NEW w \in Wizards, NEW m \in Models, NEW b \in BOOLEAN, Config!BeginInit(w, m, b)
       PROVE  FilesNamed' /\ ConfigKnown'
  <2>1. PICK new : /\ new = [at |-> "look", model |-> m, force |-> b, read |-> FALSE]
                   /\ wizard' = [wizard EXCEPT ![w] = new] /\ UNCHANGED <<config, dotenv, session>>
    BY <1>16 DEF Config!BeginInit
  <2>2. new \in WizardRecord /\ new.model = m
    BY <2>1 DEF WizardRecord
  <2> QED BY <1>u, <1>w, <2>1, <2>2
<1>7. ASSUME NEW w \in Wizards, NEW to \in {"truncate", "write", "look", "publish"}, NEW others \in BOOLEAN,
             wizard[w].at # "done", session' = session,
             \/ wizard' = [wizard EXCEPT ![w].at = to, ![w].read = others]
             \/ wizard' = [wizard EXCEPT ![w].at = to]
      PROVE  ConfigKnown'
  <2>1. PICK old, new : /\ old = wizard[w] /\ wizard' = [wizard EXCEPT ![w] = new]
                        /\ \/ new = [old EXCEPT !.at = to, !.read = others]
                           \/ new = [old EXCEPT !.at = to]
    BY <1>0, <1>7 DEF ConfigKnown
  <2>2. old \in WizardRecord /\ old.model \in Models
    BY <1>k, <1>7, <2>1
  <2>3. new \in WizardRecord /\ new.model \in Models
    BY <2>1, <2>2 DEF WizardRecord
  <2> QED BY <1>w, <1>7, <2>1, <2>3
<1>8. ASSUME NEW w \in Wizards, Config!ReadEnv(w) PROVE FilesNamed' /\ ConfigKnown'
  <2>1. PICK others \in {dotenv.others, FALSE} :
          wizard' = [wizard EXCEPT ![w].at = "truncate", ![w].read = others]
    BY <1>8 DEF Config!ReadEnv
  <2>2. others \in BOOLEAN /\ wizard[w].at # "done" /\ UNCHANGED <<config, dotenv, session>>
    BY <1>0, <1>8, <2>1 DEF Config!ReadEnv, FilesNamed
  <2> QED BY <1>7, <1>u, <2>1, <2>2
<1>9. ASSUME NEW w \in Wizards, Config!TruncateEnv(w) PROVE FilesNamed' /\ ConfigKnown'
  <2>1. FilesNamed'
    BY <1>0, <1>9 DEF Config!TruncateEnv, FilesNamed
  <2> QED BY <1>7, <1>9, <2>1 DEF Config!TruncateEnv
<1>10. ASSUME NEW w \in Wizards, Config!WriteEnv(w) PROVE FilesNamed' /\ ConfigKnown'
  <2>1. wizard[w].read \in BOOLEAN
    BY <1>k DEF WizardRecord
  <2>2. FilesNamed'
    BY <1>0, <1>10, <2>1 DEF Config!WriteEnv, FilesNamed
  <2> QED BY <1>7, <1>10, <2>2 DEF Config!WriteEnv
<1>11. ASSUME NEW w \in Wizards, Config!Look(w) PROVE FilesNamed' /\ ConfigKnown'
  <2>1. CASE wizard' = [wizard EXCEPT ![w] = Config!Done]
    BY <1>11, <1>d, <1>u, <1>w, <2>1 DEF Config!Look
  <2>2. CASE wizard' = [wizard EXCEPT ![w].at = "publish"]
    BY <1>7, <1>11, <1>u, <2>2 DEF Config!Look
  <2> QED BY <1>11, <2>1, <2>2 DEF Config!Look
<1>12. ASSUME NEW w \in Wizards, Config!Publish(w) PROVE FilesNamed' /\ ConfigKnown'
  <2>1. wizard[w].model \in Models
    BY <1>k, <1>12 DEF Config!Publish
  <2>2. FilesNamed'
    BY <1>0, <1>12, <2>1 DEF Config!Publish, FilesNamed
  <2> QED BY <1>12, <1>d, <1>w, <2>2 DEF Config!Publish
<1>13. ASSUME NEW w \in Wizards, Config!Kill(w) PROVE FilesNamed' /\ ConfigKnown'
  BY <1>13, <1>d, <1>u, <1>w DEF Config!Kill
<1>14. CASE Config!UserEdits
  <2>1. FilesNamed'
    <3>1. CASE config' = Config!NoConfig /\ UNCHANGED dotenv
      BY <1>0, <3>1 DEF FilesNamed
    <3>2. CASE dotenv' = [dotenv EXCEPT !.others = TRUE] /\ UNCHANGED config
      BY <1>0, <3>2 DEF FilesNamed
    <3> QED BY <1>14, <3>1, <3>2 DEF Config!UserEdits
  <2> QED BY <1>0, <1>14, <2>1 DEF Config!UserEdits, ConfigKnown
<1>15. CASE UNCHANGED Config!vars
  BY <1>0, <1>15, <1>u DEF Config!vars, ConfigKnown
<1> QED BY <1>1, <1>2, <1>3, <1>4, <1>5, <1>6, <1>8, <1>9, <1>10, <1>11, <1>12, <1>13, <1>14, <1>15,
          <1>16 DEF Config!Next

\* Only a wizard's publication ends one that is at it and changes the configuration; and it
\* does so only when forced, or when there is none.
LEMMA ConfigReplaces ==
  Config!IInv /\ [Config!Next]_(Config!vars) => [Config!WizardsReplaceNothing]_(Config!vars)
<1> SUFFICES ASSUME Config!IInv, [Config!Next]_(Config!vars),
                    NEW w \in Wizards, wizard[w].at = "publish", wizard'[w] = Config!Done, ~wizard[w].force
             PROVE  config.state = "absent" \/ config' = config
  BY DEF Config!WizardsReplaceNothing
<1>0. ConfigKnown
  BY ConfigParts
<1>d. wizard'[w] # wizard[w]
  BY DEF Config!Done
<1>1. ASSUME NEW v \in Wizards, Config!Publish(v) PROVE v = w
  <2>1. wizard' = [wizard EXCEPT ![v] = Config!Done]
    BY <1>1 DEF Config!Publish
  <2> QED BY <1>0, <1>d, <2>1 DEF ConfigKnown
<1>2. Config!Publish(w) => config.state = "absent" \/ config' = config
  BY SMTT(30) DEF Config!Publish, Config!Publishes
<1>3. \/ \E v \in Wizards : Config!Publish(v)
      \/ wizard' = wizard \/ config' = config
  BY DEF Config!Next, Config!vars, Config!LoadDotenv, Config!Resolve, Config!FinishSave, Config!Quit,
         Config!BeginSave, Config!BeginSetup, Config!BeginInit, Config!ReadEnv, Config!TruncateEnv,
         Config!WriteEnv, Config!Look, Config!Kill, Config!UserEdits
<1> QED BY <1>1, <1>2, <1>3, <1>d

\* A model in use is backed, and of wizards that run together one publishes, for any number
\* of sessions, wizards and models.
THEOREM ConfigHolds == ClientsSpec => ConfigIsSafe
<1>1. ClientsInit => Config!IInv
  BY ConfigStarts DEF ClientsInit
<1>2. [ClientsNext]_clientsVars => [Config!Next]_(Config!vars)
  BY DEF ClientsNext, Only, clientsVars, configVars, Config!vars
<1>3. Config!IInv => Config!ModelsAreBacked
  BY DEF Config!IInv
<1> QED BY <1>1, <1>2, <1>3, ConfigStays, ConfigReplaces, PTL DEF ClientsSpec, ConfigIsSafe, Config!ConfigIsSafe

-------------------------------------------------------------------------------
(* The screen.                                                               *)

-------------------------------------------------------------------------------
(* The screen.                                                                *)

\* An item has a number of lines, and so does the transcript.
LEMMA TotalIsNat ==
  ASSUME Drawn!IInv
  PROVE  Drawn!Total \in Nat
<1> DEFINE rows(i) == {i} \X (0 .. Drawn!Lines(items[i]))
<1>1. DOMAIN items = 1 .. Len(items) /\ Len(items) \in Nat
  BY LenProperties DEF Drawn!IInv
<1>2. ASSUME NEW i \in DOMAIN items PROVE IsFiniteSet(rows(i))
  <2>1. items[i] \in [kind : Drawn!Kinds, lines : Nat, unfolded : BOOLEAN]
    BY <1>1, ElementOfSeq DEF Drawn!IInv
  <2>2. Drawn!Lines(items[i]) \in Nat
    BY <2>1 DEF Drawn!Lines, Drawn!Kinds
  <2> DEFINE n == Drawn!Lines(items[i])
  <2>5. n \in Int /\ 0 \in Int
    BY <2>2
  <2> HIDE DEF n
  <2>6. IsFiniteSet({i})
    BY FS_Singleton
  <2>7. IsFiniteSet(0 .. n)
    BY <2>5, FS_Interval
  <2>3. IsFiniteSet({i}) /\ IsFiniteSet(0 .. n)
    BY <2>6, <2>7
  <2>4. IsFiniteSet({i} \X (0 .. n))
    BY <2>3, FS_Product
  <2> QED BY <2>4 DEF n
<1> HIDE DEF rows
<1> DEFINE F == {rows(i) : i \in DOMAIN items}
<1>3. IsFiniteSet(DOMAIN items)
  BY <1>1, FS_Interval
<1>4. IsFiniteSet(F)
  <2> DEFINE g == [i \in DOMAIN items |-> rows(i)]
  <2>1. g \in Surjection(DOMAIN items, F)
    BY DEF Surjection
  <2> QED BY <1>3, <2>1, FS_Surjection
<1>5. IsFiniteSet(UNION F)
  BY <1>2, <1>4, FS_UNION
<1>6. Cardinality(UNION F) \in Nat
  BY <1>5, FS_CardinalityType
<1>7. Drawn!Total = Cardinality(UNION F)
  BY DEF Drawn!Total, rows, Drawn!Cardinality, Cardinality
<1> QED BY <1>6, <1>7

\* The transcript has a row at least.
LEMMA RoomIsNat ==
  ASSUME Drawn!IInv
  PROVE  Drawn!Room \in Nat
<1>1. height \in Nat
  BY DEF Drawn!IInv
<1>2. /\ Rows.composer \in Nat /\ Rows.welcome \in Nat /\ Rows.palette \in Nat
      /\ Rows.picker \in Nat /\ Rows.permission \in Nat
  BY TerminalAssumption
<1>3. Drawn!Fixed \in Nat
  BY <1>2 DEF Drawn!Fixed
<1> QED BY <1>1, <1>3 DEF Drawn!Room

\* The window, as long as the lines above it can be counted.
LEMMA WindowFits ==
  ASSUME Drawn!IInv, Drawn!Minus(Drawn!Total, Drawn!Room) < Width
  PROVE  /\ scroll = 0 => Drawn!Top + Drawn!Room >= Drawn!Total
         /\ Drawn!Top = 0 \/ Drawn!Top + Drawn!Room <= Drawn!Total
<1> DEFINE t == Drawn!Total  r == Drawn!Room  m == Drawn!Minus(t, r)
<1>1. t \in Nat /\ r \in Nat /\ scroll \in Nat /\ Width \in Nat \ {0}
  BY TotalIsNat, RoomIsNat, TerminalAssumption DEF Drawn!IInv
<1>2. m = IF t > r THEN t - r ELSE 0
  BY DEF Drawn!Minus
<1>3. m < Width /\ Drawn!Top = Drawn!Minus(m % Width, scroll)
  BY DEF Drawn!Top
<1> HIDE DEF t, r, m
<1>4. m \in Nat
  BY <1>1, <1>2
<1>5. \A w \in Nat \ {0} : \A x \in Nat : x < w => x % w = x
  OBVIOUS
<1>6. m % Width = m
  BY <1>1, <1>3, <1>4, <1>5
<1>7. Drawn!Top = IF m > scroll THEN m - scroll ELSE 0
  BY <1>3, <1>6 DEF Drawn!Minus
<1>8. /\ scroll = 0 => Drawn!Top + r >= t
      /\ Drawn!Top = 0 \/ Drawn!Top + r <= t
  BY <1>1, <1>2, <1>4, <1>7
<1> QED BY <1>8 DEF t, r

\* Where x is once in a list, and where it is not.
Once(s, x) == \E p \in 1 .. Len(s) : \A n \in 1 .. Len(s) : s[n] = x <=> n = p
Never(s, x) == \A n \in 1 .. Len(s) : s[n] # x

\* What is once in one of two lists, and not in the other, is once in both together.
LEMMA OnceInBoth ==
  ASSUME NEW V, NEW s \in Seq(V), NEW t \in Seq(V), NEW x
  PROVE  /\ Once(s, x) /\ Never(t, x) => Once(s \o t, x)
         /\ Never(s, x) /\ Once(t, x) => Once(s \o t, x)
         /\ Never(s, x) /\ Never(t, x) => Never(s \o t, x)
<1>1. /\ Len(s) \in Nat /\ Len(t) \in Nat /\ Len(s \o t) = Len(s) + Len(t)
      /\ \A i \in 1 .. Len(s) + Len(t) : (s \o t)[i] = IF i <= Len(s) THEN s[i] ELSE t[i - Len(s)]
  BY LenProperties, ConcatProperties
<1> DEFINE k == Len(s)  l == Len(t)  both == s \o t
<1>2. k \in Nat /\ l \in Nat /\ Len(both) = k + l
  BY <1>1
<1>3. /\ \A i \in 1 .. k : i \in 1 .. k + l /\ both[i] = s[i]
      /\ \A i \in 1 .. l : k + i \in 1 .. k + l /\ both[k + i] = t[i]
  <2>1. ASSUME NEW i \in 1 .. k PROVE i \in 1 .. k + l /\ both[i] = s[i]
    <3>1. i \in 1 .. k + l /\ i <= k
      BY <1>2
    <3> QED BY <1>1, <3>1
  <2>2. ASSUME NEW i \in 1 .. l PROVE k + i \in 1 .. k + l /\ both[k + i] = t[i]
    <3>1. k + i \in 1 .. k + l /\ ~ (k + i <= k) /\ k + i - k = i
      BY <1>2
    <3> QED BY <1>1, <3>1
  <2> QED BY <2>1, <2>2
<1>4. \A i \in 1 .. k + l : i \in 1 .. k \/ \E j \in 1 .. l : i = k + j
  <2> SUFFICES ASSUME NEW i \in 1 .. k + l, i \notin 1 .. k PROVE \E j \in 1 .. l : i = k + j
    OBVIOUS
  <2>1. i - k \in 1 .. l /\ i = k + (i - k)
    BY <1>2
  <2> QED BY <2>1
<1>5. \A i \in 1 .. k, j \in 1 .. l : i # k + j
  BY <1>2
<1>6. \A i, j \in 1 .. l : k + i = k + j => i = j
  BY <1>2
<1> HIDE DEF k, l, both
<1>7. ASSUME Once(s, x), Never(t, x) PROVE Once(both, x)
  <2>1. PICK p \in 1 .. k : \A n \in 1 .. k : s[n] = x <=> n = p
    BY <1>7 DEF Once, k
  <2>2. \A n \in 1 .. l : t[n] # x
    BY <1>7 DEF Never, l
  <2>3. p \in 1 .. k + l /\ both[p] = x
    BY <1>3, <2>1
  <2>4. ASSUME NEW n \in 1 .. k + l, both[n] = x PROVE n = p
    <3>1. ASSUME NEW j \in 1 .. l, n = k + j PROVE FALSE
      BY <1>3, <2>2, <2>4, <3>1
    <3>2. n \in 1 .. k
      BY <1>4, <3>1
    <3> QED BY <1>3, <2>1, <2>4, <3>2
  <2> QED BY <1>2, <2>3, <2>4 DEF Once
<1>8. ASSUME Never(s, x), Once(t, x) PROVE Once(both, x)
  <2>1. PICK p \in 1 .. l : \A n \in 1 .. l : t[n] = x <=> n = p
    BY <1>8 DEF Once, l
  <2>2. \A n \in 1 .. k : s[n] # x
    BY <1>8 DEF Never, k
  <2>3. k + p \in 1 .. k + l /\ both[k + p] = x
    BY <1>3, <2>1
  <2>4. ASSUME NEW n \in 1 .. k + l, both[n] = x PROVE n = k + p
    <3>1. n \notin 1 .. k
      BY <1>3, <2>2, <2>4
    <3>2. PICK j \in 1 .. l : n = k + j
      BY <1>4, <3>1
    <3>3. t[j] = x
      BY <1>3, <2>4, <3>2
    <3> QED BY <2>1, <3>2, <3>3
  <2> QED BY <1>2, <2>3, <2>4 DEF Once
<1>9. ASSUME Never(s, x), Never(t, x) PROVE Never(both, x)
  <2>1. (\A n \in 1 .. k : s[n] # x) /\ (\A n \in 1 .. l : t[n] # x)
    BY <1>9 DEF Never, k, l
  <2>2. ASSUME NEW n \in 1 .. k + l PROVE both[n] # x
    <3>1. CASE n \in 1 .. k
      BY <1>3, <2>1, <3>1
    <3>2. ASSUME NEW j \in 1 .. l, n = k + j PROVE both[n] # x
      BY <1>3, <2>1, <3>2
    <3> QED BY <1>4, <3>1, <3>2
  <2> QED BY <1>2, <2>2 DEF Never
<1> QED BY <1>7, <1>8, <1>9 DEF both

\* A list of one.
LEMMA OneElement ==
  ASSUME NEW V, NEW e \in V
  PROVE  <<e>> \in Seq(V) /\ Len(<<e>>) = 1 /\ <<e>>[1] = e /\ 1 .. 1 = {1}
<1>1. <<e>> \in Seq(V)
  OBVIOUS
<1>2. Len(<<e>>) = 1 /\ <<e>>[1] = e
  OBVIOUS
<1>3. 1 .. 1 = {1}
  OBVIOUS
<1> QED BY <1>1, <1>2, <1>3

\* A section that is there or not.
Part(name, there) == IF there THEN <<name>> ELSE <<>>

\* It is in its part if it is there, and no other is.
LEMMA PartOf ==
  ASSUME NEW V, NEW name \in V, NEW there \in BOOLEAN, NEW x
  PROVE  /\ Part(name, there) \in Seq(V)
         /\ there /\ x = name => Once(Part(name, there), x)
         /\ x # name => Never(Part(name, there), x)
<1> DEFINE one == <<name>>  none == <<>>
<1>1. one \in Seq(V) /\ Len(one) = 1 /\ one[1] = name /\ 1 .. 1 = {1}
  BY OneElement
<1>2. none \in Seq(V) /\ Len(none) = 0 /\ 1 .. 0 = {}
  BY EmptySeq
<1>3. Part(name, there) = IF there THEN one ELSE none
  BY DEF Part
<1> HIDE DEF one, none
<1>4. Once(one, name)
  <2>1. 1 \in 1 .. 1 /\ \A n \in 1 .. 1 : one[n] = name <=> n = 1
    BY <1>1
  <2> QED BY <1>1, <2>1 DEF Once
<1>5. x # name => Never(one, x)
  BY <1>1 DEF Never
<1>6. Never(none, x)
  BY <1>2 DEF Never
<1> QED BY <1>1, <1>2, <1>3, <1>4, <1>5, <1>6

\* What is open is drawn once, and the composer comes last.
LEMMA SectionsAreDrawn ==
  ASSUME Drawn!IInv
  PROVE  /\ \E V : Drawn!Sections \in Seq(V)
         /\ \A section \in overlays : Once(Drawn!Sections, section)
         /\ Drawn!Last(Drawn!Sections) = "composer"
<1> DEFINE V == {"welcome", "transcript", "palette", "picker", "permission", "composer"}
           palettes == "palette" \in overlays
           pickers == "picker" \in overlays
           permissions == "permission" \in overlays
           p1 == Part("welcome", Drawn!Welcomes)
           p2 == Part("transcript", TRUE)
           p3 == Part("palette", palettes)
           p4 == Part("picker", pickers)
           p5 == Part("permission", permissions)
           p6 == Part("composer", TRUE)
           l2 == p1 \o p2
           l3 == l2 \o p3
           l4 == l3 \o p4
           l5 == l4 \o p5
           l6 == l5 \o p6
           Overlays == {"palette", "picker", "permission"}
<1>1. Drawn!Sections = l6
  BY DEF Drawn!Sections, Part
<1>2. Drawn!Welcomes \in BOOLEAN /\ palettes \in BOOLEAN /\ pickers \in BOOLEAN /\ permissions \in BOOLEAN
      /\ TRUE \in BOOLEAN
  BY DEF Drawn!Welcomes
<1>3. /\ "welcome" \in V /\ "transcript" \in V /\ "palette" \in V /\ "picker" \in V
      /\ "permission" \in V /\ "composer" \in V
  OBVIOUS
<1>14. Len(p6) = 1 /\ p6[1] = "composer"
  BY <1>3, OneElement DEF Part
<1> HIDE DEF V, palettes, pickers, permissions
<1>4. p1 \in Seq(V) /\ p2 \in Seq(V) /\ p3 \in Seq(V) /\ p4 \in Seq(V) /\ p5 \in Seq(V) /\ p6 \in Seq(V)
  BY <1>2, <1>3, PartOf
<1>5. ASSUME NEW x \in Overlays
      PROVE  /\ Never(p1, x) /\ Never(p2, x) /\ Never(p6, x)
             /\ palettes /\ x = "palette" => Once(p3, x)
             /\ x # "palette" => Never(p3, x)
             /\ pickers /\ x = "picker" => Once(p4, x)
             /\ x # "picker" => Never(p4, x)
             /\ permissions /\ x = "permission" => Once(p5, x)
             /\ x # "permission" => Never(p5, x)
  <2>1. x # "welcome" /\ x # "transcript" /\ x # "composer"
    OBVIOUS
  <2>2. Never(p1, x) /\ Never(p2, x) /\ Never(p6, x)
    BY <1>2, <1>3, <2>1, PartOf
  <2>3. (palettes /\ x = "palette" => Once(p3, x)) /\ (x # "palette" => Never(p3, x))
    BY <1>2, <1>3, PartOf
  <2>4. (pickers /\ x = "picker" => Once(p4, x)) /\ (x # "picker" => Never(p4, x))
    BY <1>2, <1>3, PartOf
  <2>5. (permissions /\ x = "permission" => Once(p5, x)) /\ (x # "permission" => Never(p5, x))
    BY <1>2, <1>3, PartOf
  <2> QED BY <2>2, <2>3, <2>4, <2>5
<1> HIDE DEF p1, p2, p3, p4, p5, p6
<1>6. l2 \in Seq(V)
  BY <1>4, ConcatProperties
<1>7. \A x \in Overlays : Never(l2, x)
  BY <1>4, <1>5, OnceInBoth
<1> HIDE DEF l2
<1>8. l3 \in Seq(V)
  BY <1>4, <1>6, ConcatProperties
<1>9. \A x \in Overlays :
        /\ palettes /\ x = "palette" => Once(l3, x)
        /\ x # "palette" => Never(l3, x)
  BY <1>4, <1>5, <1>6, <1>7, OnceInBoth
<1> HIDE DEF l3
<1>10. l4 \in Seq(V)
  BY <1>4, <1>8, ConcatProperties
<1>11. \A x \in Overlays :
         /\ palettes /\ x = "palette" => Once(l4, x)
         /\ pickers /\ x = "picker" => Once(l4, x)
         /\ x = "permission" => Never(l4, x)
  <2> SUFFICES ASSUME NEW x \in Overlays
               PROVE  /\ palettes /\ x = "palette" => Once(l4, x)
                      /\ pickers /\ x = "picker" => Once(l4, x)
                      /\ x = "permission" => Never(l4, x)
    OBVIOUS
  <2>1. "palette" # "picker" /\ "permission" # "picker" /\ "permission" # "palette"
    OBVIOUS
  <2> QED BY <1>4, <1>5, <1>8, <1>9, <2>1, OnceInBoth
<1> HIDE DEF l4
<1>12. l5 \in Seq(V)
  BY <1>4, <1>10, ConcatProperties
<1>13. \A x \in Overlays :
         /\ palettes /\ x = "palette" => Once(l5, x)
         /\ pickers /\ x = "picker" => Once(l5, x)
         /\ permissions /\ x = "permission" => Once(l5, x)
  <2> SUFFICES ASSUME NEW x \in Overlays
               PROVE  /\ palettes /\ x = "palette" => Once(l5, x)
                      /\ pickers /\ x = "picker" => Once(l5, x)
                      /\ permissions /\ x = "permission" => Once(l5, x)
    OBVIOUS
  <2>1. "palette" # "permission" /\ "permission" # "picker"
    OBVIOUS
  <2> QED BY <1>4, <1>5, <1>10, <1>11, <2>1, OnceInBoth
<1> HIDE DEF l5
<1>15. ASSUME NEW x \in overlays PROVE Once(l6, x)
  <2>1. x \in Overlays
    BY DEF Drawn!IInv
  <2>2. Once(l5, x)
    BY <1>13, <1>15, <2>1 DEF palettes, pickers, permissions
  <2> QED BY <1>4, <1>5, <1>12, <2>1, <2>2, OnceInBoth
<1>16. l6 \in Seq(V) /\ Drawn!Last(l6) = "composer"
  <2>1. Len(l5) \in Nat
    BY <1>12, LenProperties
  <2>5. l6 \in Seq(V) /\ Len(l6) = Len(l5) + Len(p6)
    BY <1>4, <1>12, ConcatProperties
  <2>2. l6 \in Seq(V) /\ Len(l6) = Len(l5) + 1
    BY <1>14, <2>5
  <2>3. Len(l5) + 1 \in 1 .. Len(l5) + Len(p6) /\ ~ (Len(l5) + 1 <= Len(l5)) /\ Len(l5) + 1 - Len(l5) = 1
    BY <1>14, <2>1
  <2>4. l6[Len(l5) + 1] = p6[1]
    BY <1>4, <1>12, <2>3, ConcatProperties
  <2> QED BY <1>14, <2>2, <2>4 DEF Drawn!Last
<1> HIDE DEF l6
<1> QED BY <1>1, <1>15, <1>16

\* A frame shows the end of the transcript, or has no row left empty.
LEMMA ScreenIsFull == Drawn!IInv => Drawn!WindowIsFull
<1> SUFFICES ASSUME Drawn!IInv, NEW f \in Drawn!Frame
             PROVE  /\ Drawn!Minus(Drawn!Total, Drawn!Room) < Width =>
                         /\ scroll = 0 => f.top + f.room >= Drawn!Total
                         /\ f.top = 0 \/ f.top + f.room <= Drawn!Total
                    /\ \A section \in overlays :
                         Cardinality({n \in DOMAIN f.sections : f.sections[n] = section}) = 1
                    /\ Drawn!Last(f.sections) = "composer"
  BY DEF Drawn!WindowIsFull, Drawn!Cardinality, Cardinality
<1>1. f.sections = Drawn!Sections /\ f.top = Drawn!Top /\ f.room = Drawn!Room
  BY DEF Drawn!Frame
<1>2. ASSUME NEW section \in overlays
      PROVE  Cardinality({n \in DOMAIN Drawn!Sections : Drawn!Sections[n] = section}) = 1
  <2> DEFINE s == Drawn!Sections
  <2>1. DOMAIN s = 1 .. Len(s)
    BY SectionsAreDrawn, LenProperties
  <2>2. PICK p \in 1 .. Len(s) : \A n \in 1 .. Len(s) : s[n] = section <=> n = p
    BY SectionsAreDrawn DEF Once
  <2> HIDE DEF s
  <2>3. {n \in DOMAIN s : s[n] = section} = {p}
    BY <2>1, <2>2
  <2>4. Cardinality({n \in DOMAIN s : s[n] = section}) = 1
    BY <2>3, FS_Singleton
  <2> QED BY <2>4 DEF s
<1> QED BY <1>1, <1>2, WindowFits, SectionsAreDrawn

\* The screen at first.
LEMMA ScreenStarts == Drawn!Init => Drawn!IInv
BY TerminalAssumption DEF Drawn!Init, Drawn!IInv

\* Every step of the screen keeps its invariant.
LEMMA ScreenStays == Drawn!IInv /\ [Drawn!Next]_(Drawn!vars) => Drawn!IInv'
<1> SUFFICES ASSUME Drawn!IInv, [Drawn!Next]_(Drawn!vars) PROVE Drawn!IInv'
  OBVIOUS
<1> DEFINE Item == [kind : Drawn!Kinds, lines : Nat, unfolded : BOOLEAN]
<1>0. /\ items \in Seq(Item) /\ scroll \in Nat /\ height \in Nat
      /\ overlays \subseteq {"palette", "picker", "permission"}
  BY DEF Drawn!IInv
<1>1. ASSUME NEW kind \in Drawn!Kinds, NEW n \in 0 .. MaxBody, Drawn!Put(kind, n) PROVE Drawn!IInv'
  <2>1. [kind |-> kind, lines |-> n, unfolded |-> FALSE] \in Item
    OBVIOUS
  <2>2. items' \in Seq(Item)
    BY <1>0, <1>1, <2>1, AppendProperties DEF Drawn!Put
  <2> QED BY <1>0, <1>1, <2>2 DEF Drawn!IInv, Drawn!Put
<1>2. CASE Drawn!Grow
  <2> DEFINE l == Len(items)
  <2>5. items # <<>>
    BY <1>2 DEF Drawn!Grow
  <2>6. Len(items) \in Nat \ {0}
    BY <1>0, <2>5, EmptySeq
  <2>1. l \in 1 .. Len(items) /\ items[l] \in Item
    <3>1. l \in 1 .. Len(items)
      BY <2>6
    <3> HIDE DEF l, Item
    <3> QED BY <1>0, <3>1, ElementOfSeq
  <2>2. items' = [items EXCEPT ![l] = [items[l] EXCEPT !.lines = items[l].lines + 1]]
    BY <1>2 DEF Drawn!Grow
  <2>3. [items[l] EXCEPT !.lines = items[l].lines + 1] \in Item
    BY <2>1
  <2> HIDE DEF l
  <2>4. items' \in Seq(Item)
    BY <1>0, <2>1, <2>2, <2>3, ExceptSeq
  <2> QED BY <1>0, <1>2, <2>4 DEF Drawn!IInv, Drawn!Grow
<1>3. ASSUME NEW i \in DOMAIN items, Drawn!Toggle(i) PROVE Drawn!IInv'
  <2>1. i \in 1 .. Len(items) /\ items[i] \in Item
    <3> HIDE DEF Item
    <3>1. i \in 1 .. Len(items)
      BY <1>0, LenProperties
    <3> QED BY <1>0, <3>1, ElementOfSeq
  <2>2. items' = [items EXCEPT ![i] = [items[i] EXCEPT !.unfolded = ~items[i].unfolded]]
    BY <1>3 DEF Drawn!Toggle
  <2>3. [items[i] EXCEPT !.unfolded = ~items[i].unfolded] \in Item
    BY <2>1
  <2>4. items' \in Seq(Item)
    BY <1>0, <2>1, <2>2, <2>3, ExceptSeq
  <2> QED BY <1>0, <1>3, <2>4 DEF Drawn!IInv, Drawn!Toggle
<1>4. ASSUME NEW delta \in {-1, 1}, Drawn!ScrollBy(delta) PROVE Drawn!IInv'
  <2>1. Width \in Nat \ {0}
    BY TerminalAssumption
  <2>2. scroll' \in Nat
    BY <1>0, <1>4, <2>1 DEF Drawn!ScrollBy
  <2> QED BY <1>0, <1>4, <2>2 DEF Drawn!IInv, Drawn!ScrollBy
<1>5. CASE Drawn!ToTail \/ Drawn!Clear
  <2>1. <<>> \in Seq(Item)
    BY EmptySeq
  <2>2. items' \in Seq(Item) /\ scroll' \in Nat
    <3> HIDE DEF Item
    <3>1. CASE Drawn!ToTail
      BY <1>0, <3>1 DEF Drawn!ToTail
    <3>2. CASE Drawn!Clear
      BY <2>1, <3>2 DEF Drawn!Clear
    <3> QED BY <1>5, <3>1, <3>2
  <2> QED BY <1>0, <1>5, <2>2 DEF Drawn!IInv, Drawn!ToTail, Drawn!Clear
<1>6. ASSUME NEW section \in {"palette", "picker", "permission"}, Drawn!Overlay(section) PROVE Drawn!IInv'
  BY <1>0, <1>6 DEF Drawn!IInv, Drawn!Overlay
<1>7. ASSUME NEW h \in Heights, Drawn!Resize(h) PROVE Drawn!IInv'
  BY <1>0, <1>7, TerminalAssumption DEF Drawn!IInv, Drawn!Resize
<1>8. CASE UNCHANGED Drawn!vars
  BY <1>0, <1>8 DEF Drawn!IInv, Drawn!vars
<1> QED BY <1>1, <1>2, <1>3, <1>4, <1>5, <1>6, <1>7, <1>8 DEF Drawn!Next

-------------------------------------------------------------------------------
(* The composer.                                                             *)

\* The parts of the composer's invariant: where line, cursor and selections are, and
\* what the last Enter gave.
TypingPlaced ==
  /\ typed \in Seq(Typing!Symbols) /\ cursor \in Nat /\ cursor <= Len(typed) /\ slash \in BOOLEAN
  /\ palette \in [open : BOOLEAN, selected : Nat]
  /\ palette.open => slash
  /\ palette.selected = 0 \/ palette.selected < Len(Typing!Filtered(typed))
  /\ palette.open \/ palette = Typing!Closed
PickersPlaced(pickers) ==
  \A p \in pickers : p.cursor \in Nat /\ (p.cursor = 0 \/ p.cursor < Len(Typing!Matching(p.filter)))
Told(e) ==
  /\ e.effect = "goal" => e.of = e.line /\ ~Typing!Marked(e.line)
  /\ e.effect = "command" /\ Typing!Marked(e.line) => e.of[1] \in Typing!Parsed(e.line)
  /\ e.effect = "model" => Typing!Contains(Typing!Matching(e.line), e.of[1])

\* The invariant of the composer in parts.
LEMMA TypingParts == Typing!IInv <=> TypingPlaced /\ PickersPlaced(picker) /\ Told(entered)
BY DEF Typing!IInv, Typing!TypeOK, Typing!LineIsEditable, TypingPlaced, PickersPlaced, Told

\* The same of the next state.
LEMMA TypingPartsNext == Typing!IInv' <=> TypingPlaced' /\ PickersPlaced(picker') /\ Told(entered')
BY DEF Typing!IInv, Typing!TypeOK, Typing!LineIsEditable, TypingPlaced, PickersPlaced, Told

\* What a filter leaves of a list is a list, of names of the list.
LEMMA ListsAreLists ==
  ASSUME NEW S, NEW names \in Seq(S), NEW filter
  PROVE  /\ Len(Typing!Matches(names, filter)) \in Nat
         /\ \A n \in 1 .. Len(Typing!Matches(names, filter)) : Typing!Matches(names, filter)[n] \in S
<1> DEFINE m == Typing!Matches(names, filter)
<1>1. \/ m = names
      \/ m = filter /\ Len(filter) = 1 /\ \E i \in 1 .. Len(names) : names[i] = filter[1]
      \/ m = <<>>
  BY DEF Typing!Matches, Typing!Contains
<1> SUFFICES Len(m) \in Nat /\ \A n \in 1 .. Len(m) : m[n] \in S
  OBVIOUS
<1> HIDE DEF m
<1>2. Len(names) \in Nat /\ \A i \in 1 .. Len(names) : names[i] \in S
  BY LenProperties, ElementOfSeq
<1>3. CASE m = names
  BY <1>2, <1>3
<1>4. CASE m = filter /\ Len(filter) = 1 /\ \E i \in 1 .. Len(names) : names[i] = filter[1]
  <2>1. PICK i \in 1 .. Len(names) : names[i] = filter[1]
    BY <1>4
  <2>2. filter[1] \in S
    BY <1>2, <2>1
  <2>3. \A n \in 1 .. 1 : n = 1
    OBVIOUS
  <2> QED BY <1>4, <2>2, <2>3
<1>5. CASE m = <<>>
  <2>1. Len(<<>>) = 0 /\ 1 .. 0 = {}
    BY EmptySeq
  <2> QED BY <1>5, <2>1
<1> QED BY <1>1, <1>3, <1>4, <1>5

\* The commands of the palette are a list of commands.
LEMMA FilteredIsList ==
  ASSUME NEW l
  PROVE  /\ Len(Typing!Filtered(l)) \in Nat
         /\ \A n \in 1 .. Len(Typing!Filtered(l)) : Typing!Filtered(l)[n] \in Typing!Symbols
<1> DEFINE b == Typing!Bare(l)  S == Range(Commands)
<1>1. Commands \in Seq(S)
  BY TerminalAssumption
<1>2. Typing!Filtered(l) = Typing!Matches(Commands, b)
  BY DEF Typing!Filtered
<1>3. S \subseteq Typing!Symbols
  BY DEF Typing!Symbols, Typing!Range, Range
<1> HIDE DEF b, S
<1> QED BY <1>1, <1>2, <1>3, ListsAreLists

\* The entries of the picker are a list of entries.
LEMMA MatchingIsList ==
  ASSUME NEW f
  PROVE  Len(Typing!Matching(f)) \in Nat
<1> DEFINE S == Range(Entries)
<1>1. Entries \in Seq(S)
  BY TerminalAssumption
<1> HIDE DEF S
<1> QED BY <1>1, ListsAreLists DEF Typing!Matching

\* A selection turned stays in the list.
LEMMA TurnsStay ==
  ASSUME NEW n \in Nat, NEW size \in Nat, n = 0 \/ n < size, NEW back \in BOOLEAN
  PROVE  Typing!Turn(n, size, back) \in Nat /\ (Typing!Turn(n, size, back) = 0 \/ Typing!Turn(n, size, back) < size)
<1>1. CASE size = 0
  BY <1>1 DEF Typing!Turn
<1>2. CASE size # 0
  <2>1. (n + size - 1) % size \in 0 .. size - 1 /\ (n + 1) % size \in 0 .. size - 1
    BY <1>2
  <2> QED BY <1>2, <2>1 DEF Typing!Turn
<1> QED BY <1>1, <1>2

\* A line made of two has the length of both.
LEMMA LinesJoin ==
  ASSUME NEW s \in Seq(Typing!Symbols), NEW t \in Seq(Typing!Symbols)
  PROVE  s \o t \in Seq(Typing!Symbols) /\ Len(s \o t) = Len(s) + Len(t) /\ Len(s) \in Nat /\ Len(t) \in Nat
BY ConcatProperties, LenProperties

\* The line up to a place, and what follows it.
LEMMA LineParts ==
  ASSUME typed \in Seq(Typing!Symbols), NEW n \in 0 .. Len(typed)
  PROVE  /\ SubSeq(typed, 1, n) \in Seq(Typing!Symbols) /\ Len(SubSeq(typed, 1, n)) = n
         /\ SubSeq(typed, n + 1, Len(typed)) \in Seq(Typing!Symbols)
         /\ Len(SubSeq(typed, n + 1, Len(typed))) = Len(typed) - n
<1>1. Len(typed) \in Nat /\ \A i \in 1 .. Len(typed) : typed[i] \in Typing!Symbols
  BY LenProperties, ElementOfSeq
<1>2. n \in Int /\ Len(typed) \in Int /\ n + 1 \in Int /\ 1 \in Int
  BY <1>1
<1>3. (\A i \in 1 .. n : typed[i] \in Typing!Symbols)
      /\ (\A i \in n + 1 .. Len(typed) : typed[i] \in Typing!Symbols)
  BY <1>1
<1>4. SubSeq(typed, 1, n) \in Seq(Typing!Symbols)
      /\ Len(SubSeq(typed, 1, n)) = IF 1 <= n THEN n - 1 + 1 ELSE 0
  BY <1>2, <1>3, SubSeqProperties
<1>5. SubSeq(typed, n + 1, Len(typed)) \in Seq(Typing!Symbols)
      /\ Len(SubSeq(typed, n + 1, Len(typed))) = IF n + 1 <= Len(typed) THEN Len(typed) - (n + 1) + 1 ELSE 0
  BY <1>2, <1>3, SubSeqProperties
<1>6. n = IF 1 <= n THEN n - 1 + 1 ELSE 0
  OBVIOUS
<1>7. Len(typed) - n = IF n + 1 <= Len(typed) THEN Len(typed) - (n + 1) + 1 ELSE 0
  BY <1>1
<1> QED BY <1>4, <1>5, <1>6, <1>7

\* Typing and erasing lengthen and shorten the line by one.
LEMMA InsertedIsLine ==
  ASSUME typed \in Seq(Typing!Symbols), cursor \in 0 .. Len(typed), NEW c \in Typing!Symbols
  PROVE  Typing!Inserted(c) \in Seq(Typing!Symbols) /\ Len(Typing!Inserted(c)) = Len(typed) + 1
<1> DEFINE k == cursor + 1  a == SubSeq(typed, 1, cursor)  b == SubSeq(typed, k, Len(typed))  one == <<c>>
<1>1. /\ a \in Seq(Typing!Symbols) /\ Len(a) = cursor
      /\ b \in Seq(Typing!Symbols) /\ Len(b) = Len(typed) - cursor
  BY LineParts
<1>2. one \in Seq(Typing!Symbols) /\ Len(one) = 1
  OBVIOUS
<1>3. Len(typed) \in Nat /\ k - 1 = cursor
  BY LenProperties
<1>8. Typing!Inserted(c) = Typing!InsertAt(typed, k, c)
  BY DEF Typing!Inserted
<1> HIDE DEF k
<1>9. Typing!InsertAt(typed, k, c) = SubSeq(typed, 1, k - 1) \o one \o b
  BY DEF Typing!InsertAt
<1>4. Typing!Inserted(c) = a \o one \o b
  BY <1>3, <1>8, <1>9
<1> HIDE DEF a, b, one
<1>5. a \o one \in Seq(Typing!Symbols) /\ Len(a \o one) = cursor + 1
  <2>1. a \in Seq(Typing!Symbols) /\ Len(a) = cursor
    BY <1>1
  <2>2. a \o one \in Seq(Typing!Symbols) /\ Len(a \o one) = Len(a) + Len(one)
    BY <1>2, <2>1, LinesJoin
  <2> QED BY <1>2, <2>1, <2>2
<1>6. a \o one \o b \in Seq(Typing!Symbols) /\ Len(a \o one \o b) = Len(a \o one) + Len(b)
  BY <1>1, <1>5, LinesJoin
<1>7. Len(a \o one) + Len(b) = Len(typed) + 1
  BY <1>1, <1>3, <1>5
<1> QED BY <1>4, <1>6, <1>7

\* A line without one of its characters is a line.
LEMMA RemovedIsLine ==
  ASSUME typed \in Seq(Typing!Symbols), NEW n \in DOMAIN typed
  PROVE  /\ Typing!Removed(n) \in Seq(Typing!Symbols) /\ Len(Typing!Removed(n)) = Len(typed) - 1
         /\ n \in 1 .. Len(typed) /\ Len(typed) \in Nat
<1> DEFINE a == SubSeq(typed, 1, n - 1)  b == SubSeq(typed, n + 1, Len(typed))
<1>1. n \in 1 .. Len(typed) /\ Len(typed) \in Nat
  BY LenProperties
<1>2. n - 1 \in 0 .. Len(typed) /\ n \in 0 .. Len(typed)
  BY <1>1
<1>3. /\ a \in Seq(Typing!Symbols) /\ Len(a) = n - 1
      /\ b \in Seq(Typing!Symbols) /\ Len(b) = Len(typed) - n
  BY <1>2, LineParts
<1>4. Typing!Removed(n) = a \o b
  BY DEF Typing!Removed
<1> HIDE DEF a, b
<1>5. a \o b \in Seq(Typing!Symbols) /\ Len(a \o b) = Len(a) + Len(b)
  BY <1>3, LinesJoin
<1>6. Len(a) + Len(b) = Len(typed) - 1
  BY <1>1, <1>3
<1> QED BY <1>1, <1>4, <1>5, <1>6

\* A palette that selects the first, and one that is closed, are where they may be.
LEMMA PlacedAtFirst ==
  ASSUME typed' \in Seq(Typing!Symbols), cursor' \in Nat, cursor' <= Len(typed'), slash' \in BOOLEAN,
         palette' \in [open : BOOLEAN, selected : {0}], palette'.open => slash'
  PROVE  TypingPlaced'
<1>1. palette'.selected = 0 /\ palette'.open \in BOOLEAN /\ palette' \in [open : BOOLEAN, selected : Nat]
  OBVIOUS
<1>2. palette'.open \/ palette' = [open |-> FALSE, selected |-> 0]
  OBVIOUS
<1> QED BY <1>1, <1>2 DEF TypingPlaced, Typing!Closed

\* A palette opened, closed or set back to its first selects the first.
LEMMA FirstSelected ==
  ASSUME NEW p \in [open : BOOLEAN, selected : Nat]
  PROVE  /\ [p EXCEPT !.selected = 0] \in [open : BOOLEAN, selected : {0}]
         /\ [p EXCEPT !.selected = 0].open = p.open
         /\ [open |-> FALSE, selected |-> 0] \in [open : BOOLEAN, selected : {0}]
         /\ [open |-> TRUE, selected |-> 0] \in [open : BOOLEAN, selected : {0}]
         /\ [open |-> FALSE, selected |-> 0].open = FALSE
         /\ [open |-> TRUE, selected |-> 0].open = TRUE
  OBVIOUS

\* A cleared line has its cursor in it.
LEMMA ClearedIsPlaced == Typing!Cleared => TypingPlaced'
<1> SUFFICES ASSUME Typing!Cleared PROVE TypingPlaced'
  OBVIOUS
<1>1. typed' = <<>> /\ cursor' = 0 /\ slash' = FALSE /\ palette' = [open |-> FALSE, selected |-> 0]
  BY DEF Typing!Cleared, Typing!Closed
<1>2. <<>> \in Seq(Typing!Symbols) /\ Len(<<>>) = 0
  BY EmptySeq
<1>3. palette' \in [open : BOOLEAN, selected : {0}] /\ ~palette'.open
  BY <1>1
<1>4. typed' \in Seq(Typing!Symbols) /\ Len(typed') = 0 /\ cursor' = 0 /\ slash' = FALSE
  BY <1>1, <1>2
<1>6. cursor' \in Nat /\ cursor' <= Len(typed')
  BY <1>4
<1>7. slash' \in BOOLEAN
  BY <1>4, Zenon
<1>5. cursor' \in Nat /\ cursor' <= Len(typed') /\ slash' \in BOOLEAN
  BY <1>6, <1>7
<1> QED BY <1>3, <1>4, <1>5, PlacedAtFirst

\* What nothing of the line changes keeps it in place.
LEMMA SamePlaced == TypingPlaced /\ UNCHANGED <<typed, cursor, slash, palette>> => TypingPlaced'
BY DEF TypingPlaced, Typing!Filtered, Typing!Closed

\* The cursor moves within the line.
LEMMA MoveStays ==
  ASSUME TypingPlaced, NEW to, Typing!Move(to)
  PROVE  TypingPlaced' /\ picker' = picker /\ entered' = entered
<1>1. cursor \in Nat /\ Len(typed) \in Nat /\ cursor <= Len(typed)
  BY LenProperties DEF TypingPlaced
<1>2. cursor' \in Nat /\ cursor' <= Len(typed) /\ UNCHANGED <<typed, slash, palette, picker, entered>>
  BY <1>1 DEF Typing!Move
<1> QED BY <1>2 DEF TypingPlaced, Typing!Filtered

\* A character is put in at the cursor.
LEMMA InsertStays ==
  ASSUME TypingPlaced, NEW c \in Typing!Symbols, Typing!Insert(c)
  PROVE  TypingPlaced' /\ picker' = picker /\ entered' = entered
<1>1. /\ typed \in Seq(Typing!Symbols) /\ cursor \in 0 .. Len(typed) /\ Len(typed) \in Nat /\ slash \in BOOLEAN
      /\ palette \in [open : BOOLEAN, selected : Nat] /\ (palette.open \/ palette = Typing!Closed)
  BY LenProperties DEF TypingPlaced
<1>2. /\ typed' = Typing!Inserted(c) /\ cursor' = cursor + 1
      /\ picker' = picker /\ entered' = entered
  BY DEF Typing!Insert
<1>3. typed' \in Seq(Typing!Symbols) /\ cursor' \in Nat /\ cursor' <= Len(typed')
  BY <1>1, <1>2, InsertedIsLine
<1>4. CASE palette.open
  <2>1. slash /\ slash' = slash /\ palette' = [palette EXCEPT !.selected = 0]
    BY <1>4 DEF Typing!Insert, Typing!Reselect
  <2>2. palette' \in [open : BOOLEAN, selected : {0}]
    BY <1>1, <2>1
  <2> QED BY <1>1, <1>2, <1>3, <2>1, <2>2, PlacedAtFirst
<1>5. CASE ~palette.open
  <2>1. palette = [open |-> FALSE, selected |-> 0]
    BY <1>1, <1>5 DEF Typing!Closed
  <2>2. \/ slash' = TRUE /\ palette' = [open |-> TRUE, selected |-> 0]
        \/ slash' = slash /\ palette' = palette
    BY <1>5 DEF Typing!Insert
  <2>3. palette' \in [open : BOOLEAN, selected : {0}] /\ (palette'.open => slash') /\ slash' \in BOOLEAN
    <3>1. CASE slash' = TRUE /\ palette' = [open |-> TRUE, selected |-> 0]
      BY <1>1, <3>1, FirstSelected
    <3>2. CASE slash' = slash /\ palette' = palette
      BY <1>1, <2>1, <3>2, FirstSelected
    <3> QED BY <2>2, <3>1, <3>2
  <2> QED BY <1>2, <1>3, <2>3, PlacedAtFirst
<1> QED BY <1>4, <1>5

\* So is what is pasted.
LEMMA PasteStays ==
  ASSUME TypingPlaced, NEW c \in Typing!Symbols, NEW d \in Typing!Symbols, Typing!Paste(<<c, d>>)
  PROVE  TypingPlaced' /\ picker' = picker /\ entered' = entered
<1> DEFINE two == <<c, d>>  a == SubSeq(typed, 1, cursor)  b == SubSeq(typed, cursor + 1, Len(typed))
<1>1. /\ typed \in Seq(Typing!Symbols) /\ cursor \in 0 .. Len(typed) /\ Len(typed) \in Nat /\ slash \in BOOLEAN
      /\ palette \in [open : BOOLEAN, selected : Nat] /\ (palette.open => slash)
  BY LenProperties DEF TypingPlaced
<1>2. two \in Seq(Typing!Symbols) /\ Len(two) = 2
  OBVIOUS
<1>3. /\ a \in Seq(Typing!Symbols) /\ Len(a) = cursor
      /\ b \in Seq(Typing!Symbols) /\ Len(b) = Len(typed) - cursor
  BY <1>1, LineParts
<1> HIDE DEF two
<1>4. /\ typed' = a \o two \o b /\ cursor' = cursor + Len(two)
      /\ picker' = picker /\ entered' = entered
      /\ \/ slash' = TRUE /\ palette' = [open |-> TRUE, selected |-> 0]
         \/ slash' = slash /\ palette' = [palette EXCEPT !.selected = 0]
  BY DEF Typing!Paste, two
<1> HIDE DEF a, b
<1>5. a \o two \in Seq(Typing!Symbols) /\ Len(a \o two) = cursor + 2
  <2>1. a \in Seq(Typing!Symbols) /\ Len(a) = cursor
    BY <1>3
  <2>2. a \o two \in Seq(Typing!Symbols) /\ Len(a \o two) = Len(a) + Len(two)
    BY <1>2, <2>1, LinesJoin
  <2> QED BY <1>2, <2>1, <2>2
<1>6. a \o two \o b \in Seq(Typing!Symbols) /\ Len(a \o two \o b) = Len(a \o two) + Len(b)
  BY <1>3, <1>5, LinesJoin
<1>7. typed' \in Seq(Typing!Symbols) /\ cursor' \in Nat /\ cursor' <= Len(typed')
  <2>1. Len(a \o two) + Len(b) = Len(typed) + 2
    BY <1>1, <1>3, <1>5
  <2>2. Len(typed') = Len(typed) + 2
    BY <1>4, <1>6, <2>1
  <2>3. cursor' = cursor + 2
    BY <1>2, <1>4
  <2> QED BY <1>1, <1>4, <1>6, <2>2, <2>3
<1>8. palette' \in [open : BOOLEAN, selected : {0}] /\ (palette'.open => slash') /\ slash' \in BOOLEAN
  <2>1. CASE slash' = TRUE /\ palette' = [open |-> TRUE, selected |-> 0]
    BY <1>1, <2>1, FirstSelected
  <2>2. CASE slash' = slash /\ palette' = [palette EXCEPT !.selected = 0]
    BY <1>1, <2>2, FirstSelected
  <2> QED BY <1>4, <2>1, <2>2
<1> QED BY <1>4, <1>7, <1>8, PlacedAtFirst

\* A character is taken out beside the cursor, and the filter looked at again.
LEMMA EraseStays ==
  ASSUME TypingPlaced, NEW n, NEW to \in Nat, to < Len(typed), Typing!Erase(n, to)
  PROVE  TypingPlaced' /\ picker' = picker /\ entered' = entered
<1>1. /\ typed \in Seq(Typing!Symbols) /\ Len(typed) \in Nat /\ slash \in BOOLEAN
      /\ palette \in [open : BOOLEAN, selected : Nat] /\ (palette.open => slash)
      /\ palette.open \/ palette = [open |-> FALSE, selected |-> 0]
  BY LenProperties DEF TypingPlaced, Typing!Closed
<1>2. n \in DOMAIN typed /\ typed' = Typing!Removed(n) /\ cursor' = to /\ picker' = picker /\ entered' = entered
  BY DEF Typing!Erase
<1>3. typed' \in Seq(Typing!Symbols) /\ cursor' \in Nat /\ cursor' <= Len(typed')
  <2>1. typed' \in Seq(Typing!Symbols) /\ Len(typed') = Len(typed) - 1
    BY <1>1, <1>2, RemovedIsLine
  <2> QED BY <1>1, <1>2, <2>1
<1>4. CASE palette.open
  <2>1. \/ slash' = FALSE /\ palette' = [open |-> FALSE, selected |-> 0]
        \/ slash' = slash /\ palette' = [palette EXCEPT !.selected = 0]
    BY <1>4 DEF Typing!Erase, Typing!Reselect, Typing!Closed
  <2>2. palette' \in [open : BOOLEAN, selected : {0}] /\ (palette'.open => slash') /\ slash' \in BOOLEAN
    <3>1. CASE slash' = FALSE /\ palette' = [open |-> FALSE, selected |-> 0]
      BY <1>1, <3>1, FirstSelected
    <3>2. CASE slash' = slash /\ palette' = [palette EXCEPT !.selected = 0]
      BY <1>1, <3>2, FirstSelected
    <3> QED BY <2>1, <3>1, <3>2
  <2> QED BY <1>2, <1>3, <2>2, PlacedAtFirst
<1>5. CASE ~palette.open
  <2>1. \/ slash' = slash /\ palette' = palette
        \/ slash' = FALSE /\ palette' = [open |-> FALSE, selected |-> 0]
    BY <1>5 DEF Typing!Erase, Typing!Closed
  <2>2. palette' \in [open : BOOLEAN, selected : {0}] /\ (palette'.open => slash') /\ slash' \in BOOLEAN
    <3>1. CASE slash' = FALSE /\ palette' = [open |-> FALSE, selected |-> 0]
      BY <1>1, <3>1, FirstSelected
    <3>2. CASE slash' = slash /\ palette' = palette
      <4>1. palette = [open |-> FALSE, selected |-> 0]
        BY <1>1, <1>5
      <4> QED BY <1>1, <3>2, <4>1, FirstSelected
    <3> QED BY <2>1, <3>1, <3>2
  <2> QED BY <1>2, <1>3, <2>2, PlacedAtFirst
<1> QED BY <1>4, <1>5

\* Whichever side it is on.
LEMMA EraseEitherStays ==
  ASSUME TypingPlaced, Typing!Delete \/ Typing!Backspace
  PROVE  TypingPlaced' /\ picker' = picker /\ entered' = entered
<1>1. typed \in Seq(Typing!Symbols) /\ cursor \in Nat /\ Len(typed) \in Nat /\ cursor <= Len(typed)
      /\ DOMAIN typed = 1 .. Len(typed)
  BY LenProperties DEF TypingPlaced
<1>2. CASE Typing!Delete
  <2>1. Typing!Erase(cursor + 1, cursor)
    BY <1>2 DEF Typing!Delete
  <2>2. cursor + 1 \in DOMAIN typed
    BY <2>1 DEF Typing!Erase
  <2>3. cursor < Len(typed)
    BY <1>1, <2>2
  <2> DEFINE n == cursor + 1
  <2>4. Typing!Erase(n, cursor)
    BY <2>1
  <2> HIDE DEF n
  <2> QED BY <1>1, <2>3, <2>4, EraseStays
<1>3. CASE Typing!Backspace
  <2>1. cursor > 0 /\ Typing!Erase(cursor, cursor - 1)
    BY <1>3 DEF Typing!Backspace
  <2> DEFINE to == cursor - 1
  <2>2. to \in Nat /\ to < Len(typed)
    BY <1>1, <2>1
  <2>3. Typing!Erase(cursor, to)
    BY <2>1
  <2> HIDE DEF to
  <2> QED BY <2>2, <2>3, EraseStays
<1> QED BY <1>2, <1>3

\* Escape closes what is open.
LEMMA EscapeStays ==
  ASSUME TypingPlaced, PickersPlaced(picker), Typing!Escape
  PROVE  TypingPlaced' /\ PickersPlaced(picker') /\ entered' = entered
<1>0. entered' = entered
  BY DEF Typing!Escape
<1>1. CASE picker # {}
  <2>1. picker' = {} /\ UNCHANGED <<typed, cursor, slash, palette>>
    BY <1>1 DEF Typing!Escape
  <2> QED BY <1>0, <2>1, SamePlaced DEF PickersPlaced
<1>2. CASE picker = {} /\ palette.open
  <2>1. picker' = picker /\ typed' = typed /\ cursor' = cursor /\ slash' = slash
        /\ palette' = [open |-> FALSE, selected |-> 0]
    BY <1>2 DEF Typing!Escape, Typing!Closed
  <2>2. palette' \in [open : BOOLEAN, selected : {0}] /\ ~palette'.open
    BY <2>1
  <2>3. TypingPlaced'
    <3>1. typed' \in Seq(Typing!Symbols) /\ cursor' \in Nat /\ cursor' <= Len(typed') /\ slash' \in BOOLEAN
      BY <2>1 DEF TypingPlaced
    <3> QED BY <2>2, <3>1, PlacedAtFirst
  <2> QED BY <1>0, <2>1, <2>3
<1>3. CASE picker = {} /\ ~palette.open
  <2>1. Typing!Cleared /\ picker' = picker
    BY <1>3 DEF Typing!Escape
  <2> QED BY <1>0, <2>1, ClearedIsPlaced
<1> QED BY <1>1, <1>2, <1>3

\* The selection moves within the palette.
LEMMA SelectStays ==
  ASSUME TypingPlaced, NEW back \in BOOLEAN, Typing!Select(back)
  PROVE  TypingPlaced' /\ picker' = picker /\ entered' = entered
<1> DEFINE n == palette.selected  size == Len(Typing!Filtered(typed))  new == Typing!Turn(n, size, back)
<1>1. /\ palette \in [open : BOOLEAN, selected : Nat] /\ palette.open /\ n \in Nat /\ (n = 0 \/ n < size)
  BY DEF TypingPlaced, Typing!Select
<1>2. size \in Nat
  BY FilteredIsList
<1>3. palette' = [palette EXCEPT !.selected = new] /\ UNCHANGED <<typed, cursor, slash, picker, entered>>
  BY DEF Typing!Select
<1> HIDE DEF n, size
<1>4. new \in Nat /\ (new = 0 \/ new < size)
  BY <1>1, <1>2, TurnsStay
<1> HIDE DEF new
<1>5. palette' \in [open : BOOLEAN, selected : Nat] /\ palette'.open /\ palette'.selected = new
  BY <1>1, <1>3, <1>4
<1>6. Typing!Filtered(typed)' = Typing!Filtered(typed)
  BY <1>3
<1> QED BY <1>1, <1>3, <1>4, <1>5, <1>6 DEF TypingPlaced, size

\* Completing writes the command that is selected.
LEMMA CompleteStays ==
  ASSUME TypingPlaced, Typing!Complete
  PROVE  TypingPlaced' /\ picker' = picker /\ entered' = entered
<1> DEFINE c == Typing!Filtered(typed)[palette.selected + 1]  two == <<"/", c>>
<1>1. palette.selected \in Nat /\ palette.selected < Len(Typing!Filtered(typed))
  BY DEF TypingPlaced, Typing!Complete
<1>2. palette.selected + 1 \in 1 .. Len(Typing!Filtered(typed))
  BY <1>1, FilteredIsList
<1>3. c \in Typing!Symbols
  BY <1>2, FilteredIsList
<1>4. /\ typed' = two /\ cursor' = Len(typed') /\ slash' = TRUE /\ palette' = [open |-> FALSE, selected |-> 0]
      /\ picker' = picker /\ entered' = entered
  BY DEF Typing!Complete, Typing!Closed
<1> HIDE DEF c
<1>5. "/" \in Typing!Symbols
  BY DEF Typing!Symbols, Typing!Marks
<1>6. two \in Seq(Typing!Symbols) /\ Len(two) = 2
  BY <1>3, <1>5
<1> HIDE DEF two
<1>7. palette' \in [open : BOOLEAN, selected : {0}] /\ ~palette'.open
  BY <1>4
<1> QED BY <1>4, <1>6, <1>7, PlacedAtFirst

\* A command that runs is the one of those it was chosen from; it may open the picker.
LEMMA RunStays ==
  ASSUME PickersPlaced(picker), NEW commands, Typing!Run(commands),
         Typing!Marked(typed) => commands = Typing!Parsed(typed)
  PROVE  PickersPlaced(picker') /\ Told(entered')
<1>1. CASE commands = {}
  <2>1. entered' = [line |-> typed, effect |-> "message", of |-> <<>>] /\ picker' = picker
    BY <1>1 DEF Typing!Run
  <2> QED BY <2>1 DEF Told
<1>2. CASE commands # {}
  <2>1. PICK x \in commands :
          /\ entered' = [line |-> typed, effect |-> "command", of |-> <<x>>]
          /\ picker' = IF x = ModelName THEN {[filter |-> <<>>, cursor |-> 0]} ELSE picker
    BY <1>2 DEF Typing!Run
  <2>2. PickersPlaced(picker')
    <3>1. PickersPlaced({[filter |-> <<>>, cursor |-> 0]})
      BY DEF PickersPlaced
    <3> QED BY <2>1, <3>1
  <2>3. entered'.effect = "command" /\ entered'.line = typed /\ entered'.of[1] = x
    BY <2>1
  <2>4. "command" # "goal" /\ "command" # "model"
    OBVIOUS
  <2> QED BY <2>1, <2>2, <2>3, <2>4 DEF Told
<1> QED BY <1>1, <1>2

\* Enter runs the command the line spells out, or the first that the palette shows.
LEMMA AcceptStays ==
  ASSUME PickersPlaced(picker), Typing!Accept
  PROVE  TypingPlaced' /\ PickersPlaced(picker') /\ Told(entered')
<1> DEFINE commands == IF Typing!Marked(typed) THEN Typing!Parsed(typed)
                       ELSE IF Typing!Filtered(typed) # <<>> THEN {Typing!Filtered(typed)[1]}
                       ELSE {}
<1>1. Typing!Run(commands) /\ Typing!Cleared
  BY DEF Typing!Accept
<1>2. Typing!Marked(typed) => commands = Typing!Parsed(typed)
  OBVIOUS
<1> HIDE DEF commands
<1> QED BY <1>1, <1>2, RunStays, ClearedIsPlaced

\* Enter submits the line, as a goal or as the command it spells.
LEMMA SubmitStays ==
  ASSUME PickersPlaced(picker), Typing!Submit
  PROVE  TypingPlaced' /\ PickersPlaced(picker') /\ Told(entered')
<1>1. Typing!Cleared
  BY DEF Typing!Submit
<1>2. CASE Typing!Marked(typed)
  <2> DEFINE commands == Typing!Parsed(typed)
  <2>1. Typing!Run(commands)
    BY <1>2 DEF Typing!Submit
  <2>2. Typing!Marked(typed) => commands = Typing!Parsed(typed)
    OBVIOUS
  <2> HIDE DEF commands
  <2> QED BY <1>1, <2>1, <2>2, RunStays, ClearedIsPlaced
<1>3. CASE ~Typing!Marked(typed)
  <2>1. entered' = [line |-> typed, effect |-> "goal", of |-> typed] /\ picker' = picker
    BY <1>3 DEF Typing!Submit
  <2>2. entered'.effect = "goal" /\ entered'.line = typed /\ entered'.of = typed
    BY <2>1
  <2>3. "goal" # "command" /\ "goal" # "model"
    OBVIOUS
  <2> QED BY <1>1, <1>3, <2>1, <2>2, <2>3, ClearedIsPlaced DEF Told
<1> QED BY <1>2, <1>3

\* One picker whose cursor is at an entry its filter leaves.
LEMMA OnePicker ==
  ASSUME NEW f, NEW place \in Nat, place = 0 \/ place < Len(Typing!Matching(f))
  PROVE  PickersPlaced({[filter |-> f, cursor |-> place]})
BY DEF PickersPlaced

\* Moving and typing in the picker keep its selection in what it shows.
LEMMA PickingStays ==
  ASSUME TypingPlaced, PickersPlaced(picker),
         \/ \E back \in BOOLEAN : Typing!PickerMove(back)
         \/ \E c \in Letters \cup Typing!Marks : Typing!PickerType(c)
         \/ Typing!PickerErase
  PROVE  TypingPlaced' /\ PickersPlaced(picker') /\ entered' = entered
<1>1. ASSUME NEW back \in BOOLEAN, Typing!PickerMove(back)
      PROVE  TypingPlaced' /\ PickersPlaced(picker') /\ entered' = entered
  <2>1. PICK p \in picker : Typing!Picking(p, p.filter, Typing!Turn(p.cursor, Len(Typing!Matching(p.filter)), back))
    BY <1>1 DEF Typing!PickerMove
  <2> DEFINE size == Len(Typing!Matching(p.filter))  place == Typing!Turn(p.cursor, size, back)
  <2>2. size \in Nat
    BY MatchingIsList
  <2>3. p.cursor \in Nat /\ (p.cursor = 0 \/ p.cursor < size)
    BY DEF PickersPlaced
  <2>4. picker' = {[filter |-> p.filter, cursor |-> place]} /\ UNCHANGED <<typed, cursor, slash, palette, entered>>
    BY <2>1 DEF Typing!Picking
  <2>5. place \in Nat /\ (place = 0 \/ place < size)
    <3> HIDE DEF size
    <3> QED BY <2>2, <2>3, TurnsStay
  <2>6. PickersPlaced(picker')
    <3> HIDE DEF place
    <3> QED BY <2>4, <2>5, OnePicker
  <2> QED BY <2>4, <2>6, SamePlaced
<1>2. ASSUME NEW p \in picker, NEW f, Typing!Picking(p, f, 0)
      PROVE  TypingPlaced' /\ PickersPlaced(picker') /\ entered' = entered
  <2>1. picker' = {[filter |-> f, cursor |-> 0]} /\ UNCHANGED <<typed, cursor, slash, palette, entered>>
    BY <1>2 DEF Typing!Picking
  <2> QED BY <2>1, OnePicker, SamePlaced
<1>3. ASSUME NEW c, Typing!PickerType(c)
      PROVE  TypingPlaced' /\ PickersPlaced(picker') /\ entered' = entered
  BY <1>2, <1>3 DEF Typing!PickerType
<1>4. ASSUME Typing!PickerErase
      PROVE  TypingPlaced' /\ PickersPlaced(picker') /\ entered' = entered
  BY <1>2, <1>4 DEF Typing!PickerErase
<1> QED BY <1>1, <1>3, <1>4

\* A model selected is one the picker shows, and the picker closes.
LEMMA PickerSelectStays ==
  ASSUME TypingPlaced, PickersPlaced(picker), Told(entered), Typing!PickerSelect
  PROVE  TypingPlaced' /\ PickersPlaced(picker') /\ Told(entered')
<1>1. PICK p \in picker :
        /\ picker' = {}
        /\ entered' = IF p.cursor < Len(Typing!Matching(p.filter))
                      THEN [line |-> p.filter, effect |-> "model", of |-> <<Typing!Matching(p.filter)[p.cursor + 1]>>]
                      ELSE entered
        /\ UNCHANGED <<typed, cursor, slash, palette>>
  BY DEF Typing!PickerSelect
<1>2. Told(entered')
  <2>1. CASE p.cursor < Len(Typing!Matching(p.filter))
    <3> DEFINE m == Typing!Matching(p.filter)  x == m[p.cursor + 1]
    <3>1. Len(m) \in Nat /\ p.cursor \in Nat
      BY MatchingIsList DEF PickersPlaced
    <3>2. p.cursor + 1 \in 1 .. Len(m)
      BY <2>1, <3>1
    <3>3. Typing!Contains(m, x)
      BY <3>2 DEF Typing!Contains
    <3>4. entered' = [line |-> p.filter, effect |-> "model", of |-> <<x>>]
      BY <1>1, <2>1
    <3> HIDE DEF x
    <3>5. entered'.effect = "model" /\ entered'.line = p.filter /\ entered'.of[1] = x
      BY <3>4
    <3>6. "model" # "goal" /\ "model" # "command"
      OBVIOUS
    <3> QED BY <3>3, <3>5, <3>6 DEF Told
  <2>2. CASE ~ (p.cursor < Len(Typing!Matching(p.filter)))
    BY <1>1, <2>2
  <2> QED BY <2>1, <2>2
<1> QED BY <1>1, <1>2, SamePlaced DEF PickersPlaced

\* The composer at first.
LEMMA TypingStarts == Typing!Init => Typing!IInv
<1> SUFFICES ASSUME Typing!Init PROVE TypingPlaced /\ PickersPlaced(picker) /\ Told(entered)
  BY TypingParts
<1>1. /\ typed = <<>> /\ cursor = 0 /\ slash = FALSE /\ palette = [open |-> FALSE, selected |-> 0] /\ picker = {}
      /\ entered = [line |-> <<>>, effect |-> "none", of |-> <<>>]
  BY DEF Typing!Init, Typing!Closed, Typing!Nothing
<1>2. <<>> \in Seq(Typing!Symbols) /\ Len(<<>>) = 0
  BY EmptySeq
<1>3. palette \in [open : BOOLEAN, selected : Nat] /\ palette.open = FALSE /\ palette.selected = 0
  BY <1>1
<1>5. typed \in Seq(Typing!Symbols) /\ Len(typed) = 0
  BY <1>1, <1>2
<1>7. cursor \in Nat /\ cursor <= Len(typed)
  BY <1>1, <1>5
<1>8. slash \in BOOLEAN
  BY <1>1, Zenon
<1>6. cursor \in Nat /\ cursor <= Len(typed) /\ slash \in BOOLEAN
  BY <1>7, <1>8
<1>4. TypingPlaced
  BY <1>1, <1>3, <1>5, <1>6 DEF TypingPlaced, Typing!Closed
<1> QED BY <1>1, <1>4 DEF PickersPlaced, Told

\* Every step of the composer keeps its invariant.
LEMMA TypingStays == Typing!IInv /\ [Typing!Next]_(Typing!vars) => Typing!IInv'
<1> SUFFICES ASSUME Typing!IInv, [Typing!Next]_(Typing!vars)
             PROVE  TypingPlaced' /\ PickersPlaced(picker') /\ Told(entered')
  BY TypingPartsNext
<1>0. TypingPlaced /\ PickersPlaced(picker) /\ Told(entered)
  BY TypingParts
<1>1. Letters \cup Typing!Marks \subseteq Typing!Symbols
  BY DEF Typing!Symbols
<1>2. ASSUME NEW to, Typing!Move(to) PROVE TypingPlaced' /\ PickersPlaced(picker') /\ Told(entered')
  BY <1>0, <1>2, MoveStays
<1>3. ASSUME NEW c \in Letters \cup Typing!Marks, Typing!Insert(c)
      PROVE  TypingPlaced' /\ PickersPlaced(picker') /\ Told(entered')
  BY <1>0, <1>1, <1>3, InsertStays
<1>4. ASSUME NEW c \in Letters \cup Typing!Marks, NEW d \in Letters \cup Typing!Marks, Typing!Paste(<<c, d>>)
      PROVE  TypingPlaced' /\ PickersPlaced(picker') /\ Told(entered')
  BY <1>0, <1>1, <1>4, PasteStays
<1>5. ASSUME NEW back \in BOOLEAN, Typing!Select(back)
      PROVE  TypingPlaced' /\ PickersPlaced(picker') /\ Told(entered')
  BY <1>0, <1>5, SelectStays
<1>6. CASE Typing!Delete \/ Typing!Backspace
  BY <1>0, <1>6, EraseEitherStays
<1>7. CASE Typing!Escape
  BY <1>0, <1>7, EscapeStays
<1>8. CASE Typing!Complete
  BY <1>0, <1>8, CompleteStays
<1>9. CASE Typing!Accept
  BY <1>0, <1>9, AcceptStays
<1>10. CASE Typing!Submit
  BY <1>0, <1>10, SubmitStays
<1>11. CASE \/ \E back \in BOOLEAN : Typing!PickerMove(back)
            \/ \E c \in Letters \cup Typing!Marks : Typing!PickerType(c)
            \/ Typing!PickerErase
  BY <1>0, <1>11, PickingStays
<1>12. CASE Typing!PickerSelect
  BY <1>0, <1>12, PickerSelectStays
<1>13. CASE UNCHANGED Typing!vars
  <2>1. UNCHANGED <<typed, cursor, slash, palette>> /\ picker' = picker /\ entered' = entered
    BY <1>13 DEF Typing!vars
  <2> QED BY <1>0, <2>1, SamePlaced
<1>14. Typing!Next \/ UNCHANGED Typing!vars
  OBVIOUS
<1> QED BY <1>2, <1>3, <1>4, <1>5, <1>6, <1>7, <1>8, <1>9, <1>10, <1>11, <1>12, <1>13, <1>14 DEF Typing!Next

-------------------------------------------------------------------------------
(* The stream.                                                               *)

\* A line has a kind and an index; the start of a call is told by its index alone.
LEMMA LineOf ==
  ASSUME NEW l \in Stream!Lines
  PROVE  /\ l.kind \in {"text", "skipped", "start", "open", "close"}
         /\ l.kind \in {"start", "open", "close"} => l.index \in Indexes
         /\ Stream!Starts(l) = [kind |-> "start", index |-> l.index]
         /\ l.kind = "start" => l = [kind |-> "start", index |-> l.index]
<1>1. CASE l \in [kind : {"text", "skipped"}, index : {0}]
  BY <1>1 DEF Stream!Starts
<1>2. CASE l \in [kind : {"start", "open", "close"}, index : Indexes]
  BY <1>2 DEF Stream!Starts
<1> QED BY <1>1, <1>2 DEF Stream!Lines

\* The stream with one more line.
LEMMA LineArrives ==
  ASSUME sent \in Seq(Stream!Lines), NEW l \in Stream!Lines, sent' = Append(sent, l)
  PROVE  /\ Len(sent) \in Nat /\ DOMAIN sent = 1 .. Len(sent)
         /\ DOMAIN sent' = 1 .. Len(sent) + 1 /\ Len(sent) + 1 \notin DOMAIN sent
         /\ DOMAIN sent' = DOMAIN sent \cup {Len(sent) + 1}
         /\ sent' \in Seq(Stream!Lines) /\ sent'[Len(sent) + 1] = l
         /\ \A n \in DOMAIN sent : sent'[n] = sent[n]
         /\ \A n \in DOMAIN sent : sent[n] \in Stream!Lines
<1>1. Len(sent) \in Nat /\ DOMAIN sent = 1 .. Len(sent)
  BY LenProperties
<1>2. /\ sent' \in Seq(Stream!Lines) /\ Len(sent') = Len(sent) + 1 /\ sent'[Len(sent) + 1] = l
      /\ \A n \in 1 .. Len(sent) : sent'[n] = sent[n]
  BY AppendProperties
<1>3. DOMAIN sent' = 1 .. Len(sent) + 1
  BY <1>2, LenProperties
<1>4. Len(sent) + 1 \notin 1 .. Len(sent)
      /\ 1 .. Len(sent) + 1 = (1 .. Len(sent)) \cup {Len(sent) + 1}
  BY <1>1
<1>5. \A n \in DOMAIN sent : sent[n] \in Stream!Lines
  BY <1>1, ElementOfSeq
<1> QED BY <1>1, <1>2, <1>3, <1>4, <1>5

\* Pieces that lines carry are carried by them when one more has come ...
LEMMA CarriedOn ==
  ASSUME sent \in Seq(Stream!Lines), NEW CONSTANT l \in Stream!Lines, sent' = Append(sent, l),
         NEW CONSTANT ps, NEW CONSTANT P, Stream!Carried(ps, P)
  PROVE  Stream!Carried(ps, P)'
<1>1. DOMAIN sent \subseteq DOMAIN sent' /\ \A n \in DOMAIN sent : sent'[n] = sent[n]
  BY LineArrives
<1>2. PICK from \in [DOMAIN ps -> DOMAIN sent] :
        /\ Stream!Range(from) = P
        /\ \A m, n \in DOMAIN ps : m < n => from[m] < from[n]
        /\ \A n \in DOMAIN ps : ps[n] = sent[from[n]].kind
  BY DEF Stream!Carried
<1>3. from \in [DOMAIN ps -> DOMAIN sent'] /\ \A n \in DOMAIN ps : ps[n] = sent'[from[n]].kind
  BY <1>1, <1>2
<1> QED BY <1>2, <1>3 DEF Stream!Carried

\* ... and with its piece at the end, by these and by it.
LEMMA CarriedMore ==
  ASSUME sent \in Seq(Stream!Lines), NEW CONSTANT l \in Stream!Lines, sent' = Append(sent, l),
         NEW CONSTANT S, NEW CONSTANT ps \in Seq(S), NEW CONSTANT x \in S, x = l.kind,
         NEW CONSTANT P, Stream!Carried(ps, P), NEW CONSTANT place, place = Len(sent) + 1
  PROVE  Stream!Carried(Append(ps, x), P \cup {place})'
<1> DEFINE qs == Append(ps, x)  k == Len(ps)
<1>1. /\ k \in Nat /\ DOMAIN ps = 1 .. k /\ DOMAIN qs = 1 .. k + 1
      /\ qs[k + 1] = x /\ \A n \in 1 .. k : qs[n] = ps[n]
  <2>1. qs \in Seq(S) /\ Len(qs) = k + 1 /\ qs[k + 1] = x /\ \A n \in 1 .. k : qs[n] = ps[n]
    BY AppendProperties
  <2>2. DOMAIN qs = 1 .. k + 1
    BY <2>1, LenProperties
  <2> QED BY <2>1, <2>2, LenProperties
<1>2. /\ Len(sent) \in Nat /\ DOMAIN sent = 1 .. Len(sent)
      /\ DOMAIN sent' = DOMAIN sent \cup {place} /\ sent'[place] = l
      /\ \A n \in DOMAIN sent : sent'[n] = sent[n]
  BY LineArrives
<1> HIDE DEF qs, k
<1>3. PICK from \in [DOMAIN ps -> DOMAIN sent] :
        /\ Stream!Range(from) = P
        /\ \A m, n \in DOMAIN ps : m < n => from[m] < from[n]
        /\ \A n \in DOMAIN ps : ps[n] = sent[from[n]].kind
  BY DEF Stream!Carried
<1> DEFINE too == [n \in DOMAIN qs |-> IF n = k + 1 THEN place ELSE from[n]]
<1>4. k + 1 \notin 1 .. k /\ k + 1 \in 1 .. k + 1 /\ \A n \in 1 .. k + 1 : n = k + 1 \/ n \in 1 .. k
  BY <1>1
<1>5. \A n \in 1 .. k : n \in 1 .. k + 1 /\ n # k + 1
  BY <1>1
<1>6. DOMAIN too = 1 .. k + 1 /\ too[k + 1] = place /\ \A n \in 1 .. k : too[n] = from[n]
  BY <1>1, <1>4, <1>5
<1>7. too \in [DOMAIN qs -> DOMAIN sent']
  <2>1. \A n \in DOMAIN qs : too[n] \in DOMAIN sent'
    BY <1>1, <1>2, <1>3, <1>4, <1>6
  <2> QED BY <2>1
<1> HIDE DEF too
<1>8. Stream!Range(too) = P \cup {place}
  <2>1. ASSUME NEW n \in 1 .. k + 1 PROVE too[n] \in P \cup {place}
    <3>1. CASE n = k + 1
      BY <1>6, <3>1
    <3>2. CASE n \in 1 .. k
      BY <1>1, <1>3, <1>6, <3>2 DEF Stream!Range
    <3> QED BY <1>4, <3>1, <3>2
  <2>2. ASSUME NEW y \in P PROVE \E n \in 1 .. k + 1 : too[n] = y
    <3>1. PICK n \in 1 .. k : from[n] = y
      BY <1>1, <1>3 DEF Stream!Range
    <3> QED BY <1>5, <1>6, <3>1
  <2>3. \E n \in 1 .. k + 1 : too[n] = place
    BY <1>4, <1>6
  <2> QED BY <1>6, <2>1, <2>2, <2>3 DEF Stream!Range
<1>9. ASSUME NEW m \in DOMAIN qs, NEW n \in DOMAIN qs, m < n PROVE too[m] < too[n]
  <2>1. m \in 1 .. k
    BY <1>1, <1>9
  <2>2. from[m] \in 1 .. Len(sent)
    BY <1>1, <1>2, <1>3, <2>1
  <2>3. CASE n = k + 1
    BY <1>2, <1>6, <2>1, <2>2, <2>3
  <2>4. CASE n \in 1 .. k
    BY <1>1, <1>3, <1>6, <1>9, <2>1, <2>4
  <2> QED BY <1>1, <1>4, <2>3, <2>4
<1>10. ASSUME NEW n \in DOMAIN qs PROVE qs[n] = sent'[too[n]].kind
  <2>1. CASE n = k + 1
    BY <1>1, <1>2, <1>6, <2>1
  <2>2. CASE n \in 1 .. k
    BY <1>1, <1>2, <1>3, <1>6, <2>2
  <2> QED BY <1>1, <1>4, <2>1, <2>2
<1>11. Stream!Carried(qs, P \cup {place})'
  BY <1>7, <1>8, <1>9, <1>10 DEF Stream!Carried
<1> QED BY <1>11 DEF qs

\* No pieces are carried by no lines.
LEMMA CarriedNothing ==
  ASSUME NEW CONSTANT P, P = {}
  PROVE  Stream!Carried(<<>>, P)'
<1> DEFINE from == [n \in {} |-> 0]
<1>1. DOMAIN <<>> = {}
  OBVIOUS
<1>2. from \in [{} -> DOMAIN sent'] /\ Stream!Range(from) = {}
  BY DEF Stream!Range
<1> HIDE DEF from
<1> QED BY <1>1, <1>2 DEF Stream!Carried

\* The places of text grow by those of lines that carry some.
LEMMA TextsGrow ==
  ASSUME sent \in Seq(Stream!Lines), NEW l \in Stream!Lines, sent' = Append(sent, l)
  PROVE  /\ l.kind # "text" => Stream!Texts' = Stream!Texts
         /\ l.kind = "text" => Stream!Cardinality(Stream!Texts)' = Stream!Cardinality(Stream!Texts) + 1
         /\ Stream!Cardinality(Stream!Texts) \in Nat
<1>1. /\ Len(sent) \in Nat /\ DOMAIN sent = 1 .. Len(sent)
      /\ DOMAIN sent' = DOMAIN sent \cup {Len(sent) + 1} /\ sent'[Len(sent) + 1] = l
      /\ \A n \in DOMAIN sent : sent'[n] = sent[n]
      /\ Len(sent) + 1 \notin DOMAIN sent
  BY LineArrives
<1>2. IsFiniteSet(DOMAIN sent)
  BY <1>1, FS_Interval
<1>3. IsFiniteSet(Stream!Texts)
  BY <1>2, FS_Subset DEF Stream!Texts
<1>4. \A S : Stream!Cardinality(S) = Cardinality(S)
  BY DEF Stream!Cardinality, Cardinality
<1>5. l.kind # "text" => Stream!Texts' = Stream!Texts
  BY <1>1 DEF Stream!Texts
<1>6. ASSUME l.kind = "text" PROVE Cardinality(Stream!Texts') = Cardinality(Stream!Texts) + 1
  <2> DEFINE new == Len(sent) + 1
  <2>1. Stream!Texts' = Stream!Texts \cup {new} /\ new \notin Stream!Texts
    <3> HIDE DEF new
    <3> QED BY <1>1, <1>6 DEF Stream!Texts, new
  <2> HIDE DEF new
  <2> QED BY <1>3, <2>1, FS_AddElement
<1>7. Stream!Cardinality(Stream!Texts)' = Cardinality(Stream!Texts')
  BY DEF Stream!Cardinality, Cardinality
<1> QED BY <1>3, <1>4, <1>5, <1>6, <1>7, FS_CardinalityType

\* The places of a call's arguments grow by those of its own pieces.
LEMMA ArgumentsGrow ==
  ASSUME sent \in Seq(Stream!Lines), NEW l \in Stream!Lines, sent' = Append(sent, l), NEW CONSTANT i
  PROVE  Stream!Arguments(i)' = IF l.kind \in {"open", "close"} /\ l.index = i
                                THEN Stream!Arguments(i) \cup {Len(sent) + 1} ELSE Stream!Arguments(i)
<1>1. /\ DOMAIN sent' = DOMAIN sent \cup {Len(sent) + 1} /\ sent'[Len(sent) + 1] = l
      /\ \A n \in DOMAIN sent : sent'[n] = sent[n]
      /\ Len(sent) + 1 \notin DOMAIN sent
  BY LineArrives
<1> DEFINE new == Len(sent) + 1
<1>2. DOMAIN sent' = DOMAIN sent \cup {new} /\ sent'[new] = l /\ new \notin DOMAIN sent
  BY <1>1
<1> HIDE DEF new
<1> QED BY <1>1, <1>2 DEF Stream!Arguments, new

\* What is in a stream stays in it, and only its last line comes new.
LEMMA ContainsMore ==
  ASSUME sent \in Seq(Stream!Lines), NEW l \in Stream!Lines, sent' = Append(sent, l), NEW CONSTANT x
  PROVE  Stream!Contains(sent, x)' <=> Stream!Contains(sent, x) \/ x = l
<1>1. /\ Len(sent) \in Nat /\ DOMAIN sent = 1 .. Len(sent)
      /\ DOMAIN sent' = 1 .. Len(sent) + 1 /\ sent'[Len(sent) + 1] = l
      /\ DOMAIN sent' = DOMAIN sent \cup {Len(sent) + 1}
      /\ \A n \in DOMAIN sent : sent'[n] = sent[n]
      /\ sent' \in Seq(Stream!Lines)
  BY LineArrives
<1>2. Len(sent') \in Nat /\ DOMAIN sent' = 1 .. Len(sent')
  BY <1>1, LenProperties
<1>3. Stream!Contains(sent, x) <=> \E n \in DOMAIN sent : sent[n] = x
  BY <1>1 DEF Stream!Contains
<1>4. Stream!Contains(sent, x)' <=> \E n \in DOMAIN sent' : sent'[n] = x
  BY <1>2 DEF Stream!Contains
<1> QED BY <1>1, <1>3, <1>4

\* What a call has kept so far, and the text.
CallsKept == \A i \in Indexes : \A c \in calls[i] : Stream!Carried(c.args, Stream!Arguments(i))
TextKept == Len(text) = Stream!Cardinality(Stream!Texts) /\ shown = text

\* What is kept of the stream in parts.
LEMMA KeptParts == Stream!Kept <=> TextKept /\ CallsKept
BY DEF Stream!Kept, TextKept, CallsKept

\* The same of the next state.
LEMMA KeptPartsNext == Stream!Kept' <=> TextKept' /\ CallsKept'
BY DEF Stream!Kept, TextKept, CallsKept

\* Before anything came there is nothing to keep.
LEMMA NothingKept ==
  ASSUME sent = <<>>, text = <<>>, shown = <<>>, calls = [i \in Indexes |-> {}]
  PROVE  Stream!Kept
<1>1. DOMAIN sent = {}
  OBVIOUS
<1>2. Stream!Texts = {}
  BY <1>1 DEF Stream!Texts
<1>3. Stream!Cardinality(Stream!Texts) = 0
  <2>1. Cardinality({}) = 0
    BY FS_EmptySet
  <2> QED BY <1>2, <2>1 DEF Stream!Cardinality, Cardinality
<1>4. Len(text) = 0
  BY EmptySeq
<1>5. TextKept
  BY <1>3, <1>4 DEF TextKept
<1>6. CallsKept
  BY DEF CallsKept
<1> QED BY <1>5, <1>6, KeptParts

\* Steps that change nothing of what is kept.
LEMMA SameKept ==
  ASSUME Stream!Kept, UNCHANGED <<sent, text, shown, calls>>
  PROVE  Stream!Kept'
<1>1. Stream!Texts' = Stream!Texts /\ \A i \in Indexes : Stream!Arguments(i)' = Stream!Arguments(i)
  BY DEF Stream!Texts, Stream!Arguments
<1>2. Stream!Cardinality(Stream!Texts)' = Stream!Cardinality(Stream!Texts)
  BY <1>1 DEF Stream!Cardinality
<1>3. \A ps, P : Stream!Carried(ps, P) => \E from \in [DOMAIN ps -> DOMAIN sent'] :
        /\ Stream!Range(from) = P
        /\ \A m, n \in DOMAIN ps : m < n => from[m] < from[n]
        /\ \A n \in DOMAIN ps : ps[n] = sent'[from[n]].kind
  BY DEF Stream!Carried
<1>4. CallsKept'
  BY <1>1, <1>3, KeptParts DEF CallsKept, Stream!Carried
<1> QED BY <1>2, <1>4, KeptParts, KeptPartsNext DEF TextKept

\* Nothing has come of the stream at first.
LEMMA StreamStarts == Stream!Init => Stream!IInv
<1> SUFFICES ASSUME Stream!Init PROVE Stream!IInv
  OBVIOUS
<1>1. /\ at = "posted" /\ sent = <<>> /\ line = {} /\ text = <<>> /\ shown = <<>>
      /\ calls = [i \in Indexes |-> {}] /\ output = "none"
  BY DEF Stream!Init
<1>2. Stream!TypeOK
  <2>1. sent \in Seq(Stream!Lines) /\ text \in Seq({"whole", "lossy"})
    BY <1>1, EmptySeq
  <2>2. calls \in [Indexes -> SUBSET [id : Indexes, args : Seq({"open", "close"})]]
    BY <1>1
  <2> QED BY <1>1, <2>1, <2>2 DEF Stream!TypeOK
<1>3. DOMAIN sent = {}
  BY <1>1
<1>4. Stream!StartsComeFirst
  BY <1>1, <1>3 DEF Stream!StartsComeFirst
<1>5. Stream!Kept
  BY <1>1, NothingKept
<1> QED BY <1>1, <1>2, <1>4, <1>5 DEF Stream!IInv, Stream!StreamIsFaithful

\* Chunks, ends and failures.
LEMMA ReadPartStays ==
  ASSUME Stream!IInv, NEW l \in Stream!Lines, NEW cut \in BOOLEAN, Stream!ReadPart(l, cut)
  PROVE  Stream!IInv'
<1>1. /\ at = "streaming" /\ Stream!Follows(l) /\ line' = {[l |-> l, cut |-> cut]}
      /\ UNCHANGED <<at, sent, text, shown, calls, output>>
  BY DEF Stream!ReadPart
<1>2. Stream!TypeOK /\ Stream!StartsComeFirst /\ Stream!Kept /\ output = "none" /\ Stream!StreamIsFaithful
  BY <1>1 DEF Stream!IInv
<1>3. \A p \in line' : p.l = l
  BY <1>1
<1>4. Stream!TypeOK'
  BY <1>1, <1>2, <1>3 DEF Stream!TypeOK
<1>5. Stream!Kept'
  BY <1>1, <1>2, SameKept
<1>6. l.kind = "start" => ~Stream!Contains(sent, l)
  BY <1>1 DEF Stream!Follows
<1>7. l.kind \in {"open", "close"} => Stream!Contains(sent, Stream!Starts(l))
  <2>1. CASE l.kind = "open"
    BY <1>1, <2>1 DEF Stream!Follows, Stream!Starts
  <2>2. CASE l.kind = "close"
    <3> DEFINE o == [l EXCEPT !.kind = "open"]
    <3>1. Stream!Contains(sent, o)
      BY <1>1, <2>2 DEF Stream!Follows
    <3>2. PICK n \in 1 .. Len(sent) : sent[n] = o
      BY <3>1 DEF Stream!Contains
    <3>3. n \in DOMAIN sent
      BY <1>2, LenProperties DEF Stream!TypeOK
    <3>4. l.index \in Indexes
      BY <2>2, LineOf
    <3>5. l \in [kind : {"start", "open", "close"}, index : Indexes]
      BY <2>2 DEF Stream!Lines
    <3>6. o.kind = "open" /\ o.index = l.index /\ Stream!Starts(o) = Stream!Starts(l)
      BY <3>5 DEF Stream!Starts
    <3> HIDE DEF o
    <3>7. Stream!Contains(sent, Stream!Starts(sent[n]))
      BY <1>2, <3>2, <3>3, <3>6 DEF Stream!StartsComeFirst
    <3> QED BY <3>2, <3>6, <3>7
  <2> QED BY <2>1, <2>2
<1>8. Stream!StartsComeFirst'
  <2>1. \A x : Stream!Contains(sent', x) <=> Stream!Contains(sent, x)
    BY <1>1
  <2>2. \A n \in DOMAIN sent' : sent'[n].kind \in {"open", "close"} => Stream!Contains(sent', Stream!Starts(sent'[n]))
    BY <1>1, <1>2, <2>1 DEF Stream!StartsComeFirst
  <2>3. \A p \in line' :
          /\ p.l.kind = "start" => ~Stream!Contains(sent', p.l)
          /\ p.l.kind \in {"open", "close"} => Stream!Contains(sent', Stream!Starts(p.l))
    BY <1>3, <1>6, <1>7, <2>1
  <2> QED BY <2>2, <2>3 DEF Stream!StartsComeFirst
<1>9. output' # "output" /\ at' = "streaming" /\ output' = "none"
  BY <1>1, <1>2
<1> QED BY <1>4, <1>5, <1>8, <1>9 DEF Stream!IInv, Stream!StreamIsFaithful

\* What is kept once a line has come to its end.
LEMMA RestIsKept ==
  ASSUME Stream!IInv, Stream!ReadRest
  PROVE  Stream!Kept' /\ Stream!TypeOK' /\ Stream!StartsComeFirst'
<1>1. PICK p \in line :
        /\ sent' = Append(sent, p.l)
        /\ IF p.l.kind = "text"
           THEN /\ text' = Append(text, IF p.cut THEN "lossy" ELSE "whole")
                /\ shown' = Append(shown, IF p.cut THEN "lossy" ELSE "whole")
           ELSE UNCHANGED <<text, shown>>
        /\ calls' = CASE p.l.kind = "start" -> [calls EXCEPT ![p.l.index] = {[id |-> p.l.index, args |-> <<>>]}]
                      [] p.l.kind \in {"open", "close"} -> Stream!Piece(p.l)
                      [] OTHER -> calls
        /\ line' = {}
  BY DEF Stream!ReadRest
<1>2. Stream!TypeOK /\ Stream!StartsComeFirst /\ Stream!Kept
  BY DEF Stream!IInv, Stream!ReadRest
<1>3. PICK l \in Stream!Lines : l = p.l
  BY <1>2 DEF Stream!TypeOK
<1>4. /\ l.kind = "start" => ~Stream!Contains(sent, l)
      /\ l.kind \in {"open", "close"} => Stream!Contains(sent, Stream!Starts(l))
  BY <1>2, <1>3 DEF Stream!StartsComeFirst
<1>5. sent \in Seq(Stream!Lines) /\ text \in Seq({"whole", "lossy"})
      /\ calls \in [Indexes -> SUBSET [id : Indexes, args : Seq({"open", "close"})]]
  BY <1>2 DEF Stream!TypeOK
<1>6. sent' = Append(sent, l)
  BY <1>1, <1>3
<1>7. TextKept /\ CallsKept
  BY <1>2, KeptParts
<1>8. /\ Len(sent) \in Nat /\ DOMAIN sent = 1 .. Len(sent)
      /\ DOMAIN sent' = DOMAIN sent \cup {Len(sent) + 1}
      /\ sent' \in Seq(Stream!Lines) /\ sent'[Len(sent) + 1] = l
      /\ \A n \in DOMAIN sent : sent'[n] = sent[n]
      /\ \A n \in DOMAIN sent : sent[n] \in Stream!Lines
  BY <1>5, <1>6, LineArrives
<1>9. TextKept' /\ text' \in Seq({"whole", "lossy"})
  <2>1. CASE l.kind = "text"
    <3> DEFINE piece == IF p.cut THEN "lossy" ELSE "whole"
    <3>1. piece \in {"whole", "lossy"} /\ text' = Append(text, piece) /\ shown' = Append(shown, piece)
      BY <1>1, <1>3, <2>1
    <3> HIDE DEF piece
    <3>2. text' \in Seq({"whole", "lossy"}) /\ Len(text') = Len(text) + 1
      BY <1>5, <3>1, AppendProperties
    <3>3. Stream!Cardinality(Stream!Texts)' = Stream!Cardinality(Stream!Texts) + 1
      BY <1>5, <1>6, <2>1, TextsGrow
    <3> QED BY <1>7, <3>1, <3>2, <3>3 DEF TextKept
  <2>2. CASE l.kind # "text"
    <3>1. text' = text /\ shown' = shown
      BY <1>1, <1>3, <2>2
    <3>2. Stream!Texts' = Stream!Texts
      BY <1>5, <1>6, <2>2, TextsGrow
    <3>3. Stream!Cardinality(Stream!Texts)' = Stream!Cardinality(Stream!Texts)
      BY <3>2 DEF Stream!Cardinality
    <3> QED BY <1>5, <1>7, <3>1, <3>3 DEF TextKept
  <2> QED BY <2>1, <2>2
\* A call the line is not about keeps what it has.
<1>10. ASSUME NEW CONSTANT i \in Indexes, NEW CONSTANT c, c \in calls[i], ~ (l.kind \in {"open", "close"} /\ l.index = i)
       PROVE  Stream!Carried(c.args, Stream!Arguments(i))'
  <2> DEFINE P == Stream!Arguments(i)
  <2>1. PICK Q : Q = P
    OBVIOUS
  <2>2. Stream!Arguments(i)' = P
    BY <1>5, <1>6, <1>10, ArgumentsGrow
  <2>3. PICK ps : ps = c.args
    OBVIOUS
  <2>4. Stream!Carried(ps, Q)
    BY <1>7, <1>10, <2>1, <2>3 DEF CallsKept
  <2>5. Stream!Carried(ps, Q)'
    BY <1>5, <1>6, <2>4, CarriedOn
  <2>6. Stream!Arguments(i)' = Q
    BY <2>1, <2>2
  <2> QED BY <2>3, <2>5, <2>6 DEF Stream!Carried
<1>11. ASSUME l.kind = "start"
      PROVE  CallsKept' /\ calls' \in [Indexes -> SUBSET [id : Indexes, args : Seq({"open", "close"})]]
  <2> DEFINE j == l.index
  <2>1. j \in Indexes /\ calls' = [calls EXCEPT ![j] = {[id |-> j, args |-> <<>>]}]
    BY <1>1, <1>3, <1>11, LineOf
  <2>2. calls' \in [Indexes -> SUBSET [id : Indexes, args : Seq({"open", "close"})]]
    <3>1. <<>> \in Seq({"open", "close"})
      BY EmptySeq
    <3> HIDE DEF j
    <3>2. {[id |-> j, args |-> <<>>]} \in SUBSET [id : Indexes, args : Seq({"open", "close"})]
      BY <2>1, <3>1
    <3> QED BY <1>5, <2>1, <3>2
  <2>3. ASSUME NEW n \in DOMAIN sent, sent[n].kind \in {"open", "close"}, sent[n].index = j PROVE FALSE
    <3>1. Stream!Starts(sent[n]) = [kind |-> "start", index |-> j] /\ l = [kind |-> "start", index |-> j]
      BY <1>8, <1>11, <2>3, LineOf
    <3>2. Stream!Contains(sent, Stream!Starts(sent[n]))
      BY <1>2, <2>3 DEF Stream!StartsComeFirst
    <3> QED BY <1>4, <1>11, <3>1, <3>2
  <2>4. Stream!Arguments(j) = {}
    BY <2>3 DEF Stream!Arguments
  <2>5. CallsKept'
    <3> SUFFICES ASSUME NEW CONSTANT i \in Indexes, NEW CONSTANT c, c \in calls'[i]
                 PROVE  Stream!Carried(c.args, Stream!Arguments(i))'
      BY DEF CallsKept
    <3>1. CASE i = j
      <4>1. c.args = <<>>
        BY <1>5, <2>1, <3>1
      <4>2. Stream!Arguments(i)' = Stream!Arguments(i)
        BY <1>5, <1>6, <1>11, ArgumentsGrow
      <4>3. Stream!Arguments(i)' = {}
        BY <2>4, <3>1, <4>2
      <4>4. PICK none : none = {}
        OBVIOUS
      <4>5. Stream!Carried(<<>>, none)'
        BY <4>4, CarriedNothing
      <4> QED BY <4>1, <4>3, <4>4, <4>5 DEF Stream!Carried
    <3>2. CASE i # j
      <4>1. c \in calls[i]
        BY <1>5, <2>1, <3>2
      <4> QED BY <1>10, <3>2, <4>1
    <3> QED BY <3>1, <3>2
  <2> QED BY <2>2, <2>5
\* A piece of arguments.
<1>12. ASSUME l.kind \in {"open", "close"}
      PROVE  CallsKept' /\ calls' \in [Indexes -> SUBSET [id : Indexes, args : Seq({"open", "close"})]]
  <2> DEFINE j == l.index  S == {"open", "close"}
  <2>1. j \in Indexes /\ calls' = [calls EXCEPT ![j] = {[c EXCEPT !.args = Append(c.args, l.kind)] : c \in calls[j]}]
    BY <1>1, <1>3, <1>5, <1>12, LineOf DEF Stream!Piece
  <2>2. ASSUME NEW c \in calls[j]
        PROVE  /\ [c EXCEPT !.args = Append(c.args, l.kind)] \in [id : Indexes, args : Seq(S)]
               /\ [c EXCEPT !.args = Append(c.args, l.kind)].args = Append(c.args, l.kind)
    <3>1. c \in [id : Indexes, args : Seq(S)]
      BY <1>5, <2>1
    <3>2. c.args \in Seq(S) /\ l.kind \in S
      BY <1>12, <3>1
    <3>3. Append(c.args, l.kind) \in Seq(S)
      <4> HIDE DEF S
      <4> QED BY <3>2, AppendProperties
    <3> DEFINE more == Append(c.args, l.kind)
    <3>4. more \in Seq(S)
      BY <3>3
    <3> HIDE DEF more, S
    <3>5. [c EXCEPT !.args = more] \in [id : Indexes, args : Seq(S)] /\ [c EXCEPT !.args = more].args = more
      BY <3>1, <3>4
    <3> QED BY <3>5 DEF more
  <2>3. calls' \in [Indexes -> SUBSET [id : Indexes, args : Seq({"open", "close"})]]
    <3> DEFINE new == {[c EXCEPT !.args = Append(c.args, l.kind)] : c \in calls[j]}
    <3>1. new \in SUBSET [id : Indexes, args : Seq({"open", "close"})]
      BY <2>2
    <3> HIDE DEF new, j
    <3>2. calls' = [calls EXCEPT ![j] = new]
      BY <2>1 DEF new, j
    <3> QED BY <1>5, <2>1, <3>1, <3>2
  <2>4. CallsKept'
    <3> SUFFICES ASSUME NEW CONSTANT i \in Indexes, NEW CONSTANT c, c \in calls'[i]
                 PROVE  Stream!Carried(c.args, Stream!Arguments(i))'
      BY DEF CallsKept
    <3>1. CASE i = j
      <4>1. calls'[i] = {[d EXCEPT !.args = Append(d.args, l.kind)] : d \in calls[j]}
        BY <1>5, <2>1, <3>1
      <4>2. PICK d \in calls[j] : c = [d EXCEPT !.args = Append(d.args, l.kind)]
        BY <4>1
      <4>3. PICK ps : ps = d.args
        OBVIOUS
      <4>4. PICK x : x = l.kind
        OBVIOUS
      <4>5. c.args = Append(ps, x)
        BY <2>2, <4>2, <4>3, <4>4
      <4>6. PICK Q : Q = Stream!Arguments(j)
        OBVIOUS
      <4>7. PICK place : place = Len(sent) + 1
        OBVIOUS
      <4>8. Stream!Arguments(i)' = Q \cup {place}
        BY <1>5, <1>6, <1>12, <3>1, <4>6, <4>7, ArgumentsGrow
      <4>9. Stream!Carried(ps, Q)
        BY <1>7, <2>1, <4>2, <4>3, <4>6 DEF CallsKept
      <4>10. ps \in Seq(S) /\ x \in S
        <5>1. d \in [id : Indexes, args : Seq(S)]
          BY <1>5, <2>1, <4>2
        <5> QED BY <1>12, <4>3, <4>4, <5>1
      <4>11. Stream!Carried(Append(ps, x), Q \cup {place})'
        <5> HIDE DEF S
        <5> QED BY <1>5, <1>6, <4>4, <4>7, <4>9, <4>10, CarriedMore
      <4> QED BY <4>5, <4>8, <4>11 DEF Stream!Carried
    <3>2. CASE i # j
      <4>1. c \in calls[i]
        BY <1>5, <2>1, <3>2
      <4> QED BY <1>10, <3>2, <4>1
    <3> QED BY <3>1, <3>2
  <2> QED BY <2>3, <2>4
<1>13. ASSUME l.kind \notin {"start", "open", "close"}
      PROVE  CallsKept' /\ calls' \in [Indexes -> SUBSET [id : Indexes, args : Seq({"open", "close"})]]
  <2>1. calls' = calls
    BY <1>1, <1>3, <1>13
  <2>2. CallsKept'
    BY <1>10, <1>13, <2>1 DEF CallsKept
  <2> QED BY <1>5, <2>1, <2>2
<1>14. CallsKept' /\ calls' \in [Indexes -> SUBSET [id : Indexes, args : Seq({"open", "close"})]]
  BY <1>11, <1>12, <1>13
<1>15. Stream!StartsComeFirst'
  <2>1. \A n \in DOMAIN sent' : sent'[n].kind \in {"open", "close"} => Stream!Contains(sent, Stream!Starts(sent'[n]))
    BY <1>2, <1>4, <1>8 DEF Stream!StartsComeFirst
  <2>2. \A n \in DOMAIN sent' : sent'[n].kind \in {"open", "close"} => Stream!Contains(sent', Stream!Starts(sent'[n]))
    <3> SUFFICES ASSUME NEW CONSTANT n \in DOMAIN sent', sent'[n].kind \in {"open", "close"}
                 PROVE  Stream!Contains(sent', Stream!Starts(sent'[n]))
      OBVIOUS
    <3>1. PICK x : x = Stream!Starts(sent'[n])
      OBVIOUS
    <3>2. Stream!Contains(sent, x)
      BY <2>1, <3>1
    <3>3. Stream!Contains(sent, x)'
      BY <1>5, <1>6, <3>2, ContainsMore
    <3> QED BY <3>1, <3>3
  <2> QED BY <1>1, <2>2 DEF Stream!StartsComeFirst
<1>16. Stream!TypeOK'
  BY <1>1, <1>8, <1>9, <1>14 DEF Stream!TypeOK
<1> QED BY <1>9, <1>14, <1>15, <1>16, KeptPartsNext

\* Every step of the stream keeps its invariant.
LEMMA StreamStays == Stream!IInv /\ [Stream!Next]_(Stream!vars) => Stream!IInv'
<1> SUFFICES ASSUME Stream!IInv, [Stream!Next]_(Stream!vars) PROVE Stream!IInv'
  OBVIOUS
<1>0. Stream!TypeOK /\ Stream!StartsComeFirst /\ Stream!StreamIsFaithful
      /\ (at # "done" => Stream!Kept /\ output = "none") /\ (at = "posted" => sent = <<>> /\ line = {})
  BY DEF Stream!IInv
\* Steps that leave all that has come where it is.
<1>1. ASSUME UNCHANGED <<sent, line, text, shown, calls>>,
             at' \in {at, "done"} \/ (at = "posted" /\ at' = "streaming"),
             output' \in {output, "failed", "cancelled"}, at' # "done" => output' = output
      PROVE  Stream!IInv'
  <2>1. Stream!TypeOK'
    BY <1>0, <1>1 DEF Stream!TypeOK
  <2>2. Stream!StartsComeFirst'
    BY <1>0, <1>1 DEF Stream!StartsComeFirst
  <2>3. Stream!Kept => Stream!Kept'
    BY <1>1, SameKept
  <2>4. Stream!StreamIsFaithful'
    BY <1>0, <1>1, <2>3 DEF Stream!StreamIsFaithful
  <2>5. at' # "done" => Stream!Kept' /\ output' = "none"
    BY <1>0, <1>1, <2>3
  <2>6. at' = "posted" => sent' = <<>> /\ line' = {}
    BY <1>0, <1>1
  <2> QED BY <2>1, <2>2, <2>4, <2>5, <2>6 DEF Stream!IInv
<1>2. CASE Stream!Refuse \/ Stream!OpenStream \/ Stream!BreakStream \/ Stream!Cancel \/ Stream!Deadline
  <2>1. CASE Stream!Refuse \/ Stream!BreakStream \/ Stream!Deadline
    BY <1>1, <2>1 DEF Stream!Refuse, Stream!BreakStream, Stream!Deadline, Stream!Ends, Stream!Keeps
  <2>2. CASE Stream!Cancel
    BY <1>1, <2>2 DEF Stream!Cancel, Stream!Ends, Stream!Keeps
  <2>3. CASE Stream!OpenStream
    BY <1>1, <2>3 DEF Stream!OpenStream
  <2> QED BY <1>2, <2>1, <2>2, <2>3
<1>3. CASE Stream!ReadRest
  <2>1. Stream!Kept' /\ Stream!TypeOK' /\ Stream!StartsComeFirst'
    BY <1>3, RestIsKept
  <2>2. at = "streaming" /\ at' = "streaming" /\ output' = "none"
    BY <1>0, <1>3 DEF Stream!ReadRest
  <2> QED BY <2>1, <2>2 DEF Stream!IInv, Stream!StreamIsFaithful
<1>4. CASE Stream!EndOfStream
  <2>1. /\ at = "streaming" /\ at' = "done" /\ line' = {} /\ UNCHANGED <<sent, text, shown, calls>>
        /\ output' = IF text = <<>> /\ \A i \in Indexes : calls[i] = {} THEN "malformed" ELSE "output"
    BY <1>4 DEF Stream!EndOfStream, Stream!Ends
  <2>2. Stream!Kept'
    BY <1>0, <2>1, SameKept
  <2>3. Stream!TypeOK' /\ Stream!StartsComeFirst'
    BY <1>0, <2>1 DEF Stream!TypeOK, Stream!StartsComeFirst
  <2>4. output' = "output" => text' # <<>> \/ \E i \in Indexes : calls'[i] # {}
    BY <2>1
  <2> QED BY <2>1, <2>2, <2>3, <2>4 DEF Stream!IInv, Stream!StreamIsFaithful
<1>5. ASSUME NEW called \in SUBSET Indexes, NEW parses \in BOOLEAN, Stream!AnswerJson(called, parses) PROVE Stream!IInv'
  <2>1. /\ at = "posted" /\ at' = "done" /\ UNCHANGED <<sent, line>> /\ sent = <<>> /\ line = {}
        /\ output' = IF parses THEN "output" ELSE "malformed"
    BY <1>0, <1>5 DEF Stream!AnswerJson, Stream!Ends
  <2>2. Stream!StartsComeFirst'
    BY <1>0, <2>1 DEF Stream!StartsComeFirst
  <2>3. CASE parses
    <3>1. /\ calls' = [i \in Indexes |-> IF i \in called THEN {[id |-> i, args |-> <<"open", "close">>]} ELSE {}]
          /\ text' = <<"whole">>
      BY <1>5, <2>3 DEF Stream!AnswerJson
    <3>2. <<"open", "close">> \in Seq({"open", "close"}) /\ <<"whole">> \in Seq({"whole", "lossy"})
      OBVIOUS
    <3> DEFINE both == <<"open", "close">>
    <3>3. calls' = [i \in Indexes |-> IF i \in called THEN {[id |-> i, args |-> both]} ELSE {}]
          /\ both \in Seq({"open", "close"})
      BY <3>1, <3>2
    <3> HIDE DEF both
    <3>4. calls' \in [Indexes -> SUBSET [id : Indexes, args : Seq({"open", "close"})]]
      BY <3>3
    <3>5. text' # <<>>
      BY <3>1
    <3>6. Stream!TypeOK'
      BY <1>0, <2>1, <3>1, <3>2, <3>4 DEF Stream!TypeOK
    <3> QED BY <2>1, <2>2, <3>5, <3>6 DEF Stream!IInv, Stream!StreamIsFaithful
  <2>4. CASE ~parses
    <3>1. UNCHANGED <<calls, text, shown>> /\ output' = "malformed"
      BY <1>5, <2>1, <2>4 DEF Stream!AnswerJson
    <3>2. Stream!TypeOK'
      BY <1>0, <2>1, <3>1 DEF Stream!TypeOK
    <3> QED BY <2>1, <2>2, <3>1, <3>2 DEF Stream!IInv, Stream!StreamIsFaithful
  <2> QED BY <2>3, <2>4
<1>6. ASSUME NEW l \in Stream!Lines, NEW cut \in BOOLEAN, Stream!ReadPart(l, cut) PROVE Stream!IInv'
  BY <1>6, ReadPartStays
<1>7. CASE UNCHANGED Stream!vars
  <2>1. UNCHANGED <<sent, line, text, shown, calls>> /\ at' = at /\ output' = output
    BY <1>7 DEF Stream!vars
  <2> QED BY <1>1, <2>1
<1> QED BY <1>2, <1>3, <1>4, <1>5, <1>6, <1>7 DEF Stream!Next

-------------------------------------------------------------------------------
(* Induction and recursion over the naturals.                                *)

\* Any set of naturals has a least element, so induction needs no more than a set.
LEMMA LeastOf ==
  ASSUME NEW T, T \subseteq Nat, T # {}
  PROVE  \E x \in T : \A y \in T : x <= y
<1> DEFINE R == OpToRel(<, Nat)
<1>1. IsWellFoundedOn(R, Nat)
  BY NatLessThanWellFounded
<1>2. \A x, y \in Nat : x < y => <<x, y>> \in R
  BY DEF OpToRel
<1> HIDE DEF R
<1>3. PICK x \in T : \A y \in T : ~ (<<y, x>> \in R)
  BY <1>1, WFMin
<1>4. \A y \in T : x <= y
  <2> SUFFICES ASSUME NEW y \in T PROVE x <= y
    OBVIOUS
  <2>1. x \in Nat /\ y \in Nat
    OBVIOUS
  <2>2. ~ (y < x)
    BY <1>2, <1>3, <2>1
  <2> QED BY <2>1, <2>2
<1> QED BY <1>4

\* What holds at 0 and is kept by every step up to n holds up to n.
LEMMA UpTo ==
  ASSUME NEW n \in Nat, NEW S, 0 \in S, \A i \in 1..n : i - 1 \in S => i \in S
  PROVE  \A i \in 0..n : i \in S
<1> SUFFICES ASSUME NEW k \in 0..n, k \notin S PROVE FALSE
  OBVIOUS
<1> DEFINE T == (0..n) \ S
<1>1. T \subseteq Nat /\ T # {}
  OBVIOUS
<1>2. PICK x \in T : \A y \in T : x <= y
  BY <1>1, LeastOf
<1>3. x \in 0..n /\ x \notin S /\ x # 0
  OBVIOUS
<1>4. x \in 1..n /\ x - 1 \in 0..n /\ ~ (x <= x - 1)
  BY <1>3
<1>5. x - 1 \notin T
  BY <1>2, <1>4
<1>6. x - 1 \in S
  BY <1>4, <1>5
<1> QED BY <1>3, <1>4, <1>6

\* A recursion along 0..n whose steps stay within a set has a solution.
Solves(g, n, v, h) == g[0] = v /\ \A i \in 1..n : g[i] = h[<<i, g[i - 1]>>]

\* Such a recursion has a solution, which stays in the set.
LEMMA Recursion ==
  ASSUME NEW n \in Nat, NEW V, NEW v \in V, NEW h \in [(1..n) \X V -> V]
  PROVE  \E g \in [0..n -> V] : Solves(g, n, v, h)
<1> DEFINE S == {m \in 0..n : \E g \in [0..m -> V] : Solves(g, m, v, h)}
<1>1. 0 \in S
  <2> DEFINE g == [i \in 0..0 |-> v]
  <2>1. g \in [0..0 -> V] /\ g[0] = v
    OBVIOUS
  <2> HIDE DEF g
  <2>2. Solves(g, 0, v, h)
    BY <2>1 DEF Solves
  <2> QED BY <2>1, <2>2
<1>2. ASSUME NEW m \in 1..n, m - 1 \in S PROVE m \in S
  <2>1. PICK g \in [0..(m - 1) -> V] : Solves(g, m - 1, v, h)
    BY <1>2
  <2> DEFINE new == h[<<m, g[m - 1]>>]
             k == [i \in 0..m |-> IF i = m THEN new ELSE g[i]]
  <2>2. m - 1 \in 0..(m - 1) /\ m # 0 /\ 0 \in 0..m /\ m \in 0..m
    OBVIOUS
  <2>3. g[m - 1] \in V
    BY <2>2
  <2>4. <<m, g[m - 1]>> \in (1..n) \X V
    BY <2>3
  <2>5. new \in V
    BY <2>4
  <2> HIDE DEF new
  <2>6. ASSUME NEW i \in 0..m, i # m PROVE i \in 0..(m - 1)
    BY <2>6
  <2>7. k \in [0..m -> V]
    BY <2>5, <2>6
  <2>8. k[m] = new /\ (\A i \in 0..m : i # m => k[i] = g[i])
    BY <2>2
  <2> HIDE DEF k
  <2>9. k[0] = v
    BY <2>1, <2>2, <2>8 DEF Solves
  <2>10. ASSUME NEW i \in 1..m PROVE k[i] = h[<<i, k[i - 1]>>]
    <3>1. i - 1 \in 0..m /\ i - 1 # m /\ i \in 0..m
      OBVIOUS
    <3>2. k[i - 1] = g[i - 1]
      BY <2>8, <3>1
    <3>3. CASE i = m
      BY <2>8, <3>2, <3>3 DEF new
    <3>4. CASE i # m
      <4>1. i \in 1..(m - 1)
        BY <3>4
      <4>2. g[i] = h[<<i, g[i - 1]>>]
        BY <2>1, <4>1 DEF Solves
      <4> QED BY <2>8, <3>1, <3>2, <3>4, <4>2
    <3> QED BY <3>3, <3>4
  <2>11. Solves(k, m, v, h)
    BY <2>9, <2>10 DEF Solves
  <2>12. m \in 0..n
    OBVIOUS
  <2> QED BY <2>7, <2>11, <2>12
<1> HIDE DEF S
<1>3. n \in S
  <2>1. \A i \in 0..n : i \in S
    BY <1>1, <1>2, UpTo
  <2> QED BY <2>1
<1> QED BY <1>3 DEF S

-------------------------------------------------------------------------------
(* Requests: the conversation.                                               *)

WireCall == Nat \X Nat
WireTurn == [role : {"system", "user", "assistant", "tool"}, text : {"said", "none"},
             answers : WireCall \cup {<<>>}, calls : Seq(WireCall)]

\* What the type of the conversation says of one message.
LEMMA TurnOf ==
  ASSUME Wire!TypeOK
  PROVE  /\ Len(conversation) \in Nat /\ DOMAIN conversation = 1 .. Len(conversation)
         /\ conversation \in Seq(WireTurn)
         /\ \A n \in DOMAIN conversation :
              /\ conversation[n] \in WireTurn
              /\ Len(conversation[n].calls) \in Nat
              /\ DOMAIN conversation[n].calls = 1 .. Len(conversation[n].calls)
<1>1. conversation \in Seq(WireTurn)
  BY DEF Wire!TypeOK, WireTurn, WireCall
<1> HIDE DEF WireTurn
<1>2. Len(conversation) \in Nat /\ DOMAIN conversation = 1 .. Len(conversation)
      /\ \A n \in DOMAIN conversation : conversation[n] \in WireTurn
  BY <1>1, LenProperties, ElementOfSeq
<1>3. ASSUME NEW t \in WireTurn PROVE Len(t.calls) \in Nat /\ DOMAIN t.calls = 1 .. Len(t.calls)
  <2>1. t.calls \in Seq(WireCall)
    BY DEF WireTurn
  <2> QED BY <2>1, LenProperties
<1> QED BY <1>1, <1>2, <1>3

\* The conversation with one more message.
LEMMA TurnArrives ==
  ASSUME Wire!TypeOK, NEW t \in WireTurn, conversation' = Append(conversation, t)
  PROVE  /\ DOMAIN conversation' = DOMAIN conversation \cup {Len(conversation) + 1}
         /\ conversation'[Len(conversation) + 1] = t
         /\ \A n \in DOMAIN conversation : conversation'[n] = conversation[n]
         /\ Wire!TypeOK'
<1>1. Len(conversation) \in Nat /\ DOMAIN conversation = 1 .. Len(conversation) /\ conversation \in Seq(WireTurn)
  BY TurnOf
<1>2. /\ conversation' \in Seq(WireTurn) /\ Len(conversation') = Len(conversation) + 1
      /\ conversation'[Len(conversation) + 1] = t
      /\ \A n \in 1 .. Len(conversation) : conversation'[n] = conversation[n]
  BY <1>1, AppendProperties
<1>3. DOMAIN conversation' = 1 .. Len(conversation) + 1
  BY <1>2, LenProperties
<1>4. Wire!TypeOK'
  BY <1>2 DEF Wire!TypeOK, WireTurn, WireCall
<1> QED BY <1>1, <1>2, <1>3, <1>4

\* A result is at the place its call says.
LEMMA ResultPlace ==
  ASSUME Wire!TypeOK, Wire!ResultsFollow,
         NEW j \in DOMAIN conversation, NEW i \in Nat, NEW u \in Nat, conversation[j].answers = <<i, u>>
  PROVE  j = i + u
<1>1. conversation[j].role = "tool"
  BY DEF Wire!ResultsFollow
<1>2. PICK k \in DOMAIN conversation : \E v \in DOMAIN conversation[k].calls : j = k + v /\ conversation[j].answers = <<k, v>>
  BY <1>1 DEF Wire!ResultsFollow
<1> QED BY <1>2

\* A call is open as long as the message at its place is not there.
LEMMA OpenOf ==
  ASSUME Wire!TypeOK, Wire!ResultsFollow,
         NEW i \in DOMAIN conversation, NEW u \in DOMAIN conversation[i].calls
  PROVE  <<i, u>> \in Wire!Open <=> i + u > Len(conversation)
<1>1. i \in Nat /\ u \in Nat /\ i >= 1 /\ u >= 1 /\ Len(conversation) \in Nat
      /\ DOMAIN conversation = 1 .. Len(conversation)
  BY TurnOf
<1>2. conversation[i].calls[u] = <<i, u>>
  BY DEF Wire!ResultsFollow
<1>3. <<i, u>> \in UNION {Wire!Range(conversation[k].calls) : k \in DOMAIN conversation}
  BY <1>2 DEF Wire!Range, Range
<1>4. <<i, u>> \in Wire!Open <=> ~ \E j \in DOMAIN conversation : conversation[j].answers = <<i, u>>
  BY <1>3 DEF Wire!Open
<1>5. ASSUME i + u <= Len(conversation) PROVE ~ (<<i, u>> \in Wire!Open)
  <2>1. i + u \in DOMAIN conversation
    BY <1>1, <1>5
  <2>2. conversation[i + u].answers = <<i, u>>
    BY <2>1 DEF Wire!ResultsFollow
  <2> QED BY <1>4, <2>1, <2>2
<1>6. ASSUME i + u > Len(conversation) PROVE <<i, u>> \in Wire!Open
  <2>1. ASSUME NEW j \in DOMAIN conversation, conversation[j].answers = <<i, u>> PROVE FALSE
    <3>1. j = i + u
      BY <1>1, <2>1, ResultPlace
    <3> QED BY <1>1, <1>6, <3>1
  <2> QED BY <1>4, <2>1
<1> QED BY <1>1, <1>5, <1>6

\* An open call is a call of a message.
LEMMA OpenIsCall ==
  ASSUME Wire!TypeOK, Wire!ResultsFollow, NEW c \in Wire!Open
  PROVE  \E i \in DOMAIN conversation : \E u \in DOMAIN conversation[i].calls : c = <<i, u>>
<1>1. PICK i \in DOMAIN conversation : c \in Wire!Range(conversation[i].calls)
  BY DEF Wire!Open
<1>2. PICK u \in DOMAIN conversation[i].calls : c = conversation[i].calls[u]
  BY <1>1 DEF Wire!Range, Range
<1> QED BY <1>2 DEF Wire!ResultsFollow

\* The message after a call whose results are not all there belongs to that call alone.
LEMMA OneCaller ==
  ASSUME Wire!TypeOK, Wire!ResultsFollow,
         NEW i \in DOMAIN conversation, NEW u \in DOMAIN conversation[i].calls,
         NEW j \in DOMAIN conversation, NEW v \in DOMAIN conversation[j].calls,
         i + u > Len(conversation), j + v > Len(conversation)
  PROVE  i = j
<1>1. /\ i \in Nat /\ u \in Nat /\ j \in Nat /\ v \in Nat /\ Len(conversation) \in Nat
      /\ i <= Len(conversation) /\ j <= Len(conversation)
      /\ DOMAIN conversation[i].calls = 1 .. Len(conversation[i].calls) /\ Len(conversation[i].calls) \in Nat
      /\ DOMAIN conversation[j].calls = 1 .. Len(conversation[j].calls) /\ Len(conversation[j].calls) \in Nat
  BY TurnOf
<1>2. conversation[i].role = "assistant" /\ conversation[j].role = "assistant"
  BY DEF Wire!ResultsFollow
<1>3. ASSUME i < j PROVE FALSE
  <2>1. j - i \in DOMAIN conversation[i].calls /\ i + (j - i) = j
    BY <1>1, <1>3
  <2>2. conversation[j].role = "tool"
    BY <2>1 DEF Wire!ResultsFollow
  <2> QED BY <1>2, <2>2
<1>4. ASSUME j < i PROVE FALSE
  <2>1. i - j \in DOMAIN conversation[j].calls /\ j + (i - j) = i
    BY <1>1, <1>4
  <2>2. conversation[i].role = "tool"
    BY <2>1 DEF Wire!ResultsFollow
  <2> QED BY <1>2, <2>2
<1> QED BY <1>1, <1>3, <1>4

\* A message that is not a result is said when no call is open.
LEMMA SpeakKeeps ==
  ASSUME Wire!TypeOK, Wire!InTurn, Wire!ResultsFollow,
         NEW r \in {"system", "user", "assistant"}, NEW w \in {"said", "none"}, NEW m \in Nat,
         Wire!Speak(r, w, m), m # 0 => r = "assistant",
         r = "system" => conversation = <<>>,
         r = "assistant" => conversation # <<>> /\ conversation[Len(conversation)].role \in {"user", "tool"}
  PROVE  Wire!TypeOK' /\ Wire!InTurn' /\ Wire!ResultsFollow'
<1> DEFINE N == Len(conversation)
           own == [k \in 1 .. m |-> <<N + 1, k>>]
           t == [role |-> r, text |-> w, answers |-> <<>>, calls |-> own]
<1>1. N \in Nat /\ DOMAIN conversation = 1 .. N
  BY TurnOf
<1>2. conversation' = Append(conversation, t) /\ Wire!Open = {}
  BY DEF Wire!Speak, Wire!Calls
<1>3. own \in Seq(WireCall)
  BY <1>1 DEF WireCall
<1>4. DOMAIN own = 1 .. m /\ (\A k \in 1 .. m : own[k] = <<N + 1, k>>)
  OBVIOUS
<1> HIDE DEF own
<1>5. t \in WireTurn
  BY <1>3 DEF WireTurn
<1>6. t.role = r /\ t.answers = <<>> /\ t.calls = own
  OBVIOUS
<1> HIDE DEF t
<1>7. /\ DOMAIN conversation' = DOMAIN conversation \cup {N + 1}
      /\ conversation'[N + 1] = t
      /\ \A n \in DOMAIN conversation : conversation'[n] = conversation[n]
      /\ Wire!TypeOK'
  BY <1>2, <1>5, TurnArrives
<1>8. Wire!InTurn'
  <2> SUFFICES ASSUME NEW n \in DOMAIN conversation'
               PROVE  /\ conversation'[n].role = "system" => n = 1
                      /\ conversation'[n].role = "assistant" =>
                           n - 1 \in DOMAIN conversation' /\ conversation'[n - 1].role \in {"user", "tool"}
    BY DEF Wire!InTurn
  <2>1. CASE n \in DOMAIN conversation
    BY <1>7, <2>1 DEF Wire!InTurn
  <2>2. CASE n = N + 1
    <3>1. conversation'[n].role = r
      BY <1>6, <1>7, <2>2
    <3>2. r = "system" => n = 1
      <4>1. conversation = <<>> => N = 0
        OBVIOUS
      <4> QED BY <2>2, <4>1
    <3>3. r = "assistant" => n - 1 \in DOMAIN conversation /\ conversation[n - 1].role \in {"user", "tool"}
      <4>1. conversation # <<>> => N # 0
        BY <1>1, TurnOf, EmptySeq
      <4>2. N + 1 - 1 = N
        BY <1>1
      <4> QED BY <1>1, <2>2, <4>1, <4>2
    <3> QED BY <1>7, <3>1, <3>2, <3>3
  <2> QED BY <1>7, <2>1, <2>2
<1>9. Wire!ResultsFollow'
  <2> SUFFICES ASSUME NEW n \in DOMAIN conversation'
               PROVE  /\ \A u \in DOMAIN conversation'[n].calls :
                           conversation'[n].calls[u] = <<n, u>> /\ conversation'[n].role = "assistant"
                      /\ \A u \in DOMAIN conversation'[n].calls :
                           n + u \in DOMAIN conversation' =>
                             conversation'[n + u].role = "tool" /\ conversation'[n + u].answers = <<n, u>>
                      /\ conversation'[n].role = "tool" =>
                           \E i \in DOMAIN conversation' : \E u \in DOMAIN conversation'[i].calls :
                             n = i + u /\ conversation'[n].answers = <<i, u>>
                      /\ conversation'[n].role # "tool" => conversation'[n].answers = <<>>
    BY DEF Wire!ResultsFollow
  <2>1. CASE n \in DOMAIN conversation
    <3>1. conversation'[n] = conversation[n]
      BY <1>7, <2>1
    <3>2. ASSUME NEW u \in DOMAIN conversation[n].calls, n + u \in DOMAIN conversation'
          PROVE  conversation'[n + u].role = "tool" /\ conversation'[n + u].answers = <<n, u>>
      <4>1. ~ (<<n, u>> \in Wire!Open)
        BY <1>2
      <4>2. ~ (n + u > N)
        BY <2>1, <4>1, OpenOf
      <4>3. n + u \in DOMAIN conversation
        BY <1>1, <1>7, <3>2, <4>2
      <4> QED BY <1>7, <2>1, <4>3 DEF Wire!ResultsFollow
    <3>3. ASSUME conversation[n].role = "tool"
          PROVE  \E i \in DOMAIN conversation' : \E u \in DOMAIN conversation'[i].calls :
                   n = i + u /\ conversation[n].answers = <<i, u>>
      <4>1. PICK i \in DOMAIN conversation : \E u \in DOMAIN conversation[i].calls :
                   n = i + u /\ conversation[n].answers = <<i, u>>
        BY <2>1, <3>3 DEF Wire!ResultsFollow
      <4>2. i \in DOMAIN conversation' /\ conversation'[i] = conversation[i]
        BY <1>7
      <4> QED BY <4>1, <4>2
    <3> QED BY <2>1, <3>1, <3>2, <3>3 DEF Wire!ResultsFollow
  <2>2. CASE n = N + 1
    <3>1. conversation'[n] = t
      BY <1>7, <2>2
    <3>2. \A u \in DOMAIN own : own[u] = <<n, u>> /\ r = "assistant" /\ ~ (n + u \in DOMAIN conversation')
      <4> SUFFICES ASSUME NEW u \in 1 .. m PROVE own[u] = <<n, u>> /\ r = "assistant" /\ ~ (n + u \in DOMAIN conversation')
        BY <1>4
      <4>1. m # 0
        OBVIOUS
      <4>2. ~ (n + u \in 1 .. N) /\ n + u # N + 1
        BY <1>1, <2>2
      <4> QED BY <1>1, <1>4, <1>7, <2>2, <4>1, <4>2
    <3> QED BY <1>6, <3>1, <3>2
  <2> QED BY <1>7, <2>1, <2>2
<1> QED BY <1>7, <1>8, <1>9

\* The next result is that of the open call whose place is next.
LEMMA ResolveKeeps ==
  ASSUME Wire!TypeOK, Wire!InTurn, Wire!ResultsFollow, Wire!Resolve
  PROVE  Wire!TypeOK' /\ Wire!InTurn' /\ Wire!ResultsFollow'
<1> DEFINE N == Len(conversation)
<1>1. PICK c \in Wire!Open :
        /\ \A d \in Wire!Open : c[2] <= d[2]
        /\ conversation' = Append(conversation, [role |-> "tool", text |-> "said", answers |-> c, calls |-> <<>>])
  BY DEF Wire!Resolve
<1>2. PICK i \in DOMAIN conversation : \E u \in DOMAIN conversation[i].calls : c = <<i, u>>
  BY <1>1, OpenIsCall
<1>3. PICK u \in DOMAIN conversation[i].calls : c = <<i, u>>
  BY <1>2
<1>4. /\ N \in Nat /\ DOMAIN conversation = 1 .. N /\ i \in 1 .. N
      /\ Len(conversation[i].calls) \in Nat /\ u \in 1 .. Len(conversation[i].calls)
      /\ DOMAIN conversation[i].calls = 1 .. Len(conversation[i].calls)
  BY <1>2, <1>3, TurnOf
<1>5. i + u > N
  BY <1>1, <1>2, <1>3, OpenOf
<1>6. i + u = N + 1
  <2>1. CASE u = 1
    BY <1>4, <1>5, <2>1
  <2>2. CASE u # 1
    <3>1. u - 1 \in DOMAIN conversation[i].calls
      BY <1>4, <2>2
    <3>2. <<i, u - 1>> \in Wire!Open <=> i + (u - 1) > N
      BY <1>2, <3>1, OpenOf
    <3>3. ~ (<<i, u - 1>> \in Wire!Open)
      <4>1. ASSUME <<i, u - 1>> \in Wire!Open PROVE FALSE
        <5>1. c[2] <= <<i, u - 1>>[2]
          BY <1>1, <4>1
        <5>2. u <= u - 1
          BY <1>3, <5>1
        <5> QED BY <1>4, <5>2
      <4> QED BY <4>1
    <3> QED BY <1>4, <1>5, <3>2, <3>3
  <2> QED BY <2>1, <2>2
<1> DEFINE t == [role |-> "tool", text |-> "said", answers |-> c, calls |-> <<>>]
<1>7. t \in WireTurn
  <2>1. c \in WireCall
    BY <1>3, <1>4 DEF WireCall
  <2>2. <<>> \in Seq(WireCall)
    BY EmptySeq
  <2> QED BY <2>1, <2>2 DEF WireTurn
<1>8. conversation' = Append(conversation, t) /\ t.role = "tool" /\ t.answers = <<i, u>> /\ t.calls = <<>>
  BY <1>1, <1>3
<1> HIDE DEF t
<1>9. /\ DOMAIN conversation' = DOMAIN conversation \cup {N + 1}
      /\ conversation'[N + 1] = t
      /\ \A n \in DOMAIN conversation : conversation'[n] = conversation[n]
      /\ Wire!TypeOK'
  BY <1>7, <1>8, TurnArrives
<1>10. Wire!InTurn'
  <2> SUFFICES ASSUME NEW n \in DOMAIN conversation'
               PROVE  /\ conversation'[n].role = "system" => n = 1
                      /\ conversation'[n].role = "assistant" =>
                           n - 1 \in DOMAIN conversation' /\ conversation'[n - 1].role \in {"user", "tool"}
    BY DEF Wire!InTurn
  <2>1. CASE n \in DOMAIN conversation
    BY <1>9, <2>1 DEF Wire!InTurn
  <2>2. CASE n = N + 1
    BY <1>8, <1>9, <2>2
  <2> QED BY <1>9, <2>1, <2>2
<1>11. Wire!ResultsFollow'
  <2> SUFFICES ASSUME NEW n \in DOMAIN conversation'
               PROVE  /\ \A v \in DOMAIN conversation'[n].calls :
                           conversation'[n].calls[v] = <<n, v>> /\ conversation'[n].role = "assistant"
                      /\ \A v \in DOMAIN conversation'[n].calls :
                           n + v \in DOMAIN conversation' =>
                             conversation'[n + v].role = "tool" /\ conversation'[n + v].answers = <<n, v>>
                      /\ conversation'[n].role = "tool" =>
                           \E j \in DOMAIN conversation' : \E v \in DOMAIN conversation'[j].calls :
                             n = j + v /\ conversation'[n].answers = <<j, v>>
                      /\ conversation'[n].role # "tool" => conversation'[n].answers = <<>>
    BY DEF Wire!ResultsFollow
  <2>1. CASE n \in DOMAIN conversation
    <3>1. conversation'[n] = conversation[n]
      BY <1>9, <2>1
    <3>2. ASSUME NEW v \in DOMAIN conversation[n].calls, n + v \in DOMAIN conversation'
          PROVE  conversation'[n + v].role = "tool" /\ conversation'[n + v].answers = <<n, v>>
      <4>1. CASE n + v \in DOMAIN conversation
        BY <1>9, <2>1, <4>1 DEF Wire!ResultsFollow
      <4>2. CASE n + v = N + 1
        <5>1. n + v > N
          BY <1>4, <4>2
        <5>2. n = i
          BY <1>2, <1>3, <1>5, <2>1, <5>1, OneCaller
        <5>3. v = u
          <6>1. v \in Nat
            BY <2>1, TurnOf
          <6> QED BY <1>4, <1>6, <4>2, <5>2, <6>1
        <5> QED BY <1>8, <1>9, <4>2, <5>2, <5>3
      <4> QED BY <1>9, <3>2, <4>1, <4>2
    <3>3. ASSUME conversation[n].role = "tool"
          PROVE  \E j \in DOMAIN conversation' : \E v \in DOMAIN conversation'[j].calls :
                   n = j + v /\ conversation[n].answers = <<j, v>>
      <4>1. PICK j \in DOMAIN conversation : \E v \in DOMAIN conversation[j].calls :
                   n = j + v /\ conversation[n].answers = <<j, v>>
        BY <2>1, <3>3 DEF Wire!ResultsFollow
      <4>2. j \in DOMAIN conversation' /\ conversation'[j] = conversation[j]
        BY <1>9
      <4> QED BY <4>1, <4>2
    <3> QED BY <2>1, <3>1, <3>2, <3>3 DEF Wire!ResultsFollow
  <2>2. CASE n = N + 1
    <3>1. conversation'[n] = t
      BY <1>9, <2>2
    <3>2. DOMAIN t.calls = {}
      BY <1>8
    <3>3. i \in DOMAIN conversation' /\ conversation'[i] = conversation[i]
      BY <1>2, <1>9
    <3> QED BY <1>3, <1>6, <1>8, <2>2, <3>1, <3>2, <3>3
  <2> QED BY <1>9, <2>1, <2>2
<1> QED BY <1>9, <1>10, <1>11

-------------------------------------------------------------------------------
(* Requests: one message put on the wire.                                    *)

WireBlocks == [kind : {"text", "tool_use", "tool_result"}, of : Nat \cup WireCall]
WireMessages == [role : {"user", "assistant"}, blocks : Seq(WireBlocks)]

\* What the type of a body says of one message.
LEMMA MessageOf ==
  ASSUME NEW b \in Seq(WireMessages)
  PROVE  /\ Len(b) \in Nat /\ DOMAIN b = 1 .. Len(b)
         /\ \A k \in DOMAIN b :
              /\ b[k] \in WireMessages /\ b[k].blocks \in Seq(WireBlocks)
              /\ Len(b[k].blocks) \in Nat /\ DOMAIN b[k].blocks = 1 .. Len(b[k].blocks)
<1>1. Len(b) \in Nat /\ DOMAIN b = 1 .. Len(b) /\ \A k \in DOMAIN b : b[k] \in WireMessages
  <2> HIDE DEF WireMessages
  <2> QED BY LenProperties, ElementOfSeq
<1>2. ASSUME NEW m \in WireMessages
      PROVE  m.blocks \in Seq(WireBlocks) /\ Len(m.blocks) \in Nat /\ DOMAIN m.blocks = 1 .. Len(m.blocks)
  <2>1. m.blocks \in Seq(WireBlocks)
    <3> HIDE DEF WireBlocks
    <3> QED BY DEF WireMessages
  <2> QED BY <2>1, LenProperties
<1> QED BY <1>1, <1>2

\* C is b with the blocks new after the first off blocks of its last message.
Adds(b, c, new, off) ==
  /\ \A k \in DOMAIN b :
       /\ k \in DOMAIN c /\ c[k].role = b[k].role
       /\ \A a \in DOMAIN b[k].blocks : a \in DOMAIN c[k].blocks /\ c[k].blocks[a] = b[k].blocks[a]
  /\ \A a \in DOMAIN new : off + a \in DOMAIN c[Len(c)].blocks /\ c[Len(c)].blocks[off + a] = new[a]
  /\ \A k \in DOMAIN c : \A a \in DOMAIN c[k].blocks :
       \/ k \in DOMAIN b /\ a \in DOMAIN b[k].blocks
       \/ k = Len(c) /\ a - off \in DOMAIN new

\* A message that joins no other comes last on its own ...
LEMMA PutApart ==
  ASSUME NEW b \in Seq(WireMessages), NEW r \in {"user", "assistant"}, NEW new \in Seq(WireBlocks),
         ~ Wire!Joins(b, r)
  PROVE  /\ Wire!Put(b, r, new) \in Seq(WireMessages)
         /\ Len(Wire!Put(b, r, new)) = Len(b) + 1
         /\ Wire!Put(b, r, new)[Len(b) + 1].role = r
         /\ Wire!Put(b, r, new)[Len(b) + 1].blocks = new
         /\ Adds(b, Wire!Put(b, r, new), new, 0)
<1> DEFINE c == Wire!Put(b, r, new)
           m == [role |-> r, blocks |-> new]
<1>1. c = Append(b, m)
  BY DEF Wire!Put
<1>2. m \in WireMessages /\ m.role = r /\ m.blocks = new
  BY DEF WireMessages
<1>3. Len(b) \in Nat /\ DOMAIN b = 1 .. Len(b)
  BY MessageOf
<1> HIDE DEF c, m
<1>4. /\ c \in Seq(WireMessages) /\ Len(c) = Len(b) + 1 /\ c[Len(b) + 1] = m
      /\ \A k \in 1 .. Len(b) : c[k] = b[k]
  BY <1>1, <1>2, AppendProperties
<1>5. DOMAIN c = 1 .. Len(b) + 1
  BY <1>4, LenProperties
<1>6. Len(new) \in Nat /\ DOMAIN new = 1 .. Len(new)
  BY LenProperties
<1>7. Adds(b, c, new, 0)
  <2>1. \A k \in DOMAIN b : k \in DOMAIN c /\ c[k] = b[k]
    BY <1>3, <1>4, <1>5
  <2>2. \A a \in DOMAIN new : 0 + a = a /\ a - 0 = a
    BY <1>6
  <2>3. \A k \in DOMAIN c : k \in DOMAIN b \/ k = Len(c)
    BY <1>3, <1>4, <1>5
  <2>4. c[Len(c)].blocks = new
    BY <1>2, <1>4
  <2> QED BY <2>1, <2>2, <2>3, <2>4 DEF Adds
<1> QED BY <1>2, <1>4, <1>7 DEF c

\* ... and one that joins the last message lengthens it.
LEMMA PutJoined ==
  ASSUME NEW b \in Seq(WireMessages), NEW r \in {"user", "assistant"}, NEW new \in Seq(WireBlocks),
         Wire!Joins(b, r)
  PROVE  /\ Wire!Put(b, r, new) \in Seq(WireMessages)
         /\ Len(b) \in DOMAIN b /\ b[Len(b)].role = r /\ r = "user"
         /\ Len(Wire!Put(b, r, new)) = Len(b)
         /\ Wire!Put(b, r, new)[Len(b)].role = r
         /\ Len(Wire!Put(b, r, new)[Len(b)].blocks) = Len(b[Len(b)].blocks) + Len(new)
         /\ Adds(b, Wire!Put(b, r, new), new, Len(b[Len(b)].blocks))
<1> DEFINE c == Wire!Put(b, r, new)
           old == b[Len(b)].blocks
           all == old \o new
           m == [role |-> r, blocks |-> all]
<1>1. r = "user" /\ b # <<>> /\ b[Len(b)].role = "user"
  BY DEF Wire!Joins, Wire!Last
<1>2. Len(b) \in Nat /\ DOMAIN b = 1 .. Len(b) /\ Len(b) \in DOMAIN b
  <2>1. Len(b) \in Nat /\ DOMAIN b = 1 .. Len(b)
    BY MessageOf
  <2>2. Len(b) # 0
    BY <1>1, EmptySeq
  <2> QED BY <2>1, <2>2
<1>3. c = [b EXCEPT ![Len(b)] = m]
  BY DEF Wire!Put
<1>4. old \in Seq(WireBlocks) /\ Len(old) \in Nat /\ DOMAIN old = 1 .. Len(old)
  BY <1>2, MessageOf
<1>5. Len(new) \in Nat /\ DOMAIN new = 1 .. Len(new)
  BY LenProperties
<1> HIDE DEF old
<1>6. /\ all \in Seq(WireBlocks) /\ Len(all) = Len(old) + Len(new)
      /\ \A a \in 1 .. Len(old) + Len(new) : all[a] = IF a <= Len(old) THEN old[a] ELSE new[a - Len(old)]
  <2> HIDE DEF WireBlocks
  <2> QED BY <1>4, ConcatProperties
<1>7. DOMAIN all = 1 .. Len(old) + Len(new)
  BY <1>4, <1>5, <1>6, LenProperties
<1> HIDE DEF all
<1>8. m \in WireMessages /\ m.role = r /\ m.blocks = all
  BY <1>6 DEF WireMessages
<1> HIDE DEF m, c
<1>9. c \in Seq(WireMessages) /\ Len(c) = Len(b) /\ c[Len(b)] = m /\ (\A k \in 1 .. Len(b) : k # Len(b) => c[k] = b[k])
  <2> HIDE DEF WireMessages
  <2> QED BY <1>2, <1>3, <1>8, ExceptSeq
<1>10. DOMAIN c = 1 .. Len(b)
  BY <1>9, LenProperties
<1>11. Adds(b, c, new, Len(old))
  <2>1. \A a \in DOMAIN old : a \in DOMAIN all /\ all[a] = old[a]
    BY <1>4, <1>5, <1>6, <1>7
  <2>2. \A a \in DOMAIN new : Len(old) + a \in DOMAIN all /\ all[Len(old) + a] = new[a]
    <3> SUFFICES ASSUME NEW a \in DOMAIN new PROVE Len(old) + a \in DOMAIN all /\ all[Len(old) + a] = new[a]
      OBVIOUS
    <3>1. Len(old) + a \in 1 .. Len(old) + Len(new) /\ ~ (Len(old) + a <= Len(old)) /\ Len(old) + a - Len(old) = a
      BY <1>4, <1>5
    <3> QED BY <1>6, <1>7, <3>1
  <2>3. \A a \in DOMAIN all : a \in DOMAIN old \/ a - Len(old) \in DOMAIN new
    BY <1>4, <1>5, <1>7
  <2>4. \A k \in DOMAIN b : k # Len(b) => c[k] = b[k]
    BY <1>2, <1>9
  <2>5. c[Len(c)].blocks = all /\ c[Len(b)].blocks = all /\ c[Len(b)].role = b[Len(b)].role
    BY <1>1, <1>8, <1>9
  <2>6. \A k \in DOMAIN b :
          /\ k \in DOMAIN c /\ c[k].role = b[k].role
          /\ \A a \in DOMAIN b[k].blocks : a \in DOMAIN c[k].blocks /\ c[k].blocks[a] = b[k].blocks[a]
    <3> SUFFICES ASSUME NEW k \in DOMAIN b
                 PROVE  /\ k \in DOMAIN c /\ c[k].role = b[k].role
                        /\ \A a \in DOMAIN b[k].blocks : a \in DOMAIN c[k].blocks /\ c[k].blocks[a] = b[k].blocks[a]
      OBVIOUS
    <3>1. CASE k = Len(b)
      BY <1>2, <1>10, <2>1, <2>5, <3>1 DEF old
    <3>2. CASE k # Len(b)
      BY <1>2, <1>10, <2>4, <3>2
    <3> QED BY <3>1, <3>2
  <2>7. \A k \in DOMAIN c : \A a \in DOMAIN c[k].blocks :
          \/ k \in DOMAIN b /\ a \in DOMAIN b[k].blocks
          \/ k = Len(c) /\ a - Len(old) \in DOMAIN new
    <3> SUFFICES ASSUME NEW k \in DOMAIN c, NEW a \in DOMAIN c[k].blocks
                 PROVE  \/ k \in DOMAIN b /\ a \in DOMAIN b[k].blocks
                        \/ k = Len(c) /\ a - Len(old) \in DOMAIN new
      OBVIOUS
    <3>1. CASE k = Len(b)
      BY <1>2, <1>9, <2>3, <2>5, <3>1 DEF old
    <3>2. CASE k # Len(b)
      BY <1>2, <1>10, <2>4, <3>2
    <3> QED BY <3>1, <3>2
  <2>8. \A a \in DOMAIN new : Len(old) + a \in DOMAIN c[Len(c)].blocks /\ c[Len(c)].blocks[Len(old) + a] = new[a]
    BY <2>2, <2>5
  <2> QED BY <2>6, <2>7, <2>8 DEF Adds
<1>12. Len(c[Len(b)].blocks) = Len(old) + Len(new)
  BY <1>6, <1>8, <1>9
<1> QED BY <1>1, <1>2, <1>8, <1>9, <1>11, <1>12 DEF c, old

\* The blocks of a message of the conversation.
Comes(x, n) ==
  \/ x = Wire!Text(n)
  \/ \E u \in DOMAIN conversation[n].calls : x = Wire!Use(<<n, u>>)
  \/ conversation[n].role = "tool" /\ x = Wire!Result(conversation[n].answers)

\* A block is of one message only.
LEMMA ComesOnce ==
  ASSUME Wire!TypeOK, Wire!ResultsFollow, NEW x, NEW m \in DOMAIN conversation, NEW n \in DOMAIN conversation,
         Comes(x, m), Comes(x, n)
  PROVE  m = n
<1>1. ASSUME NEW j \in DOMAIN conversation, conversation[j].role = "tool", x = Wire!Result(conversation[j].answers)
      PROVE  x.kind = "tool_result" /\ j = x.of[1] + x.of[2]
  <2>1. PICK i \in DOMAIN conversation : \E u \in DOMAIN conversation[i].calls : j = i + u /\ conversation[j].answers = <<i, u>>
    BY <1>1 DEF Wire!ResultsFollow
  <2> QED BY <1>1, <2>1 DEF Wire!Result
<1>2. ASSUME NEW j \in DOMAIN conversation, Comes(x, j)
      PROVE  \/ x.kind = "text" /\ j = x.of
             \/ x.kind = "tool_use" /\ j = x.of[1]
             \/ x.kind = "tool_result" /\ j = x.of[1] + x.of[2]
  <2>1. CASE x = Wire!Text(j)
    BY <2>1 DEF Wire!Text
  <2>2. ASSUME NEW u \in DOMAIN conversation[j].calls, x = Wire!Use(<<j, u>>) PROVE x.kind = "tool_use" /\ j = x.of[1]
    BY <2>2 DEF Wire!Use
  <2> QED BY <1>1, <1>2, <2>1, <2>2 DEF Comes
<1>3. \/ x.kind = "text" /\ m = x.of
      \/ x.kind = "tool_use" /\ m = x.of[1]
      \/ x.kind = "tool_result" /\ m = x.of[1] + x.of[2]
  BY <1>2
<1>4. \/ x.kind = "text" /\ n = x.of
      \/ x.kind = "tool_use" /\ n = x.of[1]
      \/ x.kind = "tool_result" /\ n = x.of[1] + x.of[2]
  BY <1>2
<1> QED BY <1>3, <1>4

\* The blocks that message n puts on the wire: all different, all its own, its calls among them.
BlocksOf(new, n) ==
  /\ new \in Seq(WireBlocks) /\ new # <<>>
  /\ \A a, d \in DOMAIN new : new[a] = new[d] => a = d
  /\ \A a \in DOMAIN new : Comes(new[a], n)
  /\ \A u \in DOMAIN conversation[n].calls : \E a \in DOMAIN new : new[a] = Wire!Use(<<n, u>>)

\* A message with one block.
LEMMA OneBlock ==
  ASSUME Wire!TypeOK, NEW n \in DOMAIN conversation, NEW x \in WireBlocks, Comes(x, n),
         DOMAIN conversation[n].calls = {}
  PROVE  BlocksOf(<<x>>, n) /\ Len(<<x>>) = 1 /\ <<x>>[1] = x
<1>1. <<x>> \in Seq(WireBlocks) /\ Len(<<x>>) = 1 /\ <<x>>[1] = x /\ <<x>> # <<>>
  <2> HIDE DEF WireBlocks
  <2> QED OBVIOUS
<1>2. DOMAIN <<x>> = {1}
  OBVIOUS
<1> QED BY <1>1, <1>2 DEF BlocksOf

\* The blocks of an answer.
LEMMA BlocksOfAnswer ==
  ASSUME Wire!TypeOK, Wire!ResultsFollow, NEW n \in DOMAIN conversation
  PROVE  BlocksOf(Wire!AssistantBlocks(n), n)
<1> DEFINE calls_ == conversation[n].calls
           uses == [k \in DOMAIN calls_ |-> Wire!Use(calls_[k])]
           one == <<Wire!Text(n)>>
<1>1. n \in Nat /\ Len(calls_) \in Nat /\ DOMAIN calls_ = 1 .. Len(calls_)
  BY TurnOf
<1>2. \A u \in DOMAIN calls_ : calls_[u] = <<n, u>>
  BY DEF Wire!ResultsFollow
<1>3. DOMAIN uses = 1 .. Len(calls_) /\ (\A u \in 1 .. Len(calls_) : uses[u] = Wire!Use(<<n, u>>))
  BY <1>1, <1>2
<1>4. \A u \in 1 .. Len(calls_) : Wire!Use(<<n, u>>) \in WireBlocks
  BY <1>1 DEF WireBlocks, WireCall, Wire!Use
<1>5. uses \in Seq(WireBlocks) /\ Len(uses) = Len(calls_)
  <2>1. uses = [u \in 1 .. Len(calls_) |-> Wire!Use(<<n, u>>)]
    BY <1>1, <1>2
  <2> HIDE DEF uses, WireBlocks
  <2>2. uses \in [1 .. Len(calls_) -> WireBlocks]
    BY <1>4, <2>1
  <2> QED BY <1>1, <2>2, SeqDef, LenProperties
<1>6. /\ \A u \in 1 .. Len(calls_) : \A v \in 1 .. Len(calls_) : Wire!Use(<<n, u>>) = Wire!Use(<<n, v>>) => u = v
      /\ \A u \in 1 .. Len(calls_) : Wire!Use(<<n, u>>) # Wire!Text(n)
  BY DEF Wire!Use, Wire!Text
<1>7. Wire!Text(n) \in WireBlocks
  BY <1>1 DEF WireBlocks, Wire!Text
<1>8. \A u \in 1 .. Len(calls_) : Comes(Wire!Use(<<n, u>>), n)
  BY <1>1 DEF Comes
<1>9. Comes(Wire!Text(n), n)
  BY DEF Comes
<1>10. one \in Seq(WireBlocks) /\ Len(one) = 1 /\ one[1] = Wire!Text(n) /\ DOMAIN one = {1} /\ one # <<>>
  <2> PICK x : x = Wire!Text(n)
    OBVIOUS
  <2>1. x \in WireBlocks
    BY <1>7
  <2> HIDE DEF WireBlocks
  <2> QED BY <2>1
<1>11. Wire!AssistantBlocks(n) =
         IF conversation[n].text # "none" THEN one \o uses ELSE IF uses = <<>> THEN one ELSE uses
  BY DEF Wire!AssistantBlocks
<1> HIDE DEF uses, one
<1>12. CASE Wire!AssistantBlocks(n) = one \o uses
  <2> DEFINE all == one \o uses
  <2>1. /\ all \in Seq(WireBlocks) /\ Len(all) = 1 + Len(calls_)
        /\ \A a \in 1 .. 1 + Len(calls_) : all[a] = IF a <= 1 THEN one[a] ELSE uses[a - 1]
    <3> HIDE DEF WireBlocks, calls_, all
    <3>1. /\ all \in Seq(WireBlocks) /\ Len(all) = Len(one) + Len(uses)
          /\ \A a \in 1 .. Len(one) + Len(uses) : all[a] = IF a <= Len(one) THEN one[a] ELSE uses[a - Len(one)]
      <4>1. one \in Seq(WireBlocks) /\ uses \in Seq(WireBlocks)
        BY <1>5, <1>10
      <4> QED BY <4>1, ConcatProperties DEF all
    <3> QED BY <1>5, <1>10, <3>1
  <2>2. DOMAIN all = 1 .. 1 + Len(calls_)
    BY <1>1, <2>1, LenProperties
  <2> HIDE DEF all
  <2>3. all[1] = Wire!Text(n)
    BY <1>1, <1>10, <2>1
  <2>4. ASSUME NEW a \in 2 .. 1 + Len(calls_) PROVE a - 1 \in 1 .. Len(calls_) /\ all[a] = Wire!Use(<<n, a - 1>>)
    <3>1. a - 1 \in 1 .. Len(calls_) /\ a \in 1 .. 1 + Len(calls_) /\ ~ (a <= 1)
      BY <1>1
    <3> QED BY <1>3, <2>1, <3>1
  <2>5. ASSUME NEW a \in 1 .. 1 + Len(calls_) PROVE a = 1 \/ a \in 2 .. 1 + Len(calls_)
    BY <1>1
  <2>6. all # <<>>
    <3>1. 1 \in DOMAIN all
      BY <1>1, <2>2
    <3> QED BY <3>1
  <2>7. ASSUME NEW a \in DOMAIN all, NEW d \in DOMAIN all, all[a] = all[d] PROVE a = d
    <3>1. CASE a = 1 /\ d = 1
      BY <3>1
    <3>2. CASE a = 1 /\ d \in 2 .. 1 + Len(calls_)
      BY <1>6, <2>3, <2>4, <2>7, <3>2
    <3>3. CASE a \in 2 .. 1 + Len(calls_) /\ d = 1
      BY <1>6, <2>3, <2>4, <2>7, <3>3
    <3>4. CASE a \in 2 .. 1 + Len(calls_) /\ d \in 2 .. 1 + Len(calls_)
      <4>1. a - 1 = d - 1
        BY <1>6, <2>4, <2>7, <3>4
      <4> QED BY <1>1, <3>4, <4>1
    <3> QED BY <2>2, <2>5, <2>7, <3>1, <3>2, <3>3, <3>4
  <2>8. \A a \in DOMAIN all : Comes(all[a], n)
    BY <1>8, <1>9, <2>2, <2>3, <2>4, <2>5
  <2>9. ASSUME NEW u \in DOMAIN calls_ PROVE \E a \in DOMAIN all : all[a] = Wire!Use(<<n, u>>)
    <3>1. u + 1 \in 2 .. 1 + Len(calls_) /\ u + 1 - 1 = u /\ u + 1 \in DOMAIN all
      BY <1>1, <2>2
    <3> QED BY <2>4, <3>1
  <2> QED BY <1>12, <2>1, <2>6, <2>7, <2>8, <2>9 DEF BlocksOf, all
<1>13. CASE Wire!AssistantBlocks(n) = one /\ uses = <<>>
  <2>1. Len(calls_) = 0
    BY <1>5, <1>13
  <2>2. DOMAIN conversation[n].calls = {}
    BY <1>1, <2>1
  <2> QED BY <1>9, <1>10, <1>13, <2>2 DEF BlocksOf
<1>14. CASE Wire!AssistantBlocks(n) = uses /\ uses # <<>>
  <2>1. \A a, d \in DOMAIN uses : uses[a] = uses[d] => a = d
    BY <1>3, <1>6
  <2>2. \A a \in DOMAIN uses : Comes(uses[a], n)
    BY <1>3, <1>8
  <2>3. \A u \in DOMAIN conversation[n].calls : \E a \in DOMAIN uses : uses[a] = Wire!Use(<<n, u>>)
    BY <1>1, <1>3
  <2> QED BY <1>5, <1>14, <2>1, <2>2, <2>3 DEF BlocksOf
<1> QED BY <1>11, <1>12, <1>13, <1>14

-------------------------------------------------------------------------------
(* Requests: the body after each message.                                    *)

\* The role a message has on the wire, and the blocks it puts there.
WireRole(n) == IF conversation[n].role = "assistant" THEN "assistant" ELSE "user"
WireBlocksOf(n) ==
  CASE conversation[n].role = "user" -> <<Wire!Text(n)>>
    [] conversation[n].role = "assistant" -> Wire!AssistantBlocks(n)
    [] OTHER -> <<Wire!Result(conversation[n].answers)>>

\* Users and assistants alternate, and the last message is the last message's.
Shaped(b, n) ==
  /\ Wire!Alternates(b)
  /\ IF n = 0 \/ conversation[n].role = "system" THEN b = <<>>
     ELSE Len(b) \in DOMAIN b /\ b[Len(b)].role = WireRole(n)

\* No block comes twice, and every one comes from a message up to n.
BlocksOnce(b, n) ==
  /\ Wire!BlocksDiffer(b)
  /\ \A k \in DOMAIN b : \A a \in DOMAIN b[k].blocks : \E m \in 1 .. n : Comes(b[k].blocks[a], m)

\* Call <<i, u>> is in message k.  If its result has come it is where it belongs, and if
\* not the results before it are all that follows.
Placed(b, n, i, u, k) ==
  /\ \E a \in DOMAIN b[k].blocks : b[k].blocks[a] = Wire!Use(<<i, u>>)
  /\ i + u <= n => k + 1 \in DOMAIN b /\ u \in DOMAIN b[k + 1].blocks /\ b[k + 1].blocks[u] = Wire!Result(<<i, u>>)
  /\ i + u > n /\ i = n => k = Len(b)
  /\ i + u > n /\ i < n => k + 1 = Len(b) /\ Len(b[k + 1].blocks) = n - i
CallsPlaced(b, n) ==
  \A i \in 1 .. n : \A u \in DOMAIN conversation[i].calls : \E k \in DOMAIN b : Placed(b, n, i, u, k)

WireBody(b, n) == b \in Seq(WireMessages) /\ Shaped(b, n) /\ BlocksOnce(b, n) /\ CallsPlaced(b, n)

\* What is put on the wire is the message's.
LEMMA BlocksOfTurn ==
  ASSUME Wire!TypeOK, Wire!ResultsFollow, NEW n \in DOMAIN conversation, conversation[n].role # "system"
  PROVE  /\ BlocksOf(WireBlocksOf(n), n)
         /\ conversation[n].role = "tool" => Len(WireBlocksOf(n)) = 1 /\ WireBlocksOf(n)[1] = Wire!Result(conversation[n].answers)
         /\ \A b : Wire!Encode(b, n) = Wire!Put(b, WireRole(n), WireBlocksOf(n))
<1>1. conversation[n].role \in {"user", "assistant", "tool"} /\ n \in Nat
  BY TurnOf DEF WireTurn
<1>2. conversation[n].role # "assistant" => DOMAIN conversation[n].calls = {}
  BY DEF Wire!ResultsFollow
<1>3. CASE conversation[n].role = "user"
  <2>1. WireBlocksOf(n) = <<Wire!Text(n)>> /\ WireRole(n) = "user"
    BY <1>3 DEF WireBlocksOf, WireRole
  <2>2. Wire!Text(n) \in WireBlocks /\ Comes(Wire!Text(n), n)
    BY <1>1 DEF WireBlocks, Wire!Text, Comes
  <2>3. BlocksOf(<<Wire!Text(n)>>, n)
    BY <1>2, <1>3, <2>2, OneBlock
  <2>4. \A b : Wire!Encode(b, n) = Wire!Put(b, "user", <<Wire!Text(n)>>)
    BY <1>3 DEF Wire!Encode
  <2> QED BY <1>3, <2>1, <2>3, <2>4
<1>4. CASE conversation[n].role = "assistant"
  <2>1. WireBlocksOf(n) = Wire!AssistantBlocks(n) /\ WireRole(n) = "assistant"
    BY <1>4 DEF WireBlocksOf, WireRole
  <2>2. \A b : Wire!Encode(b, n) = Wire!Put(b, "assistant", Wire!AssistantBlocks(n))
    BY <1>4 DEF Wire!Encode
  <2> QED BY <1>4, <2>1, <2>2, BlocksOfAnswer
<1>5. CASE conversation[n].role = "tool"
  <2> DEFINE x == Wire!Result(conversation[n].answers)
  <2>1. WireBlocksOf(n) = <<x>> /\ WireRole(n) = "user"
    BY <1>5 DEF WireBlocksOf, WireRole
  <2>2. PICK i \in DOMAIN conversation : \E u \in DOMAIN conversation[i].calls : n = i + u /\ conversation[n].answers = <<i, u>>
    BY <1>5 DEF Wire!ResultsFollow
  <2>3. conversation[n].answers \in WireCall
    BY <2>2, TurnOf DEF WireCall
  <2>4. x \in WireBlocks
    BY <2>3 DEF WireBlocks, Wire!Result
  <2>5. Comes(x, n)
    BY <1>5 DEF Comes
  <2>6. \A b : Wire!Encode(b, n) = Wire!Put(b, "user", <<x>>)
    BY <1>5 DEF Wire!Encode
  <2> HIDE DEF x
  <2>7. BlocksOf(<<x>>, n) /\ Len(<<x>>) = 1 /\ <<x>>[1] = x
    BY <1>2, <1>5, <2>4, <2>5, OneBlock
  <2> QED BY <1>5, <2>1, <2>6, <2>7 DEF x
<1> QED BY <1>1, <1>3, <1>4, <1>5

\* One more message keeps the blocks apart.
LEMMA OnceMore ==
  ASSUME Wire!TypeOK, Wire!ResultsFollow, NEW n \in DOMAIN conversation,
         NEW b \in Seq(WireMessages), NEW c \in Seq(WireMessages), NEW new, NEW off \in Nat,
         BlocksOnce(b, n - 1), BlocksOf(new, n), Adds(b, c, new, off)
  PROVE  BlocksOnce(c, n)
<1>1. n \in Nat /\ DOMAIN conversation = 1 .. Len(conversation) /\ Len(conversation) \in Nat /\ n \in 1 .. n
      /\ (\A m \in 1 .. n - 1 : m \in DOMAIN conversation /\ m # n /\ m \in 1 .. n)
  BY TurnOf
<1>2. \A k \in DOMAIN c : \A a \in DOMAIN c[k].blocks : a \in Nat
  BY MessageOf
<1>3. ASSUME NEW k \in DOMAIN c, NEW a \in DOMAIN c[k].blocks
      PROVE  \/ /\ k \in DOMAIN b /\ a \in DOMAIN b[k].blocks /\ c[k].blocks[a] = b[k].blocks[a]
                /\ \E m \in 1 .. n - 1 : Comes(c[k].blocks[a], m)
             \/ /\ k = Len(c) /\ a - off \in DOMAIN new /\ c[k].blocks[a] = new[a - off]
                /\ Comes(c[k].blocks[a], n)
  <2>1. CASE k \in DOMAIN b /\ a \in DOMAIN b[k].blocks
    <3>1. c[k].blocks[a] = b[k].blocks[a]
      BY <2>1 DEF Adds
    <3> QED BY <2>1, <3>1 DEF BlocksOnce
  <2>2. CASE k = Len(c) /\ a - off \in DOMAIN new
    <3>1. off + (a - off) = a
      BY <1>2
    <3>2. c[k].blocks[a] = new[a - off]
      <4>1. c[Len(c)].blocks[off + (a - off)] = new[a - off]
        BY <2>2 DEF Adds
      <4> QED BY <2>2, <3>1, <4>1
    <3> QED BY <2>2, <3>2 DEF BlocksOf
  <2> QED BY <2>1, <2>2 DEF Adds
<1>4. ASSUME NEW x, NEW m \in 1 .. n - 1, Comes(x, m), Comes(x, n) PROVE FALSE
  BY <1>1, <1>4, ComesOnce
<1>5. Wire!BlocksDiffer(c)
  <2> SUFFICES ASSUME NEW j \in DOMAIN c, NEW k \in DOMAIN c,
                      NEW a \in DOMAIN c[j].blocks, NEW d \in DOMAIN c[k].blocks,
                      c[j].blocks[a] = c[k].blocks[d]
               PROVE  j = k /\ a = d
    BY DEF Wire!BlocksDiffer
  <2>1. PICK x : x = c[j].blocks[a]
    OBVIOUS
  <2>2. CASE j \in DOMAIN b /\ a \in DOMAIN b[j].blocks /\ x = b[j].blocks[a] /\ \E m \in 1 .. n - 1 : Comes(x, m)
    <3>1. ~ Comes(x, n)
      BY <1>4, <2>2
    <3>2. k \in DOMAIN b /\ d \in DOMAIN b[k].blocks /\ x = b[k].blocks[d]
      BY <1>3, <2>1, <3>1
    <3>3. Wire!BlocksDiffer(b)
      BY DEF BlocksOnce
    <3>4. b[j].blocks[a] = b[k].blocks[d]
      BY <2>2, <3>2
    <3> QED BY <2>2, <3>2, <3>3, <3>4 DEF Wire!BlocksDiffer
  <2>3. CASE j = Len(c) /\ a - off \in DOMAIN new /\ x = new[a - off] /\ Comes(x, n)
    <3>1. ~ \E m \in 1 .. n - 1 : Comes(x, m)
      BY <1>4, <2>3
    <3>2. k = Len(c) /\ d - off \in DOMAIN new /\ x = new[d - off]
      BY <1>3, <2>1, <3>1
    <3>3. \A e, f \in DOMAIN new : new[e] = new[f] => e = f
      BY DEF BlocksOf
    <3>5. a - off = d - off
      BY <2>3, <3>2, <3>3
    <3>4. a = d
      BY <1>2, <3>5
    <3> QED BY <2>3, <3>2, <3>4
  <2>4. \/ /\ j \in DOMAIN b /\ a \in DOMAIN b[j].blocks /\ x = b[j].blocks[a]
           /\ \E m \in 1 .. n - 1 : Comes(x, m)
        \/ /\ j = Len(c) /\ a - off \in DOMAIN new /\ x = new[a - off]
           /\ Comes(x, n)
    BY <1>3, <2>1
  <2> QED BY <2>2, <2>3, <2>4
<1>6. \A k \in DOMAIN c : \A a \in DOMAIN c[k].blocks : \E m \in 1 .. n : Comes(c[k].blocks[a], m)
  BY <1>1, <1>3
<1> QED BY <1>5, <1>6 DEF BlocksOnce

\* A message that joins or not: what the next body is.
LEMMA NextBody ==
  ASSUME Wire!TypeOK, Wire!InTurn, Wire!ResultsFollow,
         NEW n \in DOMAIN conversation, conversation[n].role # "system",
         NEW b, WireBody(b, n - 1),
         NEW c, c = Wire!Encode(b, n)
  PROVE  /\ c \in Seq(WireMessages) /\ Len(c) \in DOMAIN c /\ c[Len(c)].role = WireRole(n)
         /\ Wire!Alternates(c)
         /\ IF WireRole(n) = "user" /\ b # <<>> /\ b[Len(b)].role = "user"
            THEN /\ Len(c) = Len(b) /\ Len(b) \in DOMAIN b
                 /\ Len(c[Len(c)].blocks) = Len(b[Len(b)].blocks) + Len(WireBlocksOf(n))
                 /\ Adds(b, c, WireBlocksOf(n), Len(b[Len(b)].blocks))
            ELSE /\ Len(c) = Len(b) + 1 /\ c[Len(c)].blocks = WireBlocksOf(n)
                 /\ Adds(b, c, WireBlocksOf(n), 0)
<1> DEFINE r == WireRole(n)  new == WireBlocksOf(n)
<1>1. c = Wire!Put(b, r, new) /\ BlocksOf(new, n)
  BY BlocksOfTurn
<1>2. r \in {"user", "assistant"} /\ new \in Seq(WireBlocks) /\ b \in Seq(WireMessages)
  BY <1>1 DEF WireRole, BlocksOf, WireBody
<1>3. Wire!Joins(b, r) <=> (r = "user" /\ b # <<>> /\ b[Len(b)].role = "user")
  BY DEF Wire!Joins, Wire!Last
<1>4. n \in Nat /\ n >= 1 /\ Len(b) \in Nat /\ DOMAIN b = 1 .. Len(b)
  BY <1>2, TurnOf, MessageOf
<1>5. Shaped(b, n - 1)
  BY DEF WireBody
<1> HIDE DEF r, new
<1>6. CASE Wire!Joins(b, r)
  <2>1. /\ c \in Seq(WireMessages) /\ Len(b) \in DOMAIN b /\ b[Len(b)].role = r
        /\ Len(c) = Len(b) /\ c[Len(b)].role = r
        /\ Len(c[Len(b)].blocks) = Len(b[Len(b)].blocks) + Len(new)
        /\ Adds(b, c, new, Len(b[Len(b)].blocks))
    BY <1>1, <1>2, <1>6, PutJoined
  <2>2. DOMAIN c = DOMAIN b
    BY <1>4, <2>1, MessageOf
  <2>3. Wire!Alternates(c)
    BY <1>5, <2>1, <2>2 DEF Shaped, Adds, Wire!Alternates
  <2> QED BY <1>3, <1>6, <2>1, <2>2, <2>3 DEF r, new
<1>7. CASE ~ Wire!Joins(b, r)
  <2>1. /\ c \in Seq(WireMessages) /\ Len(c) = Len(b) + 1
        /\ c[Len(b) + 1].role = r /\ c[Len(b) + 1].blocks = new
        /\ Adds(b, c, new, 0)
    BY <1>1, <1>2, <1>7, PutApart
  <2>2. DOMAIN c = 1 .. Len(b) + 1 /\ Len(c) \in DOMAIN c
    BY <1>4, <2>1, MessageOf
  <2>3. r = IF (Len(b) + 1) % 2 = 1 THEN "user" ELSE "assistant"
    <3>1. CASE r = "assistant"
      <4>1. conversation[n].role = "assistant"
        BY <3>1 DEF r, WireRole
      <4>2. n - 1 \in DOMAIN conversation /\ conversation[n - 1].role \in {"user", "tool"}
        BY <4>1 DEF Wire!InTurn
      <4>3. n - 1 # 0
        BY <1>4, <4>2, TurnOf
      <4>4. Len(b) \in DOMAIN b /\ b[Len(b)].role = "user"
        BY <1>5, <4>2, <4>3 DEF Shaped, WireRole
      <4>5. Len(b) % 2 = 1
        BY <1>5, <4>4 DEF Shaped, Wire!Alternates
      <4>6. (Len(b) + 1) % 2 # 1
        BY <1>4, <4>5
      <4> QED BY <3>1, <4>6
    <3>2. CASE r = "user"
      <4>1. CASE b = <<>>
        <5>1. Len(b) = 0
          BY <4>1
        <5> QED BY <3>2, <5>1
      <4>2. CASE b # <<>>
        <5>1. Len(b) \in DOMAIN b
          BY <1>5, <4>2 DEF Shaped
        <5>2. b[Len(b)].role # "user"
          BY <1>3, <1>7, <3>2, <4>2
        <5>3. Len(b) % 2 # 1
          BY <1>5, <5>1, <5>2 DEF Shaped, Wire!Alternates
        <5>4. (Len(b) + 1) % 2 = 1
          BY <1>4, <5>3
        <5> QED BY <3>2, <5>4
      <4> QED BY <4>1, <4>2
    <3> QED BY <1>2, <3>1, <3>2
  <2>4. Wire!Alternates(c)
    <3> SUFFICES ASSUME NEW k \in DOMAIN c PROVE c[k].role = IF k % 2 = 1 THEN "user" ELSE "assistant"
      BY DEF Wire!Alternates
    <3>1. CASE k \in DOMAIN b
      BY <1>5, <2>1, <3>1 DEF Shaped, Adds, Wire!Alternates
    <3>2. CASE k = Len(b) + 1
      BY <2>1, <2>3, <3>2
    <3> QED BY <1>4, <2>2, <3>1, <3>2
  <2> QED BY <1>3, <1>7, <2>1, <2>2, <2>4 DEF r, new
<1> QED BY <1>6, <1>7

\* Where the result before the last belongs, among the calls of its message.
LEMMA PlacesBefore ==
  ASSUME NEW n \in Nat, NEW i \in Nat, NEW u \in Nat, i >= 1, i < n - 1, i + u > n - 1
  PROVE  i + (n - 1 - i) = n - 1 /\ n - 1 - i \in 1 .. u /\ n - 1 \in 1 .. n /\ n - 1 # 0
OBVIOUS

\* One more message puts its result where it belongs, and its calls last.
LEMMA PlacedMore ==
  ASSUME Wire!TypeOK, Wire!InTurn, Wire!ResultsFollow,
         NEW n \in DOMAIN conversation, conversation[n].role # "system",
         NEW b, WireBody(b, n - 1),
         NEW c, c = Wire!Encode(b, n)
  PROVE  CallsPlaced(c, n)
<1> DEFINE new == WireBlocksOf(n)
           joins == WireRole(n) = "user" /\ b # <<>> /\ b[Len(b)].role = "user"
           off == IF joins THEN Len(b[Len(b)].blocks) ELSE 0
<1>1. /\ c \in Seq(WireMessages) /\ Len(c) \in DOMAIN c
      /\ joins => Len(c) = Len(b) /\ Len(b) \in DOMAIN b
                  /\ Len(c[Len(c)].blocks) = Len(b[Len(b)].blocks) + Len(new)
      /\ ~ joins => Len(c) = Len(b) + 1 /\ c[Len(c)].blocks = new
      /\ Adds(b, c, new, off)
  BY NextBody
<1>2. b \in Seq(WireMessages) /\ CallsPlaced(b, n - 1) /\ Shaped(b, n - 1)
  BY DEF WireBody
<1>3. BlocksOf(new, n)
      /\ (conversation[n].role = "tool" => Len(new) = 1 /\ new[1] = Wire!Result(conversation[n].answers))
  BY BlocksOfTurn
<1>4. /\ n \in Nat /\ n >= 1 /\ n <= Len(conversation) /\ Len(conversation) \in Nat
      /\ DOMAIN conversation = 1 .. Len(conversation)
      /\ Len(b) \in Nat /\ DOMAIN b = 1 .. Len(b) /\ Len(c) \in Nat /\ DOMAIN c = 1 .. Len(c)
  BY <1>1, <1>2, TurnOf, MessageOf
<1> HIDE DEF new, off, joins
<1> SUFFICES ASSUME NEW i \in 1 .. n, NEW u \in DOMAIN conversation[i].calls
             PROVE  \E k \in DOMAIN c : Placed(c, n, i, u, k)
  BY DEF CallsPlaced
<1>5. /\ i \in DOMAIN conversation /\ i \in Nat /\ i >= 1 /\ i <= n /\ u \in Nat /\ u >= 1
      /\ DOMAIN conversation[i].calls = 1 .. Len(conversation[i].calls) /\ Len(conversation[i].calls) \in Nat
      /\ conversation[i].role = "assistant"
  <2>1. i \in DOMAIN conversation
    BY <1>4
  <2>2. DOMAIN conversation[i].calls = 1 .. Len(conversation[i].calls) /\ Len(conversation[i].calls) \in Nat
    BY <2>1, TurnOf
  <2>3. conversation[i].role = "assistant"
    BY <2>1 DEF Wire!ResultsFollow
  <2>4. i \in Nat /\ i >= 1 /\ i <= n
    BY <1>4
  <2>5. u \in Nat /\ u >= 1
    BY <2>2
  <2> QED BY <2>1, <2>2, <2>3, <2>4, <2>5
\* A call of the message itself.
<1>6. CASE i = n
  <2>1. PICK a \in DOMAIN new : new[a] = Wire!Use(<<n, u>>)
    BY <1>3, <1>6 DEF BlocksOf
  <2>2. off + a \in DOMAIN c[Len(c)].blocks /\ c[Len(c)].blocks[off + a] = Wire!Use(<<i, u>>)
    BY <1>1, <1>6, <2>1 DEF Adds
  <2>3. ~ (i + u <= n) /\ ~ (i < n)
    BY <1>5, <1>6
  <2> QED BY <1>1, <2>2, <2>3 DEF Placed
\* A call of a message before it.
<1>7. CASE i # n
  <2>1. i \in 1 .. n - 1 /\ i < n
    BY <1>4, <1>5, <1>7
  <2>2. PICK k \in DOMAIN b : Placed(b, n - 1, i, u, k)
    BY <1>2, <2>1 DEF CallsPlaced
  <2>3. k \in DOMAIN c /\ \E a \in DOMAIN c[k].blocks : c[k].blocks[a] = Wire!Use(<<i, u>>)
    BY <1>1, <2>2 DEF Adds, Placed
  <2>4. CASE i + u <= n - 1
    <3>1. k + 1 \in DOMAIN b /\ u \in DOMAIN b[k + 1].blocks /\ b[k + 1].blocks[u] = Wire!Result(<<i, u>>)
      BY <2>2, <2>4 DEF Placed
    <3>2. k + 1 \in DOMAIN c /\ u \in DOMAIN c[k + 1].blocks /\ c[k + 1].blocks[u] = Wire!Result(<<i, u>>)
      BY <1>1, <3>1 DEF Adds
    <3>3. ~ (i + u > n)
      BY <1>4, <1>5, <2>4
    <3> QED BY <2>3, <3>2, <3>3 DEF Placed
  \* Its results are still coming: the message is the next of them.
  <2>5. CASE i + u > n - 1
    <3>1. i + (n - i) = n /\ n - i \in DOMAIN conversation[i].calls
      BY <1>4, <1>5, <2>1, <2>5
    <3>2. conversation[n].role = "tool" /\ conversation[n].answers = <<i, n - i>>
      BY <1>5, <3>1 DEF Wire!ResultsFollow
    <3>3. Len(new) = 1 /\ new[1] = Wire!Result(<<i, n - i>>) /\ WireRole(n) = "user" /\ 1 \in DOMAIN new
      <4>1. new \in Seq(WireBlocks)
        BY <1>3 DEF BlocksOf
      <4>2. DOMAIN new = 1 .. Len(new)
        BY <4>1, LenProperties
      <4> QED BY <1>3, <3>2, <4>2 DEF WireRole
    <3>4. off + 1 \in DOMAIN c[Len(c)].blocks /\ c[Len(c)].blocks[off + 1] = Wire!Result(<<i, n - i>>)
      BY <1>1, <3>3 DEF Adds
    <3>5. k + 1 = Len(c) /\ off + 1 = n - i /\ Len(c[k + 1].blocks) = n - i
      <4>1. CASE i = n - 1
        <5>1. k = Len(b)
          BY <2>2, <2>5, <4>1 DEF Placed
        <5>2. n - 1 # 0
          BY <1>4, <1>5, <4>1
        <5>3. b[Len(b)].role = "assistant"
          BY <1>2, <1>5, <4>1, <5>2 DEF Shaped, WireRole
        <5>4. ~ joins
          BY <5>3 DEF joins
        <5>5. off = 0 /\ Len(c) = Len(b) + 1 /\ c[Len(c)].blocks = new
          BY <1>1, <5>4 DEF off
        <5>6. n - i = 1
          BY <1>4, <4>1
        <5> QED BY <3>3, <5>1, <5>5, <5>6
      <4>2. CASE i # n - 1
        <5>1. i < n - 1
          BY <1>4, <1>5, <2>1, <4>2
        <5>2. k + 1 = Len(b) /\ Len(b[k + 1].blocks) = n - 1 - i
          BY <2>2, <2>5, <5>1 DEF Placed
        <5>3. i + (n - 1 - i) = n - 1 /\ n - 1 - i \in DOMAIN conversation[i].calls /\ n - 1 \in DOMAIN conversation /\ n - 1 # 0
          <6>1. /\ i + (n - 1 - i) = n - 1 /\ n - 1 - i \in 1 .. u /\ n - 1 \in 1 .. n /\ n - 1 # 0
            BY <1>4, <1>5, <2>5, <5>1, PlacesBefore
          <6> QED BY <1>4, <1>5, <6>1
        <5>4. conversation[n - 1].role = "tool"
          BY <1>5, <5>3 DEF Wire!ResultsFollow
        <5>5. Len(b) \in DOMAIN b /\ b[Len(b)].role = "user"
          BY <1>2, <5>3, <5>4 DEF Shaped, WireRole
        <5>6. joins
          <6>1. b # <<>>
            BY <5>5
          <6> QED BY <3>3, <5>5, <6>1 DEF joins
        <5>7. off = n - 1 - i /\ Len(c) = Len(b) /\ Len(c[Len(c)].blocks) = n - 1 - i + Len(new)
          BY <1>1, <5>2, <5>6 DEF off
        <5>8. n - 1 - i + 1 = n - i
          BY <1>4, <1>5
        <5> QED BY <3>3, <5>2, <5>7, <5>8
      <4> QED BY <4>1, <4>2
    <3>6. k + 1 \in DOMAIN c /\ n - i \in DOMAIN c[k + 1].blocks /\ c[k + 1].blocks[n - i] = Wire!Result(<<i, n - i>>)
      BY <1>1, <3>4, <3>5
    <3>7. i + u <= n => u = n - i
      BY <1>4, <1>5, <2>5
    <3> QED BY <2>1, <2>3, <3>5, <3>6, <3>7 DEF Placed
  <2>6. i + u <= n - 1 \/ i + u > n - 1
    BY <1>4, <1>5
  <2> QED BY <2>4, <2>5, <2>6
<1> QED BY <1>6, <1>7

\* One more message keeps the body what it is.
LEMMA BodyGrows ==
  ASSUME Wire!TypeOK, Wire!InTurn, Wire!ResultsFollow,
         NEW n \in DOMAIN conversation, NEW b, WireBody(b, n - 1)
  PROVE  WireBody(Wire!Encode(b, n), n)
<1> DEFINE c == Wire!Encode(b, n)
<1>1. n \in Nat /\ n >= 1 /\ n # 0
  BY TurnOf
<1>2. CASE conversation[n].role = "system"
  <2>1. n = 1 /\ c = b
    BY <1>2 DEF Wire!InTurn, Wire!Encode
  <2>2. b = <<>>
    BY <2>1 DEF WireBody, Shaped
  <2>3. Shaped(c, n)
    BY <1>2, <2>1, <2>2 DEF Shaped, Wire!Alternates
  <2>4. BlocksOnce(c, n)
    BY <2>1, <2>2 DEF BlocksOnce, Wire!BlocksDiffer
  <2>5. DOMAIN conversation[n].calls = {}
    BY <1>2 DEF Wire!ResultsFollow
  <2>6. CallsPlaced(c, n)
    BY <2>1, <2>5 DEF CallsPlaced
  <2> QED BY <2>1, <2>3, <2>4, <2>6 DEF WireBody
<1>3. CASE conversation[n].role # "system"
  <2> DEFINE new == WireBlocksOf(n)
             off == IF WireRole(n) = "user" /\ b # <<>> /\ b[Len(b)].role = "user" THEN Len(b[Len(b)].blocks) ELSE 0
  <2>1. /\ c \in Seq(WireMessages) /\ Len(c) \in DOMAIN c /\ c[Len(c)].role = WireRole(n)
        /\ Wire!Alternates(c) /\ Adds(b, c, new, off)
        /\ off = 0 \/ Len(b) \in DOMAIN b
    BY <1>3, NextBody
  <2>2. b \in Seq(WireMessages) /\ BlocksOnce(b, n - 1)
    BY DEF WireBody
  <2>3. off \in Nat
    <3>1. \A k \in DOMAIN b : Len(b[k].blocks) \in Nat
      BY <2>2, MessageOf
    <3> QED BY <2>1, <3>1
  <2>4. BlocksOf(new, n)
    BY <1>3, BlocksOfTurn
  <2>5. BlocksOnce(c, n)
    <3> HIDE DEF off, new, c
    <3> QED BY <2>1, <2>2, <2>3, <2>4, OnceMore
  <2>6. Shaped(c, n)
    BY <1>1, <1>3, <2>1 DEF Shaped
  <2>7. CallsPlaced(c, n)
    BY <1>3, PlacedMore
  <2> QED BY <2>1, <2>5, <2>6, <2>7 DEF WireBody
<1> QED BY <1>2, <1>3

-------------------------------------------------------------------------------
(* Requests: the body that is sent.                                          *)

\* An encoding never leaves the messages of the wire.
LEMMA EncodeType ==
  ASSUME Wire!TypeOK, Wire!ResultsFollow, NEW n \in DOMAIN conversation, NEW b \in Seq(WireMessages)
  PROVE  Wire!Encode(b, n) \in Seq(WireMessages)
<1>1. CASE conversation[n].role = "system"
  BY <1>1 DEF Wire!Encode
<1>2. CASE conversation[n].role # "system"
  <2>1. Wire!Encode(b, n) = Wire!Put(b, WireRole(n), WireBlocksOf(n)) /\ WireBlocksOf(n) \in Seq(WireBlocks)
    BY <1>2, BlocksOfTurn DEF BlocksOf
  <2>2. WireRole(n) \in {"user", "assistant"}
    BY DEF WireRole
  <2>3. Wire!Put(b, WireRole(n), WireBlocksOf(n)) \in Seq(WireMessages)
    BY <2>1, <2>2, PutApart, PutJoined
  <2> QED BY <2>1, <2>3
<1> QED BY <1>1, <1>2

\* The recursion that encodes the conversation is what it says.
LEMMA EncodingsAre ==
  ASSUME Wire!TypeOK, Wire!ResultsFollow
  PROVE  /\ Wire!Encodings[0] = <<>>
         /\ \A n \in 1 .. Len(conversation) : Wire!Encodings[n] = Wire!Encode(Wire!Encodings[n - 1], n)
<1> DEFINE N == Len(conversation)
           V == Seq(WireMessages)
           h == [p \in (1 .. N) \X V |-> Wire!Encode(p[2], p[1])]
           F(f) == [n \in 0 .. N |-> IF n = 0 THEN <<>> ELSE Wire!Encode(f[n - 1], n)]
<1>1. N \in Nat /\ DOMAIN conversation = 1 .. N
  BY TurnOf
<1>2. h \in [(1 .. N) \X V -> V]
  <2> SUFFICES ASSUME NEW p \in (1 .. N) \X V PROVE Wire!Encode(p[2], p[1]) \in V
    OBVIOUS
  <2>1. p[1] \in DOMAIN conversation /\ p[2] \in V
    BY <1>1
  <2> QED BY <2>1, EncodeType
<1>3. <<>> \in V
  BY EmptySeq
<1>4. \A p \in (1 .. N) \X V : h[p] = Wire!Encode(p[2], p[1])
  OBVIOUS
<1> HIDE DEF h, V
<1>5. PICK g \in [0 .. N -> V] : Solves(g, N, <<>>, h)
  BY <1>1, <1>2, <1>3, Recursion
<1>6. g = F(g)
  <2>1. g[0] = <<>>
    BY <1>5 DEF Solves
  <2>2. ASSUME NEW n \in 0 .. N, n # 0 PROVE g[n] = Wire!Encode(g[n - 1], n)
    <3>1. n \in 1 .. N /\ n - 1 \in 0 .. N
      BY <1>1, <2>2
    <3>2. g[n - 1] \in V
      BY <3>1
    <3>3. h[<<n, g[n - 1]>>] = Wire!Encode(g[n - 1], n)
      BY <1>4, <3>1, <3>2
    <3>4. g[n] = h[<<n, g[n - 1]>>]
      BY <1>5, <3>1 DEF Solves
    <3> QED BY <3>3, <3>4
  <2>3. \A n \in 0 .. N : g[n] = IF n = 0 THEN <<>> ELSE Wire!Encode(g[n - 1], n)
    BY <2>1, <2>2
  <2> QED BY <2>3
<1>7. Wire!Encodings = CHOOSE f : f = F(f)
  BY DEF Wire!Encodings
<1>8. Wire!Encodings = F(Wire!Encodings)
  <2>1. \E f : f = F(f)
    BY <1>6
  <2> HIDE DEF F
  <2> QED BY <1>7, <2>1
<1>9. \A n \in 0 .. N : Wire!Encodings[n] = IF n = 0 THEN <<>> ELSE Wire!Encode(Wire!Encodings[n - 1], n)
  <2> PICK f : f = Wire!Encodings
    OBVIOUS
  <2>1. f = F(f)
    BY <1>8
  <2>2. \A n \in 0 .. N : f[n] = IF n = 0 THEN <<>> ELSE Wire!Encode(f[n - 1], n)
    BY <2>1
  <2> QED BY <2>2
<1>10. 0 \in 0 .. N /\ \A n \in 1 .. N : n \in 0 .. N /\ n # 0
  BY <1>1
<1> QED BY <1>9, <1>10

\* The body after every message is what it should be.
LEMMA BodyAfter ==
  ASSUME Wire!TypeOK, Wire!InTurn, Wire!ResultsFollow
  PROVE  WireBody(Wire!Messages, Len(conversation))
<1> DEFINE N == Len(conversation)
           S == {n \in 0 .. N : WireBody(Wire!Encodings[n], n)}
<1>1. N \in Nat /\ DOMAIN conversation = 1 .. N
  BY TurnOf
<1>2. 0 \in S
  <2>1. Wire!Encodings[0] = <<>>
    BY EncodingsAre
  <2>2. WireBody(<<>>, 0)
    <3>1. <<>> \in Seq(WireMessages)
      BY EmptySeq
    <3>2. Shaped(<<>>, 0)
      BY DEF Shaped, Wire!Alternates
    <3>3. BlocksOnce(<<>>, 0)
      BY DEF BlocksOnce, Wire!BlocksDiffer
    <3>4. CallsPlaced(<<>>, 0)
      BY DEF CallsPlaced
    <3> QED BY <3>1, <3>2, <3>3, <3>4 DEF WireBody
  <2> QED BY <1>1, <2>1, <2>2
<1>3. ASSUME NEW n \in 1 .. N, n - 1 \in S PROVE n \in S
  <2>1. Wire!Encodings[n] = Wire!Encode(Wire!Encodings[n - 1], n)
    BY EncodingsAre
  <2>2. WireBody(Wire!Encodings[n - 1], n - 1)
    BY <1>3
  <2>3. WireBody(Wire!Encode(Wire!Encodings[n - 1], n), n)
    BY <1>1, <2>2, BodyGrows
  <2> QED BY <1>1, <2>1, <2>3
<1> HIDE DEF S
<1>4. \A n \in 0 .. N : n \in S
  BY <1>1, <1>2, <1>3, UpTo
<1>5. N \in S
  BY <1>1, <1>4
<1> QED BY <1>5 DEF S, Wire!Messages

\* With no call open, that body can be answered.
LEMMA BodyAnswerable ==
  ASSUME Wire!TypeOK, Wire!ResultsFollow, Wire!Open = {}, NEW b, WireBody(b, Len(conversation))
  PROVE  Wire!Alternates(b) /\ Wire!BlocksDiffer(b) /\ Wire!CallsAnswered(b) /\ Wire!ResultsCalled(b)
<1> DEFINE N == Len(conversation)
<1>1. N \in Nat /\ DOMAIN conversation = 1 .. N
  BY TurnOf
<1>2. b \in Seq(WireMessages) /\ Wire!Alternates(b) /\ Wire!BlocksDiffer(b) /\ CallsPlaced(b, N) /\ BlocksOnce(b, N)
  BY DEF WireBody, Shaped, BlocksOnce
<1>3. /\ Len(b) \in Nat /\ DOMAIN b = 1 .. Len(b)
      /\ \A k \in DOMAIN b : Len(b[k].blocks) \in Nat /\ DOMAIN b[k].blocks = 1 .. Len(b[k].blocks)
  BY <1>2, MessageOf
\* A call is in one message, and its result in the next.
<1>4. ASSUME NEW i \in DOMAIN conversation, NEW u \in DOMAIN conversation[i].calls
      PROVE  \E k \in DOMAIN b :
               /\ \E a \in DOMAIN b[k].blocks : b[k].blocks[a] = Wire!Use(<<i, u>>)
               /\ k + 1 \in DOMAIN b /\ u \in DOMAIN b[k + 1].blocks /\ b[k + 1].blocks[u] = Wire!Result(<<i, u>>)
  <2>1. i + u <= N
    <3>1. ~ (i + u > N)
      BY OpenOf
    <3>2. i \in Nat /\ u \in Nat
      BY TurnOf
    <3> QED BY <1>1, <3>1, <3>2
  <2>2. PICK k \in DOMAIN b : Placed(b, N, i, u, k)
    BY <1>1, <1>2 DEF CallsPlaced
  <2> QED BY <2>1, <2>2 DEF Placed
<1>5. Wire!CallsAnswered(b)
  <2> SUFFICES ASSUME NEW k \in DOMAIN b, NEW d \in DOMAIN b[k].blocks, b[k].blocks[d].kind = "tool_use"
               PROVE  Wire!Answers(b, k, b[k].blocks[d])
    BY DEF Wire!CallsAnswered, Wire!Range, Range
  <2>1. PICK x : x = b[k].blocks[d]
    OBVIOUS
  <2>2. PICK m \in 1 .. N : Comes(x, m)
    BY <1>2, <2>1 DEF BlocksOnce
  <2>3. PICK u \in DOMAIN conversation[m].calls : x = Wire!Use(<<m, u>>)
    BY <2>1, <2>2 DEF Comes, Wire!Text, Wire!Result
  <2>4. m \in DOMAIN conversation
    BY <1>1
  <2>5. PICK j \in DOMAIN b :
          /\ \E a \in DOMAIN b[j].blocks : b[j].blocks[a] = x
          /\ j + 1 \in DOMAIN b /\ u \in DOMAIN b[j + 1].blocks /\ b[j + 1].blocks[u] = Wire!Result(<<m, u>>)
    BY <1>4, <2>3, <2>4
  <2>6. j = k
    BY <1>2, <2>1, <2>5 DEF Wire!BlocksDiffer
  <2>7. x.of = <<m, u>> /\ x.of[2] = u
    BY <2>3 DEF Wire!Use
  <2>8. Wire!Answers(b, k, x)
    BY <2>5, <2>6, <2>7 DEF Wire!Answers
  <2> QED BY <2>1, <2>8
<1>6. Wire!ResultsCalled(b)
  <2> SUFFICES ASSUME NEW k \in DOMAIN b, NEW d \in DOMAIN b[k].blocks, b[k].blocks[d].kind = "tool_result"
               PROVE  k - 1 \in DOMAIN b /\ \E a \in DOMAIN b[k - 1].blocks : b[k - 1].blocks[a] = Wire!Use(b[k].blocks[d].of)
    BY DEF Wire!ResultsCalled, Wire!Range, Range
  <2>1. PICK x : x = b[k].blocks[d]
    OBVIOUS
  <2>2. PICK m \in 1 .. N : Comes(x, m)
    BY <1>2, <2>1 DEF BlocksOnce
  <2>3. conversation[m].role = "tool" /\ x = Wire!Result(conversation[m].answers)
    <3>1. x.kind = "tool_result"
      BY <2>1
    <3>2. Wire!Text(m).kind = "text" /\ \A c : Wire!Use(c).kind = "tool_use"
      BY DEF Wire!Text, Wire!Use
    <3>3. x # Wire!Text(m) /\ \A c : x # Wire!Use(c)
      BY <3>1, <3>2
    <3> QED BY <2>2, <3>3 DEF Comes
  <2>4. PICK i \in DOMAIN conversation : \E u \in DOMAIN conversation[i].calls : m = i + u /\ conversation[m].answers = <<i, u>>
    BY <1>1, <2>3 DEF Wire!ResultsFollow
  <2>5. PICK u \in DOMAIN conversation[i].calls : conversation[m].answers = <<i, u>>
    BY <2>4
  <2>6. PICK j \in DOMAIN b :
          /\ \E a \in DOMAIN b[j].blocks : b[j].blocks[a] = Wire!Use(<<i, u>>)
          /\ j + 1 \in DOMAIN b /\ u \in DOMAIN b[j + 1].blocks /\ b[j + 1].blocks[u] = Wire!Result(<<i, u>>)
    BY <1>4
  <2>7. j + 1 = k
    <3>1. x = Wire!Result(<<i, u>>)
      BY <2>3, <2>5
    <3>2. b[j + 1].blocks[u] = b[k].blocks[d]
      BY <2>1, <2>6, <3>1
    <3> QED BY <1>2, <2>6, <3>2 DEF Wire!BlocksDiffer
  <2>8. j = k - 1
    BY <1>3, <2>7
  <2>9. x.of = <<i, u>>
    BY <2>3, <2>5 DEF Wire!Result
  <2> QED BY <2>1, <2>6, <2>8, <2>9
<1> QED BY <1>2, <1>5, <1>6

\* At first there is neither a conversation nor a request.
LEMMA WireStarts == Wire!Init => Wire!IInv
<1> SUFFICES ASSUME Wire!Init PROVE Wire!IInv
  OBVIOUS
<1>1. conversation = <<>> /\ DOMAIN conversation = {} /\ body.profile = "none" /\ body.extras = {}
  BY DEF Wire!Init, Wire!NoRequest
<1>2. Wire!TypeOK
  BY <1>1, EmptySeq DEF Wire!TypeOK
<1>3. Wire!InTurn /\ Wire!ResultsFollow
  BY <1>1 DEF Wire!InTurn, Wire!ResultsFollow
<1>4. Wire!RequestsAreAnswerable
  BY <1>1 DEF Wire!RequestsAreAnswerable, Wire!Encoded
<1> QED BY <1>2, <1>3, <1>4 DEF Wire!IInv

\* Every step keeps the conversation in turn and the request answerable.
LEMMA WireStays == Wire!IInv /\ [Wire!Next]_(Wire!vars) => Wire!IInv'
<1> SUFFICES ASSUME Wire!IInv, [Wire!Next]_(Wire!vars) PROVE Wire!IInv'
  OBVIOUS
<1>0. Wire!TypeOK /\ Wire!InTurn /\ Wire!ResultsFollow /\ Wire!RequestsAreAnswerable
  BY DEF Wire!IInv
\* Steps of the conversation leave the request alone, and the other way round.
<1>1. ASSUME body' = body, Wire!TypeOK', Wire!InTurn', Wire!ResultsFollow' PROVE Wire!IInv'
  <2>1. Wire!RequestsAreAnswerable'
    BY <1>0, <1>1 DEF Wire!RequestsAreAnswerable, Wire!Encoded, Wire!Alternates, Wire!BlocksDiffer,
                      Wire!CallsAnswered, Wire!ResultsCalled, Wire!Answers
  <2> QED BY <1>1, <2>1 DEF Wire!IInv
<1>2. ASSUME conversation' = conversation, Wire!RequestsAreAnswerable' PROVE Wire!IInv'
  BY <1>0, <1>2 DEF Wire!IInv, Wire!TypeOK, Wire!InTurn, Wire!ResultsFollow
<1>3. ASSUME NEW w \in {"said", "none"}, Wire!Instruct(w) PROVE Wire!IInv'
  <2>1. Wire!Speak("system", w, 0) /\ conversation = <<>>
    BY <1>3 DEF Wire!Instruct
  <2>2. Wire!TypeOK' /\ Wire!InTurn' /\ Wire!ResultsFollow'
    BY <1>0, <2>1, SpeakKeeps
  <2> QED BY <1>1, <2>1, <2>2 DEF Wire!Speak
<1>4. CASE Wire!Ask
  <2>1. Wire!Speak("user", "said", 0)
    BY <1>4 DEF Wire!Ask
  <2>2. Wire!TypeOK' /\ Wire!InTurn' /\ Wire!ResultsFollow'
    BY <1>0, <2>1, SpeakKeeps
  <2> QED BY <1>1, <2>1, <2>2 DEF Wire!Speak
<1>5. ASSUME NEW w \in {"said", "none"}, NEW m \in 0 .. MaxCalls, Wire!Answer(w, m) PROVE Wire!IInv'
  <2>1. Wire!Speak("assistant", w, m) /\ conversation # <<>>
        /\ conversation[Len(conversation)].role \in {"user", "tool"}
    BY <1>5 DEF Wire!Answer, Wire!Last
  <2>2. m \in Nat
    OBVIOUS
  <2>3. Wire!TypeOK' /\ Wire!InTurn' /\ Wire!ResultsFollow'
    BY <1>0, <2>1, <2>2, SpeakKeeps
  <2> QED BY <1>1, <2>1, <2>3 DEF Wire!Speak
<1>6. CASE Wire!Resolve
  <2>1. Wire!TypeOK' /\ Wire!InTurn' /\ Wire!ResultsFollow'
    BY <1>0, <1>6, ResolveKeeps
  <2> QED BY <1>1, <1>6, <2>1 DEF Wire!Resolve
<1>7. ASSUME NEW s \in BOOLEAN, Wire!SendMessages(s) PROVE Wire!IInv'
  <2>1. Wire!Open = {} /\ conversation' = conversation
        /\ body' = [profile |-> "anthropic", system |-> Wire!System, messages |-> Wire!Messages,
                    extras |-> IF s THEN {"stream"} ELSE {}]
    BY <1>7 DEF Wire!SendMessages
  <2>2. PICK b : b = Wire!Messages
    OBVIOUS
  <2>3. WireBody(b, Len(conversation))
    BY <1>0, <2>2, BodyAfter
  <2>4. Wire!Alternates(b) /\ Wire!BlocksDiffer(b) /\ Wire!CallsAnswered(b) /\ Wire!ResultsCalled(b)
    BY <1>0, <2>1, <2>3, BodyAnswerable
  <2>5. body'.messages = b /\ body'.extras \subseteq {"stream"}
    BY <2>1, <2>2
  <2>6. "provider_routing" \notin body'.extras /\ "tags" \notin body'.extras
    BY <2>5
  <2>7. Wire!RequestsAreAnswerable'
    BY <2>4, <2>5, <2>6 DEF Wire!RequestsAreAnswerable, Wire!Encoded, Wire!Alternates, Wire!BlocksDiffer,
                            Wire!CallsAnswered, Wire!ResultsCalled, Wire!Answers
  <2> QED BY <1>2, <2>1, <2>7
<1>8. ASSUME NEW s \in BOOLEAN, NEW profile \in Profiles, NEW routing \in BOOLEAN, Wire!SendChat(profile, routing, s)
      PROVE  Wire!IInv'
  <2>1. profile # "anthropic" /\ conversation' = conversation /\ body'.profile = profile
        /\ body'.extras = Wire!Extras(profile, routing) \cup (IF s THEN {"stream", "include_usage"} ELSE {})
    BY <1>8 DEF Wire!SendChat
  <2>2. /\ profile # "openrouter" => "provider_routing" \notin Wire!Extras(profile, routing)
        /\ profile # "nous" => "tags" \notin Wire!Extras(profile, routing)
    BY DEF Wire!Extras
  <2>3. Wire!RequestsAreAnswerable'
    BY <2>1, <2>2 DEF Wire!RequestsAreAnswerable, Wire!Encoded
  <2> QED BY <1>2, <2>1, <2>3
<1>9. CASE UNCHANGED Wire!vars
  <2>1. conversation' = conversation /\ body' = body
    BY <1>9 DEF Wire!vars
  <2>2. Wire!TypeOK'
    BY <1>0, <2>1 DEF Wire!TypeOK
  <2>3. Wire!InTurn'
    BY <1>0, <2>1 DEF Wire!InTurn
  <2>4. Wire!ResultsFollow'
    BY <1>0, <2>1 DEF Wire!ResultsFollow
  <2> QED BY <1>1, <2>1, <2>2, <2>3, <2>4
<1> QED BY <1>3, <1>4, <1>5, <1>6, <1>7, <1>8, <1>9 DEF Wire!Next

-------------------------------------------------------------------------------
(* The theorems about the wire and the terminal.                             *)

\* However a stream is cut and interleaved, what is kept of it is what its lines carry; and
\* however a conversation goes, the body made from it can be answered: for any number of
\* calls, lines, messages and providers.
THEOREM WireFaithful == ClientsSpec => []WireIsFaithful
<1>1. ClientsInit => Stream!IInv /\ Wire!IInv
  BY StreamStarts, WireStarts DEF ClientsInit
<1>2. [ClientsNext]_clientsVars => [Stream!Next]_(Stream!vars)
  BY DEF ClientsNext, Only, clientsVars, streamVars, Stream!vars
<1>3. [ClientsNext]_clientsVars => [Wire!Next]_(Wire!vars)
  BY DEF ClientsNext, Only, clientsVars, wireVars, Wire!vars
<1>4. Stream!IInv /\ Wire!IInv => WireIsFaithful
  BY DEF Stream!IInv, Wire!IInv, WireIsFaithful
<1> QED BY <1>1, <1>2, <1>3, <1>4, StreamStays, WireStays, PTL DEF ClientsSpec

\* The cursor and the pickers stay in their lists, a command is the one typed out, and a frame
\* shows the end of the transcript or has no row left empty: for any commands, models, lengths
\* of line, heights and transcripts.
THEOREM TerminalFaithful == ClientsSpec => []TerminalIsFaithful
<1>1. ClientsInit => Typing!IInv /\ Drawn!IInv
  BY TypingStarts, ScreenStarts DEF ClientsInit
<1>2. [ClientsNext]_clientsVars => [Typing!Next]_(Typing!vars)
  BY DEF ClientsNext, Only, clientsVars, typingVars, Typing!vars
<1>3. [ClientsNext]_clientsVars => [Drawn!Next]_(Drawn!vars)
  BY DEF ClientsNext, Only, clientsVars, screenVars, Drawn!vars
<1>4. Typing!IInv /\ Drawn!IInv => TerminalIsFaithful
  BY ScreenIsFull DEF Typing!IInv, TerminalIsFaithful
<1> QED BY <1>1, <1>2, <1>3, <1>4, TypingStays, ScreenStays, PTL DEF ClientsSpec
===============================================================================
