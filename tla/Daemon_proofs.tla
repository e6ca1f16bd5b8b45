------------------------------ MODULE Daemon_proofs ------------------------------
(***************************************************************************)
(* Proofs about the daemon's services and the libraries beside them: each  *)
(* component's inductive invariant is kept by its steps, and implies the   *)
(* property that MCDaemon checks of it.  A step of MCDaemon is a step of   *)
(* one component, or none, for each, so the invariants hold together.      *)
(***************************************************************************)
EXTENDS MCDaemon, FiniteSetTheorems, SequenceTheorems, WellFoundedInduction, TLAPS

-------------------------------------------------------------------------------
(* Induction and recursion over the naturals.                                *)

\* Any set of naturals has a least element, so induction needs no more than a set.
LEMMA LeastOf ==
  ASSUME NEW T, T \subseteq Nat, T # {}
  PROVE  \E x \in T : \A y \in T : x <= y
<1> DEFINE R == OpToRel(<, Nat)
<1>1. IsWellFoundedOn(R, Nat)
  BY NatLessThanWellFounded
<1>2. \A x, y \in Nat : x < y => <<x, y>> \in R
  BY DEF OpToRel
<1> HIDE DEF R
<1>3. PICK x \in T : \A y \in T : ~ (<<y, x>> \in R)
  BY <1>1, WFMin
<1>4. \A y \in T : x <= y
  <2> SUFFICES ASSUME NEW y \in T PROVE x <= y
    OBVIOUS
  <2>1. x \in Nat /\ y \in Nat
    OBVIOUS
  <2>2. ~ (y < x)
    BY <1>2, <1>3, <2>1
  <2> QED BY <2>1, <2>2
<1> QED BY <1>4

\* What holds at 0 and is kept by every step up to n holds up to n.
LEMMA UpTo ==
  ASSUME NEW n \in Nat, NEW S, 0 \in S, \A i \in 1..n : i - 1 \in S => i \in S
  PROVE  \A i \in 0..n : i \in S
<1> SUFFICES ASSUME NEW k \in 0..n, k \notin S PROVE FALSE
  OBVIOUS
<1> DEFINE T == (0..n) \ S
<1>1. T \subseteq Nat /\ T # {}
  OBVIOUS
<1>2. PICK x \in T : \A y \in T : x <= y
  BY <1>1, LeastOf
<1>3. x \in 0..n /\ x \notin S /\ x # 0
  OBVIOUS
<1>4. x \in 1..n /\ x - 1 \in 0..n /\ ~ (x <= x - 1)
  BY <1>3
<1>5. x - 1 \notin T
  BY <1>2, <1>4
<1>6. x - 1 \in S
  BY <1>4, <1>5
<1> QED BY <1>3, <1>4, <1>6

\* A recursion along 0..n whose steps stay within a set has a solution.
Solves(g, n, v, h) == g[0] = v /\ \A i \in 1..n : g[i] = h[<<i, g[i - 1]>>]

\* Such a recursion has a solution, which stays in the set.
LEMMA Recursion ==
  ASSUME NEW n \in Nat, NEW V, NEW v \in V, NEW h \in [(1..n) \X V -> V]
  PROVE  \E g \in [0..n -> V] : Solves(g, n, v, h)
<1> DEFINE S == {m \in 0..n : \E g \in [0..m -> V] : Solves(g, m, v, h)}
<1>1. 0 \in S
  <2> DEFINE g == [i \in 0..0 |-> v]
  <2>1. g \in [0..0 -> V] /\ g[0] = v
    OBVIOUS
  <2> HIDE DEF g
  <2>2. Solves(g, 0, v, h)
    BY <2>1 DEF Solves
  <2> QED BY <2>1, <2>2
<1>2. ASSUME NEW m \in 1..n, m - 1 \in S PROVE m \in S
  <2>1. PICK g \in [0..(m - 1) -> V] : Solves(g, m - 1, v, h)
    BY <1>2
  <2> DEFINE new == h[<<m, g[m - 1]>>]
             k == [i \in 0..m |-> IF i = m THEN new ELSE g[i]]
  <2>2. m - 1 \in 0..(m - 1) /\ m # 0 /\ 0 \in 0..m /\ m \in 0..m
    OBVIOUS
  <2>3. g[m - 1] \in V
    BY <2>2
  <2>4. <<m, g[m - 1]>> \in (1..n) \X V
    BY <2>3
  <2>5. new \in V
    BY <2>4
  <2> HIDE DEF new
  <2>6. ASSUME NEW i \in 0..m, i # m PROVE i \in 0..(m - 1)
    BY <2>6
  <2>7. k \in [0..m -> V]
    BY <2>5, <2>6
  <2>8. k[m] = new /\ (\A i \in 0..m : i # m => k[i] = g[i])
    BY <2>2
  <2> HIDE DEF k
  <2>9. k[0] = v
    BY <2>1, <2>2, <2>8 DEF Solves
  <2>10. ASSUME NEW i \in 1..m PROVE k[i] = h[<<i, k[i - 1]>>]
    <3>1. i - 1 \in 0..m /\ i - 1 # m /\ i \in 0..m
      OBVIOUS
    <3>2. k[i - 1] = g[i - 1]
      BY <2>8, <3>1
    <3>3. CASE i = m
      BY <2>8, <3>2, <3>3 DEF new
    <3>4. CASE i # m
      <4>1. i \in 1..(m - 1)
        BY <3>4
      <4>2. g[i] = h[<<i, g[i - 1]>>]
        BY <2>1, <4>1 DEF Solves
      <4> QED BY <2>8, <3>1, <3>2, <3>4, <4>2
    <3> QED BY <3>3, <3>4
  <2>11. Solves(k, m, v, h)
    BY <2>9, <2>10 DEF Solves
  <2>12. m \in 0..n
    OBVIOUS
  <2> QED BY <2>7, <2>11, <2>12
<1> HIDE DEF S
<1>3. n \in S
  <2>1. \A i \in 0..n : i \in S
    BY <1>1, <1>2, UpTo
  <2> QED BY <2>1
<1> QED BY <1>3 DEF S

-------------------------------------------------------------------------------
(* Sums: s has, per place of the numbers w, the sum up to there.              *)

IsSums(s, w) == s = [n \in 0..Len(w) |-> IF n = 0 THEN 0 ELSE s[n - 1] + w[n]]

\* Sums along a sequence of naturals exist ...
LEMMA SumsExist ==
  ASSUME NEW w \in Seq(Nat)
  PROVE  \E s : IsSums(s, w)
<1> DEFINE h == [p \in (1..Len(w)) \X Nat |-> p[2] + w[p[1]]]
<1>1. Len(w) \in Nat /\ (\A i \in 1..Len(w) : w[i] \in Nat)
  BY LenProperties, ElementOfSeq
<1>2. h \in [(1..Len(w)) \X Nat -> Nat]
  <2> SUFFICES ASSUME NEW p \in (1..Len(w)) \X Nat PROVE p[2] + w[p[1]] \in Nat
    OBVIOUS
  <2>1. p[2] \in Nat /\ p[1] \in 1..Len(w)
    OBVIOUS
  <2>2. w[p[1]] \in Nat
    BY <1>1, <2>1
  <2> QED BY <2>1, <2>2
<1>3. \A i \in 1..Len(w), x \in Nat : h[<<i, x>>] = x + w[i]
  OBVIOUS
<1> HIDE DEF h
<1>4. PICK s \in [0..Len(w) -> Nat] : Solves(s, Len(w), 0, h)
  BY <1>1, <1>2, Recursion
<1>5. ASSUME NEW n \in 0..Len(w) PROVE s[n] = IF n = 0 THEN 0 ELSE s[n - 1] + w[n]
  <2>1. CASE n = 0
    BY <1>4, <2>1 DEF Solves
  <2>2. CASE n # 0
    <3>1. n \in 1..Len(w) /\ n - 1 \in 0..Len(w)
      BY <1>1, <2>2
    <3>2. s[n - 1] \in Nat
      BY <3>1
    <3>3. s[n] = h[<<n, s[n - 1]>>]
      BY <1>4, <3>1 DEF Solves
    <3> QED BY <1>3, <2>2, <3>1, <3>2, <3>3
  <2> QED BY <2>1, <2>2
<1>6. s = [n \in 0..Len(w) |-> IF n = 0 THEN 0 ELSE s[n - 1] + w[n]]
  BY <1>5
<1> QED BY <1>6 DEF IsSums

\* ... and are naturals, each the one before and one number more.
LEMMA SumsAreNat ==
  ASSUME NEW w \in Seq(Nat), NEW s, IsSums(s, w)
  PROVE  /\ s \in [0..Len(w) -> Nat] /\ s[0] = 0
         /\ \A i \in 1..Len(w) : s[i] = s[i - 1] + w[i]
<1> DEFINE S == {i \in 0..Len(w) : s[i] \in Nat}
<1>1. Len(w) \in Nat /\ (\A i \in 1..Len(w) : w[i] \in Nat)
  BY LenProperties, ElementOfSeq
<1>2. DOMAIN s = 0..Len(w) /\ (\A i \in 0..Len(w) : s[i] = IF i = 0 THEN 0 ELSE s[i - 1] + w[i])
  BY DEF IsSums
<1>3. s[0] = 0 /\ 0 \in 0..Len(w)
  BY <1>1, <1>2
<1>4. ASSUME NEW i \in 1..Len(w) PROVE s[i] = s[i - 1] + w[i]
  <2>1. i \in 0..Len(w) /\ i # 0
    OBVIOUS
  <2> QED BY <1>2, <2>1
<1>5. 0 \in S
  BY <1>3
<1>6. ASSUME NEW i \in 1..Len(w), i - 1 \in S PROVE i \in S
  <2>1. s[i - 1] \in Nat /\ w[i] \in Nat /\ i \in 0..Len(w)
    BY <1>1, <1>6
  <2>2. s[i] \in Nat
    BY <1>4, <2>1
  <2> QED BY <2>1, <2>2
<1> HIDE DEF S
<1>7. \A i \in 0..Len(w) : i \in S
  BY <1>1, <1>5, <1>6, UpTo
<1>8. \A i \in 0..Len(w) : s[i] \in Nat
  BY <1>7 DEF S
<1>9. s = [i \in 0..Len(w) |-> s[i]]
  BY DEF IsSums
<1>10. s \in [0..Len(w) -> Nat]
  BY <1>8, <1>9
<1> QED BY <1>3, <1>4, <1>10

\* Sequences that begin alike have the same sums there.
LEMMA SumsAgree ==
  ASSUME NEW w \in Seq(Nat), NEW s, IsSums(s, w), NEW u \in Seq(Nat), NEW t, IsSums(t, u),
         Len(u) <= Len(w), \A i \in 1..Len(u) : u[i] = w[i]
  PROVE  \A i \in 0..Len(u) : t[i] = s[i]
<1> DEFINE S == {i \in 0..Len(u) : t[i] = s[i]}
<1>1. Len(u) \in Nat /\ Len(w) \in Nat
  BY LenProperties
<1>2. s[0] = 0 /\ \A i \in 1..Len(w) : s[i] = s[i - 1] + w[i]
  BY SumsAreNat
<1>3. t[0] = 0 /\ \A i \in 1..Len(u) : t[i] = t[i - 1] + u[i]
  BY SumsAreNat
<1>4. 0 \in S
  BY <1>1, <1>2, <1>3
<1>5. ASSUME NEW i \in 1..Len(u), i - 1 \in S PROVE i \in S
  <2>1. t[i - 1] = s[i - 1] /\ u[i] = w[i] /\ i \in 0..Len(u) /\ i \in 1..Len(w)
    BY <1>1, <1>5
  <2> QED BY <1>2, <1>3, <2>1
<1> HIDE DEF S
<1>6. \A i \in 0..Len(u) : i \in S
  BY <1>1, <1>4, <1>5, UpTo
<1> QED BY <1>6 DEF S

\* The three components that add up do it alike.
LEMMA SumsOfComponents ==
  ASSUME NEW w \in Seq(Nat)
  PROVE  IsSums(Compact!Sums(w), w) /\ IsSums(Memory!Sums(w), w) /\ IsSums(Curator!Sums(w), w)
<1>1. \E s : IsSums(s, w)
  BY SumsExist
<1>2. Compact!Sums(w) = CHOOSE s : IsSums(s, w)
  BY DEF Compact!Sums, IsSums
<1>3. Memory!Sums(w) = CHOOSE s : IsSums(s, w)
  BY DEF Memory!Sums, IsSums
<1>4. Curator!Sums(w) = CHOOSE s : IsSums(s, w)
  BY DEF Curator!Sums, IsSums
<1> QED BY <1>1, <1>2, <1>3, <1>4

-------------------------------------------------------------------------------
(* Sessions and their log.                                                   *)

\* The log of a session, one event longer.
LEMMA LogGrows ==
  ASSUME NEW S, NEW q \in Seq(S), NEW e \in S
  PROVE  /\ Append(q, e) \in Seq(S) /\ Append(q, e) # <<>> /\ Daemon!Last(Append(q, e)) = e
         /\ Daemon!ToSet(Append(q, e)) = Daemon!ToSet(q) \cup {e}
<1>1. /\ Append(q, e) \in Seq(S) /\ Len(Append(q, e)) = Len(q) + 1 /\ Len(q) \in Nat
      /\ Append(q, e)[Len(q) + 1] = e /\ \A i \in 1..Len(q) : Append(q, e)[i] = q[i]
  BY AppendProperties, LenProperties
<1>2. Daemon!Last(Append(q, e)) = e
  BY <1>1 DEF Daemon!Last
<1>3. Append(q, e) # <<>>
  BY <1>1
<1>4. \A x : x \in Daemon!ToSet(Append(q, e)) <=> x \in Daemon!ToSet(q) \cup {e}
  <2>1. 1..(Len(q) + 1) = (1..Len(q)) \cup {Len(q) + 1}
    BY <1>1
  <2> QED BY <1>1, <2>1 DEF Daemon!ToSet
<1> QED BY <1>1, <1>2, <1>3, <1>4

Records == [at : Daemon!ThreadPlaces, s : SessionIds \cup {Daemon!Nobody}, kind : Daemon!Kinds \cup {"none"}]

\* Who is at what, when one thread goes on.
Moved(t, new) ==
  /\ \A s, places :
       /\ new.s = s /\ new.at \in places => Daemon!Busy(s, places)'
       /\ Daemon!Busy(s, places)' =>
            Daemon!Busy(s, places) \/ (new.s = s /\ new.at \in places)
       /\ Daemon!Busy(s, places) =>
            Daemon!Busy(s, places)' \/ (thread[t].s = s /\ thread[t].at \in places)
  /\ \A s, kind :
       /\ new.s = s /\ new.at = "changed" /\ new.kind = kind => Daemon!Changing(s, kind)'
       /\ Daemon!Changing(s, kind) =>
            Daemon!Changing(s, kind)' \/ (thread[t].s = s /\ thread[t].at = "changed")

\* A thread that goes elsewhere moves nobody else.
LEMMA ThreadMoves ==
  ASSUME NEW t \in Threads, NEW new \in Records, thread \in [Threads -> Records],
         thread' = [thread EXCEPT ![t] = new],
         \A u \in Threads : thread[u].at # "idle" => thread[u].s \in SessionIds,
         new.at # "idle" => new.s \in SessionIds
  PROVE  /\ thread' \in [Threads -> Records]
         /\ \A u \in Threads : thread'[u].at # "idle" => thread'[u].s \in SessionIds
         /\ Moved(t, new)
<1>1. thread'[t] = new /\ \A u \in Threads : u # t => thread'[u] = thread[u]
  OBVIOUS
<1>2. thread' \in [Threads -> Records]
  OBVIOUS
<1>3. ASSUME NEW s, NEW places
      PROVE  /\ new.s = s /\ new.at \in places => Daemon!Busy(s, places)'
             /\ Daemon!Busy(s, places)' =>
                  Daemon!Busy(s, places) \/ (new.s = s /\ new.at \in places)
             /\ Daemon!Busy(s, places) =>
                  Daemon!Busy(s, places)' \/ (thread[t].s = s /\ thread[t].at \in places)
  BY <1>1 DEF Daemon!Busy
<1>4. ASSUME NEW s, NEW kind
      PROVE  /\ new.s = s /\ new.at = "changed" /\ new.kind = kind => Daemon!Changing(s, kind)'
             /\ Daemon!Changing(s, kind) =>
                  Daemon!Changing(s, kind)' \/ (thread[t].s = s /\ thread[t].at = "changed")
  BY <1>1 DEF Daemon!Changing
<1> QED BY <1>1, <1>2, <1>3, <1>4 DEF Moved

\* The inductive invariant of the sessions: at the start ...
LEMMA SessionsStart == Daemon!SessionInit => Daemon!SessionInv
<1> SUFFICES ASSUME Daemon!SessionInit PROVE Daemon!SessionInv
  OBVIOUS
<1> USE DEF Daemon!SessionInit, Daemon!Rest, Daemon!Nobody
<1>1. Daemon!TypeOK
  BY DEF Daemon!TypeOK, Daemon!ThreadPlaces, Daemon!Kinds
<1>2. Daemon!ChangeIsLocked
  BY DEF Daemon!ChangeIsLocked
<1>3. ASSUME NEW s \in SessionIds PROVE Daemon!LogIsLate(s) /\ Daemon!EndIsSaved(s) /\ Daemon!TaskIsMade(s)
  <2>1. log[s] = <<>> /\ Daemon!ToSet(log[s]) = {} /\ session[s] = "none"
    BY DEF Daemon!ToSet
  <2>2. ~Daemon!Busy(s, {"saved"})
    BY DEF Daemon!Busy
  <2> QED BY <2>1, <2>2 DEF Daemon!LogIsLate, Daemon!EndIsSaved, Daemon!TaskIsMade
<1> QED BY <1>1, <1>2, <1>3 DEF Daemon!SessionInv

\* No thread is in a change while the map is free.
LEMMA NobodyChanges ==
  ASSUME Daemon!ChangeIsLocked, lock = Daemon!Nobody
  PROVE  /\ \A u \in Threads : thread[u].at # "changed"
         /\ \A s, kind : ~Daemon!Changing(s, kind)
BY NamesAssumption DEF Daemon!ChangeIsLocked, Daemon!Nobody, Daemon!Changing

\* What a step does that moves one thread, to its sessions one by one.
LEMMA SessionsMove ==
  ASSUME Daemon!SessionInv,
         NEW t \in Threads, NEW new \in Records, thread' = [thread EXCEPT ![t] = new],
         new.at # "idle" => new.s \in SessionIds,
         UNCHANGED db,
         log' \in [SessionIds -> Seq(Daemon!Kinds)],
         session' \in [SessionIds -> {"none", "active", "inactive"}],
         DOMAIN task' = SessionIds,
         handoff' \in [SessionIds -> {"none", "partial", "whole"}],
         Daemon!ChangeIsLocked',
         \A s \in SessionIds : Daemon!LogIsLate(s)' /\ Daemon!EndIsSaved(s)' /\ Daemon!TaskIsMade(s)'
  PROVE  Daemon!SessionInv'
<1>1. thread \in [Threads -> Records] /\ \A u \in Threads : thread[u].at # "idle" => thread[u].s \in SessionIds
  BY DEF Daemon!SessionInv, Daemon!TypeOK, Records
<1>2. thread' \in [Threads -> Records] /\ \A u \in Threads : thread'[u].at # "idle" => thread'[u].s \in SessionIds
  BY <1>1, ThreadMoves
<1>3. Daemon!TypeOK'
  BY <1>2 DEF Daemon!SessionInv, Daemon!TypeOK, Records
<1> QED BY <1>3 DEF Daemon!SessionInv

\* ... and in every step, one step per action and one per conjunct that it can disturb.
LEMMA SessionsStay == Daemon!SessionInv /\ [Daemon!SessionNext]_(Daemon!sessionVars) => Daemon!SessionInv'
<1> SUFFICES ASSUME Daemon!SessionInv, [Daemon!SessionNext]_(Daemon!sessionVars) PROVE Daemon!SessionInv'
  OBVIOUS
<1> DEFINE Fine(s) == Daemon!LogIsLate(s) /\ Daemon!EndIsSaved(s) /\ Daemon!TaskIsMade(s)
<1>0. /\ Daemon!TypeOK /\ Daemon!ChangeIsLocked /\ \A s \in SessionIds : Fine(s)
      /\ thread \in [Threads -> Records]
      /\ \A u \in Threads : thread[u].at # "idle" => thread[u].s \in SessionIds
      /\ log \in [SessionIds -> Seq(Daemon!Kinds)]
      /\ session \in [SessionIds -> {"none", "active", "inactive"}]
      /\ DOMAIN task = SessionIds
      /\ handoff \in [SessionIds -> {"none", "partial", "whole"}]
  BY DEF Daemon!SessionInv, Daemon!TypeOK, Records
<1>p. Daemon!Rest \in Records /\ Daemon!Rest.at = "idle"
  BY DEF Daemon!Rest, Records, Daemon!ThreadPlaces
\* The steps of the daemon as a whole leave who is busy with what, or clear it.
<1>1. ASSUME UNCHANGED <<log, session, task, lock, thread, spoiled>>,
             db' \in {"absent", "empty", "ready"}, db = "ready" => db' = "ready",
             handoff' \in [SessionIds -> {"none", "partial", "whole"}],
             \A s \in SessionIds : handoff[s] = "whole" => handoff'[s] = "whole"
      PROVE  Daemon!SessionInv'
  <2>1. Daemon!TypeOK' /\ Daemon!ChangeIsLocked'
    BY <1>0, <1>1 DEF Daemon!TypeOK, Daemon!ChangeIsLocked
  <2>2. ASSUME NEW s \in SessionIds PROVE Fine(s)'
    <3>1. \A places : Daemon!Busy(s, places)' <=> Daemon!Busy(s, places)
      BY <1>1 DEF Daemon!Busy
    <3>2. \A kind : Daemon!Changing(s, kind)' <=> Daemon!Changing(s, kind)
      BY <1>1 DEF Daemon!Changing
    <3>3. Fine(s)
      BY <1>0
    <3>4. Daemon!LogIsLate(s)'
      BY <1>1, <3>1, <3>2, <3>3 DEF Daemon!LogIsLate
    <3>5. Daemon!EndIsSaved(s)'
      BY <1>1, <3>1, <3>3 DEF Daemon!EndIsSaved
    <3>6. Daemon!TaskIsMade(s)'
      BY <1>1, <3>1, <3>3 DEF Daemon!TaskIsMade
    <3> QED BY <3>4, <3>5, <3>6
  <2> QED BY <2>1, <2>2 DEF Daemon!SessionInv
<1>2. CASE Daemon!OpenLog
  <2>1. UNCHANGED <<log, session, task, lock, thread, spoiled, handoff>>
    BY <1>2 DEF Daemon!OpenLog
  <2>2. db' \in {"absent", "empty", "ready"} /\ (db = "ready" => db' = "ready")
    BY <1>0, <1>2 DEF Daemon!OpenLog, Daemon!TypeOK
  <2> QED BY <1>0, <1>1, <2>1, <2>2
<1>3. CASE Daemon!Migrate
  BY <1>0, <1>1, <1>3 DEF Daemon!Migrate
<1>4. ASSUME NEW ok \in BOOLEAN, Daemon!FinishStart(ok) PROVE Daemon!SessionInv'
  BY <1>0, <1>1, <1>4 DEF Daemon!FinishStart, Daemon!TypeOK
<1>5. ASSUME NEW failing \in SUBSET SessionIds, Daemon!Stop(failing) PROVE Daemon!SessionInv'
  <2>1. UNCHANGED <<db, log, session, task, lock, thread, spoiled>>
    BY <1>5 DEF Daemon!Stop
  <2>2. handoff' = [s \in SessionIds |-> IF session[s] # "active" THEN handoff[s]
                                         ELSE IF s \in failing THEN handoff[s] ELSE "whole"]
    BY <1>5 DEF Daemon!Stop
  <2>3. handoff' \in [SessionIds -> {"none", "partial", "whole"}]
    BY <1>0, <2>2
  <2>4. \A s \in SessionIds : handoff[s] = "whole" => handoff'[s] = "whole"
    BY <2>2
  <2> QED BY <1>0, <1>1, <2>1, <2>3, <2>4 DEF Daemon!TypeOK
<1>6. CASE Daemon!Crash
  <2> USE DEF Daemon!Crash
  <2>1. Daemon!TypeOK' /\ Daemon!ChangeIsLocked'
    BY <1>0, <1>6, <1>p DEF Daemon!TypeOK, Daemon!ChangeIsLocked, Records, Daemon!Rest
  <2>2. ASSUME NEW s \in SessionIds PROVE Fine(s)'
    <3>1. Fine(s) /\ session'[s] = "none" /\ UNCHANGED <<db, log, handoff>>
      BY <1>0, <1>6
    <3>2. \A places : Daemon!Busy(s, places)' => "idle" \in places
      BY <1>6, <1>p DEF Daemon!Busy
    <3>3. Daemon!Busy(s, {"saving"}) \/ s \in spoiled => s \in spoiled'
      BY <1>6 DEF Daemon!Busy
    <3>4. Daemon!LogIsLate(s)'
      BY <3>1 DEF Daemon!LogIsLate
    <3>5. Daemon!EndIsSaved(s)'
      BY <3>1, <3>2, <3>3 DEF Daemon!EndIsSaved
    <3>6. Daemon!TaskIsMade(s)'
      BY <3>1 DEF Daemon!TaskIsMade
    <3> QED BY <3>4, <3>5, <3>6
  <2> QED BY <2>1, <2>2 DEF Daemon!SessionInv
<1>7. ASSUME NEW t \in Threads, NEW s \in SessionIds, Daemon!Create(t, s) PROVE Daemon!SessionInv'
  <2> DEFINE new == [at |-> "created", s |-> s, kind |-> "started"]
  <2>1. /\ thread' = [thread EXCEPT ![t] = new] /\ new \in Records /\ new.s = s /\ new.at = "created"
        /\ thread[t].at = "idle" /\ lock = Daemon!Nobody /\ session[s] = "none" /\ log[s] = <<>>
        /\ session' = [session EXCEPT ![s] = "active"]
        /\ UNCHANGED <<db, log, task, handoff, lock, spoiled>>
    BY <1>7 DEF Daemon!Create, Daemon!store, Records, Daemon!ThreadPlaces, Daemon!Kinds
  <2> HIDE DEF new
  <2>2. Daemon!ChangeIsLocked'
    BY <1>0, <2>1, NobodyChanges DEF Daemon!ChangeIsLocked
  <2>m. Moved(t, new)
    BY <1>0, <2>1, ThreadMoves
  <2>3. ASSUME NEW r \in SessionIds PROVE Fine(r)'
    <3>1. /\ Fine(r) /\ \A kind : ~Daemon!Changing(r, kind)
          /\ \A places : "idle" \notin places /\ "created" \notin places =>
               (Daemon!Busy(r, places)' <=> Daemon!Busy(r, places))
          /\ Daemon!Busy(r, {"created", "logged"}) => Daemon!Busy(r, {"created", "logged"})'
      <4>1. Fine(r)
        BY <1>0
      <4>2. \A kind : ~Daemon!Changing(r, kind)
        BY <1>0, <2>1, NobodyChanges
      <4>3. ASSUME NEW places, "idle" \notin places, "created" \notin places
            PROVE  Daemon!Busy(r, places)' <=> Daemon!Busy(r, places)
        BY <2>1, <2>m, <4>3 DEF Moved
      <4>4. Daemon!Busy(r, {"created", "logged"}) => Daemon!Busy(r, {"created", "logged"})'
        BY <2>1, <2>m DEF Moved
      <4> QED BY <4>1, <4>2, <4>3, <4>4
    <3>b. r = s => Daemon!Busy(r, {"created", "logged"})'
      BY <2>1, <2>m DEF Moved
    <3>2. r # s => session'[r] = session[r]
      BY <2>1
    <3>3. Daemon!LogIsLate(r)'
      BY <2>1, <3>1, <3>2 DEF Daemon!LogIsLate
    <3>4. Daemon!EndIsSaved(r)'
      BY <2>1, <3>1 DEF Daemon!EndIsSaved
    <3>5. Daemon!TaskIsMade(r)'
      BY <2>1, <3>1, <3>2, <3>b DEF Daemon!TaskIsMade
    <3> QED BY <3>3, <3>4, <3>5
  <2>4. session' \in [SessionIds -> {"none", "active", "inactive"}]
    BY <1>0, <2>1
  <2> QED BY <1>0, <2>1, <2>2, <2>3, <2>4, SessionsMove
<1>8. ASSUME NEW s \in SessionIds, NEW state \in {"running", "completed", "failed", "cancelled"},
             Daemon!UpdateTask(s, state)
      PROVE  Daemon!SessionInv'
  <2>1. /\ task' = [task EXCEPT ![s] = state] /\ DOMAIN task' = SessionIds /\ state # "none"
        /\ \A r \in SessionIds : task[r] # "none" => task'[r] # "none"
        /\ UNCHANGED <<db, log, session, handoff, lock, thread, spoiled>>
    BY <1>0, <1>8 DEF Daemon!UpdateTask, Daemon!store
  <2>2. Daemon!TypeOK' /\ Daemon!ChangeIsLocked'
    BY <1>0, <2>1 DEF Daemon!TypeOK, Daemon!ChangeIsLocked
  <2>3. ASSUME NEW r \in SessionIds PROVE Fine(r)'
    <3>1. Fine(r) /\ (task[r] # "none" => task'[r] # "none") /\ UNCHANGED <<db, log, session, handoff, spoiled>>
      BY <1>0, <2>1
    <3>2. /\ \A places : Daemon!Busy(r, places)' <=> Daemon!Busy(r, places)
          /\ \A kind : Daemon!Changing(r, kind)' <=> Daemon!Changing(r, kind)
      BY <2>1 DEF Daemon!Busy, Daemon!Changing
    <3>3. Daemon!LogIsLate(r)'
      BY <3>1, <3>2 DEF Daemon!LogIsLate
    <3>4. Daemon!EndIsSaved(r)'
      BY <3>1, <3>2 DEF Daemon!EndIsSaved
    <3>5. Daemon!TaskIsMade(r)'
      BY <3>1, <3>2 DEF Daemon!TaskIsMade
    <3> QED BY <3>3, <3>4, <3>5
  <2> QED BY <2>2, <2>3 DEF Daemon!SessionInv
<1>9. ASSUME NEW t \in Threads, NEW s \in SessionIds, NEW kind \in {"attached", "detached"}, Daemon!Change(t, s, kind)
      PROVE  Daemon!SessionInv'
  <2> DEFINE new == [at |-> "changed", s |-> s, kind |-> kind]
             to == IF kind = "attached" THEN "active" ELSE "inactive"
  <2>1. /\ thread' = [thread EXCEPT ![t] = new] /\ new \in Records /\ new.s = s /\ new.at = "changed" /\ new.kind = kind
        /\ thread[t].at = "idle" /\ lock = Daemon!Nobody /\ lock' = t /\ session[s] # "none"
        /\ session' = [session EXCEPT ![s] = to]
        /\ UNCHANGED <<db, log, task, handoff, spoiled>>
    BY <1>9 DEF Daemon!Change, Daemon!Usable, Daemon!MayChange, Daemon!store, Records, Daemon!ThreadPlaces, Daemon!Kinds
  <2> HIDE DEF new
  <2>2. Daemon!ChangeIsLocked'
    BY <1>0, <2>1, NobodyChanges DEF Daemon!ChangeIsLocked
  <2>m. Moved(t, new)
    BY <1>0, <2>1, ThreadMoves
  <2>3. ASSUME NEW r \in SessionIds PROVE Fine(r)'
    <3>1. /\ Fine(r) /\ \A k : ~Daemon!Changing(r, k)
          /\ \A places : "idle" \notin places /\ "changed" \notin places =>
               (Daemon!Busy(r, places)' <=> Daemon!Busy(r, places))
          /\ r = s => Daemon!Changing(r, kind)'
      BY <1>0, <2>1, <2>m, NobodyChanges DEF Moved
    <3>2. r # s => session'[r] = session[r]
      BY <2>1
    <3>a. r = s => session'[r] = to
      BY <1>0, <2>1
    <3>3. Daemon!LogIsLate(r)'
      BY <2>1, <3>1, <3>2, <3>a DEF Daemon!LogIsLate
    <3>4. Daemon!EndIsSaved(r)'
      BY <2>1, <3>1 DEF Daemon!EndIsSaved
    <3>5. Daemon!TaskIsMade(r)'
      BY <2>1, <3>1, <3>2 DEF Daemon!TaskIsMade
    <3> QED BY <3>3, <3>4, <3>5
  <2>4. session' \in [SessionIds -> {"none", "active", "inactive"}]
    BY <1>0, <2>1
  <2> QED BY <1>0, <2>1, <2>2, <2>3, <2>4, SessionsMove
<1>10. ASSUME NEW t \in Threads, NEW s \in SessionIds, Daemon!End(t, s) PROVE Daemon!SessionInv'
  <2> DEFINE new == [at |-> "ending", s |-> s, kind |-> "ended"]
  <2>1. /\ thread' = [thread EXCEPT ![t] = new] /\ new \in Records /\ new.s = s /\ new.at = "ending"
        /\ thread[t].at = "idle" /\ lock = Daemon!Nobody /\ session[s] # "none"
        /\ session' = [session EXCEPT ![s] = "inactive"]
        /\ UNCHANGED <<db, log, task, handoff, lock, spoiled>>
    BY <1>10 DEF Daemon!End, Daemon!Usable, Daemon!store, Records, Daemon!ThreadPlaces, Daemon!Kinds
  <2> HIDE DEF new
  <2>2. Daemon!ChangeIsLocked'
    BY <1>0, <2>1, NobodyChanges DEF Daemon!ChangeIsLocked
  <2>m. Moved(t, new)
    BY <1>0, <2>1, ThreadMoves
  <2>3. ASSUME NEW r \in SessionIds PROVE Fine(r)'
    <3>1. /\ Fine(r) /\ \A k : ~Daemon!Changing(r, k)
          /\ \A places : "idle" \notin places /\ "ending" \notin places =>
               (Daemon!Busy(r, places)' <=> Daemon!Busy(r, places))
      BY <1>0, <2>1, <2>m, NobodyChanges DEF Moved
    <3>c. Daemon!Busy(r, {"ending", "saving", "saved"}) => Daemon!Busy(r, {"ending", "saving", "saved"})'
      BY <2>1, <2>m DEF Moved
    <3>b. r = s => Daemon!Busy(r, {"ending", "saving", "saved"})'
      BY <2>1, <2>m DEF Moved
    <3>2. r # s => session'[r] = session[r]
      BY <2>1
    <3>a. r = s => session'[r] = "inactive"
      BY <1>0, <2>1
    <3>3. Daemon!LogIsLate(r)'
      BY <2>1, <3>1, <3>2, <3>a, <3>b, <3>c DEF Daemon!LogIsLate
    <3>4. Daemon!EndIsSaved(r)'
      BY <2>1, <3>1 DEF Daemon!EndIsSaved
    <3>5. Daemon!TaskIsMade(r)'
      BY <2>1, <3>1, <3>2 DEF Daemon!TaskIsMade
    <3> QED BY <3>3, <3>4, <3>5
  <2>4. session' \in [SessionIds -> {"none", "active", "inactive"}]
    BY <1>0, <2>1
  <2> QED BY <1>0, <2>1, <2>2, <2>3, <2>4, SessionsMove
\* The log with or without one event more.
<1>a. ASSUME NEW s \in SessionIds, NEW kind \in Daemon!Kinds, Daemon!Append1(s, kind)
      PROVE  /\ log' \in [SessionIds -> Seq(Daemon!Kinds)]
             /\ \A r \in SessionIds : r # s \/ db # "ready" => log'[r] = log[r]
             /\ db # "ready" => log[s] = <<>> /\ log'[s] = <<>>
             /\ db = "ready" => /\ log'[s] # <<>> /\ Daemon!Last(log'[s]) = kind
                                /\ Daemon!ToSet(log'[s]) = Daemon!ToSet(log[s]) \cup {kind}
  <2>1. log[s] \in Seq(Daemon!Kinds) /\ DOMAIN log = SessionIds
    BY <1>0
  <2>2. db # "ready" => log' = log
    BY <1>a DEF Daemon!Append1
  <2>3. db = "ready" => log' = [log EXCEPT ![s] = Append(log[s], kind)]
    BY <1>a DEF Daemon!Append1
  <2>4. /\ Append(log[s], kind) \in Seq(Daemon!Kinds) /\ Append(log[s], kind) # <<>>
        /\ Daemon!Last(Append(log[s], kind)) = kind
        /\ Daemon!ToSet(Append(log[s], kind)) = Daemon!ToSet(log[s]) \cup {kind}
    BY <2>1, LogGrows
  <2>5. db = "ready" => log'[s] = Append(log[s], kind) /\ \A r \in SessionIds : r # s => log'[r] = log[r]
    BY <2>1, <2>3
  <2>6. db = "ready" => log' \in [SessionIds -> Seq(Daemon!Kinds)]
    BY <1>0, <2>3, <2>4
  <2>7. db # "ready" => log[s] = <<>>
    <3>1. Daemon!LogIsLate(s)
      BY <1>0
    <3> QED BY <3>1 DEF Daemon!LogIsLate
  <2> QED BY <1>0, <2>2, <2>4, <2>5, <2>6, <2>7
<1>e. ASSUME NEW s \in SessionIds, log[s] = <<>> PROVE "ended" \notin Daemon!ToSet(log[s])
  BY <1>e DEF Daemon!ToSet
<1>11. ASSUME NEW t \in Threads, Daemon!LogStart(t) PROVE Daemon!SessionInv'
  <2>1. PICK s \in SessionIds : s = thread[t].s
    BY <1>0, <1>11 DEF Daemon!LogStart
  <2>2. PICK new : new = [thread[t] EXCEPT !.at = "logged"]
    OBVIOUS
  <2>3. new \in Records /\ new.s = s /\ new.at = "logged"
    BY <1>0, <2>1, <2>2 DEF Records, Daemon!ThreadPlaces
  <2>4. /\ thread' = [thread EXCEPT ![t] = new] /\ thread[t].at = "created"
        /\ Daemon!Append1(s, "started") /\ UNCHANGED <<db, session, task, handoff, lock, spoiled>>
    BY <1>0, <1>11, <2>1, <2>2 DEF Daemon!LogStart, Daemon!At, Daemon!store
  <2>5. "started" \in Daemon!Kinds
    BY DEF Daemon!Kinds
  <2>6. Daemon!ChangeIsLocked'
    BY <1>0, <2>3, <2>4 DEF Daemon!ChangeIsLocked
  <2>m. Moved(t, new)
    BY <1>0, <2>1, <2>3, <2>4, ThreadMoves
  <2>7. ASSUME NEW r \in SessionIds PROVE Fine(r)'
    <3>1. /\ Fine(r) /\ \A k : Daemon!Changing(r, k) => Daemon!Changing(r, k)'
          /\ \A places : "created" \notin places /\ "logged" \notin places =>
               (Daemon!Busy(r, places)' <=> Daemon!Busy(r, places))
          /\ Daemon!Busy(r, {"created", "logged"}) => Daemon!Busy(r, {"created", "logged"})'
      BY <1>0, <2>1, <2>3, <2>4, <2>m DEF Moved
    <3>2. r # s => log'[r] = log[r]
      BY <1>a, <2>4, <2>5
    <3>3. Daemon!LogIsLate(r)'
      BY <1>a, <2>4, <2>5, <3>1, <3>2 DEF Daemon!LogIsLate
    <3>4. "ended" \in Daemon!ToSet(log'[r]) => "ended" \in Daemon!ToSet(log[r])
      <4>1. CASE r # s
        BY <3>2, <4>1
      <4>2. CASE r = s /\ db = "ready"
        <5>1. Daemon!ToSet(log'[r]) = Daemon!ToSet(log[r]) \cup {"started"}
          BY <1>a, <2>4, <2>5, <4>2
        <5> QED BY <5>1
      <4>3. CASE r = s /\ db # "ready"
        BY <1>a, <2>4, <2>5, <4>3
      <4> QED BY <4>1, <4>2, <4>3
    <3>5. Daemon!EndIsSaved(r)'
      BY <2>4, <3>1, <3>4 DEF Daemon!EndIsSaved
    <3>6. Daemon!TaskIsMade(r)'
      BY <2>4, <3>1 DEF Daemon!TaskIsMade
    <3> QED BY <3>3, <3>5, <3>6
  <2>8. log' \in [SessionIds -> Seq(Daemon!Kinds)]
    BY <1>a, <2>4, <2>5
  <2> QED BY <1>0, <2>3, <2>4, <2>6, <2>7, <2>8, SessionsMove
<1>12. ASSUME NEW t \in Threads, Daemon!CreateTask(t) PROVE Daemon!SessionInv'
  <2>1. PICK s \in SessionIds : s = thread[t].s
    BY <1>0, <1>12 DEF Daemon!CreateTask
  <2>2. /\ thread' = [thread EXCEPT ![t] = Daemon!Rest] /\ thread[t].at = "logged"
        /\ task' = [task EXCEPT ![s] = "pending"] /\ UNCHANGED <<db, log, session, handoff, lock, spoiled>>
    BY <1>12, <2>1 DEF Daemon!CreateTask, Daemon!store
  <2>3. Daemon!ChangeIsLocked'
    BY <1>0, <1>p, <2>2 DEF Daemon!ChangeIsLocked
  <2>m. Moved(t, Daemon!Rest)
    BY <1>0, <1>p, <2>1, <2>2, ThreadMoves
  <2>4. ASSUME NEW r \in SessionIds PROVE Fine(r)'
    <3>1. /\ Fine(r) /\ \A k : Daemon!Changing(r, k) => Daemon!Changing(r, k)'
          /\ \A places : "idle" \notin places /\ "logged" \notin places =>
               (Daemon!Busy(r, places)' <=> Daemon!Busy(r, places))
          /\ r # s => (Daemon!Busy(r, {"created", "logged"}) => Daemon!Busy(r, {"created", "logged"})')
      BY <1>0, <1>p, <2>1, <2>2, <2>m DEF Moved
    <3>2. task'[r] = IF r = s THEN "pending" ELSE task[r]
      BY <1>0, <2>2
    <3>3. Daemon!LogIsLate(r)'
      BY <2>2, <3>1 DEF Daemon!LogIsLate
    <3>4. Daemon!EndIsSaved(r)'
      BY <2>2, <3>1 DEF Daemon!EndIsSaved
    <3>5. Daemon!TaskIsMade(r)'
      BY <2>2, <3>1, <3>2 DEF Daemon!TaskIsMade
    <3> QED BY <3>3, <3>4, <3>5
  <2>5. DOMAIN task' = SessionIds
    BY <1>0, <2>2
  <2> QED BY <1>0, <1>p, <2>2, <2>3, <2>4, <2>5, SessionsMove
<1>13. ASSUME NEW t \in Threads, Daemon!LogChange(t) PROVE Daemon!SessionInv'
  <2>1. PICK s \in SessionIds : s = thread[t].s
    BY <1>0, <1>13 DEF Daemon!LogChange
  <2>2. PICK kind \in {"attached", "detached"} : kind = thread[t].kind
    BY <1>0, <1>13 DEF Daemon!LogChange, Daemon!ChangeIsLocked
  <2>3. /\ thread' = [thread EXCEPT ![t] = Daemon!Rest] /\ thread[t].at = "changed"
        /\ Daemon!Append1(s, kind) /\ UNCHANGED <<db, session, task, handoff, spoiled>>
    BY <1>13, <2>1, <2>2 DEF Daemon!LogChange, Daemon!store
  <2>4. \A u \in Threads : thread[u].at = "changed" => u = t
    BY <1>0, <2>3 DEF Daemon!ChangeIsLocked
  <2>5. Daemon!ChangeIsLocked'
    BY <1>0, <1>p, <2>3, <2>4 DEF Daemon!ChangeIsLocked
  <2>6. kind \in Daemon!Kinds /\ session[s] = IF kind = "attached" THEN "active" ELSE "inactive"
    BY <1>0, <2>1, <2>2, <2>3 DEF Daemon!Kinds, Daemon!ChangeIsLocked
  <2>m. Moved(t, Daemon!Rest)
    BY <1>0, <1>p, <2>1, <2>3, ThreadMoves
  <2>7. ASSUME NEW r \in SessionIds PROVE Fine(r)'
    <3>1. /\ Fine(r) /\ \A k : r # s => (Daemon!Changing(r, k) => Daemon!Changing(r, k)')
          /\ \A places : "idle" \notin places /\ "changed" \notin places =>
               (Daemon!Busy(r, places)' <=> Daemon!Busy(r, places))
      BY <1>0, <1>p, <2>1, <2>3, <2>m DEF Moved
    <3>2. r # s => log'[r] = log[r]
      BY <1>a, <2>3, <2>6
    <3>3. Daemon!LogIsLate(r)'
      <4>1. CASE r # s
        BY <2>3, <3>1, <3>2, <4>1 DEF Daemon!LogIsLate
      <4>2. CASE r = s
        BY <1>a, <2>3, <2>6, <4>2 DEF Daemon!LogIsLate
      <4> QED BY <4>1, <4>2
    <3>4. "ended" \in Daemon!ToSet(log'[r]) => "ended" \in Daemon!ToSet(log[r])
      <4>1. CASE r # s
        BY <3>2, <4>1
      <4>2. CASE r = s /\ db = "ready"
        <5>1. Daemon!ToSet(log'[r]) = Daemon!ToSet(log[r]) \cup {kind}
          BY <1>a, <2>3, <2>6, <4>2
        <5> QED BY <2>2, <5>1
      <4>3. CASE r = s /\ db # "ready"
        BY <1>a, <2>3, <2>6, <4>3
      <4> QED BY <4>1, <4>2, <4>3
    <3>5. Daemon!EndIsSaved(r)'
      BY <2>3, <3>1, <3>4 DEF Daemon!EndIsSaved
    <3>6. Daemon!TaskIsMade(r)'
      BY <2>3, <3>1 DEF Daemon!TaskIsMade
    <3> QED BY <3>3, <3>5, <3>6
  <2>8. log' \in [SessionIds -> Seq(Daemon!Kinds)]
    BY <1>a, <2>3, <2>6
  <2> QED BY <1>0, <1>p, <2>3, <2>5, <2>7, <2>8, SessionsMove
<1>14. ASSUME NEW t \in Threads, Daemon!BeginHandoff(t) PROVE Daemon!SessionInv'
  <2>1. PICK s \in SessionIds : s = thread[t].s
    BY <1>0, <1>14 DEF Daemon!BeginHandoff
  <2>2. PICK new : new = [thread[t] EXCEPT !.at = "saving"]
    OBVIOUS
  <2>3. new \in Records /\ new.s = s /\ new.at = "saving"
    BY <1>0, <2>1, <2>2 DEF Records, Daemon!ThreadPlaces
  <2>4. /\ thread' = [thread EXCEPT ![t] = new] /\ thread[t].at = "ending"
        /\ handoff' = [handoff EXCEPT ![s] = "partial"] /\ UNCHANGED <<db, log, session, task, lock, spoiled>>
    BY <1>0, <1>14, <2>1, <2>2 DEF Daemon!BeginHandoff, Daemon!At, Daemon!store
  <2>5. Daemon!ChangeIsLocked'
    BY <1>0, <2>3, <2>4 DEF Daemon!ChangeIsLocked
  <2>m. Moved(t, new)
    BY <1>0, <2>1, <2>3, <2>4, ThreadMoves
  <2>6. ASSUME NEW r \in SessionIds PROVE Fine(r)'
    <3>1. /\ Fine(r) /\ \A k : Daemon!Changing(r, k) => Daemon!Changing(r, k)'
          /\ \A places : "ending" \notin places /\ "saving" \notin places =>
               (Daemon!Busy(r, places)' <=> Daemon!Busy(r, places))
          /\ Daemon!Busy(r, {"ending", "saving", "saved"}) => Daemon!Busy(r, {"ending", "saving", "saved"})'
          /\ Daemon!Busy(r, {"saving"}) \/ r = s => Daemon!Busy(r, {"saving"})'
      BY <1>0, <2>1, <2>3, <2>4, <2>m DEF Moved
    <3>2. r # s => handoff'[r] = handoff[r]
      BY <2>4
    <3>3. Daemon!LogIsLate(r)'
      BY <2>4, <3>1 DEF Daemon!LogIsLate
    <3>4. Daemon!EndIsSaved(r)'
      BY <2>4, <3>1, <3>2 DEF Daemon!EndIsSaved
    <3>5. Daemon!TaskIsMade(r)'
      BY <2>4, <3>1 DEF Daemon!TaskIsMade
    <3> QED BY <3>3, <3>4, <3>5
  <2>7. handoff' \in [SessionIds -> {"none", "partial", "whole"}]
    BY <1>0, <2>4
  <2> QED BY <1>0, <2>3, <2>4, <2>5, <2>6, <2>7, SessionsMove
<1>15. ASSUME NEW t \in Threads, Daemon!FinishHandoff(t, TRUE) PROVE Daemon!SessionInv'
  <2>1. PICK s \in SessionIds : s = thread[t].s
    BY <1>0, <1>15 DEF Daemon!FinishHandoff
  <2>2. PICK new : new = [thread[t] EXCEPT !.at = "saved"]
    OBVIOUS
  <2>3. new \in Records /\ new.s = s /\ new.at = "saved"
    BY <1>0, <2>1, <2>2 DEF Records, Daemon!ThreadPlaces
  <2>4. /\ thread' = [thread EXCEPT ![t] = new] /\ thread[t].at = "saving"
        /\ handoff' = [handoff EXCEPT ![s] = "whole"] /\ UNCHANGED <<db, log, session, task, lock, spoiled>>
    BY <1>0, <1>15, <2>1, <2>2 DEF Daemon!FinishHandoff, Daemon!At
  <2>5. Daemon!ChangeIsLocked'
    BY <1>0, <2>3, <2>4 DEF Daemon!ChangeIsLocked
  <2>m. Moved(t, new)
    BY <1>0, <2>1, <2>3, <2>4, ThreadMoves
  <2>6. ASSUME NEW r \in SessionIds PROVE Fine(r)'
    <3>1. /\ Fine(r) /\ \A k : Daemon!Changing(r, k) => Daemon!Changing(r, k)'
          /\ r # s => \A places : Daemon!Busy(r, places)' <=> Daemon!Busy(r, places)
          /\ Daemon!Busy(r, {"ending", "saving", "saved"}) => Daemon!Busy(r, {"ending", "saving", "saved"})'
          /\ Daemon!Busy(r, {"created", "logged"}) => Daemon!Busy(r, {"created", "logged"})'
      BY <1>0, <2>1, <2>3, <2>4, <2>m DEF Moved
    <3>2. handoff'[r] = IF r = s THEN "whole" ELSE handoff[r]
      BY <1>0, <2>4
    <3>3. Daemon!LogIsLate(r)'
      BY <2>4, <3>1 DEF Daemon!LogIsLate
    <3>4. Daemon!EndIsSaved(r)'
      BY <2>4, <3>1, <3>2 DEF Daemon!EndIsSaved
    <3>5. Daemon!TaskIsMade(r)'
      BY <2>4, <3>1 DEF Daemon!TaskIsMade
    <3> QED BY <3>3, <3>4, <3>5
  <2>7. handoff' \in [SessionIds -> {"none", "partial", "whole"}]
    BY <1>0, <2>4
  <2> QED BY <1>0, <2>3, <2>4, <2>5, <2>6, <2>7, SessionsMove
<1>16. ASSUME NEW t \in Threads, Daemon!FinishHandoff(t, FALSE) PROVE Daemon!SessionInv'
  <2>1. PICK s \in SessionIds : s = thread[t].s
    BY <1>0, <1>16 DEF Daemon!FinishHandoff
  <2>2. /\ thread' = [thread EXCEPT ![t] = Daemon!Rest] /\ thread[t].at = "saving"
        /\ spoiled' = spoiled \cup {s} /\ UNCHANGED <<db, log, session, task, handoff, lock>>
    BY <1>16, <2>1 DEF Daemon!FinishHandoff
  <2>3. Daemon!ChangeIsLocked'
    BY <1>0, <1>p, <2>2 DEF Daemon!ChangeIsLocked
  <2>m. Moved(t, Daemon!Rest)
    BY <1>0, <1>p, <2>1, <2>2, ThreadMoves
  <2>4. ASSUME NEW r \in SessionIds PROVE Fine(r)'
    <3>1. /\ Fine(r) /\ \A k : Daemon!Changing(r, k) => Daemon!Changing(r, k)'
          /\ \A places : "idle" \notin places /\ (r # s \/ "saving" \notin places) =>
               (Daemon!Busy(r, places)' <=> Daemon!Busy(r, places))
      BY <1>0, <1>p, <2>1, <2>2, <2>m DEF Moved
    <3>2. r \in spoiled' <=> r \in spoiled \/ r = s
      BY <2>2
    <3>3. Daemon!LogIsLate(r)'
      BY <2>2, <3>1, <3>2 DEF Daemon!LogIsLate
    <3>4. Daemon!EndIsSaved(r)'
      BY <2>2, <3>1, <3>2 DEF Daemon!EndIsSaved
    <3>5. Daemon!TaskIsMade(r)'
      BY <2>2, <3>1 DEF Daemon!TaskIsMade
    <3> QED BY <3>3, <3>4, <3>5
  <2> QED BY <1>0, <1>p, <2>2, <2>3, <2>4, SessionsMove
<1>17. ASSUME NEW t \in Threads, Daemon!LogEnd(t) PROVE Daemon!SessionInv'
  <2>1. PICK s \in SessionIds : s = thread[t].s
    BY <1>0, <1>17 DEF Daemon!LogEnd
  <2>2. /\ thread' = [thread EXCEPT ![t] = Daemon!Rest] /\ thread[t].at = "saved"
        /\ Daemon!Append1(s, "ended") /\ UNCHANGED <<db, session, task, handoff, lock, spoiled>>
    BY <1>17, <2>1 DEF Daemon!LogEnd, Daemon!store
  <2>3. "ended" \in Daemon!Kinds
    BY DEF Daemon!Kinds
  <2>4. Daemon!ChangeIsLocked'
    BY <1>0, <1>p, <2>2 DEF Daemon!ChangeIsLocked
  <2>m. Moved(t, Daemon!Rest)
    BY <1>0, <1>p, <2>1, <2>2, ThreadMoves
  <2>5. ASSUME NEW r \in SessionIds PROVE Fine(r)'
    <3>1. /\ Fine(r) /\ \A k : Daemon!Changing(r, k) => Daemon!Changing(r, k)'
          /\ \A places : "idle" \notin places /\ (r # s \/ "saved" \notin places) =>
               (Daemon!Busy(r, places)' <=> Daemon!Busy(r, places))
          /\ Daemon!Busy(r, {"saved"})' => Daemon!Busy(r, {"saved"})
          /\ Daemon!Busy(s, {"saved"})
      BY <1>0, <1>p, <2>1, <2>2, <2>m DEF Daemon!Busy, Moved
    <3>2. r # s => log'[r] = log[r]
      BY <1>a, <2>2, <2>3
    <3>3. Daemon!LogIsLate(r)'
      <4>1. CASE r # s
        BY <2>2, <3>1, <3>2, <4>1 DEF Daemon!LogIsLate
      <4>2. CASE r = s
        BY <1>a, <2>2, <2>3, <4>2 DEF Daemon!LogIsLate
      <4> QED BY <4>1, <4>2
    <3>4. r # s => ("ended" \in Daemon!ToSet(log'[r]) => "ended" \in Daemon!ToSet(log[r]))
      BY <3>2
    <3>5. Daemon!EndIsSaved(r)'
      BY <2>2, <3>1, <3>4 DEF Daemon!EndIsSaved
    <3>6. Daemon!TaskIsMade(r)'
      BY <2>2, <3>1 DEF Daemon!TaskIsMade
    <3> QED BY <3>3, <3>5, <3>6
  <2>6. log' \in [SessionIds -> Seq(Daemon!Kinds)]
    BY <1>a, <2>2, <2>3
  <2> QED BY <1>0, <1>p, <2>2, <2>4, <2>5, <2>6, SessionsMove
<1>18. CASE UNCHANGED Daemon!sessionVars
  BY <1>0, <1>1, <1>18 DEF Daemon!sessionVars, Daemon!TypeOK
<1> QED BY <1>2, <1>3, <1>4, <1>5, <1>6, <1>7, <1>8, <1>9, <1>10, <1>11, <1>12, <1>13, <1>14, <1>15, <1>16, <1>17, <1>18
    DEF Daemon!SessionNext

\* Between operations nobody is busy with a session, and the log is not late.
LEMMA SessionsAreTold == Daemon!SessionInv => Daemon!LogTellsSession
<1> SUFFICES ASSUME Daemon!SessionInv, NEW s \in SessionIds, Daemon!Settled(s), log[s] # <<>>
             PROVE  /\ session[s] # "none" /\ Daemon!Last(log[s]) = "attached" /\ s \notin spoiled => session[s] = "active"
                    /\ session[s] # "none" /\ Daemon!Last(log[s]) = "detached" => session[s] = "inactive"
                    /\ "ended" \in Daemon!ToSet(log[s]) /\ s \notin spoiled => handoff[s] = "whole"
                    /\ session[s] # "none" => task[s] # "none"
  BY DEF Daemon!LogTellsSession
<1>1. (\A places : ~Daemon!Busy(s, places)) /\ (\A kind : ~Daemon!Changing(s, kind))
  BY DEF Daemon!Settled, Daemon!Busy, Daemon!Changing
<1>2. /\ Daemon!LogIsLate(s) /\ Daemon!EndIsSaved(s) /\ Daemon!TaskIsMade(s)
      /\ session[s] \in {"none", "active", "inactive"}
  BY DEF Daemon!SessionInv, Daemon!TypeOK
<1> QED BY <1>1, <1>2 DEF Daemon!LogIsLate, Daemon!EndIsSaved, Daemon!TaskIsMade

-------------------------------------------------------------------------------
(* Quotas of agents.                                                         *)

\* What an instance of a library's operator gives is what the library's does.
LEMMA DaemonCounts == \A S : Daemon!Cardinality(S) = Cardinality(S)
BY DEF Daemon!Cardinality, Cardinality

\* The inductive invariant of the quotas: at the start ...
LEMMA QuotaStarts == Daemon!QuotaInit => Daemon!QuotaInv
<1> SUFFICES ASSUME Daemon!QuotaInit PROVE Daemon!QuotaInv
  OBVIOUS
<1>1. Daemon!Running = {}
  BY DEF Daemon!QuotaInit, Daemon!Running, Daemon!Idle
<1> QED BY <1>1, FS_EmptySet, DaemonCounts DEF Daemon!QuotaInit, Daemon!QuotaInv, Daemon!QuotaIsSeen, Daemon!Idle

\* A step that moves one caller, by whether he starts, ends or does neither.
LEMMA RunningMoves ==
  ASSUME DOMAIN caller = Askers, NEW t \in Askers, NEW new, caller' = [caller EXCEPT ![t] = new]
  PROVE  /\ IsFiniteSet(Daemon!Running) /\ Cardinality(Daemon!Running) \in Nat
         /\ (new.at = "running") = (caller[t].at = "running") =>
              Cardinality(Daemon!Running') = Cardinality(Daemon!Running)
         /\ new.at = "running" /\ caller[t].at # "running" =>
              Cardinality(Daemon!Running') = Cardinality(Daemon!Running) + 1
         /\ new.at # "running" /\ caller[t].at = "running" =>
              Cardinality(Daemon!Running') = Cardinality(Daemon!Running) - 1
<1> DEFINE R == Daemon!Running
<1>1. IsFiniteSet(R) /\ Cardinality(R) \in Nat
  <2>1. R \subseteq Askers
    BY DEF Daemon!Running
  <2> QED BY <2>1, CountsAssumption, FS_Subset, FS_CardinalityType
<1>2. t \in R <=> caller[t].at = "running"
  BY DEF Daemon!Running
<1>3. CASE (new.at = "running") = (caller[t].at = "running")
  <2>1. R' = R
    BY <1>3 DEF Daemon!Running
  <2> QED BY <1>1, <1>3, <2>1
<1>4. CASE new.at = "running" /\ caller[t].at # "running"
  <2>1. R' = R \cup {t}
    BY <1>4 DEF Daemon!Running
  <2> QED BY <1>1, <1>2, <1>4, <2>1, FS_AddElement
<1>5. CASE new.at # "running" /\ caller[t].at = "running"
  <2>1. R' = R \ {t}
    BY <1>5 DEF Daemon!Running
  <2> QED BY <1>1, <1>2, <1>5, <2>1, FS_RemoveElement
<1> QED BY <1>1, <1>3, <1>4, <1>5

\* ... and in every step: only Start and Complete change who runs.
LEMMA QuotaStays == Daemon!QuotaInv /\ [Daemon!QuotaNext]_(Daemon!quotaVars) => Daemon!QuotaInv'
<1> SUFFICES ASSUME Daemon!QuotaInv, [Daemon!QuotaNext]_(Daemon!quotaVars) PROVE Daemon!QuotaInv'
  OBVIOUS
<1> USE DEF Daemon!QuotaIsSeen, Daemon!agentState
<1>0. /\ Daemon!QuotaIsSeen /\ active = Cardinality(Daemon!Running) /\ DOMAIN caller = Askers
      /\ queued \in Nat /\ (queued > 1 => \E q \in seen : queued <= q.depth)
      /\ \A q \in seen : q.tasks \in Nat /\ q.depth \in Nat
  BY CountsAssumption, DaemonCounts DEF Daemon!QuotaInv
<1>r. UNCHANGED caller => Daemon!Running' = Daemon!Running
  BY DEF Daemon!Running
<1>1. CASE Daemon!Tick \/ UNCHANGED Daemon!quotaVars
  BY <1>0, <1>1, <1>r DEF Daemon!Tick, Daemon!quotaVars, Daemon!QuotaInv
<1>2. CASE Daemon!DequeueTask
  <2>1. queued' \in Nat /\ (queued' > 1 => \E q \in seen : queued' <= q.depth)
    BY <1>0, <1>2 DEF Daemon!DequeueTask
  <2> QED BY <1>0, <1>2, <1>r, <2>1 DEF Daemon!DequeueTask, Daemon!QuotaInv
<1>3. ASSUME NEW q \in Quotas, Daemon!RegisterAgent(q) PROVE Daemon!QuotaInv'
  <2>1. seen \subseteq seen' /\ seen' \subseteq Quotas /\ quota' \subseteq seen' /\ UNCHANGED <<caller, active, queued>>
    BY <1>0, <1>3 DEF Daemon!RegisterAgent
  <2>2. caller' \in [Askers -> [at : {"idle", "looking", "accepted", "running"}, quota : SUBSET seen']]
    BY <1>0, <2>1
  <2>3. Daemon!QuotaIsSeen'
    BY <1>0, <2>1, <2>2
  <2> QED BY <1>0, <1>r, <2>1, <2>3 DEF Daemon!QuotaInv
<1>4. ASSUME NEW t \in Askers, NEW new \in [at : {"idle", "looking", "accepted", "running"}, quota : SUBSET seen],
             caller' = [caller EXCEPT ![t] = new],
             new.at \in {"accepted", "running"} => \E q \in seen : q.tasks >= 1,
             UNCHANGED <<quota, queued, seen>>,
             active' = Cardinality(Daemon!Running')
      PROVE  Daemon!QuotaInv'
  <2>1. caller' \in [Askers -> [at : {"idle", "looking", "accepted", "running"}, quota : SUBSET seen]]
    BY <1>0, <1>4
  <2>2. \A u \in Askers : caller'[u].at \in {"accepted", "running"} => \E q \in seen : q.tasks >= 1
    BY <1>0, <1>4
  <2> QED BY <1>0, <1>4, <2>1, <2>2, DaemonCounts DEF Daemon!QuotaInv
<1>5. ASSUME NEW t \in Askers, Daemon!CopyQuota(t) PROVE Daemon!QuotaInv'
  <2>1. PICK new : new = [at |-> "looking", quota |-> quota]
    OBVIOUS
  <2>2. /\ new \in [at : {"idle", "looking", "accepted", "running"}, quota : SUBSET seen]
        /\ new.at = "looking" /\ caller' = [caller EXCEPT ![t] = new] /\ caller[t].at = "idle"
        /\ UNCHANGED <<quota, queued, seen, active>>
    BY <1>0, <1>5, <2>1 DEF Daemon!CopyQuota
  <2> QED BY <1>0, <1>4, <2>2, RunningMoves
<1>6. ASSUME NEW t \in Askers, Daemon!Look(t) PROVE Daemon!QuotaInv'
  <2>1. PICK q \in caller[t].quota :
          caller' = [caller EXCEPT ![t] = IF Daemon!Accepts(q) THEN [at |-> "accepted", quota |-> {}] ELSE Daemon!Idle]
    BY <1>6 DEF Daemon!Look
  <2>2. PICK new : new = IF Daemon!Accepts(q) THEN [at |-> "accepted", quota |-> {}] ELSE Daemon!Idle
    OBVIOUS
  <2>3. new.at = "accepted" => Daemon!Accepts(q)
    BY <2>2 DEF Daemon!Idle
  <2>4. /\ new \in [at : {"idle", "looking", "accepted", "running"}, quota : SUBSET seen]
        /\ new.at # "running" /\ caller' = [caller EXCEPT ![t] = new] /\ caller[t].at = "looking"
        /\ UNCHANGED <<quota, queued, seen, active>>
    BY <1>0, <1>6, <2>1, <2>2 DEF Daemon!Look, Daemon!Idle
  <2>5. active \in Nat
    BY <1>0, <2>4, RunningMoves
  <2>6. new.at = "accepted" => \E r \in seen : r.tasks >= 1
    <3>1. q \in seen
      BY <1>0, <2>1
    <3> QED BY <1>0, <2>3, <2>5, <3>1 DEF Daemon!Accepts
  <2> QED BY <1>0, <1>4, <2>4, <2>6, RunningMoves
<1>7. ASSUME NEW t \in Askers, Daemon!Start(t) PROVE Daemon!QuotaInv'
  <2>1. PICK new : new = [at |-> "running", quota |-> {}]
    OBVIOUS
  <2>2. /\ new \in [at : {"idle", "looking", "accepted", "running"}, quota : SUBSET seen]
        /\ new.at = "running" /\ caller' = [caller EXCEPT ![t] = new] /\ caller[t].at = "accepted"
        /\ UNCHANGED <<quota, queued, seen>> /\ active' = active + 1
    BY <1>7, <2>1 DEF Daemon!Start
  <2> QED BY <1>0, <1>4, <2>2, RunningMoves
<1>8. ASSUME NEW t \in Askers, NEW success \in BOOLEAN, Daemon!Complete(t, success) PROVE Daemon!QuotaInv'
  <2>1. /\ Daemon!Idle \in [at : {"idle", "looking", "accepted", "running"}, quota : SUBSET seen]
        /\ Daemon!Idle.at = "idle" /\ caller' = [caller EXCEPT ![t] = Daemon!Idle] /\ caller[t].at = "running"
        /\ UNCHANGED <<quota, queued, seen>> /\ active' = Daemon!Places(success)
    BY <1>8 DEF Daemon!Complete, Daemon!Idle
  <2>2. active \in Nat /\ Cardinality(Daemon!Running') = active - 1
    BY <1>0, <2>1, RunningMoves
  <2>3. active > 0
    <3>1. t \in Daemon!Running /\ IsFiniteSet(Daemon!Running)
      BY <1>0, <2>1, RunningMoves DEF Daemon!Running
    <3> QED BY <1>0, <2>2, <3>1, FS_EmptySet
  <2>4. active' = Cardinality(Daemon!Running')
    BY <2>1, <2>2, <2>3 DEF Daemon!Places
  <2> QED BY <1>0, <1>4, <2>1, <2>4
<1>9. ASSUME NEW policy \in {"drop", "block", "drop_oldest"}, Daemon!QueueTask(policy) PROVE Daemon!QuotaInv'
  <2>1. PICK q \in quota : queued' = IF queued < q.depth THEN queued + 1
                                     ELSE IF policy # "drop_oldest" THEN queued
                                     ELSE IF queued > 0 THEN queued ELSE 1
    BY <1>9 DEF Daemon!QueueTask
  <2>2. q \in seen /\ q.depth \in Nat
    BY <1>0
  <2>3. queued' \in Nat /\ (queued' > 1 => queued' = queued \/ queued' <= q.depth)
    BY <1>0, <2>1, <2>2
  <2> QED BY <1>0, <1>9, <1>r, <2>2, <2>3 DEF Daemon!QueueTask, Daemon!QuotaInv
<1> QED BY <1>1, <1>2, <1>3, <1>5, <1>6, <1>7, <1>8, <1>9 DEF Daemon!QuotaNext

\* Who runs was let in by a quota, and there are no more to run than callers.
LEMMA QuotaIsKept == Daemon!QuotaInv => Daemon!QuotaAccounts
<1> SUFFICES ASSUME Daemon!QuotaInv, active > 0
             PROVE  \E q \in seen : active <= q.tasks + Cardinality(Askers) - 1
  BY DaemonCounts DEF Daemon!QuotaInv, Daemon!QuotaAccounts
<1>1. Daemon!Running \subseteq Askers /\ active = Cardinality(Daemon!Running)
  BY DaemonCounts DEF Daemon!Running, Daemon!QuotaInv
<1>2. /\ Cardinality(Daemon!Running) \in Nat /\ Cardinality(Askers) \in Nat
      /\ Cardinality(Daemon!Running) <= Cardinality(Askers)
  BY <1>1, CountsAssumption, FS_Subset, FS_CardinalityType
<1>3. Daemon!Running # {}
  BY <1>1, <1>2, FS_EmptySet
<1>4. PICK q \in seen : q.tasks >= 1
  BY <1>3 DEF Daemon!QuotaInv, Daemon!QuotaIsSeen, Daemon!Running
<1>5. q.tasks \in Nat
  BY CountsAssumption DEF Daemon!QuotaInv, Daemon!QuotaIsSeen
<1> QED BY <1>1, <1>2, <1>4, <1>5

-------------------------------------------------------------------------------
(* The two boards.                                                           *)

\* The inductive invariant of the two boards: at the start ...
LEMMA BoardsStart == Boards!Init => Boards!IInv
<1> SUFFICES ASSUME Boards!Init PROVE Boards!IInv
  OBVIOUS
<1> USE DEF Boards!Init
<1>1. Boards!TypeOK
  BY CountsAssumption DEF Boards!TypeOK, Boards!Absent, Boards!Resting
<1>2. Boards!HoldersAreFresh
  BY NamesAssumption DEF Boards!HoldersAreFresh, Boards!Resting
<1>3. Boards!FreeCardsHaveNone
  BY DEF Boards!FreeCardsHaveNone, Boards!Absent
<1> QED BY <1>1, <1>2, <1>3 DEF Boards!IInv, Boards!RepliesAreTrue

\* A card as an agent may make it, and one agent's change of one card.
CardRecord == [status : {"absent", "ready", "progress", "blocked", "done"},
               by : Agents \cup {"none"}, at : Nat, failures : 0 .. BoardFailures]
HasNone(k) == k.status \in {"absent", "ready", "done"} => k.by = "none"
WorkRecord == {Boards!Resting} \cup [card : Cards, since : Nat]

\* An agent that is not resting is on a card, and one that is on none rests.
LEMMA WorkersWork ==
  ASSUME Boards!TypeOK, NEW a \in Agents
  PROVE  /\ worker[a] # Boards!Resting => worker[a].card \in Cards /\ worker[a].since \in Nat
         /\ worker[a] = Boards!Resting => worker[a].card \notin Cards
         /\ worker[a].since \in Nat
BY NamesAssumption DEF Boards!TypeOK, Boards!Resting


\* An agent works on a card as it is, or came to it a threshold ago.
Works(w, a, k) ==
  \/ k.status = "progress" /\ k.by = a /\ k.at = w.since
  \/ boardNow - w.since >= StaleAfter

\* One card changes, and agents come to it or leave.
LEMMA BoardMoves ==
  ASSUME Boards!TypeOK, Boards!HoldersAreFresh, Boards!FreeCardsHaveNone, Boards!RepliesAreTrue,
         NEW c \in Cards, NEW k \in CardRecord, HasNone(k), card' = [card EXCEPT ![c] = k],
         worker' \in [Agents -> WorkRecord],
         meddled \subseteq meddled', meddled' \subseteq Cards, UNCHANGED <<boardNow, board, told>>,
         \A b \in Agents :
           /\ worker'[b].card \in Cards \ {c} => worker'[b] = worker[b]
           /\ worker'[b].card = c /\ c \notin meddled' => Works(worker'[b], b, k)
  PROVE  Boards!IInv'
<1>1. Boards!TypeOK'
  BY DEF Boards!TypeOK, CardRecord, WorkRecord
<1>2. Boards!FreeCardsHaveNone'
  BY DEF Boards!FreeCardsHaveNone, HasNone, Boards!TypeOK
<1>3. Boards!RepliesAreTrue'
  BY DEF Boards!RepliesAreTrue
<1>4. Boards!HoldersAreFresh'
  <2> SUFFICES ASSUME NEW d \in Cards, d \notin meddled', NEW b \in Agents, worker'[b].card = d
               PROVE  \/ card'[d].status = "progress" /\ card'[d].by = b /\ card'[d].at = worker'[b].since
                      \/ boardNow' - worker'[b].since >= StaleAfter
    BY DEF Boards!HoldersAreFresh
  <2>1. DOMAIN card = Cards /\ boardNow' = boardNow /\ d \notin meddled
    BY DEF Boards!TypeOK
  <2>2. CASE d = c
    BY <2>1, <2>2 DEF Works
  <2>3. CASE d # c
    <3>1. worker'[b] = worker[b] /\ card'[d] = card[d]
      BY <2>1, <2>3
    <3> QED BY <2>1, <3>1 DEF Boards!HoldersAreFresh
  <2> QED BY <2>2, <2>3
<1> QED BY <1>1, <1>2, <1>3, <1>4 DEF Boards!IInv

\* ... and in every step.
LEMMA BoardsStay == Boards!IInv /\ [Boards!Next]_(Boards!vars) => Boards!IInv'
<1> SUFFICES ASSUME Boards!IInv, [Boards!Next]_(Boards!vars) PROVE Boards!IInv'
  OBVIOUS
<1>0. /\ Boards!TypeOK /\ Boards!HoldersAreFresh /\ Boards!FreeCardsHaveNone /\ Boards!RepliesAreTrue
      /\ DOMAIN card = Cards /\ DOMAIN worker = Agents /\ boardNow \in Nat /\ meddled \subseteq Cards
  BY DEF Boards!IInv, Boards!TypeOK
<1>c. \A c \in Cards : card[c] \in CardRecord /\ HasNone(card[c])
  BY <1>0 DEF Boards!TypeOK, CardRecord, Boards!FreeCardsHaveNone, HasNone
<1>r. /\ Boards!Resting \in WorkRecord /\ Boards!Resting.card \notin Cards
      /\ Boards!Absent \in CardRecord /\ HasNone(Boards!Absent)
  BY NamesAssumption, CountsAssumption DEF Boards!Resting, WorkRecord, Boards!Absent, CardRecord, HasNone
<1>w. worker \in [Agents -> WorkRecord]
  BY <1>0 DEF Boards!TypeOK, WorkRecord
<1> USE DEF Boards!tasks, Boards!kanban
<1>1. CASE Boards!Tick
  <2>1. boardNow' \in Nat /\ boardNow' >= boardNow /\ UNCHANGED <<card, worker, meddled, board, told>>
    BY <1>0, <1>1 DEF Boards!Tick
  <2>2. Boards!TypeOK' /\ Boards!FreeCardsHaveNone' /\ Boards!RepliesAreTrue'
    BY <1>0, <2>1 DEF Boards!TypeOK, Boards!FreeCardsHaveNone, Boards!RepliesAreTrue
  <2>3. Boards!HoldersAreFresh'
    <3>1. \A a \in Agents : boardNow - worker[a].since >= StaleAfter => boardNow' - worker[a].since >= StaleAfter
      BY <1>0, <2>1, WorkersWork, CountsAssumption
    <3> QED BY <1>0, <2>1, <3>1 DEF Boards!HoldersAreFresh
  <2> QED BY <2>2, <2>3 DEF Boards!IInv
<1>2. CASE UNCHANGED Boards!vars
  BY <1>0, <1>2 DEF Boards!vars, Boards!IInv, Boards!TypeOK, Boards!HoldersAreFresh, Boards!FreeCardsHaveNone,
                    Boards!RepliesAreTrue
\* Whoever works on a card that changes hands has been there a threshold, unless it was
\* his.
<1>o. ASSUME NEW b \in Agents, NEW c \in Cards \ meddled, worker[b].card = c,
             card[c].status # "progress" \/ card[c].by # b \/ boardNow - card[c].at >= StaleAfter
      PROVE  boardNow - worker[b].since >= StaleAfter
  BY <1>0, <1>o DEF Boards!HoldersAreFresh
\* An agent comes to work on a card.
<1>a. ASSUME NEW a \in Agents, NEW c \in Cards, card' = [card EXCEPT ![c] = Boards!Held(c, a, card[c].failures)],
             Boards!Takes(a, c), UNCHANGED <<boardNow, board, told, meddled>>,
             card[c].status # "progress" \/ boardNow - card[c].at >= StaleAfter
      PROVE  Boards!IInv'
  <2>1. PICK k : k = Boards!Held(c, a, card[c].failures)
    OBVIOUS
  <2>2. PICK w : w = [card |-> c, since |-> boardNow]
    OBVIOUS
  <2>3. k \in CardRecord /\ HasNone(k) /\ k.status = "progress" /\ k.by = a /\ k.at = boardNow
    BY <1>0, <1>c, <2>1 DEF Boards!Held, CardRecord, HasNone
  <2>4. w \in WorkRecord /\ w.card = c /\ w.since = boardNow /\ worker' = [worker EXCEPT ![a] = w]
    BY <1>0, <1>a, <2>2 DEF Boards!Takes, WorkRecord
  <2>5. worker' \in [Agents -> WorkRecord] /\ worker'[a] = w /\ \A b \in Agents \ {a} : worker'[b] = worker[b]
    BY <1>0, <1>w, <2>4
  <2>6. ASSUME NEW b \in Agents, worker'[b].card = c, c \notin meddled PROVE Works(worker'[b], b, k)
    <3>1. CASE b = a
      BY <2>3, <2>4, <2>5, <3>1 DEF Works
    <3>2. CASE b # a
      BY <1>a, <1>o, <2>5, <2>6, <3>2 DEF Works
    <3> QED BY <3>1, <3>2
  <2>7. card' = [card EXCEPT ![c] = k]
    BY <1>a, <2>1
  <2>8. worker'[a].card \notin Cards \ {c}
    BY <2>4, <2>5
  <2> HIDE DEF WorkRecord, CardRecord
  <2> QED BY <1>0, <1>a, <2>3, <2>5, <2>6, <2>7, <2>8, BoardMoves
\* An agent acts on the card it works on.
<1>b. ASSUME NEW a \in Agents, NEW k \in CardRecord, HasNone(k), worker[a] # Boards!Resting,
             Boards!Acts(a, k),
             \/ Boards!Rest(a)
             \/ /\ UNCHANGED worker
                /\ LET c == worker[a].card IN
                     k.status = card[c].status /\ k.by = card[c].by /\ k.at = card[c].at
      PROVE  Boards!IInv'
  <2>1. PICK c \in Cards : c = worker[a].card
    BY <1>0, <1>b, WorkersWork
  <2>2. /\ card' = [card EXCEPT ![c] = k] /\ UNCHANGED <<boardNow, board, told>>
        /\ meddled' = IF card[c].by = a THEN meddled ELSE meddled \cup {c}
    BY <1>b, <2>1 DEF Boards!Acts
  <2>3. /\ worker' \in [Agents -> WorkRecord] /\ \A b \in Agents \ {a} : worker'[b] = worker[b]
        /\ \/ worker'[a] = Boards!Resting
           \/ worker'[a] = worker[a] /\ k.status = card[c].status /\ k.by = card[c].by /\ k.at = card[c].at
    <3>1. CASE Boards!Rest(a)
      BY <1>0, <1>r, <1>w, <3>1 DEF Boards!Rest
    <3>2. CASE UNCHANGED worker /\ k.status = card[c].status /\ k.by = card[c].by /\ k.at = card[c].at
      BY <1>w, <3>2
    <3> QED BY <1>b, <2>1, <3>1, <3>2
  <2>4. ASSUME NEW b \in Agents, worker'[b].card = c, c \notin meddled' PROVE Works(worker'[b], b, k)
    <3>1. c \notin meddled /\ card[c].by = a
      BY <2>2, <2>4
    <3>2. CASE b = a
      <4>1. worker'[a] = worker[a] /\ k.status = card[c].status /\ k.by = card[c].by /\ k.at = card[c].at
        BY <1>r, <2>3, <2>4, <3>2
      <4> QED BY <1>0, <2>1, <3>1, <3>2, <4>1 DEF Boards!HoldersAreFresh, Works
    <3>3. CASE b # a
      BY <1>o, <2>3, <2>4, <3>1, <3>3 DEF Works
    <3> QED BY <3>2, <3>3
  <2>5. \A b \in Agents : worker'[b].card \in Cards \ {c} => worker'[b] = worker[b]
    BY <1>r, <2>3
  <2>6. meddled \subseteq meddled' /\ meddled' \subseteq Cards
    BY <1>0, <2>2
  <2> HIDE DEF WorkRecord, CardRecord
  <2> QED BY <1>0, <1>b, <2>2, <2>3, <2>4, <2>5, <2>6, BoardMoves
\* A card nobody has changes by itself.
<1>d. ASSUME NEW c \in Cards, NEW k \in CardRecord, HasNone(k), card' = [card EXCEPT ![c] = k],
             card[c].status # "progress", UNCHANGED <<worker, boardNow, meddled, board, told>>
      PROVE  Boards!IInv'
  <2>1. ASSUME NEW b \in Agents, worker'[b].card = c, c \notin meddled' PROVE Works(worker'[b], b, k)
    BY <1>d, <1>o, <2>1 DEF Works
  <2>2. worker' \in [Agents -> WorkRecord] /\ worker' = worker /\ meddled' = meddled
    BY <1>0, <1>d, <1>w
  <2> HIDE DEF WorkRecord, CardRecord
  <2> QED BY <1>0, <1>d, <2>1, <2>2, BoardMoves
<1>3. ASSUME NEW c \in Cards, Boards!AddTask(c) PROVE Boards!IInv'
  <2>1. PICK k : k = [card[c] EXCEPT !.status = "ready"]
    OBVIOUS
  <2>2. card[c].by = "none"
    BY <1>0, <1>3 DEF Boards!AddTask, Boards!FreeCardsHaveNone
  <2>3. k \in CardRecord /\ HasNone(k)
    BY <1>c, <2>1, <2>2 DEF CardRecord, HasNone
  <2>4. card' = [card EXCEPT ![c] = k]
    BY <1>3, <2>1 DEF Boards!AddTask
  <2> QED BY <1>3, <1>d, <2>3, <2>4 DEF Boards!AddTask
<1>4. ASSUME NEW c \in Cards, Boards!Unblock(c) PROVE Boards!IInv'
  <2>1. PICK k : k = [Boards!Absent EXCEPT !.status = "ready", !.failures = card[c].failures]
    OBVIOUS
  <2>2. k \in CardRecord /\ HasNone(k)
    BY <1>c, <2>1 DEF CardRecord, HasNone, Boards!Absent
  <2>3. card' = [card EXCEPT ![c] = k]
    BY <1>4, <2>1 DEF Boards!Unblock
  <2> QED BY <1>4, <1>d, <2>2, <2>3 DEF Boards!Unblock
<1>5. ASSUME NEW a \in Agents, NEW c \in Cards, Boards!Claim(a, c) PROVE Boards!IInv'
  BY <1>5, <1>a DEF Boards!Claim
<1>6. ASSUME NEW a \in Agents, NEW c \in Cards, Boards!ReclaimStale(a, c) PROVE Boards!IInv'
  BY <1>6, <1>a DEF Boards!ReclaimStale, Boards!Stale
<1>7. ASSUME NEW a \in Agents, Boards!Release(a) PROVE Boards!IInv'
  <2>1. PICK k : k = [Boards!Absent EXCEPT !.status = "ready", !.failures = card[worker[a].card].failures]
    OBVIOUS
  <2>2. worker[a].card \in Cards
    BY <1>0, <1>7, WorkersWork DEF Boards!Release
  <2>3. k \in CardRecord /\ HasNone(k)
    BY <1>c, <2>1, <2>2 DEF CardRecord, HasNone, Boards!Absent
  <2> QED BY <1>7, <1>b, <2>1, <2>3 DEF Boards!Release
<1>8. ASSUME NEW a \in Agents, Boards!Promote(a) PROVE Boards!IInv'
  <2>1. PICK k : k = [Boards!Absent EXCEPT !.status = "done"]
    OBVIOUS
  <2>2. k \in CardRecord /\ HasNone(k)
    BY <2>1, CountsAssumption DEF CardRecord, HasNone, Boards!Absent
  <2> QED BY <1>8, <1>b, <2>1, <2>2 DEF Boards!Promote
<1>9. ASSUME NEW a \in Agents, Boards!RecordFailure(a) PROVE Boards!IInv'
  <2>1. PICK c \in Cards : c = worker[a].card
    BY <1>0, <1>9, WorkersWork DEF Boards!RecordFailure
  <2>2. PICK n : n = IF card[c].failures < BoardFailures THEN card[c].failures + 1 ELSE BoardFailures
    OBVIOUS
  <2>3. PICK status : status = IF n >= BoardFailures THEN "blocked" ELSE card[c].status
    OBVIOUS
  <2>4. PICK k : k = [card[c] EXCEPT !.failures = n, !.status = status]
    OBVIOUS
  <2>5. card[c] \in CardRecord /\ HasNone(card[c])
    BY <1>c
  <2>6. n \in 0 .. BoardFailures
    BY <2>2, <2>5, CountsAssumption DEF CardRecord
  <2>7. k \in CardRecord /\ k.status = status /\ k.by = card[c].by /\ k.at = card[c].at
    BY <2>3, <2>4, <2>5, <2>6 DEF CardRecord
  <2>8. HasNone(k)
    BY <2>3, <2>5, <2>7 DEF HasNone
  <2>9. /\ worker[a] # Boards!Resting /\ Boards!Acts(a, k)
        /\ IF n >= BoardFailures THEN Boards!Rest(a) ELSE UNCHANGED worker
    BY <1>9, <2>1, <2>2, <2>3, <2>4 DEF Boards!RecordFailure
  <2> HIDE DEF CardRecord
  <2> QED BY <1>b, <2>1, <2>3, <2>7, <2>8, <2>9
<1>10. ASSUME NEW a \in Agents, Boards!Die(a) PROVE Boards!IInv'
  <2>1. /\ worker' \in [Agents -> WorkRecord] /\ UNCHANGED <<card, boardNow, meddled, board, told>>
        /\ \A b \in Agents : worker'[b] = Boards!Resting \/ worker'[b] = worker[b]
    BY <1>0, <1>10, <1>r, <1>w DEF Boards!Die, Boards!Rest
  <2>2. Boards!TypeOK' /\ Boards!FreeCardsHaveNone' /\ Boards!RepliesAreTrue'
    BY <1>0, <2>1 DEF Boards!TypeOK, Boards!FreeCardsHaveNone, Boards!RepliesAreTrue, WorkRecord
  <2>3. Boards!HoldersAreFresh'
    BY <1>0, <1>r, <2>1 DEF Boards!HoldersAreFresh
  <2> QED BY <2>2, <2>3 DEF Boards!IInv
\* The session's board.
<1>u. ASSUME UNCHANGED <<card, worker, boardNow, meddled>>,
             board' \in Seq([name : Names, done : BOOLEAN]), Boards!RepliesAreTrue'
      PROVE  Boards!IInv'
  BY <1>0, <1>u DEF Boards!IInv, Boards!TypeOK, Boards!HoldersAreFresh, Boards!FreeCardsHaveNone
<1>11. ASSUME NEW n \in Names, Boards!Add(n) PROVE Boards!IInv'
  <2>1. PICK new \in [name : Names, done : BOOLEAN] : new = [name |-> n, done |-> FALSE]
    OBVIOUS
  <2>2. /\ board \in Seq([name : Names, done : BOOLEAN]) /\ board' = Append(board, new)
        /\ UNCHANGED <<told, card, worker, boardNow, meddled>>
    BY <1>0, <1>11, <2>1 DEF Boards!Add, Boards!TypeOK
  <2>3. /\ board' \in Seq([name : Names, done : BOOLEAN]) /\ DOMAIN board \subseteq DOMAIN board'
        /\ \A i \in DOMAIN board : board'[i] = board[i]
    BY <2>2, AppendProperties, LenProperties
  <2>4. Boards!RepliesAreTrue'
    BY <1>0, <2>2, <2>3 DEF Boards!RepliesAreTrue
  <2> QED BY <1>u, <2>2, <2>3, <2>4
<1>12. ASSUME NEW n \in Names, Boards!Complete(n) PROVE Boards!IInv'
  <2>1. PICK i \in DOMAIN board : /\ board[i].name = n /\ board' = [board EXCEPT ![i].done = TRUE]
                                  /\ told' = told \cup {n} /\ UNCHANGED <<card, worker, boardNow, meddled>>
    BY <1>12 DEF Boards!Complete, Boards!Named
  <2>2. board \in Seq([name : Names, done : BOOLEAN])
    BY <1>0 DEF Boards!TypeOK
  <2>3. PICK new : new = [board[i] EXCEPT !.done = TRUE]
    OBVIOUS
  <2>4. board[i] \in [name : Names, done : BOOLEAN]
    BY <2>2, ElementOfSeq, LenProperties
  <2>5. new \in [name : Names, done : BOOLEAN] /\ new.name = n /\ new.done
    BY <2>1, <2>3, <2>4
  <2>6. board' = [board EXCEPT ![i] = new]
    BY <2>1, <2>3
  <2>7. /\ board' \in Seq([name : Names, done : BOOLEAN]) /\ DOMAIN board' = DOMAIN board /\ board'[i] = new
        /\ \A j \in DOMAIN board : j # i => board'[j] = board[j]
    BY <2>2, <2>5, <2>6, ExceptSeq
  <2>8. Boards!RepliesAreTrue'
    BY <1>0, <2>1, <2>5, <2>7 DEF Boards!RepliesAreTrue
  <2> QED BY <1>u, <2>1, <2>7, <2>8
<1> QED BY <1>1, <1>2, <1>3, <1>4, <1>5, <1>6, <1>7, <1>8, <1>9, <1>10, <1>11, <1>12
        DEF Boards!Next, Boards!KanbanNext

\* It implies what is checked of the boards.
LEMMA BoardsAreKept == Boards!IInv => Boards!BoardsAreTrue
<1> SUFFICES ASSUME Boards!IInv, NEW c \in Cards \ meddled PROVE
      /\ \A a, b \in Agents : Boards!Fresh(a, c) /\ Boards!Fresh(b, c) => a = b
      /\ \A a \in Agents : Boards!Fresh(a, c) => card[c].status = "progress" /\ card[c].by = a
      /\ card[c].status \in {"ready", "done"} => card[c].by = "none"
  BY DEF Boards!IInv, Boards!BoardsAreTrue, Boards!ClaimsAreExclusive
<1>1. ASSUME NEW a \in Agents, Boards!Fresh(a, c) PROVE card[c].status = "progress" /\ card[c].by = a
  <2>1. worker[a].since \in Nat /\ boardNow \in Nat
    BY WorkersWork DEF Boards!IInv, Boards!TypeOK
  <2> QED BY <1>1, <2>1, CountsAssumption DEF Boards!Fresh, Boards!IInv, Boards!HoldersAreFresh
<1> QED BY <1>1 DEF Boards!IInv, Boards!FreeCardsHaveNone

-------------------------------------------------------------------------------
(* Cron.                                                                     *)

\* CronJobs counts with the Cardinality the theorems on finite sets are about.
LEMMA CronCounts == \A S : Cron!Cardinality(S) = Cardinality(S)
BY DEF Cron!Cardinality, Cardinality

CronPlace == {Cron!Idle} \cup [at : {"taken", "running"}, job : Jobs]

\* The runs of a job are as many as there are runners, at most.
LEMMA RunsAreRunners ==
  ASSUME NEW j
  PROVE  /\ IsFiniteSet(Cron!RunsOf(j)) /\ Cardinality(Cron!RunsOf(j)) \in Nat
         /\ Cardinality(Runners) \in Nat /\ Cardinality(Cron!RunsOf(j)) <= Cardinality(Runners)
<1>1. Cron!RunsOf(j) \subseteq Runners
  BY DEF Cron!RunsOf
<1> QED BY <1>1, CountsAssumption, FS_Subset, FS_CardinalityType

\* One that rests is not among them.
LEMMA RunsLeaveOut ==
  ASSUME NEW j, NEW r \in Runners, r \notin Cron!RunsOf(j)
  PROVE  Cardinality(Cron!RunsOf(j)) + 1 <= Cardinality(Runners)
<1>1. Cron!RunsOf(j) \cup {r} \subseteq Runners
  BY DEF Cron!RunsOf
<1>2. Cardinality(Cron!RunsOf(j) \cup {r}) = Cardinality(Cron!RunsOf(j)) + 1
  BY RunsAreRunners, FS_AddElement
<1> QED BY <1>1, <1>2, CountsAssumption, FS_Subset

\* A runner takes a job up or puts one down.
LEMMA RunnerMoves ==
  ASSUME DOMAIN runner = Runners, NEW r \in Runners, NEW new, runner' = [runner EXCEPT ![r] = new], NEW j
  PROVE  /\ (new.job = j <=> runner[r].job = j) => Cron!RunsOf(j)' = Cron!RunsOf(j)
         /\ new.job = j /\ runner[r].job # j =>
              Cardinality(Cron!RunsOf(j)') = Cardinality(Cron!RunsOf(j)) + 1
         /\ new.job # j /\ runner[r].job = j =>
              Cardinality(Cron!RunsOf(j)') = Cardinality(Cron!RunsOf(j)) - 1
<1> DEFINE R == Cron!RunsOf(j)
<1>1. IsFiniteSet(R) /\ (r \in R <=> runner[r].job = j)
  BY RunsAreRunners DEF Cron!RunsOf
<1>2. (new.job = j <=> runner[r].job = j) => R' = R
  BY DEF Cron!RunsOf
<1>3. CASE new.job = j /\ runner[r].job # j
  <2>1. R' = R \cup {r}
    BY <1>3 DEF Cron!RunsOf
  <2> QED BY <1>1, <1>3, <2>1, FS_AddElement
<1>4. CASE new.job # j /\ runner[r].job = j
  <2>1. R' = R \ {r}
    BY <1>4 DEF Cron!RunsOf
  <2> QED BY <1>1, <1>4, <2>1, FS_RemoveElement
<1> QED BY <1>2, <1>3, <1>4

\* The inductive invariant of the jobs: at the start ...
LEMMA CronStarts == Cron!Init => Cron!IInv
<1> SUFFICES ASSUME Cron!Init PROVE Cron!IInv
  OBVIOUS
<1> USE DEF Cron!Init
<1>1. Cron!TypeOK
  BY DEF Cron!TypeOK, Cron!Absent, Cron!Idle, Cron!JobRecord
<1>2. Cron!CountsKeepUp
  BY DEF Cron!CountsKeepUp, Cron!Absent
<1>3. Cron!RunsAreBounded
  <2> SUFFICES ASSUME NEW j \in Jobs
               PROVE  0 + Cardinality(Cron!RunsOf(j)) <= CronFailures + Cardinality(Runners) - 1
    BY CronCounts DEF Cron!RunsAreBounded
  <2> QED BY RunsAreRunners, CountsAssumption
<1> QED BY <1>1, <1>2, <1>3 DEF Cron!IInv

\* A count started anew leaves room for every run there is.
LEMMA NewCountsFit ==
  ASSUME NEW j PROVE 0 + Cardinality(Cron!RunsOf(j)) <= CronFailures + Cardinality(Runners) - 1
BY RunsAreRunners, CountsAssumption

\* ... and in every step.
LEMMA CronStays == Cron!IInv /\ [Cron!Next]_(Cron!vars) => Cron!IInv'
<1> SUFFICES ASSUME Cron!IInv, [Cron!Next]_(Cron!vars) PROVE Cron!IInv'
  OBVIOUS
<1> DEFINE Bound(n, S) == n + Cardinality(S) <= CronFailures + Cardinality(Runners) - 1
           Keeps(k, n) == k.there => /\ n <= k.failures \/ k.failures >= CronFailures
                                     /\ n >= CronFailures => ~k.enabled
<1>0. /\ jobs \in [Jobs -> Cron!JobRecord] /\ fails \in [Jobs -> Nat]
      /\ runner \in [Runners -> CronPlace]
      /\ saving \subseteq [Jobs -> Cron!JobRecord] /\ disk \subseteq [Jobs -> Cron!JobRecord]
      /\ \A j \in Jobs : Bound(fails[j], Cron!RunsOf(j)) /\ Keeps(jobs[j], fails[j])
  BY CronCounts DEF Cron!IInv, Cron!TypeOK, Cron!RunsAreBounded, Cron!CountsKeepUp, CronPlace
<1>i. ASSUME /\ jobs' \in [Jobs -> Cron!JobRecord] /\ fails' \in [Jobs -> Nat]
             /\ runner' \in [Runners -> CronPlace]
             /\ saving' \subseteq [Jobs -> Cron!JobRecord] /\ disk' \subseteq [Jobs -> Cron!JobRecord],
             \A j \in Jobs : Bound(fails'[j], Cron!RunsOf(j)') /\ Keeps(jobs'[j], fails'[j])
      PROVE  Cron!IInv'
  BY <1>i, CronCounts DEF Cron!IInv, Cron!TypeOK, Cron!RunsAreBounded, Cron!CountsKeepUp, CronPlace
<1>t. DOMAIN runner = Runners
  BY <1>0
<1>a. Cron!Absent \in Cron!JobRecord /\ Cron!New \in Cron!JobRecord /\ ~Cron!Absent.there
  BY DEF Cron!Absent, Cron!New, Cron!JobRecord
<1>r. UNCHANGED runner => \A j : Cron!RunsOf(j)' = Cron!RunsOf(j)
  BY DEF Cron!RunsOf
<1>n. \A j : Bound(0, Cron!RunsOf(j)) /\ Bound(0, Cron!RunsOf(j)')
  <2>1. \A j : Bound(0, Cron!RunsOf(j))
    BY NewCountsFit
  <2>2. \A j : IsFiniteSet(Cron!RunsOf(j)') /\ Cron!RunsOf(j)' \subseteq Runners
    BY CountsAssumption, FS_Subset DEF Cron!RunsOf
  <2>3. \A j : Cardinality(Cron!RunsOf(j)') <= Cardinality(Runners) /\ Cardinality(Cron!RunsOf(j)') \in Nat
    BY <2>2, CountsAssumption, FS_Subset, FS_CardinalityType
  <2>4. Cardinality(Runners) \in Nat
    BY CountsAssumption, FS_CardinalityType
  <2>5. \A j : Bound(0, Cron!RunsOf(j)')
    BY <2>3, <2>4, CountsAssumption
  <2> QED BY <2>1, <2>5
<1>k. \A k \in Cron!JobRecord : Keeps(k, 0)
  BY CountsAssumption DEF Cron!JobRecord
\* An operator's change.
<1>o. ASSUME NEW j \in Jobs, NEW k \in Cron!JobRecord, Cron!Operates(j, k) PROVE Cron!IInv'
  <2>1. /\ jobs' = [jobs EXCEPT ![j] = k] /\ fails' = [fails EXCEPT ![j] = 0] /\ UNCHANGED <<runner, saving, disk>>
    BY <1>o DEF Cron!Operates
  <2>2. jobs' \in [Jobs -> Cron!JobRecord] /\ fails' \in [Jobs -> Nat]
    BY <1>0, <2>1
  <2>3. Keeps(k, 0)
    BY <1>k
  <2> HIDE DEF Bound, Keeps
  <2>4. \A i \in Jobs : Bound(fails'[i], Cron!RunsOf(i)') /\ Keeps(jobs'[i], fails'[i])
    BY <1>0, <1>n, <1>r, <2>1, <2>3
  <2> QED BY <1>0, <1>i, <2>1, <2>2, <2>4
<1>1. ASSUME NEW j \in Jobs, Cron!AddJob(j) \/ Cron!RemoveJob(j) \/ Cron!Enable(j) \/ Cron!Disable(j)
      PROVE  Cron!IInv'
  <2>1. jobs[j] \in Cron!JobRecord
    BY <1>0
  <2>2. \A b \in BOOLEAN : [jobs[j] EXCEPT !.enabled = b] \in Cron!JobRecord
    BY <2>1 DEF Cron!JobRecord
  <2> QED BY <1>1, <1>a, <1>o, <2>2 DEF Cron!AddJob, Cron!RemoveJob, Cron!Enable, Cron!Disable
<1>2. ASSUME NEW r \in Runners, NEW j \in Jobs, Cron!Take(r, j) PROVE Cron!IInv'
  <2>1. PICK new \in CronPlace : new = [at |-> "taken", job |-> j]
    BY DEF CronPlace
  <2>2. /\ runner' = [runner EXCEPT ![r] = new] /\ UNCHANGED <<jobs, saving, disk, fails>>
        /\ runner[r].job = "none" /\ jobs[j].there /\ jobs[j].enabled
    BY <1>2, <2>1 DEF Cron!Take, Cron!Idle
  <2>3. fails[j] < CronFailures /\ fails[j] \in Nat
    BY <1>0, <2>2, CountsAssumption
  <2>4. r \notin Cron!RunsOf(j)
    BY <2>2, NamesAssumption DEF Cron!RunsOf
  <2>n. new.job = j /\ \A i \in Jobs : runner[r].job # i
    BY <2>1, <2>2, NamesAssumption
  <2>5. Cardinality(Cron!RunsOf(j)') = Cardinality(Cron!RunsOf(j)) + 1
    BY <1>t, <2>n, <2>2, RunnerMoves
  <2>6. Bound(fails[j], Cron!RunsOf(j)')
    BY <2>3, <2>4, <2>5, RunsLeaveOut, RunsAreRunners, CountsAssumption
  <2>7. \A i \in Jobs \ {j} : Cron!RunsOf(i)' = Cron!RunsOf(i)
    BY <1>t, <2>n, <2>2, RunnerMoves
  <2>8. runner' \in [Runners -> CronPlace]
    BY <1>0, <2>2
  <2> HIDE DEF Bound, Keeps
  <2> QED BY <1>0, <1>i, <2>2, <2>6, <2>7, <2>8
\* A runner that puts its job down.
<1>d. ASSUME NEW r \in Runners, NEW j \in Jobs, j = runner[r].job, runner' = [runner EXCEPT ![r] = Cron!Idle]
      PROVE  /\ runner' \in [Runners -> CronPlace]
             /\ Cardinality(Cron!RunsOf(j)') = Cardinality(Cron!RunsOf(j)) - 1
             /\ \A i \in Jobs \ {j} : Cron!RunsOf(i)' = Cron!RunsOf(i)
             /\ \A i \in Jobs : Bound(fails[i], Cron!RunsOf(i)')
  <2>1. Cron!Idle.job = "none" /\ Cron!Idle \in CronPlace
    BY DEF Cron!Idle, CronPlace
  <2>2. runner' \in [Runners -> CronPlace]
    BY <1>0, <1>d, <2>1
  <2>3. Cardinality(Cron!RunsOf(j)') = Cardinality(Cron!RunsOf(j)) - 1
    BY <1>t, <1>d, <2>1, NamesAssumption, RunnerMoves
  <2>4. \A i \in Jobs \ {j} : Cron!RunsOf(i)' = Cron!RunsOf(i)
    BY <1>t, <1>d, <2>1, NamesAssumption, RunnerMoves
  <2>5. fails[j] \in Nat /\ Bound(fails[j], Cron!RunsOf(j))
    BY <1>0, <1>d
  <2>6. Bound(fails[j], Cron!RunsOf(j)')
    BY <2>3, <2>5, RunsAreRunners, CountsAssumption
  <2> HIDE DEF Bound
  <2> QED BY <1>0, <2>2, <2>3, <2>4, <2>6
<1>3. ASSUME NEW r \in Runners, NEW p \in Payloads, Cron!CheckPayload(r, p) PROVE Cron!IInv'
  <2>1. PICK j \in Jobs : j = runner[r].job /\ runner[r].at = "taken" /\ runner[r] \in [at : {"taken", "running"}, job : Jobs]
    BY <1>0, <1>3 DEF Cron!CheckPayload, CronPlace, Cron!Idle
  <2>2. CASE runner' = [runner EXCEPT ![r] = Cron!Idle] /\ UNCHANGED jobs
    <3>1. UNCHANGED <<saving, disk, fails>>
      BY <1>3 DEF Cron!CheckPayload
    <3> HIDE DEF Bound, Keeps
    <3> QED BY <1>0, <1>d, <1>i, <2>1, <2>2, <3>1
  <2>3. CASE jobs' = [jobs EXCEPT ![j].hash = p] /\ runner' = [runner EXCEPT ![r].at = "running"]
    <3>1. PICK new : new = [runner[r] EXCEPT !.at = "running"]
      OBVIOUS
    <3>2. new \in CronPlace /\ new.job = j
      BY <2>1, <3>1 DEF CronPlace
    <3>3. runner' = [runner EXCEPT ![r] = new]
      BY <2>3, <3>1
    <3>4. \A i \in Jobs : Cron!RunsOf(i)' = Cron!RunsOf(i)
      <4> SUFFICES ASSUME NEW i \in Jobs PROVE Cron!RunsOf(i)' = Cron!RunsOf(i)
        OBVIOUS
      <4>1. new.job = i <=> runner[r].job = i
        BY <2>1, <3>2
      <4> QED BY <1>t, <3>3, <4>1, RunnerMoves
    <3>5. PICK k : k = [jobs[j] EXCEPT !.hash = p]
      OBVIOUS
    <3>6. /\ k \in Cron!JobRecord /\ k.there = jobs[j].there /\ k.enabled = jobs[j].enabled
          /\ k.failures = jobs[j].failures
      <4>1. jobs[j] \in Cron!JobRecord
        BY <1>0
      <4> QED BY <3>5, <4>1 DEF Cron!JobRecord
    <3>7. jobs' = [jobs EXCEPT ![j] = k]
      BY <2>3, <3>5
    <3>8. jobs' \in [Jobs -> Cron!JobRecord] /\ runner' \in [Runners -> CronPlace] /\ UNCHANGED <<saving, disk, fails>>
      BY <1>0, <1>3, <3>2, <3>3, <3>6, <3>7 DEF Cron!CheckPayload
    <3>9. Keeps(k, fails[j])
      BY <1>0, <3>6
    <3> HIDE DEF Bound, Keeps
    <3> QED BY <1>0, <1>i, <3>4, <3>7, <3>8, <3>9
  <2> QED BY <1>3, <2>1, <2>2, <2>3 DEF Cron!CheckPayload
<1>4. ASSUME NEW r \in Runners, NEW success \in BOOLEAN, Cron!RecordRun(r, success) PROVE Cron!IInv'
  <2>1. PICK j \in Jobs : j = runner[r].job
    BY <1>0, <1>4 DEF Cron!RecordRun, CronPlace, Cron!Idle
  <2>2. runner' = [runner EXCEPT ![r] = Cron!Idle] /\ UNCHANGED <<saving, disk>>
    BY <1>4 DEF Cron!RecordRun
  <2>3. CASE UNCHANGED <<jobs, fails>>
    <3> HIDE DEF Bound, Keeps
    <3> QED BY <1>0, <1>d, <1>i, <2>1, <2>2, <2>3
  <2>4. CASE jobs[j].there /\ ~UNCHANGED <<jobs, fails>>
    <3>1. PICK n : n = IF success THEN 0
                       ELSE IF jobs[j].failures < CronFailures THEN jobs[j].failures + 1 ELSE CronFailures
      OBVIOUS
    <3>2. PICK on \in BOOLEAN : on = (jobs[j].enabled /\ (success \/ ~(n >= CronFailures)))
      OBVIOUS
    <3>3. PICK k : k = [jobs[j] EXCEPT !.failures = n, !.enabled = on]
      OBVIOUS
    <3>4. PICK m : m = IF success THEN 0 ELSE fails[j] + 1
      OBVIOUS
    <3>5. jobs' = [jobs EXCEPT ![j] = k] /\ fails' = [fails EXCEPT ![j] = m]
      BY <1>4, <2>1, <2>4, <3>1, <3>2, <3>3, <3>4 DEF Cron!RecordRun, Cron!Broken
    <3>6. jobs[j] \in Cron!JobRecord /\ fails[j] \in Nat /\ n \in Nat /\ m \in Nat
      <4>1. jobs[j] \in Cron!JobRecord /\ fails[j] \in Nat
        BY <1>0
      <4> QED BY <3>1, <3>4, <4>1, CountsAssumption DEF Cron!JobRecord
    <3>7. k \in Cron!JobRecord /\ k.failures = n /\ k.enabled = on
      BY <3>3, <3>6 DEF Cron!JobRecord
    <3>8. Keeps(k, m)
      <4>1. jobs[j].failures \in Nat
        BY <3>6 DEF Cron!JobRecord
      <4> QED BY <1>0, <2>4, <3>1, <3>2, <3>4, <3>6, <3>7, <4>1, CountsAssumption
    <3>9. Bound(m, Cron!RunsOf(j)')
      <4>1. Bound(fails[j], Cron!RunsOf(j)) /\ Cardinality(Cron!RunsOf(j)') = Cardinality(Cron!RunsOf(j)) - 1
        BY <1>0, <1>d, <2>1, <2>2
      <4>2. m = 0 \/ m = fails[j] + 1
        BY <3>4
      <4>3. Bound(0, Cron!RunsOf(j)')
        BY <1>n
      <4>4. Cardinality(Cron!RunsOf(j)) \in Nat
        BY RunsAreRunners
      <4> QED BY <3>6, <4>1, <4>2, <4>3, <4>4, CountsAssumption
    <3>10. jobs' \in [Jobs -> Cron!JobRecord] /\ fails' \in [Jobs -> Nat]
      BY <1>0, <3>5, <3>6, <3>7
    <3> HIDE DEF Bound, Keeps
    <3>11. \A i \in Jobs : Bound(fails'[i], Cron!RunsOf(i)') /\ Keeps(jobs'[i], fails'[i])
      BY <1>0, <1>d, <2>1, <2>2, <3>5, <3>8, <3>9
    <3> QED BY <1>0, <1>d, <1>i, <2>1, <2>2, <3>10, <3>11
  <2> QED BY <1>4, <2>1, <2>3, <2>4 DEF Cron!RecordRun
<1>5. CASE Cron!List \/ Cron!Write \/ UNCHANGED Cron!vars
  <2>1. UNCHANGED <<jobs, runner, fails>> /\ saving' \subseteq [Jobs -> Cron!JobRecord] /\ disk' \subseteq [Jobs -> Cron!JobRecord]
    BY <1>0, <1>5 DEF Cron!List, Cron!Write, Cron!vars
  <2> HIDE DEF Bound, Keeps
  <2> QED BY <1>0, <1>i, <1>r, <2>1
<1>6. CASE Cron!Load
  <2>1. PICK saved \in disk :
          /\ jobs' = [j \in Jobs |-> IF saved[j].there THEN saved[j] ELSE jobs[j]]
          /\ fails' = [j \in Jobs |-> IF saved[j].there THEN 0 ELSE fails[j]]
    BY <1>6 DEF Cron!Load
  <2>2. saved \in [Jobs -> Cron!JobRecord]
    BY <1>0
  <2>3. jobs' \in [Jobs -> Cron!JobRecord] /\ fails' \in [Jobs -> Nat] /\ UNCHANGED <<runner, saving, disk>>
    BY <1>0, <1>6, <2>1, <2>2 DEF Cron!Load
  <2> HIDE DEF Bound, Keeps
  <2>4. \A i \in Jobs : Bound(fails'[i], Cron!RunsOf(i)') /\ Keeps(jobs'[i], fails'[i])
    BY <1>0, <1>k, <1>n, <1>r, <2>1, <2>2, <2>3
  <2> QED BY <1>0, <1>i, <2>3, <2>4
<1>7. CASE Cron!Crash
  <2>1. /\ jobs' = [j \in Jobs |-> Cron!Absent] /\ fails' = [j \in Jobs |-> 0]
        /\ runner' = [r \in Runners |-> Cron!Idle] /\ saving' = {}
        /\ disk' = disk \/ disk' = {Cron!Torn}
    BY <1>7 DEF Cron!Crash
  <2>2. Cron!Torn \in [Jobs -> Cron!JobRecord] /\ Cron!Idle \in CronPlace
    BY DEF Cron!Torn, Cron!Absent, Cron!JobRecord, CronPlace
  <2>3. /\ jobs' \in [Jobs -> Cron!JobRecord] /\ fails' \in [Jobs -> Nat] /\ runner' \in [Runners -> CronPlace]
        /\ saving' \subseteq [Jobs -> Cron!JobRecord] /\ disk' \subseteq [Jobs -> Cron!JobRecord]
    BY <1>0, <1>a, <2>1, <2>2
  <2> HIDE DEF Bound, Keeps
  <2> QED BY <1>a, <1>i, <1>k, <1>n, <2>1, <2>3
<1> QED BY <1>1, <1>2, <1>3, <1>4, <1>5, <1>6, <1>7 DEF Cron!Next

\* It implies the bounds on failing runs.
LEMMA CronIsKept == Cron!IInv => Cron!BreakerBounds
<1> SUFFICES ASSUME Cron!IInv, NEW j \in Jobs
             PROVE  /\ fails[j] <= CronFailures + Cardinality(Runners) - 1
                    /\ jobs[j].there /\ fails[j] >= CronFailures => ~jobs[j].enabled
  BY CronCounts DEF Cron!BreakerBounds
<1>1. fails[j] + Cardinality(Cron!RunsOf(j)) <= CronFailures + Cardinality(Runners) - 1 /\ fails[j] \in Nat
  BY CronCounts DEF Cron!IInv, Cron!RunsAreBounded, Cron!TypeOK
<1> QED BY <1>1, RunsAreRunners, CountsAssumption DEF Cron!IInv, Cron!CountsKeepUp

-------------------------------------------------------------------------------
(* The memory: what a search finds and a pack holds.                         *)

RowsOf(n) ==
  [id : 1..n, body : Memory!Stored, tags : Tags \cup {"none"}, by : {"tool", "insert", "distill"}]

\* What is left of a sequence when one place is removed.
LEMMA RemovedOne ==
  ASSUME NEW S, NEW s \in Seq(S), NEW i \in 1..Len(s)
  PROVE  /\ Memory!RemoveAt(s, i) \in Seq(S) /\ Len(Memory!RemoveAt(s, i)) = Len(s) - 1
         /\ \A k \in 1..(Len(s) - 1) : Memory!RemoveAt(s, i)[k] = IF k < i THEN s[k] ELSE s[k + 1]
<1> DEFINE a == SubSeq(s, 1, i - 1)
           b == SubSeq(s, i + 1, Len(s))
<1>1. Len(s) \in Nat /\ (\A k \in 1..Len(s) : s[k] \in S)
  BY LenProperties, ElementOfSeq
<1>2. /\ a \in Seq(S) /\ Len(a) = i - 1 /\ \A k \in 1..(i - 1) : a[k] = s[k]
  <2>1. 1 \in Int /\ i - 1 \in Int /\ \A k \in 1..(i - 1) : s[k] \in S
    BY <1>1
  <2>2. a \in Seq(S) /\ Len(a) = (IF 1 <= i - 1 THEN i - 1 - 1 + 1 ELSE 0)
        /\ \A k \in 1..(i - 1 - 1 + 1) : a[k] = s[1 + k - 1]
    BY <2>1, SubSeqProperties
  <2>3. (IF 1 <= i - 1 THEN i - 1 - 1 + 1 ELSE 0) = i - 1 /\ i - 1 - 1 + 1 = i - 1
        /\ \A k \in 1..(i - 1) : 1 + k - 1 = k
    BY <1>1
  <2> HIDE DEF a
  <2> QED BY <2>2, <2>3
<1>3. /\ b \in Seq(S) /\ Len(b) = Len(s) - i /\ \A k \in 1..(Len(s) - i) : b[k] = s[k + i]
  <2>1. i + 1 \in Int /\ Len(s) \in Int /\ \A k \in (i + 1)..Len(s) : s[k] \in S
    BY <1>1
  <2>2. b \in Seq(S) /\ Len(b) = (IF i + 1 <= Len(s) THEN Len(s) - (i + 1) + 1 ELSE 0)
        /\ \A k \in 1..(Len(s) - (i + 1) + 1) : b[k] = s[i + 1 + k - 1]
    BY <2>1, SubSeqProperties
  <2>3. (IF i + 1 <= Len(s) THEN Len(s) - (i + 1) + 1 ELSE 0) = Len(s) - i /\ Len(s) - (i + 1) + 1 = Len(s) - i
        /\ \A k \in 1..(Len(s) - i) : i + 1 + k - 1 = k + i
    BY <1>1
  <2> HIDE DEF b
  <2> QED BY <2>2, <2>3
<1>4. Memory!RemoveAt(s, i) = a \o b
  BY DEF Memory!RemoveAt
<1> HIDE DEF a, b
<1> DEFINE r == a \o b
<1>5. r \in Seq(S) /\ Len(r) = Len(a) + Len(b)
      /\ \A k \in 1..(Len(a) + Len(b)) : r[k] = IF k <= Len(a) THEN a[k] ELSE b[k - Len(a)]
  BY <1>2, <1>3, ConcatProperties
<1>6. Len(a) + Len(b) = Len(s) - 1
  BY <1>1, <1>2, <1>3
<1> HIDE DEF r
<1>7. ASSUME NEW k \in 1..(Len(s) - 1) PROVE r[k] = IF k < i THEN s[k] ELSE s[k + 1]
  <2>1. CASE k < i
    <3>1. k \in 1..(i - 1) /\ k <= i - 1
      BY <1>1, <2>1
    <3> QED BY <1>2, <1>5, <1>6, <2>1, <3>1
  <2>2. CASE ~ (k < i)
    <3>1. k - (i - 1) \in 1..(Len(s) - i) /\ ~ (k <= i - 1) /\ k - (i - 1) + i = k + 1
      BY <1>1, <2>2
    <3> QED BY <1>2, <1>3, <1>5, <1>6, <2>2, <3>1
  <2> QED BY <2>1, <2>2
<1>8. r \in Seq(S) /\ Len(r) = Len(s) - 1
  BY <1>5, <1>6
<1> QED BY <1>4, <1>7, <1>8 DEF r

\* The records by their places.
LEMMA MemoryShape ==
  ASSUME Memory!TypeOK
  PROVE  /\ made \in Nat /\ rows \in Seq(RowsOf(made)) /\ Len(rows) \in Nat /\ DOMAIN rows = 1..Len(rows)
         /\ \A i \in 1..Len(rows) : rows[i] \in RowsOf(made)
<1>1. made \in Nat /\ rows \in Seq(RowsOf(made))
  BY DEF Memory!TypeOK, RowsOf
<1> QED BY <1>1, LenProperties, ElementOfSeq

\* A search finds the newest records first.
LEMMA NewestAre ==
  ASSUME Memory!TypeOK, NEW n \in Nat
  PROVE  /\ Memory!Newest(n) \in Seq(RowsOf(made))
         /\ Len(Memory!Newest(n)) <= n /\ Len(Memory!Newest(n)) <= Len(rows)
         /\ \A i \in 1..Len(Memory!Newest(n)) : Memory!Newest(n)[i] = rows[Len(rows) + 1 - i]
<1> DEFINE rev == Memory!Reverse(rows)
           len == IF Len(rows) < n THEN Len(rows) ELSE n
           S == RowsOf(made)
<1>1. Len(rows) \in Nat /\ \A i \in 1..Len(rows) : rows[i] \in S
  BY MemoryShape
<1> HIDE DEF S
<1>2. rev = [i \in 1..Len(rows) |-> rows[(Len(rows) - i) + 1]]
  BY DEF Memory!Reverse
<1>3. ASSUME NEW i \in 1..Len(rows) PROVE rev[i] = rows[Len(rows) + 1 - i] /\ rev[i] \in S
  <2>1. (Len(rows) - i) + 1 = Len(rows) + 1 - i /\ Len(rows) + 1 - i \in 1..Len(rows)
    BY <1>1
  <2> QED BY <1>1, <1>2, <2>1
<1>4. len \in Nat /\ len <= n /\ len <= Len(rows)
  BY <1>1
<1>5. Memory!Newest(n) = SubSeq(rev, 1, len)
  BY DEF Memory!Newest
<1> HIDE DEF len, rev
<1>6. 1 \in Int /\ len \in Int /\ \A i \in 1..len : rev[i] \in S
  BY <1>1, <1>3, <1>4
<1>7. SubSeq(rev, 1, len) \in Seq(S) /\ Len(SubSeq(rev, 1, len)) = (IF 1 <= len THEN len - 1 + 1 ELSE 0)
      /\ \A i \in 1..(len - 1 + 1) : SubSeq(rev, 1, len)[i] = rev[1 + i - 1]
  BY <1>6, SubSeqProperties
<1>8. (IF 1 <= len THEN len - 1 + 1 ELSE 0) = len /\ len - 1 + 1 = len /\ \A i \in 1..len : 1 + i - 1 = i /\ i \in 1..Len(rows)
  BY <1>1, <1>4
<1>9. Memory!Newest(n) \in Seq(S) /\ Len(Memory!Newest(n)) = len
      /\ \A i \in 1..len : Memory!Newest(n)[i] = rows[Len(rows) + 1 - i]
  BY <1>3, <1>5, <1>7, <1>8
<1> QED BY <1>4, <1>9 DEF S

-------------------------------------------------------------------------------
(* A pack.                                                                    *)

Packs == [n : Nat, size : Nat, full : BOOLEAN]

IsFill(f, found) ==
  f = [n \in 0..Len(found) |->
         IF n = 0 THEN Memory!NothingPacked ELSE Memory!Fill(f[n - 1], Size[found[n].body])]

\* A record is added to a pack if it fits, and otherwise ends the pack.
LEMMA FillFits ==
  ASSUME NEW p \in Packs, NEW size \in Nat
  PROVE  /\ Memory!Fill(p, size) \in Packs
         /\ Memory!Fill(p, size).full => Memory!Fill(p, size).n = p.n /\ Memory!Fill(p, size).size = p.size
         /\ ~Memory!Fill(p, size).full =>
              /\ ~p.full /\ p.size + size <= PackChars
              /\ Memory!Fill(p, size).n = p.n + 1 /\ Memory!Fill(p, size).size = p.size + size
<1> DEFINE q == Memory!Fill(p, size)
<1>0. p.n \in Nat /\ p.size \in Nat /\ p.full \in BOOLEAN /\ PackChars \in Nat
  BY LengthsAssumption DEF Packs
<1>1. CASE p.full \/ p.size + size > PackChars
  <2>1. q = [p EXCEPT !.full = TRUE]
    BY <1>1 DEF Memory!Fill
  <2> HIDE DEF q
  <2>2. q \in Packs /\ q.n = p.n /\ q.size = p.size /\ q.full = TRUE
    BY <2>1 DEF Packs
  <2> QED BY <2>2 DEF q
<1>2. CASE ~ (p.full \/ p.size + size > PackChars)
  <2>1. q = [n |-> p.n + 1, size |-> p.size + size, full |-> FALSE]
    BY <1>2 DEF Memory!Fill
  <2>2. ~p.full /\ p.size + size <= PackChars
    BY <1>0, <1>2
  <2>3. p.n + 1 \in Nat /\ p.size + size \in Nat
    BY <1>0
  <2> HIDE DEF q
  <2>4. q \in Packs /\ q.n = p.n + 1 /\ q.size = p.size + size /\ q.full = FALSE
    BY <2>1, <2>3 DEF Packs
  <2> QED BY <2>2, <2>4 DEF q
<1> QED BY <1>1, <1>2

\* Filling takes, of what was found, a first part that fits.
LEMMA FilledIsFirstPart ==
  ASSUME NEW found \in Seq(RowsOf(made)), NEW w, NEW s,
         w = [i \in 1..Len(found) |-> Size[found[i].body]], w \in Seq(Nat), IsSums(s, w)
  PROVE  /\ Memory!Filled(found).n \in 0..Len(found)
         /\ s[Memory!Filled(found).n] <= PackChars
<1> DEFINE last == Len(found)
           f == CHOOSE g : IsFill(g, found)
           h == [p \in (1..last) \X Packs |-> Memory!Fill(p[2], w[p[1]])]
<1>1. last \in Nat /\ Len(w) = last /\ (\A i \in 1..last : w[i] \in Nat /\ w[i] = Size[found[i].body]) /\ PackChars \in Nat
  BY LenProperties, ElementOfSeq, LengthsAssumption
<1>2. Memory!Filled(found) = f[last]
  BY DEF Memory!Filled, IsFill
<1>3. Memory!NothingPacked \in Packs /\ Memory!NothingPacked.n = 0 /\ Memory!NothingPacked.size = 0 /\ ~Memory!NothingPacked.full
  BY DEF Memory!NothingPacked, Packs
<1> HIDE DEF last
<1>4. \E g : IsFill(g, found)
  <2>1. h \in [(1..last) \X Packs -> Packs]
    <3> SUFFICES ASSUME NEW p \in (1..last) \X Packs PROVE Memory!Fill(p[2], w[p[1]]) \in Packs
      OBVIOUS
    <3>1. p[2] \in Packs /\ p[1] \in 1..last
      OBVIOUS
    <3>2. w[p[1]] \in Nat
      BY <1>1, <3>1
    <3> QED BY <3>1, <3>2, FillFits
  <2>2. \A i \in 1..last, x \in Packs : h[<<i, x>>] = Memory!Fill(x, w[i])
    OBVIOUS
  <2> HIDE DEF h
  <2>3. PICK g \in [0..last -> Packs] : Solves(g, last, Memory!NothingPacked, h)
    BY <1>1, <1>3, <2>1, Recursion
  <2>4. ASSUME NEW n \in 0..last
        PROVE  g[n] = IF n = 0 THEN Memory!NothingPacked ELSE Memory!Fill(g[n - 1], Size[found[n].body])
    <3>1. CASE n = 0
      BY <2>3, <3>1 DEF Solves
    <3>2. CASE n # 0
      <4>1. n \in 1..last /\ n - 1 \in 0..last
        BY <1>1, <3>2
      <4>2. g[n - 1] \in Packs /\ g[n] = h[<<n, g[n - 1]>>] /\ w[n] = Size[found[n].body]
        BY <1>1, <2>3, <4>1 DEF Solves
      <4>3. g[n] = Memory!Fill(g[n - 1], w[n])
        BY <2>2, <4>1, <4>2
      <4> QED BY <3>2, <4>2, <4>3
    <3> QED BY <3>1, <3>2
  <2>5. g = [n \in 0..last |-> IF n = 0 THEN Memory!NothingPacked ELSE Memory!Fill(g[n - 1], Size[found[n].body])]
    BY <2>4
  <2> QED BY <2>5 DEF IsFill, last
<1>5. IsFill(f, found)
  BY <1>4
<1> HIDE DEF f, h
<1>6. \A n \in 0..last : f[n] = IF n = 0 THEN Memory!NothingPacked ELSE Memory!Fill(f[n - 1], Size[found[n].body])
  BY <1>5 DEF IsFill, last
<1>7. s \in [0..last -> Nat] /\ s[0] = 0 /\ \A i \in 1..last : s[i] = s[i - 1] + w[i]
  <2>1. s \in [0..Len(w) -> Nat] /\ s[0] = 0 /\ \A i \in 1..Len(w) : s[i] = s[i - 1] + w[i]
    BY SumsAreNat
  <2>2. Len(w) = last
    BY <1>1
  <2> QED BY <2>1, <2>2
<1> DEFINE Good(k) == /\ f[k] \in Packs /\ f[k].n \in 0..k /\ f[k].size = s[f[k].n] /\ f[k].size <= PackChars
                      /\ ~f[k].full => f[k].n = k
           S == {k \in 0..last : Good(k)}
<1>8. 0 \in S
  <2>1. 0 \in 0..last /\ 0 \in 0..0
    BY <1>1
  <2>2. f[0] = Memory!NothingPacked
    BY <1>6, <2>1
  <2>3. f[0] \in Packs /\ f[0].n = 0 /\ f[0].size = 0
    BY <1>3, <2>2
  <2> QED BY <1>1, <1>7, <2>1, <2>3
<1>9. ASSUME NEW k \in 1..last, k - 1 \in S PROVE k \in S
  <2>1. Good(k - 1)
    BY <1>9
  <2>2. k \in 0..last /\ k # 0 /\ k - 1 \in 0..last
    BY <1>1
  <2> DEFINE p == f[k - 1]
             q == f[k]
  <2>3. q = Memory!Fill(p, w[k])
    BY <1>1, <1>6, <2>2
  <2>4. p \in Packs /\ p.n \in 0..(k - 1) /\ p.size = s[p.n] /\ p.size <= PackChars /\ (~p.full => p.n = k - 1)
    BY <2>1
  <2> HIDE DEF p, q
  <2>5. w[k] \in Nat
    BY <1>1
  <2>6. /\ q \in Packs
        /\ q.full => q.n = p.n /\ q.size = p.size
        /\ ~q.full => /\ ~p.full /\ p.size + w[k] <= PackChars
                      /\ q.n = p.n + 1 /\ q.size = p.size + w[k]
    <3>1. /\ Memory!Fill(p, w[k]) \in Packs
          /\ Memory!Fill(p, w[k]).full => Memory!Fill(p, w[k]).n = p.n /\ Memory!Fill(p, w[k]).size = p.size
          /\ ~Memory!Fill(p, w[k]).full =>
               /\ ~p.full /\ p.size + w[k] <= PackChars
               /\ Memory!Fill(p, w[k]).n = p.n + 1 /\ Memory!Fill(p, w[k]).size = p.size + w[k]
      BY <2>4, <2>5, FillFits
    <3> QED BY <2>3, <3>1
  <2>7. CASE q.full
    <3>1. q.n \in 0..k
      BY <2>4, <2>6, <2>7
    <3>2. q \in Packs /\ q.n \in 0..k /\ q.size = s[q.n] /\ q.size <= PackChars /\ (~q.full => q.n = k)
      BY <2>4, <2>6, <2>7, <3>1
    <3> QED BY <2>2, <3>2 DEF q
  <2>8. CASE ~q.full
    <3>1. p.n = k - 1 /\ q.n = p.n + 1 /\ q.size = p.size + w[k] /\ p.size + w[k] <= PackChars /\ p.size = s[p.n]
      BY <2>4, <2>6, <2>8
    <3>2. q.n = k /\ s[k] = s[k - 1] + w[k]
      <4>1. k - 1 + 1 = k /\ k \in 1..last
        BY <1>1
      <4> QED BY <1>7, <3>1, <4>1
    <3>3. q.n \in 0..k /\ q.size = s[q.n] /\ q.size <= PackChars
      BY <2>2, <3>1, <3>2
    <3>4. q \in Packs /\ q.n \in 0..k /\ q.size = s[q.n] /\ q.size <= PackChars /\ (~q.full => q.n = k)
      BY <2>6, <3>2, <3>3
    <3> QED BY <2>2, <3>4 DEF q
  <2> QED BY <2>7, <2>8
<1> HIDE DEF S
<1>10. \A k \in 0..last : k \in S
  BY <1>1, <1>8, <1>9, UpTo
<1>11. last \in 0..last
  BY <1>1
<1>12. Good(last)
  BY <1>10, <1>11 DEF S
<1>13. f[last].n \in 0..last /\ s[f[last].n] <= PackChars
  BY <1>12
<1> QED BY <1>2, <1>13 DEF last

\* So a pack is of the newest records, within both limits.
LEMMA PackFits ==
  ASSUME Memory!TypeOK
  PROVE  Memory!PackIsBounded
<1> DEFINE found == Memory!Newest(Limit)
           n == Memory!Filled(found).n
           w == [i \in 1..Len(found) |-> Size[found[i].body]]
           s == Memory!Sums(w)
           pack == Memory!Pack
           u == [i \in DOMAIN pack |-> Size[pack[i].body]]
           t == Memory!Sums(u)
<1>1. Limit \in Nat /\ PackChars \in Nat
  BY LengthsAssumption
<1>2. /\ found \in Seq(RowsOf(made))
      /\ Len(found) <= Limit /\ Len(found) <= Len(rows)
      /\ \A i \in 1..Len(found) : found[i] = rows[Len(rows) + 1 - i]
  BY <1>1, NewestAre
<1>3. pack = SubSeq(found, 1, n)
  BY DEF Memory!Pack
<1>4. Memory!SumSizes(pack) = t[Len(u)]
  BY DEF Memory!SumSizes, Memory!Total
<1> HIDE DEF found, pack
<1>5. Len(found) \in Nat /\ \A i \in 1..Len(found) : found[i] \in RowsOf(made)
  BY <1>2, LenProperties, ElementOfSeq
<1>6. \A i \in 1..Len(found) : Size[found[i].body] \in Nat
  <2> SUFFICES ASSUME NEW i \in 1..Len(found) PROVE Size[found[i].body] \in Nat
    OBVIOUS
  <2>1. found[i].body \in Memory!Stored
    BY <1>5 DEF RowsOf
  <2>2. found[i].body \in Bodies \cup Huge
    BY <2>1 DEF Memory!Stored
  <2> QED BY <2>2, LengthsAssumption
<1>7. w \in Seq(Nat) /\ Len(w) = Len(found) /\ \A i \in 1..Len(found) : w[i] = Size[found[i].body]
  BY <1>5, <1>6
<1>8. IsSums(s, w)
  BY <1>7, SumsOfComponents
<1>9. n \in 0..Len(found) /\ s[n] <= PackChars
  <2>1. w = [i \in 1..Len(found) |-> Size[found[i].body]]
    OBVIOUS
  <2> HIDE DEF w, s
  <2> QED BY <1>2, <1>7, <1>8, <2>1, FilledIsFirstPart
<1> HIDE DEF w, s, n
<1>10. pack \in Seq(RowsOf(made)) /\ Len(pack) = n /\ \A i \in 1..n : pack[i] = found[i]
  <2>1. 1 \in Int /\ n \in Int /\ \A i \in 1..n : found[i] \in RowsOf(made)
    BY <1>5, <1>9
  <2>2. SubSeq(found, 1, n) \in Seq(RowsOf(made)) /\ Len(SubSeq(found, 1, n)) = (IF 1 <= n THEN n - 1 + 1 ELSE 0)
        /\ \A i \in 1..(n - 1 + 1) : SubSeq(found, 1, n)[i] = found[1 + i - 1]
    BY <2>1, SubSeqProperties
  <2>3. (IF 1 <= n THEN n - 1 + 1 ELSE 0) = n /\ n - 1 + 1 = n /\ \A i \in 1..n : 1 + i - 1 = i
    BY <1>5, <1>9
  <2> QED BY <1>3, <2>2, <2>3
<1>11. DOMAIN pack = 1..n /\ n \in Nat
  BY <1>5, <1>9, <1>10, LenProperties
<1>12. u = [i \in 1..n |-> Size[pack[i].body]]
  BY <1>11
<1> HIDE DEF u
<1>13. ASSUME NEW i \in 1..n PROVE Size[pack[i].body] \in Nat /\ Size[pack[i].body] = w[i]
  <2>1. i \in 1..Len(found) /\ pack[i] = found[i]
    BY <1>5, <1>9, <1>10, <1>11
  <2> QED BY <1>6, <1>7, <2>1
<1>14. u \in Seq(Nat) /\ Len(u) = n /\ \A i \in 1..n : u[i] = w[i]
  BY <1>11, <1>12, <1>13
<1>15. IsSums(t, u)
  BY <1>14, SumsOfComponents
<1> HIDE DEF t
<1>16. Len(u) <= Len(w) /\ n \in 0..Len(u)
  BY <1>5, <1>7, <1>9, <1>11, <1>14
<1>17. t[n] = s[n]
  BY <1>7, <1>8, <1>14, <1>15, <1>16, SumsAgree
<1>18. Memory!SumSizes(pack) <= PackChars
  BY <1>4, <1>9, <1>14, <1>17
<1>19. Len(pack) <= Limit
  BY <1>1, <1>2, <1>5, <1>9, <1>10
<1>20. ASSUME NEW i \in 1..Len(pack) PROVE pack[i] = rows[Len(rows) + 1 - i]
  <2>1. i \in 1..Len(found) /\ i \in 1..n
    BY <1>5, <1>9, <1>10
  <2> QED BY <1>2, <1>10, <2>1
<1> QED BY <1>18, <1>19, <1>20 DEF Memory!PackIsBounded, pack

-------------------------------------------------------------------------------
(* The memory: records, index and clients.                                   *)

\* The invariant, part by part.
RowsFit == made \in Nat /\ rows \in Seq(RowsOf(made))
Mirrored == index = {Memory!Entry(rows[i]) : i \in DOMAIN rows}

ClientFits(x) ==
  /\ x \in [op : {"idle", "import", "insert", "distill"}, rest : Seq(Memory!Lines)]
  /\ x.op = "insert" => x.rest # <<>> /\ Head(x.rest) # "junk"
  /\ x.op = "distill" => x.rest \in Seq(Bodies \cup Huge)
ClientsFit ==
  /\ client \in [Clients -> [op : {"idle", "import", "insert", "distill"}, rest : Seq(Memory!Lines)]]
  /\ \A c \in Clients : ClientFits(client[c])
FileFits == file \in Seq(Memory!Stored) /\ overlap \in BOOLEAN

\* The invariant in the parts that a step can disturb one by one.
LEMMA MemoryParts ==
  /\ Memory!TypeOK <=> RowsFit /\ ClientsFit /\ FileFits
  /\ Memory!IInv <=> RowsFit /\ ClientsFit /\ FileFits /\ Memory!IdsDiffer /\ Mirrored
                     /\ Memory!ImportIsAlone /\ Memory!ImportsAreOnce
<1>1. Memory!TypeOK <=> RowsFit /\ ClientsFit /\ FileFits
  <2>1. Memory!TypeOK => RowsFit
    BY DEF Memory!TypeOK, RowsFit, RowsOf
  <2>2. Memory!TypeOK => FileFits
    BY DEF Memory!TypeOK, FileFits
  <2>3. Memory!TypeOK => ClientsFit
    BY DEF Memory!TypeOK, ClientsFit, ClientFits
  <2>4. RowsFit /\ ClientsFit /\ FileFits => Memory!TypeOK
    BY DEF Memory!TypeOK, RowsFit, RowsOf, FileFits, ClientsFit, ClientFits
  <2> QED BY <2>1, <2>2, <2>3, <2>4
<1> QED BY <1>1 DEF Memory!IInv, Mirrored

\* A client that goes on moves no other.
LEMMA ClientMoves ==
  ASSUME ClientsFit, NEW c \in Clients, NEW x, ClientFits(x), client' = [client EXCEPT ![c] = x]
  PROVE  /\ ClientsFit' /\ client'[c] = x
         /\ \A d \in Clients : d # c => client'[d] = client[d]
<1>1. client'[c] = x /\ (\A d \in Clients : d # c => client'[d] = client[d])
  BY DEF ClientsFit
<1>2. client' \in [Clients -> [op : {"idle", "import", "insert", "distill"}, rest : Seq(Memory!Lines)]]
  BY DEF ClientsFit, ClientFits
<1>3. \A d \in Clients : ClientFits(client'[d])
  BY <1>1 DEF ClientsFit
<1>4. ClientsFit'
  BY <1>2, <1>3 DEF ClientsFit, ClientFits
<1> QED BY <1>1, <1>4

\* A client that is done has a place of its own kind.
LEMMA IdleFits == ClientFits(Memory!Idle) /\ Memory!Idle.op = "idle"
BY DEF ClientFits, Memory!Idle

\* The invariant at the start.
LEMMA MemoryStarts == Memory!Init => Memory!IInv
<1> SUFFICES ASSUME Memory!Init PROVE Memory!IInv
  OBVIOUS
<1>0. rows = <<>> /\ index = {} /\ made = 0 /\ file = <<>> /\ overlap = FALSE
  BY DEF Memory!Init
<1>1. RowsFit /\ DOMAIN rows = {}
  BY <1>0 DEF RowsFit
<1>2. client = [c \in Clients |-> Memory!Idle] /\ ClientFits(Memory!Idle)
  BY IdleFits DEF Memory!Init
<1>3. ClientsFit
  BY <1>2 DEF ClientsFit, ClientFits
<1>4. FileFits
  <2>1. <<>> \in Seq(Memory!Stored)
    OBVIOUS
  <2>2. overlap \in BOOLEAN
    BY <1>0, Zenon
  <2> QED BY <1>0, <2>1, <2>2, Zenon DEF FileFits
<1>5. Memory!IdsDiffer /\ Memory!ImportsAreOnce
  <2>1. \A i : i \notin DOMAIN rows
    BY <1>1
  <2>2. Memory!IdsDiffer
    BY <2>1 DEF Memory!IdsDiffer
  <2>3. Memory!ImportsAreOnce
    BY <2>1 DEF Memory!ImportsAreOnce
  <2> QED BY <2>2, <2>3
<1>6. Mirrored
  <2>1. {Memory!Entry(rows[i]) : i \in DOMAIN rows} = {}
    BY <1>1
  <2> QED BY <1>0, <2>1 DEF Mirrored
<1>7. Memory!ImportIsAlone
  BY <1>2, IdleFits DEF Memory!ImportIsAlone, Memory!Imports
<1> QED BY <1>1, <1>3, <1>4, <1>5, <1>6, <1>7, MemoryParts

-------------------------------------------------------------------------------
(* What the statements do to the records and their index.                     *)

\* An insert adds a record at the end, under a new id, and its entry to the index.
LEMMA InsertKeeps ==
  ASSUME RowsFit, Memory!IdsDiffer, Mirrored,
         NEW body \in Memory!Stored, NEW by \in {"tool", "insert", "distill"}, Memory!Insert(body, by)
  PROVE  /\ RowsFit' /\ Memory!IdsDiffer' /\ Mirrored'
         /\ DOMAIN rows' = 1..(Len(rows) + 1) /\ DOMAIN rows = 1..Len(rows) /\ Len(rows) \in Nat
         /\ \A i \in DOMAIN rows : rows'[i] = rows[i]
         /\ rows'[Len(rows) + 1].body = body /\ rows'[Len(rows) + 1].by = by
<1> DEFINE row == [id |-> made + 1, body |-> body, tags |-> "none", by |-> by]
<1>1. made' = made + 1 /\ rows' = Append(rows, row) /\ index' = index \cup {Memory!Entry(row)}
  BY DEF Memory!Insert
<1>2. row.id = made + 1 /\ row.body = body /\ row.by = by
  OBVIOUS
<1>3. made \in Nat /\ rows \in Seq(RowsOf(made)) /\ made' \in Nat
  BY <1>1 DEF RowsFit
<1>4. row \in RowsOf(made + 1)
  BY <1>3 DEF RowsOf
<1> HIDE DEF row
<1>5. RowsOf(made) \subseteq RowsOf(made + 1)
  BY <1>3 DEF RowsOf
<1>6. Len(rows) \in Nat /\ DOMAIN rows = 1..Len(rows) /\ (\A i \in 1..Len(rows) : rows[i] \in RowsOf(made))
  BY <1>3, LenProperties, ElementOfSeq
<1>7. rows \in Seq(RowsOf(made + 1))
  BY <1>3, <1>5
<1>8. rows' \in Seq(RowsOf(made + 1)) /\ Len(rows') = Len(rows) + 1
      /\ (\A i \in 1..Len(rows) : rows'[i] = rows[i]) /\ rows'[Len(rows) + 1] = row
  BY <1>1, <1>4, <1>7, AppendProperties
<1>9. RowsFit'
  BY <1>1, <1>3, <1>8 DEF RowsFit, RowsOf
<1>10. DOMAIN rows' = 1..(Len(rows) + 1)
  BY <1>8, LenProperties
<1>11. ASSUME NEW i \in 1..(Len(rows) + 1) PROVE i \in 1..Len(rows) \/ i = Len(rows) + 1
  BY <1>6
<1>12. \A i \in 1..Len(rows) : rows[i].id \in 1..made
  BY <1>6 DEF RowsOf
<1>13. made + 1 \notin 1..made
  BY <1>3
<1>14. ASSUME NEW i \in DOMAIN rows', NEW j \in DOMAIN rows', rows'[i].id = rows'[j].id PROVE i = j
  <2>1. CASE i \in 1..Len(rows) /\ j \in 1..Len(rows)
    BY <1>6, <1>8, <1>14, <2>1 DEF Memory!IdsDiffer
  <2>2. CASE i = Len(rows) + 1 /\ j = Len(rows) + 1
    BY <2>2
  <2>3. CASE i \in 1..Len(rows) /\ j = Len(rows) + 1
    BY <1>2, <1>8, <1>12, <1>13, <1>14, <2>3
  <2>4. CASE j \in 1..Len(rows) /\ i = Len(rows) + 1
    BY <1>2, <1>8, <1>12, <1>13, <1>14, <2>4
  <2> QED BY <1>10, <1>11, <2>1, <2>2, <2>3, <2>4
<1>15. Memory!IdsDiffer'
  BY <1>14 DEF Memory!IdsDiffer
<1>16. {Memory!Entry(rows'[i]) : i \in DOMAIN rows'} = {Memory!Entry(rows[i]) : i \in DOMAIN rows} \cup {Memory!Entry(row)}
  <2>1. Len(rows) + 1 \in 1..(Len(rows) + 1) /\ 1..Len(rows) \subseteq 1..(Len(rows) + 1)
    BY <1>6
  <2>2. \A i \in 1..Len(rows) : Memory!Entry(rows'[i]) = Memory!Entry(rows[i])
    BY <1>8
  <2>3. Memory!Entry(rows'[Len(rows) + 1]) = Memory!Entry(row)
    BY <1>8
  <2> QED BY <1>6, <1>10, <1>11, <2>1, <2>2, <2>3
<1>17. Mirrored'
  BY <1>1, <1>16 DEF Mirrored, Memory!Entry
<1> QED BY <1>2, <1>6, <1>8, <1>9, <1>10, <1>15, <1>17

\* A record inserted leaves the imports without a double, if it makes none.
LEMMA InsertIsOnce ==
  ASSUME RowsFit, Memory!IdsDiffer, Mirrored, Memory!ImportsAreOnce, overlap' = overlap,
         NEW body \in Memory!Stored, NEW by \in {"tool", "insert", "distill"}, Memory!Insert(body, by),
         ~overlap /\ by = "insert" => \A i \in DOMAIN rows : rows[i].by = "insert" => rows[i].body # body
  PROVE  Memory!ImportsAreOnce'
<1> SUFFICES ASSUME ~overlap, NEW i \in DOMAIN rows', NEW j \in DOMAIN rows',
                    rows'[i].body = rows'[j].body, rows'[i].by = "insert", rows'[j].by = "insert"
             PROVE  i = j
  BY DEF Memory!ImportsAreOnce
<1>1. /\ DOMAIN rows' = 1..(Len(rows) + 1) /\ DOMAIN rows = 1..Len(rows) /\ Len(rows) \in Nat
      /\ \A k \in DOMAIN rows : rows'[k] = rows[k]
      /\ rows'[Len(rows) + 1].body = body /\ rows'[Len(rows) + 1].by = by
  BY InsertKeeps
<1>2. \A k \in DOMAIN rows' : k \in DOMAIN rows \/ k = Len(rows) + 1
  BY <1>1
<1>3. CASE i \in DOMAIN rows /\ j \in DOMAIN rows
  BY <1>1, <1>3 DEF Memory!ImportsAreOnce
<1>4. CASE i = Len(rows) + 1 /\ j \in DOMAIN rows
  BY <1>1, <1>4
<1>5. CASE j = Len(rows) + 1 /\ i \in DOMAIN rows
  BY <1>1, <1>5
<1>6. CASE i = Len(rows) + 1 /\ j = Len(rows) + 1
  BY <1>6
<1> QED BY <1>2, <1>3, <1>4, <1>5, <1>6

\* What is known of the records stays when neither they nor the index change.
LEMMA KeptKeeps ==
  ASSUME Memory!Keep
  PROVE  /\ RowsFit => RowsFit'
         /\ Memory!IdsDiffer => Memory!IdsDiffer'
         /\ Mirrored => Mirrored'
<1>1. rows' = rows /\ index' = index /\ made' = made
  BY DEF Memory!Keep
<1> QED BY <1>1 DEF RowsFit, RowsOf, Memory!IdsDiffer, Mirrored, Memory!Entry

\* The records left are records of before, none of them twice.
LeftOf(of) ==
  /\ \A i \in DOMAIN rows' : of[i] \in DOMAIN rows
       /\ rows'[i].body = rows[of[i]].body /\ rows'[i].by = rows[of[i]].by
  /\ \A i, j \in DOMAIN rows' : of[i] = of[j] => i = j

\* A delete leaves the records of other ids in their order, and their entries.
LEMMA DeleteKeeps ==
  ASSUME RowsFit, Memory!IdsDiffer, Mirrored, NEW c, NEW d, Memory!Delete(c, d)
  PROVE  RowsFit' /\ Memory!IdsDiffer' /\ Mirrored' /\ \E of : LeftOf(of)
<1> DEFINE of == [i \in DOMAIN rows' |-> IF i < d THEN i ELSE i + 1]
           S == RowsOf(made)
<1>1. /\ d \in DOMAIN rows /\ rows' = Memory!RemoveAt(rows, d) /\ made' = made
      /\ index' = {e \in index : e.id # rows[d].id}
  BY DEF Memory!Delete
<1>2. made \in Nat /\ rows \in Seq(S)
  BY DEF RowsFit
<1>3. Len(rows) \in Nat /\ DOMAIN rows = 1..Len(rows)
  BY <1>2, LenProperties
<1>4. rows' \in Seq(S) /\ Len(rows') = Len(rows) - 1
      /\ \A k \in 1..(Len(rows) - 1) : rows'[k] = IF k < d THEN rows[k] ELSE rows[k + 1]
  BY <1>1, <1>2, <1>3, RemovedOne
<1>5. RowsFit'
  BY <1>1, <1>2, <1>4 DEF RowsFit, RowsOf
<1>6. DOMAIN rows' = 1..(Len(rows) - 1)
  BY <1>4, LenProperties
<1>7. \A i \in DOMAIN rows' : of[i] = (IF i < d THEN i ELSE i + 1)
  OBVIOUS
<1> HIDE DEF of, S
<1>8. ASSUME NEW i \in DOMAIN rows' PROVE of[i] \in DOMAIN rows /\ of[i] # d /\ rows'[i] = rows[of[i]]
  <2>1. i \in 1..(Len(rows) - 1) /\ d \in 1..Len(rows)
    BY <1>1, <1>3, <1>6
  <2>2. of[i] = (IF i < d THEN i ELSE i + 1) /\ rows'[i] = IF i < d THEN rows[i] ELSE rows[i + 1]
    BY <1>4, <1>7, <2>1
  <2>3. (i < d => i \in 1..Len(rows) /\ i # d) /\ (~ (i < d) => i + 1 \in 1..Len(rows) /\ i + 1 # d)
    BY <1>3, <2>1
  <2> QED BY <1>3, <2>2, <2>3
<1>9. ASSUME NEW k \in DOMAIN rows, k # d PROVE \E i \in DOMAIN rows' : of[i] = k
  <2>1. k \in 1..Len(rows) /\ d \in 1..Len(rows)
    BY <1>1, <1>3
  <2>2. CASE k < d
    <3>1. k \in DOMAIN rows'
      BY <1>3, <1>6, <2>1, <2>2
    <3> QED BY <1>7, <2>2, <3>1
  <2>3. CASE ~ (k < d)
    <3>1. k - 1 \in DOMAIN rows' /\ ~ (k - 1 < d) /\ k - 1 + 1 = k
      BY <1>3, <1>6, <1>9, <2>1, <2>3
    <3> QED BY <1>7, <3>1
  <2> QED BY <2>2, <2>3
<1>10. ASSUME NEW i \in DOMAIN rows', NEW j \in DOMAIN rows', of[i] = of[j] PROVE i = j
  <2>1. i \in Int /\ j \in Int /\ d \in Int /\ of[i] = (IF i < d THEN i ELSE i + 1) /\ of[j] = (IF j < d THEN j ELSE j + 1)
    BY <1>1, <1>3, <1>6, <1>7
  <2>2. (IF i < d THEN i ELSE i + 1) = (IF j < d THEN j ELSE j + 1)
    BY <1>10, <2>1
  <2>3. i \in Int /\ j \in Int /\ d \in Int
    BY <2>1
  <2> QED BY <2>2, <2>3
<1>11. Memory!IdsDiffer'
  <2>1. ASSUME NEW i \in DOMAIN rows', NEW j \in DOMAIN rows', rows'[i].id = rows'[j].id PROVE i = j
    <3>1. of[i] = of[j]
      BY <1>8, <2>1 DEF Memory!IdsDiffer
    <3> QED BY <1>10, <3>1
  <2> QED BY <2>1 DEF Memory!IdsDiffer
<1>12. {e \in {Memory!Entry(rows[i]) : i \in DOMAIN rows} : e.id # rows[d].id} = {Memory!Entry(rows'[i]) : i \in DOMAIN rows'}
  <2>1. \A k \in DOMAIN rows : Memory!Entry(rows[k]).id = rows[k].id
    BY DEF Memory!Entry
  <2>2. ASSUME NEW k \in DOMAIN rows, rows[k].id # rows[d].id
        PROVE  \E i \in DOMAIN rows' : Memory!Entry(rows[k]) = Memory!Entry(rows'[i])
    <3>1. k # d
      BY <2>2
    <3>2. PICK i \in DOMAIN rows' : of[i] = k
      BY <1>9, <3>1
    <3> QED BY <1>8, <3>2
  <2>3. ASSUME NEW i \in DOMAIN rows'
        PROVE  Memory!Entry(rows'[i]) = Memory!Entry(rows[of[i]]) /\ rows[of[i]].id # rows[d].id /\ of[i] \in DOMAIN rows
    BY <1>1, <1>8 DEF Memory!IdsDiffer
  <2> QED BY <2>1, <2>2, <2>3
<1>13. Mirrored'
  BY <1>1, <1>12 DEF Mirrored, Memory!Entry
<1>14. LeftOf(of)
  BY <1>8, <1>10 DEF LeftOf
<1> QED BY <1>5, <1>11, <1>13, <1>14

\* So does an update, which may change the entry of its own record.
LEMMA UpdateKeeps ==
  ASSUME RowsFit, Memory!IdsDiffer, Mirrored, NEW c, NEW d, NEW t \in Tags, Memory!UpdateTags(c, d, t)
  PROVE  RowsFit' /\ Memory!IdsDiffer' /\ Mirrored' /\ \E of : LeftOf(of)
<1> DEFINE of == [i \in DOMAIN rows |-> i]
           new == [rows[d] EXCEPT !.tags = t]
           S == RowsOf(made)
<1>1. /\ d \in DOMAIN rows /\ made' = made
      /\ index' = {e \in index : e.id # rows[d].id} \cup {[Memory!Entry(rows[d]) EXCEPT !.tags = t]}
  BY DEF Memory!UpdateTags
<1>2. rows' = [rows EXCEPT ![d] = new]
  BY DEF Memory!UpdateTags
<1>3. made \in Nat /\ rows \in Seq(S)
  BY DEF RowsFit
<1>4. Len(rows) \in Nat /\ DOMAIN rows = 1..Len(rows) /\ rows[d] \in S
  BY <1>1, <1>3, LenProperties, ElementOfSeq
<1>5. new \in S /\ new.id = rows[d].id /\ new.body = rows[d].body /\ new.by = rows[d].by /\ new.tags = t
  BY <1>4 DEF RowsOf
<1>6. [Memory!Entry(rows[d]) EXCEPT !.tags = t] = Memory!Entry(new)
  BY <1>5 DEF Memory!Entry
<1> HIDE DEF new
<1>7. rows' \in Seq(S) /\ DOMAIN rows' = DOMAIN rows
  BY <1>1, <1>2, <1>3, <1>4, <1>5, ExceptSeq
<1>8. rows'[d] = new /\ \A i \in DOMAIN rows : i # d => rows'[i] = rows[i]
  BY <1>1, <1>2, <1>4
<1> HIDE DEF S
<1>9. RowsFit'
  BY <1>1, <1>3, <1>7 DEF RowsFit, RowsOf, S
<1>10. \A i \in DOMAIN rows : rows'[i].id = rows[i].id /\ rows'[i].body = rows[i].body /\ rows'[i].by = rows[i].by
  BY <1>5, <1>8
<1>11. Memory!IdsDiffer'
  BY <1>7, <1>10 DEF Memory!IdsDiffer
<1>12. {e \in {Memory!Entry(rows[i]) : i \in DOMAIN rows} : e.id # rows[d].id} \cup {Memory!Entry(new)}
         = {Memory!Entry(rows'[i]) : i \in DOMAIN rows'}
  <2>1. \A k \in DOMAIN rows : Memory!Entry(rows[k]).id = rows[k].id
    BY DEF Memory!Entry
  <2>2. \A k \in DOMAIN rows : rows[k].id # rows[d].id <=> k # d
    BY <1>1 DEF Memory!IdsDiffer
  <2>3. \A k \in DOMAIN rows : k # d => Memory!Entry(rows'[k]) = Memory!Entry(rows[k])
    BY <1>8
  <2>4. Memory!Entry(rows'[d]) = Memory!Entry(new)
    BY <1>8
  <2>5. DOMAIN rows' = DOMAIN rows /\ d \in DOMAIN rows
    BY <1>1, <1>7
  <2> QED BY <2>1, <2>2, <2>3, <2>4, <2>5
<1>13. Mirrored'
  BY <1>1, <1>6, <1>12 DEF Mirrored, Memory!Entry
<1>14. LeftOf(of)
  BY <1>7, <1>10 DEF LeftOf
<1> QED BY <1>9, <1>11, <1>13, <1>14

\* Fewer records, or others' tags, make no import a double, and none imported before.
LEMMA LeftIsOnce ==
  ASSUME NEW of, LeftOf(of), overlap' = overlap, client' = client
  PROVE  /\ Memory!ImportsAreOnce => Memory!ImportsAreOnce'
         /\ Memory!ImportIsAlone => Memory!ImportIsAlone'
<1>1. ASSUME Memory!ImportsAreOnce PROVE Memory!ImportsAreOnce'
  <2> SUFFICES ASSUME ~overlap, NEW i \in DOMAIN rows', NEW j \in DOMAIN rows',
                      rows'[i].body = rows'[j].body, rows'[i].by = "insert", rows'[j].by = "insert"
               PROVE  i = j
    BY DEF Memory!ImportsAreOnce
  <2>1. of[i] = of[j]
    BY <1>1 DEF LeftOf, Memory!ImportsAreOnce
  <2> QED BY <2>1 DEF LeftOf
<1>2. ASSUME Memory!ImportIsAlone PROVE Memory!ImportIsAlone'
  <2> SUFFICES ASSUME ~overlap
               PROVE  /\ \A c, d \in Clients : Memory!Imports(c) /\ Memory!Imports(d) => c = d
                      /\ \A c \in Clients : client[c].op = "insert" =>
                           \A i \in DOMAIN rows' : rows'[i].by = "insert" => rows'[i].body # Head(client[c].rest)
    BY DEF Memory!ImportIsAlone, Memory!Imports
  <2> QED BY <1>2 DEF LeftOf, Memory!ImportIsAlone, Memory!Imports
<1> QED BY <1>1, <1>2

-------------------------------------------------------------------------------
(* The steps.                                                                 *)

\* A client that imports alone, still does when another only starts or stops.
LEMMA RememberStays ==
  ASSUME Memory!IInv, NEW c \in Clients, NEW b \in Bodies, Memory!Remember(c, b)
  PROVE  Memory!IInv'
<1>1. /\ RowsFit /\ ClientsFit /\ FileFits /\ Memory!IdsDiffer /\ Mirrored
      /\ Memory!ImportIsAlone /\ Memory!ImportsAreOnce
  BY MemoryParts
<1>2. client' = client /\ file' = file /\ overlap' = overlap
  BY DEF Memory!Remember
<1>3. ClientsFit' /\ FileFits'
  BY <1>1, <1>2 DEF ClientsFit, ClientFits, FileFits
<1>4. CASE b \in Huge
  <2>1. Memory!Keep
    BY <1>4 DEF Memory!Remember
  <2>2. RowsFit' /\ Memory!IdsDiffer' /\ Mirrored'
    BY <1>1, <2>1, KeptKeeps
  <2>3. Memory!ImportIsAlone' /\ Memory!ImportsAreOnce'
    BY <1>1, <1>2, <2>1 DEF Memory!ImportIsAlone, Memory!Imports, Memory!ImportsAreOnce, Memory!Keep
  <2>4. RowsFit' /\ ClientsFit' /\ FileFits' /\ Memory!IdsDiffer' /\ Mirrored' /\ Memory!ImportIsAlone' /\ Memory!ImportsAreOnce'
    BY <1>3, <2>2, <2>3
  <2> QED BY <2>4, MemoryParts, PTL
<1>5. CASE b \notin Huge
  <2>1. Memory!Insert(b, "tool") /\ b \in Memory!Stored /\ "tool" \in {"tool", "insert", "distill"} /\ "tool" # "insert"
    BY <1>5 DEF Memory!Remember, Memory!Stored
  <2>2. /\ RowsFit' /\ Memory!IdsDiffer' /\ Mirrored'
        /\ DOMAIN rows' = 1..(Len(rows) + 1) /\ DOMAIN rows = 1..Len(rows) /\ Len(rows) \in Nat
        /\ \A i \in DOMAIN rows : rows'[i] = rows[i]
        /\ rows'[Len(rows) + 1].body = b /\ rows'[Len(rows) + 1].by = "tool"
    BY <1>1, <2>1, InsertKeeps
  <2>3. Memory!ImportsAreOnce'
    BY <1>1, <1>2, <2>1, InsertIsOnce
  <2>4. \A i \in DOMAIN rows' : i \in DOMAIN rows \/ i = Len(rows) + 1
    BY <2>2
  <2>5. Memory!ImportIsAlone'
    <3> SUFFICES ASSUME ~overlap
                 PROVE  /\ \A d, e \in Clients : Memory!Imports(d) /\ Memory!Imports(e) => d = e
                        /\ \A d \in Clients : client[d].op = "insert" =>
                             \A i \in DOMAIN rows' : rows'[i].by = "insert" => rows'[i].body # Head(client[d].rest)
      BY <1>2 DEF Memory!ImportIsAlone, Memory!Imports
    <3>1. \A i \in DOMAIN rows' : rows'[i].by = "insert" => i \in DOMAIN rows /\ rows'[i] = rows[i]
      BY <2>1, <2>2, <2>4
    <3> QED BY <1>1, <3>1 DEF Memory!ImportIsAlone
  <2>6. RowsFit' /\ ClientsFit' /\ FileFits' /\ Memory!IdsDiffer' /\ Mirrored' /\ Memory!ImportIsAlone' /\ Memory!ImportsAreOnce'
    BY <1>3, <2>2, <2>3, <2>5
  <2> QED BY <2>6, MemoryParts, PTL
<1> QED BY <1>4, <1>5

\* A client moves on and the records stay.
LEMMA ClientStays ==
  ASSUME Memory!IInv, Memory!Keep, file' = file, NEW c \in Clients, NEW x, ClientFits(x),
         client' = [client EXCEPT ![c] = x], overlap' \in BOOLEAN, overlap => overlap',
         ~overlap' /\ x.op \in {"import", "insert"} =>
           \A d \in Clients : client[d].op \in {"import", "insert"} => d = c,
         ~overlap' /\ x.op = "insert" =>
           \A i \in DOMAIN rows : rows[i].by = "insert" => rows[i].body # Head(x.rest)
  PROVE  Memory!IInv'
<1>1. /\ RowsFit /\ ClientsFit /\ FileFits /\ Memory!IdsDiffer /\ Mirrored
      /\ Memory!ImportIsAlone /\ Memory!ImportsAreOnce
  BY MemoryParts
<1>2. RowsFit' /\ Memory!IdsDiffer' /\ Mirrored'
  BY <1>1, KeptKeeps
<1>3. /\ ClientsFit' /\ client'[c] = x
      /\ \A d \in Clients : d # c => client'[d] = client[d]
  BY <1>1, ClientMoves
<1>4. FileFits'
  BY <1>1 DEF FileFits
<1>5. rows' = rows
  BY DEF Memory!Keep
<1>6. Memory!ImportsAreOnce'
  BY <1>1, <1>5 DEF Memory!ImportsAreOnce
<1>7. Memory!ImportIsAlone'
  <2> SUFFICES ASSUME ~overlap'
               PROVE  /\ \A d, e \in Clients : client'[d].op \in {"import", "insert"} /\ client'[e].op \in {"import", "insert"} => d = e
                      /\ \A d \in Clients : client'[d].op = "insert" =>
                           \A i \in DOMAIN rows : rows[i].by = "insert" => rows[i].body # Head(client'[d].rest)
    BY <1>5 DEF Memory!ImportIsAlone, Memory!Imports
  <2>1. ~overlap
    OBVIOUS
  <2>2. /\ \A d, e \in Clients : client[d].op \in {"import", "insert"} /\ client[e].op \in {"import", "insert"} => d = e
        /\ \A d \in Clients : client[d].op = "insert" =>
             \A i \in DOMAIN rows : rows[i].by = "insert" => rows[i].body # Head(client[d].rest)
    BY <1>1, <2>1 DEF Memory!ImportIsAlone, Memory!Imports
  <2>3. \A d, e \in Clients : client'[d].op \in {"import", "insert"} /\ client'[e].op \in {"import", "insert"} => d = e
    BY <1>3, <2>2
  <2>4. \A d \in Clients : client'[d].op = "insert" =>
          \A i \in DOMAIN rows : rows[i].by = "insert" => rows[i].body # Head(client'[d].rest)
    BY <1>3, <2>2
  <2> QED BY <2>3, <2>4
<1>8. RowsFit' /\ ClientsFit' /\ FileFits' /\ Memory!IdsDiffer' /\ Mirrored' /\ Memory!ImportIsAlone' /\ Memory!ImportsAreOnce'
  BY <1>2, <1>3, <1>4, <1>6, <1>7
<1> QED BY <1>8, MemoryParts, PTL

\* The steps by kind: an import or a distillation begins,
LEMMA BeginStays ==
  ASSUME Memory!IInv, NEW c \in Clients,
         Memory!BeginDistill(c, Handoff) \/ Memory!BeginImport(c, File) \/ Memory!BeginImport(c, file)
  PROVE  Memory!IInv'
<1>0. File \in Seq(Memory!Lines) /\ Handoff \in Seq(Bodies \cup Huge) /\ Handoff \in Seq(Memory!Lines)
      /\ file \in Seq(Memory!Lines) /\ overlap \in BOOLEAN
  <2>1. File \in Seq(Memory!Lines) /\ Handoff \in Seq(Bodies \cup Huge)
    BY LengthsAssumption DEF Memory!Lines
  <2>2. Bodies \cup Huge \subseteq Memory!Lines /\ Memory!Stored \subseteq Memory!Lines
    BY DEF Memory!Lines, Memory!Stored
  <2>3. file \in Seq(Memory!Stored) /\ overlap \in BOOLEAN
    BY MemoryParts DEF FileFits
  <2> QED BY <2>1, <2>2, <2>3
<1>1. CASE Memory!BeginDistill(c, Handoff)
  <2> DEFINE x == [op |-> "distill", rest |-> Handoff]
  <2>1. client' = [client EXCEPT ![c] = x] /\ Memory!Keep /\ file' = file /\ overlap' = overlap
    BY <1>1 DEF Memory!BeginDistill
  <2>2. ClientFits(x) /\ x.op = "distill"
    BY <1>0 DEF ClientFits
  <2> HIDE DEF x
  <2> QED BY <1>0, <2>1, <2>2, ClientStays
<1>2. ASSUME NEW lines \in Seq(Memory!Lines), Memory!BeginImport(c, lines) PROVE Memory!IInv'
  <2> DEFINE x == [op |-> "import", rest |-> lines]
  <2>1. /\ client' = [client EXCEPT ![c] = x] /\ Memory!Keep /\ file' = file
        /\ overlap' = (overlap \/ \E d \in Clients : client[d].op \in {"import", "insert"})
    BY <1>2 DEF Memory!BeginImport
  <2>2. ClientFits(x) /\ x.op = "import"
    BY DEF ClientFits
  <2> HIDE DEF x
  <2>3. overlap' \in BOOLEAN /\ (overlap => overlap')
        /\ (~overlap' => \A d \in Clients : client[d].op \in {"import", "insert"} => d = c)
    BY <1>0, <2>1
  <2> QED BY <2>1, <2>2, <2>3, ClientStays
<1> QED BY <1>0, <1>1, <1>2

\* a line is looked up, or a process is killed,
LEMMA LineStays ==
  ASSUME Memory!IInv, NEW c \in Clients, Memory!ImportLine(c) \/ Memory!Restart(c)
  PROVE  Memory!IInv'
<1>0. /\ ClientFits(client[c]) /\ overlap \in BOOLEAN /\ Memory!ImportIsAlone
  BY MemoryParts DEF ClientsFit, FileFits
<1>1. CASE Memory!Restart(c)
  <2>1. client' = [client EXCEPT ![c] = Memory!Idle] /\ Memory!Keep /\ file' = file /\ overlap' = overlap
    BY <1>1 DEF Memory!Restart
  <2>2. ClientFits(Memory!Idle) /\ Memory!Idle.op = "idle"
    BY IdleFits
  <2> QED BY <1>0, <2>1, <2>2, ClientStays
<1>2. CASE Memory!ImportLine(c)
  <2> DEFINE old == client[c]
             line == Head(old.rest)
             skip == line = "junk" \/ Memory!HashExists(line)
             x == IF ~skip THEN [old EXCEPT !.op = "insert"]
                  ELSE IF Len(old.rest) = 1 THEN Memory!Idle ELSE [old EXCEPT !.rest = Tail(old.rest)]
  <2>1. /\ old.op = "import" /\ old.rest # <<>> /\ client' = [client EXCEPT ![c] = x]
        /\ Memory!Keep /\ file' = file /\ overlap' = overlap
    BY <1>2 DEF Memory!ImportLine
  <2>2. old \in [op : {"idle", "import", "insert", "distill"}, rest : Seq(Memory!Lines)]
    BY <1>0 DEF ClientFits
  <2>3. ~overlap => \A d \in Clients : client[d].op \in {"import", "insert"} => d = c
    BY <1>0, <2>1 DEF Memory!ImportIsAlone, Memory!Imports
  <2> HIDE DEF old
  <2>4. CASE ~skip
    <3>1. x = [old EXCEPT !.op = "insert"]
      BY <2>4
    <3>2. ~Memory!HashExists(line) /\ line # "junk"
      BY <2>4
    <3> HIDE DEF skip, x
    <3>3. x.op = "insert" /\ x.rest = old.rest
          /\ x \in [op : {"idle", "import", "insert", "distill"}, rest : Seq(Memory!Lines)]
      BY <2>2, <3>1
    <3>4. ClientFits(x)
      BY <2>1, <3>2, <3>3 DEF ClientFits
    <3>5. \A i \in DOMAIN rows : rows[i].body # Head(x.rest)
      BY <3>2, <3>3 DEF Memory!HashExists
    <3> QED BY <1>0, <2>1, <2>3, <3>4, <3>5, ClientStays
  <2>5. CASE skip /\ Len(old.rest) = 1
    <3>1. x = Memory!Idle
      BY <2>5
    <3> HIDE DEF skip, x
    <3>2. ClientFits(x) /\ x.op = "idle"
      BY <3>1, IdleFits
    <3> QED BY <1>0, <2>1, <3>2, ClientStays
  <2>6. CASE skip /\ Len(old.rest) # 1
    <3>1. x = [old EXCEPT !.rest = Tail(old.rest)]
      BY <2>6
    <3> HIDE DEF skip, x
    <3>2. old.rest \in Seq(Memory!Lines)
      BY <2>2
    <3>3. Tail(old.rest) \in Seq(Memory!Lines)
      BY <2>1, <3>2, HeadTailProperties
    <3>4. x.op = "import" /\ x \in [op : {"idle", "import", "insert", "distill"}, rest : Seq(Memory!Lines)]
      BY <2>1, <2>2, <3>1, <3>3
    <3>5. ClientFits(x)
      BY <3>4 DEF ClientFits
    <3> QED BY <1>0, <2>1, <2>3, <3>4, <3>5, ClientStays
  <2> QED BY <2>4, <2>5, <2>6
<1> QED BY <1>1, <1>2

\* what was looked up is inserted,
LEMMA InsertStays ==
  ASSUME Memory!IInv, NEW c \in Clients, Memory!InsertNext(c)
  PROVE  Memory!IInv'
<1> DEFINE old == client[c]
           body == Head(old.rest)
           left == Tail(old.rest)
           x == IF body \in Huge \/ left = <<>> THEN Memory!Idle
                ELSE [old EXCEPT !.rest = left, !.op = IF old.op = "insert" THEN "import" ELSE "distill"]
<1>0. /\ RowsFit /\ ClientsFit /\ FileFits /\ Memory!IdsDiffer /\ Mirrored
      /\ Memory!ImportIsAlone /\ Memory!ImportsAreOnce
  BY MemoryParts
<1>1. /\ old.op \in {"insert", "distill"} /\ old.rest # <<>>
      /\ IF body \in Huge THEN Memory!Keep ELSE Memory!Insert(body, old.op)
      /\ client' = [client EXCEPT ![c] = x] /\ file' = file /\ overlap' = overlap
  BY DEF Memory!InsertNext
<1>2. /\ ClientFits(old) /\ old \in [op : {"idle", "import", "insert", "distill"}, rest : Seq(Memory!Lines)]
  BY <1>0 DEF ClientsFit, ClientFits
<1>3. old.op = "insert" => /\ \A d \in Clients : ~overlap /\ client[d].op \in {"import", "insert"} => d = c
                           /\ ~overlap => \A i \in DOMAIN rows : rows[i].by = "insert" => rows[i].body # body
  BY <1>0 DEF Memory!ImportIsAlone, Memory!Imports
<1>4. overlap \in BOOLEAN
  BY <1>0 DEF FileFits
<1> HIDE DEF old
<1>5. body \in Bodies \cup Huge /\ left \in Seq(Memory!Lines) /\ (old.op = "distill" => left \in Seq(Bodies \cup Huge))
  <2>1. old.rest \in Seq(Memory!Lines)
    BY <1>2
  <2>2. body \in Memory!Lines /\ left \in Seq(Memory!Lines)
    BY <1>1, <2>1, HeadTailProperties
  <2>3. CASE old.op = "insert"
    BY <1>2, <2>2, <2>3 DEF ClientFits, Memory!Lines
  <2>4. CASE old.op = "distill"
    <3>1. old.rest \in Seq(Bodies \cup Huge)
      BY <1>2, <2>4 DEF ClientFits
    <3>2. body \in Bodies \cup Huge /\ left \in Seq(Bodies \cup Huge)
      BY <1>1, <3>1, HeadTailProperties
    <3> QED BY <2>2, <3>2
  <2> QED BY <1>1, <2>3, <2>4
<1> HIDE DEF body, left
<1>6. ClientFits(x) /\ x.op # "insert" /\ (x.op = "import" => old.op = "insert")
  <2>1. CASE body \in Huge \/ left = <<>>
    <3>1. x = Memory!Idle
      BY <2>1
    <3> HIDE DEF x
    <3> QED BY <3>1, IdleFits
  <2>2. CASE ~ (body \in Huge \/ left = <<>>)
    <3>1. x = [old EXCEPT !.rest = left, !.op = IF old.op = "insert" THEN "import" ELSE "distill"]
      BY <2>2
    <3> HIDE DEF x
    <3>2. x \in [op : {"idle", "import", "insert", "distill"}, rest : Seq(Memory!Lines)]
          /\ x.op = (IF old.op = "insert" THEN "import" ELSE "distill") /\ x.rest = left
      BY <1>2, <1>5, <3>1
    <3> QED BY <1>1, <1>5, <3>2 DEF ClientFits
  <2> QED BY <2>1, <2>2
<1>7. \A d \in Clients : ~overlap /\ x.op \in {"import", "insert"} /\ client[d].op \in {"import", "insert"} => d = c
  BY <1>3, <1>6
<1>8. CASE body \in Huge
  <2>1. Memory!Keep
    BY <1>1, <1>8
  <2> HIDE DEF x
  <2> QED BY <1>1, <1>4, <1>6, <1>7, <2>1, ClientStays
<1>9. CASE body \notin Huge
  <2>1. Memory!Insert(body, old.op) /\ body \in Memory!Stored /\ old.op \in {"tool", "insert", "distill"}
    BY <1>1, <1>5, <1>9 DEF Memory!Stored
  <2> HIDE DEF x
  <2>2. /\ RowsFit' /\ Memory!IdsDiffer' /\ Mirrored'
        /\ DOMAIN rows' = 1..(Len(rows) + 1) /\ DOMAIN rows = 1..Len(rows) /\ Len(rows) \in Nat
        /\ \A i \in DOMAIN rows : rows'[i] = rows[i]
        /\ rows'[Len(rows) + 1].body = body /\ rows'[Len(rows) + 1].by = old.op
    BY <1>0, <2>1, InsertKeeps
  <2>3. Memory!ImportsAreOnce'
    BY <1>0, <1>1, <1>3, <2>1, InsertIsOnce
  <2>4. /\ ClientsFit' /\ client'[c] = x
        /\ \A d \in Clients : d # c => client'[d] = client[d]
    BY <1>0, <1>1, <1>6, ClientMoves
  <2>5. FileFits'
    BY <1>0, <1>1 DEF FileFits
  <2>6. \A i \in DOMAIN rows' : i \in DOMAIN rows \/ i = Len(rows) + 1
    BY <2>2
  <2>7. Memory!ImportIsAlone'
    <3> SUFFICES ASSUME ~overlap
                 PROVE  /\ \A d, e \in Clients : client'[d].op \in {"import", "insert"} /\ client'[e].op \in {"import", "insert"} => d = e
                        /\ \A d \in Clients : client'[d].op = "insert" =>
                             \A i \in DOMAIN rows' : rows'[i].by = "insert" => rows'[i].body # Head(client'[d].rest)
      BY <1>1 DEF Memory!ImportIsAlone, Memory!Imports
    <3>1. /\ \A d, e \in Clients : client[d].op \in {"import", "insert"} /\ client[e].op \in {"import", "insert"} => d = e
          /\ \A d \in Clients : client[d].op = "insert" =>
               \A i \in DOMAIN rows : rows[i].by = "insert" => rows[i].body # Head(client[d].rest)
      BY <1>0 DEF Memory!ImportIsAlone, Memory!Imports
    <3>2. \A d, e \in Clients : client'[d].op \in {"import", "insert"} /\ client'[e].op \in {"import", "insert"} => d = e
      BY <1>7, <2>4, <3>1
    <3>3. ASSUME NEW d \in Clients, client'[d].op = "insert", NEW i \in DOMAIN rows', rows'[i].by = "insert"
          PROVE  rows'[i].body # Head(client'[d].rest)
      <4>1. d # c /\ client'[d] = client[d] /\ client[d].op = "insert"
        BY <1>6, <2>4, <3>3
      <4>2. old.op # "insert"
        BY <1>3, <4>1
      <4>3. i \in DOMAIN rows /\ rows'[i] = rows[i]
        BY <2>2, <2>6, <3>3, <4>2
      <4> QED BY <3>1, <3>3, <4>1, <4>3
    <3> QED BY <3>2, <3>3
  <2>8. RowsFit' /\ ClientsFit' /\ FileFits' /\ Memory!IdsDiffer' /\ Mirrored' /\ Memory!ImportIsAlone' /\ Memory!ImportsAreOnce'
    BY <2>2, <2>3, <2>4, <2>5, <2>7
  <2> QED BY <2>8, MemoryParts, PTL
<1> QED BY <1>8, <1>9

\* the records are written to the file,
LEMMA ExportStays ==
  ASSUME Memory!IInv, NEW c \in Clients, Memory!Export(c)
  PROVE  Memory!IInv'
<1>1. /\ RowsFit /\ ClientsFit /\ FileFits /\ Memory!IdsDiffer /\ Mirrored
      /\ Memory!ImportIsAlone /\ Memory!ImportsAreOnce /\ Memory!TypeOK
  BY MemoryParts
<1> DEFINE found == Memory!Newest(Limit)
<1>2. Memory!Keep /\ client' = client /\ overlap' = overlap /\ file' = [i \in DOMAIN found |-> found[i].body]
  BY DEF Memory!Export
<1>3. Limit \in Nat
  BY LengthsAssumption
<1>4. found \in Seq(RowsOf(made))
  BY <1>1, <1>3, NewestAre
<1> HIDE DEF found
<1>5. Len(found) \in Nat /\ DOMAIN found = 1..Len(found) /\ \A i \in 1..Len(found) : found[i] \in RowsOf(made)
  BY <1>4, LenProperties, ElementOfSeq
<1>6. \A i \in 1..Len(found) : found[i].body \in Memory!Stored
  BY <1>5 DEF RowsOf
<1>7. file' = [i \in 1..Len(found) |-> found[i].body]
  BY <1>2, <1>5
<1>8. file' \in Seq(Memory!Stored)
  BY <1>5, <1>6, <1>7
<1>9. FileFits'
  BY <1>1, <1>2, <1>8 DEF FileFits, Memory!Stored
<1>10. RowsFit' /\ Memory!IdsDiffer' /\ Mirrored'
  BY <1>1, <1>2, KeptKeeps
<1>11. ClientsFit'
  BY <1>1, <1>2 DEF ClientsFit, ClientFits
<1>12. Memory!ImportIsAlone' /\ Memory!ImportsAreOnce'
  BY <1>1, <1>2 DEF Memory!ImportIsAlone, Memory!Imports, Memory!ImportsAreOnce, Memory!Keep
<1>13. RowsFit' /\ ClientsFit' /\ FileFits' /\ Memory!IdsDiffer' /\ Mirrored' /\ Memory!ImportIsAlone' /\ Memory!ImportsAreOnce'
  BY <1>9, <1>10, <1>11, <1>12
<1> QED BY <1>13, MemoryParts, PTL

\* records are changed or deleted by their id.
LEMMA RowsStay ==
  ASSUME Memory!IInv, NEW c, NEW i, Memory!Delete(c, i) \/ \E t \in Tags : Memory!UpdateTags(c, i, t)
  PROVE  Memory!IInv'
<1>1. /\ RowsFit /\ ClientsFit /\ FileFits /\ Memory!IdsDiffer /\ Mirrored
      /\ Memory!ImportIsAlone /\ Memory!ImportsAreOnce
  BY MemoryParts
<1>2. client' = client /\ file' = file /\ overlap' = overlap
  BY DEF Memory!Delete, Memory!UpdateTags
<1>3. RowsFit' /\ Memory!IdsDiffer' /\ Mirrored' /\ \E of : LeftOf(of)
  BY <1>1, DeleteKeeps, UpdateKeeps
<1>4. PICK of : LeftOf(of)
  BY <1>3
<1>5. Memory!ImportsAreOnce' /\ Memory!ImportIsAlone'
  BY <1>1, <1>2, <1>4, LeftIsOnce
<1>6. ClientsFit' /\ FileFits'
  BY <1>1, <1>2 DEF ClientsFit, ClientFits, FileFits
<1>7. RowsFit' /\ ClientsFit' /\ FileFits' /\ Memory!IdsDiffer' /\ Mirrored' /\ Memory!ImportIsAlone' /\ Memory!ImportsAreOnce'
  BY <1>3, <1>5, <1>6
<1> QED BY <1>7, MemoryParts, PTL

\* The invariant in every step.
LEMMA MemoryStays == Memory!IInv /\ [Memory!Next]_(Memory!vars) => Memory!IInv'
<1> SUFFICES ASSUME Memory!IInv, [Memory!Next]_(Memory!vars) PROVE Memory!IInv'
  OBVIOUS
<1>1. ASSUME NEW c \in Clients, NEW b \in Bodies, Memory!Remember(c, b) PROVE Memory!IInv'
  BY <1>1, RememberStays
<1>2. ASSUME NEW c \in Clients, Memory!BeginDistill(c, Handoff) \/ Memory!BeginImport(c, File) \/ Memory!BeginImport(c, file)
      PROVE  Memory!IInv'
  BY <1>2, BeginStays
<1>3. ASSUME NEW c \in Clients, Memory!ImportLine(c) \/ Memory!Restart(c) PROVE Memory!IInv'
  BY <1>3, LineStays
<1>4. ASSUME NEW c \in Clients, Memory!InsertNext(c) PROVE Memory!IInv'
  BY <1>4, InsertStays
<1>5. ASSUME NEW c \in Clients, Memory!Export(c) PROVE Memory!IInv'
  BY <1>5, ExportStays
<1>6. ASSUME NEW c \in Clients, NEW i \in 1..MaxRows,
             Memory!Delete(c, i) \/ \E t \in Tags : Memory!UpdateTags(c, i, t)
      PROVE  Memory!IInv'
  BY <1>6, RowsStay
<1>8. ASSUME UNCHANGED Memory!vars PROVE Memory!IInv'
  BY <1>8 DEF Memory!vars, Memory!IInv, Memory!TypeOK, Memory!IdsDiffer, Memory!Entry,
              Memory!ImportIsAlone, Memory!Imports, Memory!ImportsAreOnce
<1> QED BY <1>1, <1>2, <1>3, <1>4, <1>5, <1>6, <1>8 DEF Memory!Next

\* It implies what is checked of the memory.
LEMMA MemoryIsKept == Memory!IInv => Memory!MemoryIsSound
<1> SUFFICES ASSUME Memory!IInv PROVE Memory!MemoryIsSound
  OBVIOUS
<1>1. Mirrored /\ Memory!IdsDiffer /\ Memory!ImportsAreOnce /\ Memory!TypeOK
  BY MemoryParts
<1>2. ASSUME NEW b \in Bodies PROVE Memory!Matching(b) = {i \in DOMAIN rows : rows[i].body = b}
  <2>1. \A i \in DOMAIN rows : Memory!Entry(rows[i]).id = rows[i].id /\ Memory!Entry(rows[i]).body = rows[i].body
    BY DEF Memory!Entry
  <2>2. ASSUME NEW i \in DOMAIN rows
        PROVE  (\E e \in index : e.body = b /\ e.id = rows[i].id) <=> rows[i].body = b
    <3>1. ASSUME NEW e \in index, e.body = b, e.id = rows[i].id PROVE rows[i].body = b
      <4>1. PICK j \in DOMAIN rows : e = Memory!Entry(rows[j])
        BY <1>1 DEF Mirrored
      <4>2. j = i
        BY <1>1, <2>1, <3>1, <4>1 DEF Memory!IdsDiffer
      <4> QED BY <2>1, <3>1, <4>1, <4>2
    <3>2. ASSUME rows[i].body = b PROVE \E e \in index : e.body = b /\ e.id = rows[i].id
      <4>1. Memory!Entry(rows[i]) \in index
        BY <1>1 DEF Mirrored
      <4> QED BY <2>1, <3>2, <4>1
    <3> QED BY <3>1, <3>2
  <2> QED BY <2>2 DEF Memory!Matching
<1>3. Memory!IndexMirrorsRows
  BY <1>1, <1>2 DEF Memory!IndexMirrorsRows, Mirrored
<1> QED BY <1>1, <1>3, PackFits DEF Memory!MemoryIsSound

-------------------------------------------------------------------------------
(* Compaction: messages.                                                     *)

\* A message, and what it takes.
Message == [role : {"tool", "user"}, kind : {"plain", "escaped", "wide"}, body : Nat, marked : BOOLEAN]

\* A message takes naturally many bytes and characters ...
LEMMA MessageTakes ==
  ASSUME NEW m \in Message
  PROVE  Compact!Bytes(m) \in Nat /\ Compact!Chars(m) \in Nat
<1>1. MarkerBytes \in Nat /\ MarkerChars \in Nat /\ Overhead \in Nat
  BY LengthsAssumption
<1>2. m.body \in Nat /\ m.marked \in BOOLEAN /\ m.kind \in {"plain", "escaped", "wide"}
  BY DEF Message
<1>3. Compact!Bytes(m) \in Nat
  BY <1>1, <1>2 DEF Compact!Bytes
<1>4. m.body \div 2 \in Nat /\ 2 * m.body \in Nat
  BY <1>2
<1>5. (IF m.marked THEN MarkerChars ELSE 0) \in Nat
  BY <1>1, <1>2
<1>6. (CASE m.kind = "plain" -> m.body
         [] m.kind = "escaped" -> 2 * m.body
         [] m.kind = "wide" -> m.body \div 2) \in Nat
  BY <1>2, <1>4
<1> DEFINE a == IF m.marked THEN MarkerChars ELSE 0
           c == CASE m.kind = "plain" -> m.body
                  [] m.kind = "escaped" -> 2 * m.body
                  [] m.kind = "wide" -> m.body \div 2
<1>7. Compact!Chars(m) = Overhead + a + c
  BY DEF Compact!Chars
<1>8. a \in Nat /\ c \in Nat
  BY <1>5, <1>6
<1> HIDE DEF a, c
<1> QED BY <1>1, <1>3, <1>7, <1>8

\* ... and so does a request, the sum over its messages.
LEMMA RequiredIsNat ==
  ASSUME msgs \in Seq(Message)
  PROVE  Compact!Required \in Nat
<1> DEFINE w == [i \in DOMAIN msgs |-> Compact!Chars(msgs[i])]
<1>1. Len(msgs) \in Nat /\ DOMAIN msgs = 1..Len(msgs) /\ \A i \in 1..Len(msgs) : msgs[i] \in Message
  BY LenProperties, ElementOfSeq
<1>2. \A i \in 1..Len(msgs) : Compact!Chars(msgs[i]) \in Nat
  BY <1>1, MessageTakes
<1>3. w \in Seq(Nat)
  BY <1>1, <1>2
<1>4. Compact!Required = Compact!Sums(w)[Len(w)]
  BY DEF Compact!Required, Compact!Total
<1> HIDE DEF w
<1>5. IsSums(Compact!Sums(w), w)
  BY <1>3, SumsOfComponents
<1>6. Compact!Sums(w) \in [0..Len(w) -> Nat]
  BY <1>3, <1>5, SumsAreNat
<1>7. Len(w) \in 0..Len(w)
  BY <1>3, LenProperties
<1> QED BY <1>4, <1>6, <1>7

\* A message that is cut, and is not empty, becomes shorter.
LEMMA ShrunkIsShorter ==
  ASSUME NEW m \in Message, ~Compact!Exhausted(m), NEW over \in Nat, over > 0
  PROVE  LET n == Compact!Shrunk(m, Compact!Minus(Compact!Bytes(m), over)) IN
           n \in Message /\ n.role = m.role /\ Compact!Bytes(n) < Compact!Bytes(m)
<1> DEFINE bytes == Compact!Bytes(m)
           target == Compact!Minus(bytes, over)
           end == Compact!Minus(target, MarkerBytes)
           n == Compact!Shrunk(m, target)
<1>1. MarkerBytes \in Nat /\ MarkerBytes > 0
  BY LengthsAssumption
<1>2. m.body \in Nat /\ m.marked \in BOOLEAN
  BY DEF Message
<1>3. bytes \in Nat /\ bytes > 0
  BY <1>1, <1>2 DEF Compact!Bytes, Compact!Exhausted
<1> HIDE DEF bytes
<1>4. target \in Nat /\ target < bytes
  BY <1>3 DEF Compact!Minus
<1> HIDE DEF target
<1>5. CASE target < MarkerBytes
  <2>1. n = [m EXCEPT !.body = 0, !.marked = FALSE]
    BY <1>5 DEF Compact!Shrunk
  <2>2. n \in Message /\ n.body = 0 /\ n.marked = FALSE /\ n.role = m.role
    <3> HIDE DEF n
    <3> QED BY <2>1 DEF Message
  <2> HIDE DEF n
  <2>3. Compact!Bytes(n) = 0
    BY <2>2 DEF Compact!Bytes
  <2>4. n \in Message /\ n.role = m.role /\ Compact!Bytes(n) < bytes
    BY <1>3, <2>2, <2>3
  <2> QED BY <2>4 DEF n, bytes, target
<1>6. CASE ~ (target < MarkerBytes)
  <2> DEFINE put == IF m.kind = "wide" THEN 2 * (end \div 2) ELSE end
  <2>1. n = [m EXCEPT !.body = put, !.marked = TRUE]
    BY <1>6 DEF Compact!Shrunk
  <2>2. end \in Nat /\ end + MarkerBytes = target
    BY <1>1, <1>4, <1>6 DEF Compact!Minus
  <2> HIDE DEF end
  <2>3. 2 * (end \div 2) \in Nat /\ 2 * (end \div 2) <= end
    BY <2>2
  <2>4. put \in Nat /\ put <= end
    BY <2>2, <2>3
  <2> HIDE DEF put
  <2>5. n \in Message /\ n.body = put /\ n.marked = TRUE /\ n.role = m.role
    <3> HIDE DEF n
    <3> QED BY <2>1, <2>4 DEF Message
  <2> HIDE DEF n
  <2>6. Compact!Bytes(n) = put + MarkerBytes
    BY <2>5 DEF Compact!Bytes
  <2>7. n \in Message /\ n.role = m.role /\ Compact!Bytes(n) < bytes
    BY <1>1, <1>3, <1>4, <2>2, <2>4, <2>5, <2>6
  <2> QED BY <2>7 DEF n, bytes, target
<1> QED BY <1>5, <1>6

-------------------------------------------------------------------------------
(* What lean_tail_compress keeps.                                             *)

Increases(s) == \A i, j \in DOMAIN s : i < j => s[i] < s[j]

\* A span is its numbers in order.
LEMMA SpanIncreases ==
  ASSUME NEW from \in Nat \ {0}, NEW to \in Nat
  PROVE  /\ Compact!Span(from, to) \in Seq(Nat)
         /\ Len(Compact!Span(from, to)) = Compact!Minus(to + 1, from)
         /\ \A i \in 1..Len(Compact!Span(from, to)) : Compact!Span(from, to)[i] = from + i - 1
         /\ Increases(Compact!Span(from, to))
<1> DEFINE s == Compact!Span(from, to)
           n == Compact!Minus(to + 1, from)
<1>1. n \in Nat
  BY DEF Compact!Minus
<1>2. s = [i \in 1..n |-> from + i - 1]
  BY DEF Compact!Span
<1> HIDE DEF s, n
<1>3. s \in Seq(Nat) /\ Len(s) = n /\ DOMAIN s = 1..n /\ \A i \in 1..n : s[i] = from + i - 1
  BY <1>1, <1>2
<1>4. Increases(s)
  BY <1>1, <1>3 DEF Increases
<1> QED BY <1>3, <1>4 DEF s, n

\* Two increasing sequences, the second beyond the first.
LEMMA JoinIncreases ==
  ASSUME NEW s \in Seq(Nat), NEW t \in Seq(Nat), Increases(s), Increases(t),
         \A i \in 1..Len(s), j \in 1..Len(t) : s[i] < t[j]
  PROVE  s \o t \in Seq(Nat) /\ Increases(s \o t)
<1> DEFINE u == s \o t
<1>1. Len(s) \in Nat /\ Len(t) \in Nat /\ DOMAIN s = 1..Len(s) /\ DOMAIN t = 1..Len(t)
  BY LenProperties
<1>2. u \in Seq(Nat) /\ Len(u) = Len(s) + Len(t)
  BY ConcatProperties
<1>3. \A i \in 1..Len(u) : u[i] = IF i <= Len(s) THEN s[i] ELSE t[i - Len(s)]
  BY <1>1, <1>2, ConcatProperties
<1> HIDE DEF u
<1>4. DOMAIN u = 1..Len(u)
  BY <1>2, LenProperties
<1>5. ASSUME NEW i \in DOMAIN u, NEW j \in DOMAIN u, i < j PROVE u[i] < u[j]
  <2>1. i \in 1..Len(u) /\ j \in 1..Len(u)
    BY <1>4
  <2>2. CASE j <= Len(s)
    <3>1. i \in 1..Len(s) /\ j \in 1..Len(s) /\ i <= Len(s)
      BY <1>1, <1>2, <1>5, <2>1, <2>2
    <3>2. s[i] < s[j]
      BY <1>1, <1>5, <3>1 DEF Increases
    <3> QED BY <1>3, <2>1, <2>2, <3>1, <3>2
  <2>3. CASE ~ (j <= Len(s)) /\ i <= Len(s)
    <3>1. i \in 1..Len(s) /\ j - Len(s) \in 1..Len(t)
      BY <1>1, <1>2, <1>5, <2>1, <2>3
    <3>2. s[i] < t[j - Len(s)]
      BY <3>1
    <3> QED BY <1>3, <2>1, <2>3, <3>2
  <2>4. CASE ~ (j <= Len(s)) /\ ~ (i <= Len(s))
    <3>1. i - Len(s) \in 1..Len(t) /\ j - Len(s) \in 1..Len(t) /\ i - Len(s) < j - Len(s)
      BY <1>1, <1>2, <1>5, <2>1, <2>4
    <3>2. t[i - Len(s)] < t[j - Len(s)]
      BY <1>1, <3>1 DEF Increases
    <3> QED BY <1>3, <2>1, <2>4, <3>2
  <2> QED BY <2>2, <2>3, <2>4
<1>6. Increases(u)
  BY <1>5 DEF Increases
<1> QED BY <1>2, <1>6 DEF u

Given == [role : {"tool", "user"}, kind : {"plain", "escaped", "wide"}, body : Nat, marked : {FALSE}]

\* What messages from one place to another take is a number, 0 for none.
LEMMA SizesAreInt ==
  ASSUME given \in Seq(Given)
  PROVE  /\ \A a \in 1..(Len(given) + 1), b \in 0..Len(given) : Compact!SpanSize(a, b) \in Int
         /\ Compact!SpanSize(Len(given) + 1, Len(given)) = 0
<1> DEFINE w == [i \in DOMAIN given |-> given[i].body]
<1>1. Len(given) \in Nat /\ DOMAIN given = 1..Len(given) /\ \A i \in 1..Len(given) : given[i] \in Given
  BY LenProperties, ElementOfSeq
<1>2. w \in Seq(Nat) /\ Len(w) = Len(given)
  <2>1. \A i \in 1..Len(given) : given[i].body \in Nat
    BY <1>1 DEF Given
  <2>2. w = [i \in 1..Len(given) |-> given[i].body]
    BY <1>1
  <2> HIDE DEF w
  <2>3. w \in [1..Len(given) -> Nat]
    BY <2>1, <2>2
  <2> QED BY <1>1, <2>3, LenProperties
<1>3. \A a, b : Compact!SpanSize(a, b) = Compact!Sums(w)[b] - Compact!Sums(w)[a - 1]
  BY DEF Compact!SpanSize
<1> HIDE DEF w
<1>4. IsSums(Compact!Sums(w), w)
  BY <1>2, SumsOfComponents
<1>5. Compact!Sums(w) \in [0..Len(given) -> Nat]
  BY <1>2, <1>4, SumsAreNat
<1>6. ASSUME NEW a \in 1..(Len(given) + 1), NEW b \in 0..Len(given) PROVE Compact!SpanSize(a, b) \in Int
  <2>1. a - 1 \in 0..Len(given)
    BY <1>1
  <2>2. Compact!Sums(w)[b] \in Nat /\ Compact!Sums(w)[a - 1] \in Nat
    BY <1>5, <2>1
  <2> QED BY <1>3, <2>2
<1>7. Compact!SpanSize(Len(given) + 1, Len(given)) = 0
  <2>1. Len(given) + 1 - 1 = Len(given) /\ Len(given) \in 0..Len(given)
    BY <1>1
  <2>2. Compact!Sums(w)[Len(given)] \in Nat
    BY <1>5, <2>1
  <2>3. Compact!SpanSize(Len(given) + 1, Len(given)) = Compact!Sums(w)[Len(given)] - Compact!Sums(w)[Len(given)]
    BY <1>3, <2>1
  <2> QED BY <2>2, <2>3
<1> QED BY <1>6, <1>7

\* There is such a head, ...
LEMMA HeadIsThere ==
  ASSUME given \in Seq(Given), given # <<>>
  PROVE  Compact!HeadCount \in 1..Len(given)
<1> DEFINE last == Len(given)
           T == {n \in 1..last : n < last => Compact!SpanSize(1, n + 1) > HeadRoom}
<1>1. last \in Nat /\ last > 0 /\ HeadRoom \in Nat
  BY LenProperties, EmptySeq, LengthsAssumption
<1>2. \A b \in 0..last : Compact!SpanSize(1, b) \in Int
  <2>1. 1 \in 1..(last + 1)
    BY <1>1
  <2> QED BY <2>1, SizesAreInt
<1> HIDE DEF last
<1>3. T \subseteq Nat /\ last \in T
  BY <1>1
<1>4. PICK n \in T : \A y \in T : n <= y
  BY <1>3, LeastOf
<1>5. n \in 1..last /\ (n < last => Compact!SpanSize(1, n + 1) > HeadRoom)
  OBVIOUS
<1>6. n # 1 => Compact!SpanSize(1, n) <= HeadRoom
  <2> SUFFICES ASSUME n # 1 PROVE Compact!SpanSize(1, n) <= HeadRoom
    OBVIOUS
  <2>1. n - 1 \in 1..last /\ n - 1 < last /\ n - 1 + 1 = n /\ ~ (n <= n - 1) /\ n \in 0..last
    BY <1>1, <1>5
  <2>2. n - 1 \notin T
    BY <1>4, <2>1
  <2>3. ~ (Compact!SpanSize(1, n) > HeadRoom)
    BY <2>1, <2>2
  <2>4. Compact!SpanSize(1, n) \in Int
    BY <1>2, <2>1
  <2> QED BY <1>1, <2>3, <2>4
<1>7. \E k \in 1..last : (k = 1 \/ Compact!SpanSize(1, k) <= HeadRoom)
                         /\ (k < last => Compact!SpanSize(1, k + 1) > HeadRoom)
  BY <1>5, <1>6
<1> QED BY <1>7 DEF Compact!HeadCount, last

\* ... such a tail, ...
LEMMA TailIsThere ==
  ASSUME given \in Seq(Given), given # <<>>
  PROVE  Compact!TailStart \in 1..Len(given)
<1> DEFINE last == Len(given)
           T == {n \in 1..last : n = last \/ Compact!SpanSize(n, last) <= TailRoom}
<1>1. last \in Nat /\ last > 0 /\ TailRoom \in Nat
  BY LenProperties, EmptySeq, LengthsAssumption
<1>2. \A a \in 1..last : Compact!SpanSize(a, last) \in Int
  <2>1. last \in 0..last /\ \A a \in 1..last : a \in 1..(last + 1)
    BY <1>1
  <2> QED BY <2>1, SizesAreInt
<1> HIDE DEF last
<1>3. T \subseteq Nat /\ last \in T
  BY <1>1
<1>4. PICK n \in T : \A y \in T : n <= y
  BY <1>3, LeastOf
<1>5. n \in 1..last /\ (n = last \/ Compact!SpanSize(n, last) <= TailRoom)
  OBVIOUS
<1>6. n > 1 => Compact!SpanSize(n - 1, last) > TailRoom
  <2> SUFFICES ASSUME n > 1 PROVE Compact!SpanSize(n - 1, last) > TailRoom
    OBVIOUS
  <2>1. n - 1 \in 1..last /\ ~ (n <= n - 1)
    BY <1>1, <1>5
  <2>2. n - 1 \notin T
    BY <1>4, <2>1
  <2>3. ~ (Compact!SpanSize(n - 1, last) <= TailRoom)
    BY <2>1, <2>2
  <2>4. Compact!SpanSize(n - 1, last) \in Int
    BY <1>2, <2>1
  <2> QED BY <1>1, <2>3, <2>4
<1>7. \E k \in 1..last : (k = last \/ Compact!SpanSize(k, last) <= TailRoom)
                         /\ (k > 1 => Compact!SpanSize(k - 1, last) > TailRoom)
  BY <1>5, <1>6
<1> QED BY <1>7 DEF Compact!TailStart, last

\* ... and such a place to meet.
LEMMA MeetIsThere ==
  ASSUME given \in Seq(Given), given # <<>>, NEW room \in Nat
  PROVE  Compact!MeetStart(room) \in 2..(Len(given) + 1)
<1> DEFINE last == Len(given)
           T == {n \in 2..(last + 1) : Compact!SpanSize(n, last) <= room}
<1>1. last \in Nat /\ last > 0
  BY LenProperties, EmptySeq
<1>2. (\A a \in 1..(last + 1) : Compact!SpanSize(a, last) \in Int) /\ Compact!SpanSize(last + 1, last) = 0
  <2>1. last \in 0..last
    BY <1>1
  <2> QED BY <2>1, SizesAreInt
<1> HIDE DEF last
<1>3. T \subseteq Nat /\ last + 1 \in T
  BY <1>1, <1>2
<1>4. PICK n \in T : \A y \in T : n <= y
  BY <1>3, LeastOf
<1>5. n \in 2..(last + 1) /\ Compact!SpanSize(n, last) <= room
  OBVIOUS
<1>6. n > 2 => Compact!SpanSize(n - 1, last) > room
  <2> SUFFICES ASSUME n > 2 PROVE Compact!SpanSize(n - 1, last) > room
    OBVIOUS
  <2>1. n - 1 \in 2..(last + 1) /\ ~ (n <= n - 1) /\ n - 1 \in 1..(last + 1)
    BY <1>1, <1>5
  <2>2. n - 1 \notin T
    BY <1>4, <2>1
  <2>3. ~ (Compact!SpanSize(n - 1, last) <= room)
    BY <2>1, <2>2
  <2>4. Compact!SpanSize(n - 1, last) \in Int
    BY <1>2, <2>1
  <2> QED BY <2>3, <2>4
<1>7. \E k \in 2..(last + 1) : Compact!SpanSize(k, last) <= room
                               /\ (k > 2 => Compact!SpanSize(k - 1, last) > room)
  BY <1>5, <1>6
<1> QED BY <1>7 DEF Compact!MeetStart, last

-------------------------------------------------------------------------------
(* The invariant.                                                             *)

\* The inductive invariant of compaction: at the start ...
LEMMA CompactStarts == Compact!Init => Compact!IInv
<1> SUFFICES ASSUME Compact!Init PROVE Compact!IInv
  OBVIOUS
<1> USE DEF Compact!Init
<1>1. Compact!TypeOK
  BY DEF Compact!TypeOK
<1>2. Compact!OldestFirst
  BY DEF Compact!OldestFirst
<1> QED BY <1>1, <1>2 DEF Compact!IInv

\* The conversation the invariant speaks of.
LEMMA CompactShape ==
  ASSUME Compact!TypeOK
  PROVE  /\ given \in Seq(Given) /\ msgs \in Seq(Message)
         /\ Len(given) \in Nat /\ Len(msgs) = Len(given)
         /\ DOMAIN given = 1..Len(given) /\ DOMAIN msgs = 1..Len(given)
         /\ limit \in Nat /\ cursor \in Nat \ {0} /\ episodes \in Nat /\ kept \in Seq(Nat)
<1>1. given \in Seq(Given) /\ msgs \in Seq(Message) /\ Len(msgs) = Len(given)
      /\ limit \in Nat /\ cursor \in Nat \ {0} /\ episodes \in Nat /\ kept \in Seq(Nat)
  BY DEF Compact!TypeOK, Compact!Kinds, Given, Message
<1> QED BY <1>1, LenProperties

\* ... when a message comes,
LEMMA AddingKeeps ==
  ASSUME Compact!IInv, NEW m \in Compact!Messages, Compact!AddMessage(m)
  PROVE  Compact!IInv'
<1>1. Compact!TypeOK /\ Compact!OldestFirst /\ at = "idle"
  BY DEF Compact!IInv, Compact!AddMessage
<1>2. msgs = given /\ cursor = 1 /\ episodes = 0 /\ kept = <<>>
  BY <1>1 DEF Compact!IInv
<1>3. given' = Append(given, m) /\ msgs' = Append(msgs, m)
      /\ UNCHANGED <<limit, cursor, at, episodes, kept>>
  BY DEF Compact!AddMessage
<1>4. m \in Given /\ m \in Message
  BY LengthsAssumption DEF Compact!Messages, Given, Message
<1>5. given' \in Seq(Given) /\ msgs' \in Seq(Message)
  BY <1>1, <1>3, <1>4, CompactShape, AppendProperties
<1>6. msgs' = given' /\ Len(msgs') = Len(given')
  BY <1>2, <1>3
<1>7. Compact!TypeOK'
  BY <1>1, <1>3, <1>5, <1>6, CompactShape DEF Compact!TypeOK, Compact!Kinds, Given, Message
<1>8. DOMAIN msgs' = 1..Len(msgs')
  BY <1>5, LenProperties
<1>9. Compact!OldestFirst'
  BY <1>2, <1>3, <1>6, <1>8 DEF Compact!OldestFirst
<1> QED BY <1>1, <1>2, <1>3, <1>6, <1>7, <1>9 DEF Compact!IInv

\* when a result is cut,
LEMMA CuttingKeeps ==
  ASSUME Compact!IInv, Compact!Cut
  PROVE  Compact!IInv'
<1>1. Compact!TypeOK /\ Compact!OldestFirst /\ at = "compacting" /\ cursor <= Len(msgs)
      /\ Compact!Required > limit /\ msgs[cursor].role = "tool" /\ ~Compact!Exhausted(msgs[cursor])
      /\ UNCHANGED <<given, limit, cursor, at, episodes, kept>>
  BY DEF Compact!IInv, Compact!Cut
<1>2. /\ given \in Seq(Given) /\ msgs \in Seq(Message)
      /\ Len(given) \in Nat /\ Len(msgs) = Len(given)
      /\ DOMAIN given = 1..Len(given) /\ DOMAIN msgs = 1..Len(given)
      /\ limit \in Nat /\ cursor \in Nat \ {0} /\ episodes \in Nat /\ kept \in Seq(Nat)
  BY <1>1, CompactShape
<1>3. cursor \in 1..Len(msgs)
  BY <1>1, <1>2
<1>4. msgs[cursor] \in Message
  BY <1>2, <1>3, ElementOfSeq
<1> DEFINE over == Compact!Required - limit
           new == Compact!Shrunk(msgs[cursor], Compact!Minus(Compact!Bytes(msgs[cursor]), over))
<1>5. Compact!Required \in Nat
  BY <1>2, RequiredIsNat
<1>6. over \in Nat /\ over > 0
  BY <1>1, <1>2, <1>5
<1>7. msgs' = [msgs EXCEPT ![cursor] = new]
  BY DEF Compact!Cut
<1> HIDE DEF over
<1>8. new \in Message /\ new.role = msgs[cursor].role /\ Compact!Bytes(new) < Compact!Bytes(msgs[cursor])
  BY <1>1, <1>4, <1>6, ShrunkIsShorter
<1> HIDE DEF new
<1>9. msgs' \in Seq(Message) /\ Len(msgs') = Len(msgs) /\ DOMAIN msgs' = DOMAIN msgs
  BY <1>2, <1>3, <1>7, <1>8, ExceptSeq
<1>10. msgs'[cursor] = new /\ \A i \in DOMAIN msgs : i # cursor => msgs'[i] = msgs[i]
  BY <1>2, <1>3, <1>7
<1>11. Compact!TypeOK'
  BY <1>1, <1>2, <1>9 DEF Compact!TypeOK, Compact!Kinds, Given, Message
<1>12. Compact!OldestFirst'
  <2>1. ASSUME NEW j \in DOMAIN msgs', j < cursor', msgs'[j].role = "tool" PROVE Compact!Exhausted(msgs'[j])
    <3>1. j \in DOMAIN msgs /\ j # cursor /\ j < cursor
      BY <1>1, <1>2, <1>9, <2>1
    <3>2. msgs'[j] = msgs[j]
      BY <1>10, <3>1
    <3> QED BY <1>1, <2>1, <3>1, <3>2 DEF Compact!OldestFirst
  <2>2. ASSUME NEW i \in DOMAIN msgs', msgs'[i] # given'[i]
        PROVE  i <= cursor' /\ msgs'[i].role = "tool" /\ Compact!Bytes(msgs'[i]) < Compact!Bytes(given'[i])
    <3>1. CASE i # cursor
      BY <1>1, <1>9, <1>10, <2>2, <3>1 DEF Compact!OldestFirst
    <3>2. CASE i = cursor
      <4>1. given[cursor] \in Given /\ given[cursor] \in Message
        <5>1. given[cursor] \in Given
          BY <1>2, <1>3, ElementOfSeq
        <5> QED BY <5>1 DEF Given, Message
      <4>2. Compact!Bytes(given[cursor]) \in Nat /\ Compact!Bytes(msgs[cursor]) \in Nat /\ Compact!Bytes(new) \in Nat
        BY <1>4, <1>8, <4>1, MessageTakes
      <4>3. Compact!Bytes(msgs[cursor]) <= Compact!Bytes(given[cursor])
        <5>1. CASE msgs[cursor] = given[cursor]
          BY <4>2, <5>1
        <5>2. CASE msgs[cursor] # given[cursor]
          <6>1. Compact!Bytes(msgs[cursor]) < Compact!Bytes(given[cursor])
            BY <1>1, <1>2, <1>3, <5>2 DEF Compact!OldestFirst
          <6> QED BY <4>2, <6>1
        <5> QED BY <5>1, <5>2
      <4>4. Compact!Bytes(new) < Compact!Bytes(given[cursor])
        BY <1>8, <4>2, <4>3
      <4>5. i <= cursor
        BY <1>2, <3>2
      <4> QED BY <1>1, <1>8, <1>10, <3>2, <4>4, <4>5
    <3> QED BY <3>1, <3>2
  <2> QED BY <2>1, <2>2 DEF Compact!OldestFirst
<1> QED BY <1>1, <1>11, <1>12 DEF Compact!IInv

\* when the middle is left out,
LEMMA CompressingKeeps ==
  ASSUME Compact!IInv, NEW b \in Budgets, Compact!Compress(b)
  PROVE  Compact!IInv'
<1>1. Compact!TypeOK /\ Compact!OldestFirst /\ at = "idle" /\ at' = "compressed" /\ limit' = b
      /\ UNCHANGED <<given, msgs, cursor, episodes>> /\ episodes = 0
  BY DEF Compact!IInv, Compact!Compress
<1>2. given \in Seq(Given) /\ Len(given) \in Nat /\ DOMAIN given = 1..Len(given) /\ b \in Nat
  BY <1>1, CompactShape, LengthsAssumption
<1> DEFINE last == Len(given)
           head == Compact!HeadCount
           tail == Compact!TailStart
           meet == Compact!MeetStart(Compact!Minus(b, given[1].body))
<1>3. kept' = IF Compact!SpanSize(1, last) <= b THEN Compact!Span(1, last)
              ELSE IF head >= tail - 1 THEN <<1>> \o Compact!Span(meet, last)
              ELSE Compact!Span(1, head) \o Compact!Span(tail, last)
  BY DEF Compact!Compress
<1>4. kept' \in Seq(Nat) /\ Increases(kept') /\ (given # <<>> => kept' # <<>> /\ kept'[1] = 1)
  <2>1. CASE Compact!SpanSize(1, last) <= b
    <3>1. kept' = Compact!Span(1, last)
      BY <1>3, <2>1
    <3>2. 1 \in Nat \ {0} /\ last \in Nat
      BY <1>2
    <3>3. /\ Compact!Span(1, last) \in Seq(Nat)
          /\ Len(Compact!Span(1, last)) = Compact!Minus(last + 1, 1)
          /\ \A i \in 1..Len(Compact!Span(1, last)) : Compact!Span(1, last)[i] = 1 + i - 1
          /\ Increases(Compact!Span(1, last))
      BY <3>2, SpanIncreases
    <3>4. Compact!Minus(last + 1, 1) = last
      BY <3>2 DEF Compact!Minus
    <3>5. given # <<>> => last > 0
      BY <1>2, EmptySeq
    <3> HIDE DEF last
    <3>6. kept' \in Seq(Nat) /\ Increases(kept') /\ Len(kept') = last /\ \A i \in 1..Len(kept') : kept'[i] = 1 + i - 1
      BY <3>1, <3>3, <3>4
    <3>7. given # <<>> => 1 \in 1..Len(kept') /\ Len(kept') # 0
      BY <3>2, <3>5, <3>6
    <3>8. given # <<>> => kept'[1] = 1 /\ kept' # <<>>
      BY <3>6, <3>7, EmptySeq
    <3> QED BY <3>6, <3>8
  <2>2. CASE ~ (Compact!SpanSize(1, last) <= b)
    <3>1. given # <<>>
      <4> SUFFICES ASSUME given = <<>> PROVE FALSE
        OBVIOUS
      <4>1. Len(given) = 0
        BY EmptySeq
      <4>2. Compact!SpanSize(1, last) = 0
        <5>1. Compact!SpanSize(Len(given) + 1, Len(given)) = 0
          BY <1>2, SizesAreInt
        <5>2. Len(given) + 1 = 1
          BY <4>1
        <5> QED BY <5>1, <5>2
      <4> QED BY <1>2, <2>2, <4>2
    <3>2. last > 0 /\ last \in Nat
      BY <1>2, <3>1, EmptySeq
    <3>3. head \in 1..last /\ tail \in 1..last
      BY <1>2, <3>1, HeadIsThere, TailIsThere
    <3>4. meet \in 2..(last + 1)
      <4>1. 1 \in 1..Len(given)
        BY <3>2
      <4>2. given[1] \in Given
        BY <1>2, <4>1, ElementOfSeq
      <4>3. given[1].body \in Nat
        BY <4>2 DEF Given
      <4>4. Compact!Minus(b, given[1].body) \in Nat
        BY <1>2, <4>3 DEF Compact!Minus
      <4> QED BY <1>2, <3>1, <4>4, MeetIsThere
    <3> HIDE DEF head, tail, meet, last
    <3>5. CASE head >= tail - 1
      <4>1. kept' = <<1>> \o Compact!Span(meet, last)
        BY <1>3, <2>2, <3>5
      <4>2. meet \in Nat \ {0} /\ meet > 1
        BY <3>2, <3>4
      <4>3. /\ Compact!Span(meet, last) \in Seq(Nat)
            /\ \A i \in 1..Len(Compact!Span(meet, last)) : Compact!Span(meet, last)[i] = meet + i - 1
            /\ Increases(Compact!Span(meet, last))
        BY <3>2, <4>2, SpanIncreases
      <4> DEFINE t == Compact!Span(meet, last)
                 s == <<1>>
      <4>4. s \in Seq(Nat) /\ Len(s) = 1 /\ DOMAIN s = 1..1 /\ s[1] = 1
        OBVIOUS
      <4>5. Increases(s)
        BY <4>4 DEF Increases
      <4> HIDE DEF s, t
      <4>6. t \in Seq(Nat) /\ Increases(t) /\ Len(t) \in Nat /\ \A j \in 1..Len(t) : t[j] = meet + j - 1
        BY <4>3, LenProperties DEF t
      <4>7. \A j \in 1..Len(t) : 1 < t[j]
        BY <4>2, <4>6
      <4>8. \A i \in 1..Len(s), j \in 1..Len(t) : s[i] < t[j]
        BY <4>4, <4>7
      <4>9. s \o t \in Seq(Nat) /\ Increases(s \o t)
        BY <4>4, <4>5, <4>6, <4>8, JoinIncreases
      <4>10. Len(s \o t) = 1 + Len(t) /\ (s \o t)[1] = s[1]
        <5>1. Len(s \o t) = Len(s) + Len(t) /\ \A i \in 1..(Len(s) + Len(t)) : (s \o t)[i] = IF i <= Len(s) THEN s[i] ELSE t[i - Len(s)]
          BY <4>4, <4>6, ConcatProperties
        <5>2. 1 \in 1..(Len(s) + Len(t)) /\ 1 <= Len(s)
          BY <4>4, <4>6
        <5> QED BY <4>4, <5>1, <5>2
      <4>11. s \o t # <<>>
        BY <4>6, <4>9, <4>10, EmptySeq
      <4>12. kept' = s \o t
        BY <4>1 DEF s, t
      <4> QED BY <4>4, <4>9, <4>10, <4>11, <4>12
    <3>6. CASE ~ (head >= tail - 1)
      <4> DEFINE s == Compact!Span(1, head)
                 t == Compact!Span(tail, last)
      <4>1. kept' = s \o t
        BY <1>3, <2>2, <3>6
      <4>2. head \in Nat /\ head > 0 /\ tail \in Nat \ {0} /\ head < tail /\ 1 \in Nat \ {0}
        BY <3>2, <3>3, <3>6
      <4>3. s \in Seq(Nat) /\ Len(s) = Compact!Minus(head + 1, 1) /\ Increases(s)
            /\ \A i \in 1..Len(s) : s[i] = 1 + i - 1
        BY <4>2, SpanIncreases
      <4>4. t \in Seq(Nat) /\ Increases(t) /\ \A i \in 1..Len(t) : t[i] = tail + i - 1
        BY <3>2, <4>2, SpanIncreases
      <4>5. Compact!Minus(head + 1, 1) = head
        BY <4>2 DEF Compact!Minus
      <4> HIDE DEF s, t
      <4>6. Len(t) \in Nat /\ Len(s) = head
        BY <4>3, <4>4, <4>5, LenProperties
      <4>7. \A i \in 1..Len(s), j \in 1..Len(t) : s[i] < t[j]
        BY <4>2, <4>3, <4>4, <4>6
      <4>8. s \o t \in Seq(Nat) /\ Increases(s \o t)
        BY <4>3, <4>4, <4>7, JoinIncreases
      <4>9. 1 \in 1..Len(s)
        BY <4>2, <4>6
      <4>10. s[1] = 1
        BY <4>3, <4>9
      <4>11. Len(s \o t) = head + Len(t) /\ (s \o t)[1] = s[1]
        <5>1. Len(s \o t) = Len(s) + Len(t) /\ \A i \in 1..(Len(s) + Len(t)) : (s \o t)[i] = IF i <= Len(s) THEN s[i] ELSE t[i - Len(s)]
          BY <4>3, <4>4, ConcatProperties
        <5>2. 1 \in 1..(Len(s) + Len(t)) /\ 1 <= Len(s)
          BY <4>2, <4>6
        <5> QED BY <4>6, <5>1, <5>2
      <4>12. s \o t # <<>>
        BY <4>2, <4>6, <4>8, <4>11, EmptySeq
      <4> QED BY <4>1, <4>8, <4>10, <4>11, <4>12
    <3> QED BY <3>5, <3>6
  <2> QED BY <2>1, <2>2
<1>5. Compact!TypeOK'
  BY <1>1, <1>2, <1>4 DEF Compact!TypeOK
<1>6. Compact!OldestFirst'
  BY <1>1 DEF Compact!OldestFirst, Compact!Exhausted, Compact!Bytes
<1> QED BY <1>1, <1>4, <1>5, <1>6 DEF Compact!IInv, Increases

\* and in every step.
LEMMA CompactStays == Compact!IInv /\ [Compact!Next]_(Compact!vars) => Compact!IInv'
<1> SUFFICES ASSUME Compact!IInv, [Compact!Next]_(Compact!vars) PROVE Compact!IInv'
  OBVIOUS
<1>0. Compact!TypeOK /\ Compact!OldestFirst
  BY DEF Compact!IInv
<1>1. ASSUME NEW m \in Compact!Messages, Compact!AddMessage(m) PROVE Compact!IInv'
  BY <1>1, AddingKeeps
<1>2. ASSUME NEW b \in Budgets, Compact!Begin(b) PROVE Compact!IInv'
  <2>1. b \in Nat
    BY LengthsAssumption
  <2>2. Compact!TypeOK'
    BY <1>0, <1>2, <2>1 DEF Compact!TypeOK, Compact!Begin
  <2>3. Compact!OldestFirst'
    BY <1>0, <1>2 DEF Compact!OldestFirst, Compact!Begin, Compact!Exhausted, Compact!Bytes
  <2> QED BY <1>2, <2>2, <2>3 DEF Compact!IInv, Compact!Begin
<1>3. ASSUME NEW b \in Budgets, Compact!Compress(b) PROVE Compact!IInv'
  BY <1>3, CompressingKeeps
<1>4. ASSUME Compact!Fit PROVE Compact!IInv'
  <2>1. UNCHANGED <<given, msgs, limit, cursor, kept>> /\ at = "compacting" /\ at' = "fits" /\ Compact!Required <= limit
    BY <1>4 DEF Compact!Fit
  <2>2. episodes' \in Nat
    BY <1>0, <1>4 DEF Compact!Fit, Compact!TypeOK
  <2>3. Compact!TypeOK'
    BY <1>0, <2>1, <2>2 DEF Compact!TypeOK
  <2>4. Compact!OldestFirst'
    BY <1>0, <2>1 DEF Compact!OldestFirst, Compact!Exhausted, Compact!Bytes
  <2>5. Compact!Required' = Compact!Required
    BY <2>1 DEF Compact!Required, Compact!Total, Compact!Chars
  <2> QED BY <2>1, <2>3, <2>4, <2>5 DEF Compact!IInv
<1>5. ASSUME Compact!PassOver PROVE Compact!IInv'
  <2>1. /\ UNCHANGED <<given, msgs, limit, at, episodes, kept>> /\ at = "compacting" /\ cursor' = cursor + 1
        /\ msgs[cursor].role # "tool" \/ Compact!Exhausted(msgs[cursor])
    BY <1>5 DEF Compact!PassOver
  <2>2. cursor \in Nat \ {0} /\ cursor' \in Nat \ {0} /\ DOMAIN msgs \subseteq Nat
    BY <1>0, <2>1, CompactShape
  <2>3. Compact!TypeOK'
    BY <1>0, <2>1, <2>2 DEF Compact!TypeOK
  <2>4. Compact!OldestFirst'
    <3>1. ASSUME NEW j \in DOMAIN msgs, j < cursor + 1, msgs[j].role = "tool" PROVE Compact!Exhausted(msgs[j])
      <4>1. j = cursor \/ j < cursor
        BY <2>2, <3>1
      <4> QED BY <1>0, <2>1, <3>1, <4>1 DEF Compact!OldestFirst
    <3>2. ASSUME NEW i \in DOMAIN msgs, msgs[i] # given[i]
          PROVE  i <= cursor + 1 /\ msgs[i].role = "tool" /\ Compact!Bytes(msgs[i]) < Compact!Bytes(given[i])
      <4>1. i <= cursor /\ msgs[i].role = "tool" /\ Compact!Bytes(msgs[i]) < Compact!Bytes(given[i])
        BY <1>0, <3>2 DEF Compact!OldestFirst
      <4> QED BY <2>2, <4>1
    <3>3. (\A j \in DOMAIN msgs : j < cursor + 1 /\ msgs[j].role = "tool" => Compact!Exhausted(msgs[j]))
          /\ (\A i \in DOMAIN msgs : msgs[i] # given[i] =>
                i <= cursor + 1 /\ msgs[i].role = "tool" /\ Compact!Bytes(msgs[i]) < Compact!Bytes(given[i]))
      BY <3>1, <3>2
    <3> QED BY <2>1, <3>3 DEF Compact!OldestFirst, Compact!Exhausted, Compact!Bytes
  <2> QED BY <2>1, <2>3, <2>4 DEF Compact!IInv
<1>6. ASSUME Compact!Cut PROVE Compact!IInv'
  BY <1>6, CuttingKeeps
<1>7. ASSUME Compact!Exceed PROVE Compact!IInv'
  <2>1. UNCHANGED <<given, msgs, limit, cursor, episodes, kept>> /\ at = "compacting" /\ at' = "exceeded" /\ cursor > Len(msgs)
    BY <1>7 DEF Compact!Exceed
  <2>2. Compact!TypeOK'
    BY <1>0, <2>1 DEF Compact!TypeOK
  <2>3. Compact!OldestFirst'
    BY <1>0, <2>1 DEF Compact!OldestFirst, Compact!Exhausted, Compact!Bytes
  <2> QED BY <2>1, <2>2, <2>3 DEF Compact!IInv
<1>8. ASSUME UNCHANGED Compact!vars PROVE Compact!IInv'
  <2>1. UNCHANGED <<given, msgs, limit, cursor, at, episodes, kept>>
    BY <1>8 DEF Compact!vars
  <2>2. Compact!TypeOK' /\ Compact!OldestFirst'
    BY <1>0, <2>1 DEF Compact!TypeOK, Compact!OldestFirst, Compact!Exhausted, Compact!Bytes
  <2>3. Compact!Required' = Compact!Required
    BY <2>1 DEF Compact!Required, Compact!Total, Compact!Chars
  <2> QED BY <2>1, <2>2, <2>3 DEF Compact!IInv
<1> QED BY <1>1, <1>2, <1>3, <1>4, <1>5, <1>6, <1>7, <1>8 DEF Compact!Next

\* It implies what is checked of compaction.
LEMMA CompactIsKept == Compact!IInv => Compact!CompactionIsOldestFirst
<1> SUFFICES ASSUME Compact!IInv PROVE Compact!CompactionIsOldestFirst
  OBVIOUS
<1>1. Compact!TypeOK /\ Compact!OldestFirst
  BY DEF Compact!IInv
<1>2. /\ Len(given) \in Nat /\ Len(msgs) = Len(given) /\ cursor \in Nat
      /\ DOMAIN given = 1..Len(given) /\ DOMAIN msgs = 1..Len(given)
  BY <1>1, CompactShape
<1>3. \A m : Compact!Exhausted(m) => Compact!Bytes(m) = 0
  BY DEF Compact!Exhausted, Compact!Bytes
<1>4. ASSUME at = "exceeded", NEW i \in DOMAIN msgs, msgs[i].role = "tool" PROVE Compact!Bytes(msgs[i]) = 0
  <2>1. cursor > Len(msgs)
    BY <1>4 DEF Compact!IInv
  <2>2. i < cursor
    BY <1>2, <2>1
  <2> QED BY <1>1, <1>3, <1>4, <2>2 DEF Compact!OldestFirst
<1>5. ASSUME NEW i \in DOMAIN msgs, msgs[i] # given[i]
      PROVE  /\ msgs[i].role = "tool" /\ Compact!Bytes(msgs[i]) < Compact!Bytes(given[i])
             /\ \A j \in 1..(i - 1) : msgs[j].role = "tool" => Compact!Bytes(msgs[j]) = 0
  <2>1. i <= cursor /\ msgs[i].role = "tool" /\ Compact!Bytes(msgs[i]) < Compact!Bytes(given[i])
    BY <1>1, <1>5 DEF Compact!OldestFirst
  <2>2. ASSUME NEW j \in 1..(i - 1), msgs[j].role = "tool" PROVE Compact!Bytes(msgs[j]) = 0
    <3>1. j \in DOMAIN msgs /\ j < cursor
      BY <1>2, <2>1
    <3> QED BY <1>1, <1>3, <2>2, <3>1 DEF Compact!OldestFirst
  <2> QED BY <2>1, <2>2
<1>6. episodes > 0 => at = "fits"
  BY DEF Compact!IInv
<1> QED BY <1>2, <1>4, <1>5, <1>6 DEF Compact!IInv, Compact!CompactionIsOldestFirst

-------------------------------------------------------------------------------
(* Worktrees.                                                                *)

\* What is listed was made: at the start ...
LEMMA TreesStart == Trees!Init => Trees!IInv
BY CountsAssumption DEF Trees!Init, Trees!IInv, Trees!Clean

\* What a rollback does: to one tree, the first of the session it names.
Rolled(i) ==
  \E new \in [commits : BOOLEAN, dirty : BOOLEAN] :
    /\ tree' = tree \/ tree' = [tree EXCEPT ![i] = new]
    /\ worktrees[i].git /\ worktrees[i].based => tree' = [tree EXCEPT ![i] = Trees!Clean]

\* A rollback is of one tree of its session.
LEMMA RolledBack ==
  ASSUME NEW s, Trees!RollbackSession(s)
  PROVE  \E i \in DOMAIN worktrees : worktrees[i].session = s /\ Rolled(i)
<1>1. PICK i \in DOMAIN worktrees :
        /\ worktrees[i].session = s
        /\ Trees!GitRollback(i) \/ Trees!MainRollback(i) \/ Trees!DirectoryRollback(i)
  BY DEF Trees!RollbackSession, Trees!First
<1>c. Trees!Clean \in [commits : BOOLEAN, dirty : BOOLEAN]
  BY DEF Trees!Clean
<1>2. CASE Trees!GitRollback(i)
  <2>1. PICK committed \in BOOLEAN : committed = (tree[i].commits /\ ~worktrees[i].based)
    OBVIOUS
  <2>2. [commits |-> committed, dirty |-> FALSE] \in [commits : BOOLEAN, dirty : BOOLEAN]
    OBVIOUS
  <2>3. tree' = [tree EXCEPT ![i] = [commits |-> committed, dirty |-> FALSE]]
    BY <1>2, <2>1 DEF Trees!GitRollback
  <2>4. worktrees[i].git /\ worktrees[i].based => tree' = [tree EXCEPT ![i] = Trees!Clean]
    <3>1. worktrees[i].based => committed = FALSE
      BY <2>1
    <3> QED BY <2>3, <3>1 DEF Trees!Clean
  <2>5. Rolled(i)
    BY <2>2, <2>3, <2>4 DEF Rolled
  <2> QED BY <1>1, <2>5
<1>3. CASE Trees!MainRollback(i) \/ Trees!DirectoryRollback(i)
  <2>1. Rolled(i)
    BY <1>3, <1>c DEF Trees!MainRollback, Trees!DirectoryRollback, Rolled
  <2> QED BY <1>1, <2>1
<1> QED BY <1>1, <1>2, <1>3

\* ... and in every step.
LEMMA TreesStay == Trees!IInv /\ [Trees!Next]_(Trees!vars) => Trees!IInv'
<1> SUFFICES ASSUME Trees!IInv, [Trees!Next]_(Trees!vars) PROVE Trees!IInv'
  OBVIOUS
<1> USE DEF Trees!IInv, Trees!Clean
<1>1. CASE Trees!GitInit \/ Trees!UserEdits \/ Trees!Tick \/ UNCHANGED Trees!vars
  BY <1>1 DEF Trees!GitInit, Trees!UserEdits, Trees!Tick, Trees!vars
<1>2. ASSUME NEW i \in 1 .. MaxTrees, Trees!SessionWorks(i) PROVE Trees!IInv'
  BY <1>2 DEF Trees!SessionWorks
<1>3. ASSUME NEW i \in 1 .. MaxTrees, Trees!Remove(i) PROVE Trees!IInv'
  BY <1>3 DEF Trees!Remove, Trees!Without
<1>4. ASSUME NEW s \in Sessions, NEW b \in Branches, NEW based \in BOOLEAN,
             Trees!CreateForSession(s, b, based)
      PROVE  Trees!IInv'
  BY <1>4, CountsAssumption DEF Trees!CreateForSession
<1>5. ASSUME NEW s \in Sessions, Trees!RollbackSession(s) PROVE Trees!IInv'
  <2>1. PICK i \in DOMAIN worktrees : Rolled(i)
    BY <1>5, RolledBack
  <2>2. tree' \in [1 .. MaxTrees -> [commits : BOOLEAN, dirty : BOOLEAN]]
    BY <2>1 DEF Rolled
  <2> QED BY <1>5, <2>2 DEF Trees!RollbackSession
<1>6. ASSUME NEW age \in 0 .. MaxTime, Trees!PruneStale(age) PROVE Trees!IInv'
  BY <1>6 DEF Trees!PruneStale, Trees!Without
<1> QED BY <1>1, <1>2, <1>3, <1>4, <1>5, <1>6 DEF Trees!Next

\* A rollback undoes work in one tree, the first of the session it names.
LEMMA RollbacksAreOwn ==
  ASSUME Trees!IInv, NEW s \in Sessions, Trees!RollbackSession(s)
  PROVE  /\ \A i \in DOMAIN worktrees : worktrees[i].session # s => tree'[i] = tree[i]
         /\ \E i \in DOMAIN worktrees :
              worktrees[i].session = s /\ (worktrees[i].git /\ worktrees[i].based => tree'[i] = Trees!Clean)
<1>1. PICK k \in DOMAIN worktrees : worktrees[k].session = s /\ Rolled(k)
  BY RolledBack
<1>2. k \in DOMAIN tree
  BY <1>1, CountsAssumption DEF Trees!IInv
<1>3. \A i \in DOMAIN worktrees : worktrees[i].session # s => tree'[i] = tree[i]
  <2>1. \A i \in DOMAIN worktrees : i \in DOMAIN tree
    BY CountsAssumption DEF Trees!IInv
  <2>2. \A i \in DOMAIN worktrees : worktrees[i].session # s => i # k
    BY <1>1
  <2> QED BY <1>1, <2>1, <2>2 DEF Rolled
<1>4. worktrees[k].git /\ worktrees[k].based => tree'[k] = Trees!Clean
  BY <1>1, <1>2 DEF Rolled
<1> QED BY <1>1, <1>3, <1>4

-------------------------------------------------------------------------------
(* Edits by anchor.                                                          *)

\* The empty line is a line.
LEMMA BlankIsText == Hashline!Blank \in Hashline!Lines
BY DEF Hashline!Lines

\* What is joined of lines is a text, with every line that is not empty where it was.
LEMMA JoinedKeeps ==
  ASSUME NEW lines \in Seq(Hashline!Lines), NEW newline \in BOOLEAN
  PROVE  /\ Hashline!Joined(lines, newline) \in Hashline!Texts
         /\ \A i \in 1..Len(lines) : lines[i] # Hashline!Blank =>
              /\ i \in DOMAIN Hashline!Joined(lines, newline).lines
              /\ Hashline!Joined(lines, newline).lines[i] = lines[i]
<1> DEFINE J == Hashline!Joined(lines, newline)
<1> USE DEF Hashline!Text, Hashline!Texts
<1>0. Len(lines) \in Nat /\ DOMAIN lines = 1..Len(lines) /\ (lines = <<>> <=> Len(lines) = 0) /\ (lines # <<>> => Len(lines) > 0)
  BY LenProperties, EmptySeq
<1>1. CASE newline /\ lines = <<>>
  <2>1. J = [lines |-> <<Hashline!Blank>>, newline |-> TRUE]
    BY <1>1 DEF Hashline!Joined
  <2>2. <<Hashline!Blank>> \in Seq(Hashline!Lines)
    BY BlankIsText
  <2>3. J \in Hashline!Texts
    <3> HIDE DEF J
    <3> QED BY <2>1, <2>2
  <2>4. Len(lines) = 0
    BY <1>0, <1>1
  <2> HIDE DEF J
  <2>5. J \in Hashline!Texts /\ \A i \in 1..Len(lines) : lines[i] # Hashline!Blank => i \in DOMAIN J.lines /\ J.lines[i] = lines[i]
    BY <2>3, <2>4
  <2> QED BY <2>5 DEF J
<1>2. CASE newline /\ lines # <<>>
  <2>1. J = [lines |-> lines, newline |-> TRUE]
    BY <1>2 DEF Hashline!Joined
  <2> QED BY <1>0, <2>1
<1>3. CASE ~newline /\ (lines = <<>> \/ lines[Len(lines)] # Hashline!Blank)
  <2>1. J = [lines |-> lines, newline |-> FALSE]
    BY <1>3 DEF Hashline!Joined
  <2> QED BY <1>0, <2>1
<1>4. CASE ~newline /\ lines # <<>> /\ lines[Len(lines)] = Hashline!Blank /\ Len(lines) = 1
  <2>1. J = [lines |-> <<>>, newline |-> FALSE]
    BY <1>4 DEF Hashline!Joined, Hashline!EmptyText
  <2>2. \A i \in 1..Len(lines) : lines[i] = Hashline!Blank
    BY <1>4
  <2> QED BY <2>1, <2>2
<1>5. CASE ~newline /\ lines # <<>> /\ lines[Len(lines)] = Hashline!Blank /\ Len(lines) # 1
  <2>1. J = [lines |-> SubSeq(lines, 1, Len(lines) - 1), newline |-> TRUE]
    BY <1>5 DEF Hashline!Joined
  <2>2. \A i \in 1..(Len(lines) - 1) : lines[i] \in Hashline!Lines
    BY <1>0, ElementOfSeq
  <2>3. Len(lines) - 1 \in Int /\ 1 <= Len(lines) - 1
    BY <1>0, <1>5
  <2>4. /\ SubSeq(lines, 1, Len(lines) - 1) \in Seq(Hashline!Lines)
        /\ Len(SubSeq(lines, 1, Len(lines) - 1)) = Len(lines) - 1
        /\ \A i \in 1..(Len(lines) - 1) : SubSeq(lines, 1, Len(lines) - 1)[i] = lines[i]
    BY <1>0, <2>2, <2>3, SubSeqProperties
  <2>5. DOMAIN SubSeq(lines, 1, Len(lines) - 1) = 1..(Len(lines) - 1)
    BY <2>4, LenProperties
  <2>6. \A i \in 1..Len(lines) : lines[i] # Hashline!Blank => i \in 1..(Len(lines) - 1)
    BY <1>0, <1>5
  <2> QED BY <2>1, <2>4, <2>5, <2>6
<1> QED BY <1>0, <1>1, <1>2, <1>3, <1>4, <1>5

Splice(old, put, from, to, newline) ==
  Hashline!Joined(SubSeq(old, 1, from) \o put \o SubSeq(old, to + 1, Len(old)), newline)

KeepsAround(old, new, from, to) ==
  /\ \A i \in 1..from : old[i] # Hashline!Blank => i \in DOMAIN new /\ new[i] = old[i]
  /\ \A i \in 1..(Len(old) - to) : old[to + i] # Hashline!Blank => \E j \in DOMAIN new : new[j] = old[to + i]

\* The lines before a range and those after it are among the joined ones.
LEMMA SplicedKeeps ==
  ASSUME NEW old \in Seq(Hashline!Lines), NEW put \in Seq(Hashline!Lines), NEW from \in Nat, NEW to \in Nat, NEW newline \in BOOLEAN,
         from <= Len(old), to <= Len(old)
  PROVE  /\ Splice(old, put, from, to, newline) \in Hashline!Texts
         /\ KeepsAround(old, Splice(old, put, from, to, newline).lines, from, to)
<1>s. PICK new : new = Splice(old, put, from, to, newline)
  OBVIOUS
<1> DEFINE n == Len(old)
           before == SubSeq(old, 1, from)
           after == SubSeq(old, to + 1, n)
           all == before \o put \o after
<1>n. new = Hashline!Joined(all, newline)
  BY <1>s DEF Splice
<1>0. n \in Nat /\ \A i \in 1..n : old[i] \in Hashline!Lines
  BY LenProperties, ElementOfSeq
<1>1. /\ before \in Seq(Hashline!Lines) /\ Len(before) = from
      /\ \A i \in 1..from : before[i] = old[i]
  <2>1. \A i \in 1..from : old[i] \in Hashline!Lines
    BY <1>0
  <2>2. /\ before \in Seq(Hashline!Lines) /\ Len(before) = (IF 1 <= from THEN from - 1 + 1 ELSE 0)
        /\ \A i \in 1..(from - 1 + 1) : before[i] = old[1 + i - 1]
    BY <2>1, SubSeqProperties
  <2> QED BY <2>2
<1>2. /\ after \in Seq(Hashline!Lines) /\ Len(after) = n - to
      /\ \A i \in 1..(n - to) : after[i] = old[to + i]
  <2>1. \A i \in (to + 1)..n : old[i] \in Hashline!Lines
    BY <1>0
  <2>2. /\ after \in Seq(Hashline!Lines) /\ Len(after) = (IF to + 1 <= n THEN n - (to + 1) + 1 ELSE 0)
        /\ \A i \in 1..(n - (to + 1) + 1) : after[i] = old[(to + 1) + i - 1]
    <3>1. to + 1 \in Int /\ n \in Int
      BY <1>0
    <3> QED BY <2>1, <3>1, SubSeqProperties
  <2>3. \A i \in 1..(n - to) : i \in 1..(n - (to + 1) + 1) /\ (to + 1) + i - 1 = to + i
    BY <1>0
  <2>4. Len(after) = n - to
    BY <1>0, <2>2
  <2> HIDE DEF after, n
  <2> QED BY <2>2, <2>3, <2>4
<1> HIDE DEF before, after
<1>3. /\ before \o put \in Seq(Hashline!Lines) /\ Len(before \o put) = from + Len(put) /\ Len(put) \in Nat
      /\ \A i \in 1..from : (before \o put)[i] = before[i]
  <2>1. Len(put) \in Nat
    BY LenProperties
  <2>2. /\ before \o put \in Seq(Hashline!Lines) /\ Len(before \o put) = Len(before) + Len(put)
        /\ \A i \in 1..(Len(before) + Len(put)) :
             (before \o put)[i] = IF i <= Len(before) THEN before[i] ELSE put[i - Len(before)]
    BY <1>1, ConcatProperties
  <2> QED BY <1>1, <2>1, <2>2
<1> DEFINE m == from + Len(put)
<1>4. /\ all \in Seq(Hashline!Lines) /\ Len(all) = m + (n - to)
      /\ \A i \in 1..(m + (n - to)) : all[i] = IF i <= m THEN (before \o put)[i] ELSE after[i - m]
  <2>0. PICK first \in Seq(Hashline!Lines) : first = before \o put
    BY <1>3
  <2>1. /\ first \o after \in Seq(Hashline!Lines) /\ Len(first \o after) = Len(first) + Len(after)
        /\ \A i \in 1..(Len(first) + Len(after)) : (first \o after)[i] =
             IF i <= Len(first) THEN first[i] ELSE after[i - Len(first)]
    <3>1. after \in Seq(Hashline!Lines)
      BY <1>2
    <3> QED BY <3>1, ConcatProperties
  <2>2. Len(first) = m /\ Len(after) = n - to
    BY <1>2, <1>3, <2>0
  <2> HIDE DEF m, n
  <2> QED BY <2>0, <2>1, <2>2
<1>5. m \in Nat /\ n - to \in Nat
  BY <1>0, <1>3
<1>6. /\ new \in Hashline!Texts
      /\ \A i \in 1..Len(all) : all[i] # Hashline!Blank => i \in DOMAIN new.lines /\ new.lines[i] = all[i]
  <2> HIDE DEF all
  <2> QED BY <1>4, <1>n, JoinedKeeps
<1> HIDE DEF all
<1>7. ASSUME NEW i \in 1..from, old[i] # Hashline!Blank PROVE i \in DOMAIN new.lines /\ new.lines[i] = old[i]
  <2>1. i \in 1..(m + (n - to)) /\ i <= m
    BY <1>0, <1>3
  <2>2. all[i] = old[i]
    BY <1>1, <1>3, <1>4, <2>1
  <2> QED BY <1>4, <1>6, <1>7, <2>1, <2>2
<1>8. ASSUME NEW i \in 1..(n - to), old[to + i] # Hashline!Blank PROVE \E j \in DOMAIN new.lines : new.lines[j] = old[to + i]
  <2>1. m + i \in 1..(m + (n - to)) /\ ~(m + i <= m) /\ (m + i) - m = i
    BY <1>5
  <2>2. all[m + i] = after[(m + i) - m]
    BY <1>4, <2>1
  <2>3. all[m + i] = old[to + i]
    BY <1>2, <2>1, <2>2
  <2> QED BY <1>4, <1>6, <1>8, <2>1, <2>3
<1> QED BY <1>6, <1>7, <1>8, <1>s DEF KeepsAround

\* The inductive invariant of the edits: at the start ...
LEMMA HashStarts == Hashline!Init => Hashline!IInv
<1> SUFFICES ASSUME Hashline!Init PROVE Hashline!IInv
  OBVIOUS
<1>1. DOMAIN files = {} /\ files \in [DOMAIN files -> Hashline!Texts]
  BY DEF Hashline!Init
<1>2. \A e \in Editors : op[e] = Hashline!NoOp /\ Hashline!NoOp.at = "idle"
  BY DEF Hashline!Init, Hashline!NoOp
<1> QED BY <1>1, <1>2 DEF Hashline!Init, Hashline!IInv

\* What an edit leaves.
LEMMA EditIsText ==
  ASSUME Hashline!IInv, NEW e \in Editors, op[e].at = "anchored", Hashline!InRange(e),
         NEW p, p = op[e].path
  PROVE  /\ Hashline!Spliced(e) \in Hashline!Texts
         /\ p \in DOMAIN files /\ op[e].kind # "write" =>
              KeepsAround(files[p].lines, Hashline!Spliced(e).lines, op[e].from, op[e].to)
<1>1. op[e].from \in Nat /\ op[e].to \in Nat /\ op[e].put \in Seq(Hashline!Lines)
  BY DEF Hashline!IInv
<1>2. PICK text \in Hashline!Texts : text = Hashline!Read(p)
  <2>1. Hashline!EmptyText \in Hashline!Texts
    BY DEF Hashline!EmptyText, Hashline!Text, Hashline!Texts
  <2>2. p \in DOMAIN files => files[p] \in Hashline!Texts
    BY DEF Hashline!IInv
  <2> QED BY <2>1, <2>2 DEF Hashline!Read
<1>3. text.lines \in Seq(Hashline!Lines) /\ text.newline \in BOOLEAN
  BY DEF Hashline!Texts
<1>4. CASE op[e].kind = "write"
  <2>1. Hashline!Spliced(e) = Hashline!Joined(op[e].put, FALSE)
    BY <1>4 DEF Hashline!Spliced
  <2> QED BY <1>1, <1>4, <2>1, JoinedKeeps
<1>5. CASE op[e].kind # "write"
  <2>1. Hashline!Spliced(e) = Hashline!Joined(SubSeq(text.lines, 1, op[e].from) \o op[e].put
                                                \o SubSeq(text.lines, op[e].to + 1, Len(text.lines)), text.newline)
    BY <1>2, <1>5 DEF Hashline!Spliced
  <2>2. op[e].from <= Len(text.lines) /\ op[e].to <= Len(text.lines)
    BY <1>2, <1>5 DEF Hashline!InRange
  <2>3. p \in DOMAIN files => text = files[p]
    BY <1>2 DEF Hashline!Read
  <2>4. /\ Splice(text.lines, op[e].put, op[e].from, op[e].to, text.newline) \in Hashline!Texts
        /\ KeepsAround(text.lines, Splice(text.lines, op[e].put, op[e].from, op[e].to, text.newline).lines, op[e].from, op[e].to)
    BY <1>1, <1>3, <2>2, SplicedKeeps
  <2>5. Splice(text.lines, op[e].put, op[e].from, op[e].to, text.newline) = Hashline!Spliced(e)
    BY <2>1 DEF Splice
  <2> QED BY <2>3, <2>4, <2>5
<1> QED BY <1>4, <1>5

\* A text that is written changes its own file.
LEMMA TextIsWritten ==
  ASSUME files \in [DOMAIN files -> Hashline!Texts], NEW p, NEW text \in Hashline!Texts, files' = Hashline!Written(p, text)
  PROVE  /\ files' \in [DOMAIN files' -> Hashline!Texts] /\ DOMAIN files' = DOMAIN files \cup {p}
         /\ files'[p] = text /\ \A q \in DOMAIN files : q # p => files'[q] = files[q]
<1>1. DOMAIN files' = DOMAIN files \cup {p}
  BY DEF Hashline!Written
<1>2. files' = [q \in DOMAIN files \cup {p} |-> IF q = p THEN text ELSE files[q]]
  BY DEF Hashline!Written
<1>3. files'[p] = text /\ \A q \in DOMAIN files : q # p => files'[q] = files[q]
  BY <1>2
<1>4. files' \in [DOMAIN files \cup {p} -> Hashline!Texts]
  BY <1>2
<1> QED BY <1>1, <1>3, <1>4

\* An edit that is applied, to an editor that read what is there.
LEMMA ApplyGoes ==
  ASSUME Hashline!IInv, NEW e \in Editors, Hashline!Apply(e)
  PROVE  /\ op[e].at = "anchored" /\ UNCHANGED loads
         /\ DOMAIN op' = Editors /\ DOMAIN op'[e] = DOMAIN Hashline!NoOp /\ op'[e].at = "ended"
         /\ \A u \in Editors : u # e => op'[u] = op[u]
         /\ \/ files' = files
            \/ /\ Hashline!Fresh(e) /\ Hashline!InRange(e) /\ op'[e].end = "applied"
               /\ files' = Hashline!Written(op[e].path, Hashline!Spliced(e))
<1>1. PICK end : /\ end = IF ~Hashline!Fresh(e) THEN "stale" ELSE IF ~Hashline!InRange(e) THEN "invalid_range" ELSE "applied"
                 /\ op' = [op EXCEPT ![e].at = "ended", ![e].end = end]
                 /\ files' = IF end = "applied" THEN Hashline!Written(op[e].path, Hashline!Spliced(e)) ELSE files
  BY DEF Hashline!Apply
<1>2. DOMAIN op = Editors /\ DOMAIN op[e] = DOMAIN Hashline!NoOp
  BY DEF Hashline!IInv
<1>3. {"at", "end"} \subseteq DOMAIN op[e]
  BY <1>2 DEF Hashline!NoOp
<1>4. op'[e] = [op[e] EXCEPT !.at = "ended", !.end = end] /\ DOMAIN op' = Editors
      /\ \A u \in Editors : u # e => op'[u] = op[u]
  BY <1>1, <1>2
<1>5. op'[e].at = "ended" /\ op'[e].end = end /\ DOMAIN op'[e] = DOMAIN Hashline!NoOp
  BY <1>2, <1>3, <1>4
<1>6. op[e].at = "anchored" /\ UNCHANGED loads
  BY DEF Hashline!Apply
<1> QED BY <1>1, <1>4, <1>5, <1>6

\* ... and in every step.
LEMMA HashStays == Hashline!IInv /\ [Hashline!Next]_(Hashline!vars) => Hashline!IInv'
<1> SUFFICES ASSUME Hashline!IInv, [Hashline!Next]_(Hashline!vars) PROVE Hashline!IInv'
  OBVIOUS
<1> DEFINE Asked(o) ==
             /\ DOMAIN o = DOMAIN Hashline!NoOp
             /\ o.at = "anchored" => o.from \in Nat /\ o.to \in Nat /\ o.put \in Seq(Hashline!Lines) /\ o.saw \in Hashline!Texts
<1>0. /\ files \in [DOMAIN files -> Hashline!Texts] /\ loads \in Nat /\ DOMAIN op = Editors
      /\ \A e \in Editors : Asked(op[e])
  BY DEF Hashline!IInv
<1>q. /\ files' \in [DOMAIN files' -> Hashline!Texts] /\ loads' \in Nat /\ DOMAIN op' = Editors
      /\ \A e \in Editors : Asked(op'[e])
      => Hashline!IInv'
  BY DEF Hashline!IInv
<1> HIDE DEF Asked
<1>1. ASSUME NEW p \in Paths, NEW text \in Loads, Hashline!LoadFile(p, text) PROVE Hashline!IInv'
  <2>1. text \in Hashline!Texts /\ text.lines \in Seq(Hashline!Lines) /\ text.newline \in BOOLEAN
    BY LinesAssumption DEF Hashline!Texts
  <2>2. Hashline!Joined(text.lines, text.newline) \in Hashline!Texts
    BY <2>1, JoinedKeeps
  <2>3. files' \in [DOMAIN files' -> Hashline!Texts]
    BY <1>0, <1>1, <2>2, TextIsWritten DEF Hashline!LoadFile
  <2>4. loads' \in Nat /\ UNCHANGED op
    BY <1>0, <1>1 DEF Hashline!LoadFile
  <2> QED BY <1>0, <1>q, <2>3, <2>4
\* An editor's edit replaced by another.
<1>o. ASSUME NEW e \in Editors, NEW o, Asked(o), op' = [op EXCEPT ![e] = o], UNCHANGED <<files, loads>>
      PROVE  Hashline!IInv'
  <2>1. DOMAIN op' = Editors /\ op'[e] = o /\ \A u \in Editors : u # e => op'[u] = op[u]
    BY <1>0, <1>o
  <2>2. files' \in [DOMAIN files' -> Hashline!Texts] /\ loads' \in Nat
    BY <1>0, <1>o
  <2> QED BY <1>0, <1>o, <1>q, <2>1, <2>2
<1>2. ASSUME NEW e \in Editors, NEW edit \in Edits, NEW p \in Paths, Hashline!Anchor(e, edit, p) PROVE Hashline!IInv'
  <2>1. UNCHANGED <<files, loads>>
    BY <1>2 DEF Hashline!Anchor
  <2>2. CASE p \notin DOMAIN files /\ edit.kind # "write"
    <3>1. PICK o : o = [Hashline!NoOp EXCEPT !.at = "ended", !.end = "not_found"]
      OBVIOUS
    <3>2. Asked(o)
      BY <3>1 DEF Hashline!NoOp, Asked
    <3>3. op' = [op EXCEPT ![e] = o]
      BY <1>2, <2>2, <3>1 DEF Hashline!Anchor
    <3> QED BY <1>o, <2>1, <3>2, <3>3
  <2>3. CASE ~(p \notin DOMAIN files /\ edit.kind # "write")
    <3>1. PICK o : o = [at |-> "anchored", kind |-> edit.kind, path |-> p, saw |-> Hashline!Read(p),
                        from |-> edit.from, to |-> edit.to, put |-> edit.put, end |-> "none"]
      OBVIOUS
    <3>2. Hashline!Read(p) \in Hashline!Texts
      <4>1. Hashline!EmptyText \in Hashline!Texts
        BY DEF Hashline!EmptyText, Hashline!Text, Hashline!Texts
      <4> QED BY <1>0, <4>1 DEF Hashline!Read
    <3>3. Asked(o)
      BY <3>1, <3>2, LinesAssumption DEF Hashline!NoOp, Asked
    <3>4. op' = [op EXCEPT ![e] = o]
      BY <1>2, <2>3, <3>1 DEF Hashline!Anchor
    <3> QED BY <1>o, <2>1, <3>3, <3>4
  <2> QED BY <2>2, <2>3
<1>3. ASSUME NEW e \in Editors, Hashline!Apply(e) PROVE Hashline!IInv'
  <2>1. /\ op[e].at = "anchored" /\ UNCHANGED loads
        /\ DOMAIN op' = Editors /\ DOMAIN op'[e] = DOMAIN Hashline!NoOp /\ op'[e].at = "ended"
        /\ \A u \in Editors : u # e => op'[u] = op[u]
        /\ \/ files' = files
           \/ /\ Hashline!InRange(e)
              /\ files' = Hashline!Written(op[e].path, Hashline!Spliced(e))
    BY <1>3, ApplyGoes
  <2>2. files' \in [DOMAIN files' -> Hashline!Texts]
    <3>1. CASE files' = files
      BY <1>0, <3>1
    <3>2. CASE Hashline!InRange(e) /\ files' = Hashline!Written(op[e].path, Hashline!Spliced(e))
      <4>1. Hashline!Spliced(e) \in Hashline!Texts
        BY <2>1, <3>2, EditIsText
      <4> QED BY <1>0, <3>2, <4>1, TextIsWritten
    <3> QED BY <2>1, <3>1, <3>2
  <2>3. Asked(op'[e])
    BY <2>1 DEF Asked
  <2> QED BY <1>0, <1>q, <2>1, <2>2, <2>3
<1>4. ASSUME NEW e \in Editors, Hashline!Return(e) PROVE Hashline!IInv'
  <2>1. Asked(Hashline!NoOp)
    BY DEF Hashline!NoOp, Asked
  <2> QED BY <1>4, <1>o, <2>1 DEF Hashline!Return
<1>5. CASE UNCHANGED Hashline!vars
  BY <1>0, <1>5, <1>q DEF Hashline!vars
<1> QED BY <1>1, <1>2, <1>3, <1>4, <1>5 DEF Hashline!Next

\* A step that changes a file is a load or an edit of what its editor read.
EditIsOwn ==
  \A p \in DOMAIN files : files'[p] # files[p] /\ loads' = loads =>
    \E e \in Editors :
      /\ op[e].at = "anchored" /\ op[e].path = p /\ op[e].saw = files[p]
      /\ op'[e].end = "applied"
      /\ op[e].kind # "write" =>
           LET old == files[p].lines
               new == files'[p].lines
               left == Len(old) - op[e].to
           IN /\ \A i \in 1..op[e].from : old[i] # Hashline!Blank => i \in DOMAIN new /\ new[i] = old[i]
              /\ \A i \in 1..left : old[op[e].to + i] # Hashline!Blank =>
                   \E j \in DOMAIN new : new[j] = old[op[e].to + i]

\* Each step that changes a file is an edit by an anchor of what the file held.
LEMMA NoEditIsLost == Hashline!IInv /\ [Hashline!Next]_(Hashline!vars) => EditIsOwn
<1> SUFFICES ASSUME Hashline!IInv, [Hashline!Next]_(Hashline!vars), NEW p \in DOMAIN files,
                    files'[p] # files[p], loads' = loads
             PROVE  \E e \in Editors :
                      /\ op[e].at = "anchored" /\ op[e].path = p /\ op[e].saw = files[p]
                      /\ op'[e].end = "applied"
                      /\ op[e].kind # "write" =>
                           LET old == files[p].lines
                               new == files'[p].lines
                               left == Len(old) - op[e].to
                           IN /\ \A i \in 1..op[e].from : old[i] # Hashline!Blank => i \in DOMAIN new /\ new[i] = old[i]
                              /\ \A i \in 1..left : old[op[e].to + i] # Hashline!Blank =>
                                   \E j \in DOMAIN new : new[j] = old[op[e].to + i]
  BY DEF EditIsOwn
<1>1. PICK e \in Editors : Hashline!Apply(e)
  <2>1. loads \in Nat
    BY DEF Hashline!IInv
  <2> QED BY <2>1 DEF Hashline!Next, Hashline!vars, Hashline!LoadFile, Hashline!Anchor, Hashline!Return
<1>2. /\ op[e].at = "anchored"
      /\ Hashline!Fresh(e) /\ Hashline!InRange(e) /\ op'[e].end = "applied"
      /\ files' = Hashline!Written(op[e].path, Hashline!Spliced(e))
  BY <1>1, ApplyGoes
<1>3. files \in [DOMAIN files -> Hashline!Texts]
  BY DEF Hashline!IInv
<1>4. op[e].path = p /\ files'[p] = Hashline!Spliced(e)
  <2>1. Hashline!Spliced(e) \in Hashline!Texts
    BY <1>2, EditIsText
  <2> QED BY <1>2, <1>3, <2>1, TextIsWritten
<1>5. op[e].saw = files[p]
  BY <1>2, <1>4 DEF Hashline!Fresh, Hashline!Read
<1>6. op[e].kind # "write" => KeepsAround(files[p].lines, Hashline!Spliced(e).lines, op[e].from, op[e].to)
  BY <1>2, <1>4, EditIsText
<1> QED BY <1>2, <1>4, <1>5, <1>6 DEF KeepsAround

-------------------------------------------------------------------------------
(* Skills: manifests and sizes.                                              *)

\* A body is shorter than its manifest.
LEMMA CuratorCounts == \A S : Curator!Cardinality(S) = Cardinality(S)
BY DEF Curator!Cardinality, Cardinality

\* The first of some places is one of them, and none is before it.
LEMMA FirstOf ==
  ASSUME NEW P, P \subseteq Nat, P # {}
  PROVE  Curator!First(P) \in P /\ \A o \in P : Curator!First(P) <= o
<1>1. \E n \in P : \A o \in P : n <= o
  BY LeastOf
<1> QED BY <1>1 DEF Curator!First

\* The places of a kind of line are finitely many lines.
LEMMA PlacesOf ==
  ASSUME NEW m \in Manifests, NEW kind
  PROVE  /\ m.lines \in Seq(STRING) /\ Len(m.lines) \in Nat /\ DOMAIN m.lines = 1..Len(m.lines)
         /\ Curator!Places(m, kind) \subseteq 1..Len(m.lines)
         /\ IsFiniteSet(Curator!Places(m, kind))
<1>1. m.lines \in Seq(STRING)
  BY LinesAssumption
<1>2. Len(m.lines) \in Nat /\ DOMAIN m.lines = 1..Len(m.lines)
  BY <1>1, LenProperties
<1>3. Curator!Places(m, kind) \subseteq 1..Len(m.lines)
  BY <1>2 DEF Curator!Places
<1>4. IsFiniteSet(1..Len(m.lines))
  BY <1>2, FS_Interval
<1>5. IsFiniteSet(Curator!Places(m, kind))
  BY <1>3, <1>4, FS_Subset
<1> QED BY <1>1, <1>2, <1>3, <1>5

\* Both readers find the body behind the second fence.
LEMMA ReadersAgree ==
  ASSUME NEW m \in Manifests, Curator!Fenced(m), Curator!Loadable(m), ~m.crlf
  PROVE  Curator!ManifestBody(m) = Curator!PrefaceBody(m)
<1> DEFINE fences == Curator!Places(m, "fence")
<1>1. /\ m.lines \in Seq(STRING) /\ Len(m.lines) \in Nat /\ DOMAIN m.lines = 1..Len(m.lines)
      /\ fences \subseteq 1..Len(m.lines) /\ IsFiniteSet(fences)
  BY PlacesOf
<1>2. m.lines # <<>> /\ m.lines[1] = "fence"
  BY DEF Curator!Fenced
<1>3. 1 \in 1..Len(m.lines)
  BY <1>1, <1>2, EmptySeq
<1>4. 1 \in fences
  BY <1>1, <1>2, <1>3 DEF Curator!Places
<1>5. Curator!Closing(m) = fences \ {1} /\ fences \ {1} # {}
  BY DEF Curator!Closing, Curator!Loadable
<1>6. Curator!ManifestBody(m) = Curator!After(m, Curator!First(Curator!Closing(m)))
  BY DEF Curator!ManifestBody
<1>7. Curator!PrefaceBody(m) = IF Curator!Cardinality(fences) < 2 THEN m.lines
                               ELSE Curator!After(m, Curator!First(fences \ {Curator!First(fences)}))
  BY DEF Curator!PrefaceBody
<1> HIDE DEF fences
<1>8. Curator!First(fences) = 1
  <2>1. fences \subseteq Nat /\ \A o \in fences : o >= 1
    BY <1>1
  <2>2. Curator!First(fences) \in fences /\ \A o \in fences : Curator!First(fences) <= o
    BY <1>4, <2>1, FirstOf
  <2>3. Curator!First(fences) <= 1 /\ Curator!First(fences) >= 1 /\ Curator!First(fences) \in Nat
    BY <1>4, <2>1, <2>2
  <2> QED BY <2>3
<1>9. ~ (Curator!Cardinality(fences) < 2)
  <2>1. PICK x \in fences : x # 1
    BY <1>5
  <2>2. {1, x} \subseteq fences
    BY <1>4, <2>1
  <2>3. Cardinality({1, x}) = 2
    <3>1. IsFiniteSet({1}) /\ Cardinality({1}) = 1
      BY FS_Singleton
    <3>2. {1} \cup {x} = {1, x} /\ x \notin {1}
      BY <2>1
    <3>3. Cardinality({1} \cup {x}) = Cardinality({1}) + 1
      BY <3>1, <3>2, FS_AddElement
    <3> QED BY <3>1, <3>2, <3>3
  <2>4. Cardinality({1, x}) <= Cardinality(fences)
    BY <1>1, <2>2, FS_Subset
  <2>5. Cardinality(fences) \in Nat
    BY <1>1, FS_CardinalityType
  <2>6. Curator!Cardinality(fences) = Cardinality(fences)
    BY CuratorCounts
  <2> QED BY <2>3, <2>4, <2>5, <2>6
<1> QED BY <1>5, <1>6, <1>7, <1>8, <1>9

\* The body of a manifest is lines, however its fences are.
LEMMA BodyHasLength ==
  ASSUME NEW m \in Manifests
  PROVE  Len(Curator!PrefaceBody(m)) \in Nat
<1> DEFINE fences == Curator!Places(m, "fence")
           first == Curator!First(fences)
           second == Curator!First(fences \ {first})
<1>1. /\ m.lines \in Seq(STRING) /\ Len(m.lines) \in Nat /\ fences \subseteq 1..Len(m.lines)
      /\ \A i \in 1..Len(m.lines) : m.lines[i] \in STRING
  BY PlacesOf, ElementOfSeq
<1>2. Curator!PrefaceBody(m) = IF Curator!Cardinality(fences) < 2 THEN m.lines ELSE Curator!After(m, second)
  BY DEF Curator!PrefaceBody
<1>3. CASE Curator!Cardinality(fences) < 2
  BY <1>1, <1>2, <1>3
<1>4. CASE ~ (Curator!Cardinality(fences) < 2)
  <2> HIDE DEF fences
  <2>0. Curator!Cardinality(fences) = Cardinality(fences)
    BY CuratorCounts
  <2>1. fences # {}
    <3> SUFFICES ASSUME fences = {} PROVE FALSE
      OBVIOUS
    <3>1. Cardinality(fences) = 0
      BY FS_EmptySet
    <3> QED BY <1>4, <2>0, <3>1
  <2>2. fences \subseteq Nat
    BY <1>1
  <2>3. first \in fences
    BY <2>1, <2>2, FirstOf
  <2> HIDE DEF first
  <2>4. fences \ {first} # {}
    <3> SUFFICES ASSUME fences \ {first} = {} PROVE FALSE
      OBVIOUS
    <3>1. fences = {first}
      BY <2>3
    <3>2. Cardinality({first}) = 1
      BY FS_Singleton
    <3> QED BY <1>4, <2>0, <3>1, <3>2
  <2>5. second \in fences \ {first}
    <3>1. fences \ {first} \subseteq Nat
      BY <2>2
    <3> QED BY <2>4, <3>1, FirstOf
  <2> HIDE DEF second
  <2>6. second \in 1..Len(m.lines)
    BY <1>1, <2>5
  <2>7. second + 1 \in Int /\ Len(m.lines) \in Int /\ \A i \in (second + 1)..Len(m.lines) : m.lines[i] \in STRING
    BY <1>1, <2>6
  <2>8. SubSeq(m.lines, second + 1, Len(m.lines)) \in Seq(STRING)
    BY <2>7, SubSeqProperties
  <2>9. Curator!PrefaceBody(m) \in Seq(STRING)
    BY <1>2, <1>4, <2>8 DEF Curator!After
  <2> QED BY <2>9, LenProperties
<1> QED BY <1>3, <1>4

-------------------------------------------------------------------------------
(* The size of a sequence of entries.                                         *)

Weights(ks) == [n \in 1..Len(ks) |-> Curator!EntrySize(ks[n])]

\* Every entry has a size.
LEMMA EntriesHaveSize ==
  ASSUME folder \in Seq(Manifests)
  PROVE  \A k \in DOMAIN folder : Curator!EntrySize(k) \in Nat
<1> SUFFICES ASSUME NEW k \in DOMAIN folder PROVE Curator!EntrySize(k) \in Nat
  OBVIOUS
<1>1. folder[k] \in Manifests
  BY LenProperties, ElementOfSeq
<1>2. Len(Curator!PrefaceBody(folder[k])) \in Nat
  BY <1>1, BodyHasLength
<1> QED BY <1>2 DEF Curator!EntrySize

\* The size of entries is the sum of theirs.
LEMMA SizesAreSums ==
  ASSUME folder \in Seq(Manifests), NEW ks \in Seq(DOMAIN folder)
  PROVE  /\ Weights(ks) \in Seq(Nat) /\ Len(Weights(ks)) = Len(ks) /\ Len(ks) \in Nat
         /\ \A n \in 1..Len(ks) : Weights(ks)[n] = Curator!EntrySize(ks[n])
         /\ IsSums(Curator!Sums(Weights(ks)), Weights(ks))
         /\ Curator!SizeOf(ks) = Curator!Sums(Weights(ks))[Len(ks)]
<1> DEFINE w == Weights(ks)
<1>1. Len(ks) \in Nat /\ DOMAIN ks = 1..Len(ks) /\ \A n \in 1..Len(ks) : ks[n] \in DOMAIN folder
  BY LenProperties, ElementOfSeq
<1>2. \A n \in 1..Len(ks) : Curator!EntrySize(ks[n]) \in Nat
  BY <1>1, EntriesHaveSize
<1>3. w \in Seq(Nat) /\ Len(w) = Len(ks) /\ \A n \in 1..Len(ks) : w[n] = Curator!EntrySize(ks[n])
  <2>1. w = [n \in 1..Len(ks) |-> Curator!EntrySize(ks[n])]
    BY DEF Weights
  <2> HIDE DEF w
  <2>2. w \in [1..Len(ks) -> Nat]
    BY <1>2, <2>1
  <2> QED BY <1>1, <2>1, <2>2, LenProperties
<1>4. Curator!SizeOf(ks) = Curator!Sums(w)[Len(w)]
  BY <1>1 DEF Curator!SizeOf, Curator!Total, Weights
<1> HIDE DEF w
<1>5. IsSums(Curator!Sums(w), w)
  BY <1>3, SumsOfComponents
<1> QED BY <1>1, <1>3, <1>4, <1>5 DEF w

\* No entries have none.
LEMMA SizeOfNothing ==
  ASSUME folder \in Seq(Manifests)
  PROVE  Curator!SizeOf(<<>>) = 0
<1>1. <<>> \in Seq(DOMAIN folder) /\ Len(<<>>) = 0
  BY EmptySeq
<1>2. IsSums(Curator!Sums(Weights(<<>>)), Weights(<<>>)) /\ Weights(<<>>) \in Seq(Nat)
      /\ Curator!SizeOf(<<>>) = Curator!Sums(Weights(<<>>))[0]
  BY <1>1, SizesAreSums
<1> QED BY <1>2, SumsAreNat

\* One entry more adds its size.
LEMMA SizeOfMore ==
  ASSUME folder \in Seq(Manifests), NEW ks \in Seq(DOMAIN folder), NEW k \in DOMAIN folder
  PROVE  /\ Append(ks, k) \in Seq(DOMAIN folder)
         /\ Curator!SizeOf(ks) \in Nat
         /\ Curator!SizeOf(Append(ks, k)) = Curator!SizeOf(ks) + Curator!EntrySize(k)
<1> DEFINE more == Append(ks, k)
           w == Weights(ks)
           u == Weights(more)
           s == Curator!Sums(w)
           t == Curator!Sums(u)
           n == Len(ks)
<1>1. more \in Seq(DOMAIN folder) /\ Len(more) = n + 1 /\ (\A i \in 1..n : more[i] = ks[i]) /\ more[n + 1] = k
  <2>1. Append(ks, k) \in Seq(DOMAIN folder) /\ Len(Append(ks, k)) = Len(ks) + 1
        /\ (\A i \in 1..Len(ks) : Append(ks, k)[i] = ks[i]) /\ Append(ks, k)[Len(ks) + 1] = k
    BY AppendProperties
  <2> QED BY <2>1
<1> HIDE DEF more
<1>2. /\ w \in Seq(Nat) /\ Len(w) = n /\ n \in Nat
      /\ \A i \in 1..n : w[i] = Curator!EntrySize(ks[i])
      /\ IsSums(s, w) /\ Curator!SizeOf(ks) = s[n]
  BY SizesAreSums
<1>3. /\ u \in Seq(Nat) /\ Len(u) = n + 1
      /\ \A i \in 1..(n + 1) : u[i] = Curator!EntrySize(more[i])
      /\ IsSums(t, u) /\ Curator!SizeOf(more) = t[n + 1]
  BY <1>1, SizesAreSums
<1> HIDE DEF w, u, s, t, n
<1>4. Len(w) <= Len(u) /\ (\A i \in 1..Len(w) : w[i] = u[i]) /\ n \in 0..Len(w)
  <2>1. \A i \in 1..n : i \in 1..(n + 1) /\ more[i] = ks[i]
    <3>1. \A i \in 1..n : i \in 1..(n + 1)
      BY <1>2
    <3> QED BY <1>1, <3>1
  <2> QED BY <1>2, <1>3, <2>1
<1>5. s[n] = t[n]
  BY <1>2, <1>3, <1>4, SumsAgree
<1>6. /\ s \in [0..n -> Nat] /\ \A i \in 1..(n + 1) : t[i] = t[i - 1] + u[i]
  <2>1. s \in [0..Len(w) -> Nat]
    BY <1>2, SumsAreNat
  <2>2. \A i \in 1..Len(u) : t[i] = t[i - 1] + u[i]
    BY <1>3, SumsAreNat
  <2> QED BY <1>2, <1>3, <2>1, <2>2
<1>7. n + 1 \in 1..(n + 1) /\ n + 1 - 1 = n /\ n \in 0..n
  BY <1>2
<1>8. t[n + 1] = t[n] + u[n + 1] /\ s[n] \in Nat /\ u[n + 1] = Curator!EntrySize(k)
  BY <1>1, <1>3, <1>6, <1>7
<1>9. Curator!SizeOf(more) = Curator!SizeOf(ks) + Curator!EntrySize(k) /\ Curator!SizeOf(ks) \in Nat
  BY <1>2, <1>3, <1>5, <1>8
<1> QED BY <1>1, <1>9 DEF more

-------------------------------------------------------------------------------
(* The preface that is built.                                                 *)

Takes == [of : Seq(DOMAIN folder), matched : Seq(DOMAIN folder), size : Nat, full : BOOLEAN]

IsScan(f, matches, most) ==
  f = [k \in 0..Len(folder) |->
         IF k = 0 THEN Curator!NothingTaken
         ELSE IF k \in matches THEN Curator!Offer(f[k - 1], k, most) ELSE f[k - 1]]

Begins(s, t) == Len(s) <= Len(t) /\ \A i \in 1..Len(s) : s[i] = t[i]

\* What is taken is of what matches a first part, within the cap, and all of it unless
\* the next entry did not fit.
TakenFits(t, most) ==
  /\ t \in Takes /\ Begins(t.of, t.matched)
  /\ t.size = Curator!SizeOf(t.of) /\ t.size <= most
  /\ ~t.full => t.of = t.matched
  /\ t.full => /\ Len(t.of) < Len(t.matched)
               /\ Curator!SizeOf(SubSeq(t.matched, 1, Len(t.of) + 1)) > most

\* An offer is taken whole, or ends the preface.
LEMMA OfferIsTaken ==
  ASSUME folder \in Seq(Manifests), NEW t \in Takes, NEW k \in DOMAIN folder, NEW most \in Nat
  PROVE  /\ Curator!Offer(t, k, most) \in Takes
         /\ IF t.full \/ t.size + Curator!EntrySize(k) > most
            THEN /\ Curator!Offer(t, k, most).matched = Append(t.matched, k)
                 /\ Curator!Offer(t, k, most).of = t.of
                 /\ Curator!Offer(t, k, most).size = t.size /\ Curator!Offer(t, k, most).full = TRUE
            ELSE /\ Curator!Offer(t, k, most).matched = Append(t.matched, k)
                 /\ Curator!Offer(t, k, most).of = Append(t.of, k)
                 /\ Curator!Offer(t, k, most).size = t.size + Curator!EntrySize(k)
                 /\ Curator!Offer(t, k, most).full = FALSE
<1> DEFINE o == Curator!Offer(t, k, most)
           big == t.full \/ t.size + Curator!EntrySize(k) > most
<1>1. t.of \in Seq(DOMAIN folder) /\ t.matched \in Seq(DOMAIN folder) /\ t.size \in Nat
  BY DEF Takes
<1>2. Append(t.of, k) \in Seq(DOMAIN folder) /\ Append(t.matched, k) \in Seq(DOMAIN folder)
  BY <1>1, AppendProperties
<1>3. Curator!EntrySize(k) \in Nat
  BY EntriesHaveSize
<1>4. CASE big
  <2>1. o = [t EXCEPT !.matched = Append(t.matched, k), !.full = TRUE]
    BY <1>4 DEF Curator!Offer
  <2> HIDE DEF o
  <2>2. o \in Takes /\ o.matched = Append(t.matched, k) /\ o.of = t.of /\ o.size = t.size /\ o.full = TRUE
    BY <1>2, <2>1 DEF Takes
  <2> QED BY <1>4, <2>2 DEF o
<1>5. CASE ~big
  <2>1. o = [of |-> Append(t.of, k), matched |-> Append(t.matched, k), size |-> t.size + Curator!EntrySize(k), full |-> FALSE]
    BY <1>5 DEF Curator!Offer
  <2>2. t.size + Curator!EntrySize(k) \in Nat
    BY <1>1, <1>3
  <2> HIDE DEF o
  <2>3. o \in Takes /\ o.matched = Append(t.matched, k) /\ o.of = Append(t.of, k)
        /\ o.size = t.size + Curator!EntrySize(k) /\ o.full = FALSE
    BY <1>2, <2>1, <2>2 DEF Takes
  <2> QED BY <1>5, <2>3 DEF o
<1> QED BY <1>4, <1>5

\* What was taken stays within the cap, and what ended it did not fit.
LEMMA OfferFits ==
  ASSUME folder \in Seq(Manifests), NEW most \in Nat, NEW t, TakenFits(t, most), NEW k \in DOMAIN folder
  PROVE  TakenFits(Curator!Offer(t, k, most), most)
<1> DEFINE o == Curator!Offer(t, k, most)
           big == t.full \/ t.size + Curator!EntrySize(k) > most
           n == Len(t.of)
<1>1. t \in Takes /\ t.of \in Seq(DOMAIN folder) /\ t.matched \in Seq(DOMAIN folder) /\ t.size \in Nat /\ t.full \in BOOLEAN
  BY DEF TakenFits, Takes
<1>2. /\ o \in Takes
      /\ big => /\ o.matched = Append(t.matched, k) /\ o.of = t.of
                /\ o.size = t.size /\ o.full = TRUE
      /\ ~big => /\ o.matched = Append(t.matched, k) /\ o.of = Append(t.of, k)
                 /\ o.size = t.size + Curator!EntrySize(k) /\ o.full = FALSE
  BY <1>1, OfferIsTaken
<1>3. Curator!EntrySize(k) \in Nat
  BY EntriesHaveSize
<1>4. Len(t.matched) \in Nat /\ n \in Nat /\ Len(Append(t.matched, k)) = Len(t.matched) + 1
      /\ (\A i \in 1..Len(t.matched) : Append(t.matched, k)[i] = t.matched[i])
      /\ Append(t.matched, k) \in Seq(DOMAIN folder)
  BY <1>1, LenProperties, AppendProperties
<1>5. Begins(t.of, t.matched) /\ t.size = Curator!SizeOf(t.of) /\ t.size <= most
      /\ (~t.full => t.of = t.matched)
      /\ (t.full => n < Len(t.matched) /\ Curator!SizeOf(SubSeq(t.matched, 1, n + 1)) > most)
  BY DEF TakenFits
<1> HIDE DEF o
<1>6. CASE ~big
  <2>1. ~t.full /\ t.size + Curator!EntrySize(k) <= most /\ t.of = t.matched
    BY <1>1, <1>3, <1>5, <1>6
  <2>2. o.of = o.matched /\ Len(o.of) \in Nat
    <3>1. o.of = Append(t.of, k) /\ o.matched = Append(t.matched, k)
      BY <1>2, <1>6
    <3>2. o.of = o.matched
      BY <2>1, <3>1
    <3> QED BY <1>4, <3>1, <3>2
  <2>3. Begins(o.of, o.matched)
    BY <2>2 DEF Begins
  <2>4. Curator!SizeOf(Append(t.of, k)) = Curator!SizeOf(t.of) + Curator!EntrySize(k)
    BY <1>1, SizeOfMore
  <2>5. o.size = Curator!SizeOf(o.of) /\ o.size <= most
    BY <1>2, <1>5, <1>6, <2>1, <2>4
  <2> QED BY <1>2, <1>6, <2>2, <2>3, <2>5, Zenon DEF TakenFits, o
<1>7. CASE big
  <2>1. Begins(o.of, o.matched)
    <3>1. n <= Len(t.matched) /\ \A i \in 1..n : t.of[i] = t.matched[i]
      BY <1>5 DEF Begins
    <3>2. n <= Len(Append(t.matched, k)) /\ \A i \in 1..n : t.of[i] = Append(t.matched, k)[i]
      BY <1>4, <3>1
    <3> QED BY <1>2, <1>7, <3>2 DEF Begins
  <2>2. n < Len(o.matched)
    <3>1. n <= Len(t.matched)
      BY <1>5 DEF Begins
    <3> QED BY <1>2, <1>4, <1>7, <3>1
  <2>3. Curator!SizeOf(SubSeq(o.matched, 1, n + 1)) > most
    <3>1. CASE t.full
      <4>1. n < Len(t.matched)
        BY <1>5, <3>1
      <4>2. SubSeq(Append(t.matched, k), 1, n + 1) = SubSeq(t.matched, 1, n + 1)
        <5>1. \A i \in 1..(n + 1) : i \in 1..Len(t.matched) /\ Append(t.matched, k)[i] = t.matched[i]
          BY <1>4, <4>1
        <5>2. \A i \in 1..Len(t.matched) : t.matched[i] \in DOMAIN folder
          BY <1>1, ElementOfSeq
        <5>3. 1 \in Int /\ n + 1 \in Int /\ 1 <= n + 1 /\ n + 1 - 1 + 1 = n + 1 /\ \A i \in 1..(n + 1) : 1 + i - 1 = i
          BY <1>4
        <5>4. \A i \in 1..(n + 1) : Append(t.matched, k)[i] \in DOMAIN folder /\ t.matched[i] \in DOMAIN folder
          BY <5>1, <5>2
        <5>5. /\ SubSeq(t.matched, 1, n + 1) \in Seq(DOMAIN folder) /\ Len(SubSeq(t.matched, 1, n + 1)) = n + 1
              /\ \A i \in 1..(n + 1) : SubSeq(t.matched, 1, n + 1)[i] = t.matched[i]
          <6>1. /\ SubSeq(t.matched, 1, n + 1) \in Seq(DOMAIN folder)
                /\ Len(SubSeq(t.matched, 1, n + 1)) = (IF 1 <= n + 1 THEN n + 1 - 1 + 1 ELSE 0)
                /\ \A i \in 1..(n + 1 - 1 + 1) : SubSeq(t.matched, 1, n + 1)[i] = t.matched[1 + i - 1]
            BY <5>3, <5>4, SubSeqProperties
          <6> QED BY <5>3, <6>1
        <5>6. /\ SubSeq(Append(t.matched, k), 1, n + 1) \in Seq(DOMAIN folder) /\ Len(SubSeq(Append(t.matched, k), 1, n + 1)) = n + 1
              /\ \A i \in 1..(n + 1) : SubSeq(Append(t.matched, k), 1, n + 1)[i] = Append(t.matched, k)[i]
          <6>1. /\ SubSeq(Append(t.matched, k), 1, n + 1) \in Seq(DOMAIN folder)
                /\ Len(SubSeq(Append(t.matched, k), 1, n + 1)) = (IF 1 <= n + 1 THEN n + 1 - 1 + 1 ELSE 0)
                /\ \A i \in 1..(n + 1 - 1 + 1) : SubSeq(Append(t.matched, k), 1, n + 1)[i] = Append(t.matched, k)[1 + i - 1]
            <7> DEFINE q == Append(t.matched, k)
            <7>1. \A i \in 1..(n + 1) : q[i] \in DOMAIN folder
              BY <5>4
            <7> HIDE DEF q
            <7>2. /\ SubSeq(q, 1, n + 1) \in Seq(DOMAIN folder)
                  /\ Len(SubSeq(q, 1, n + 1)) = (IF 1 <= n + 1 THEN n + 1 - 1 + 1 ELSE 0)
                  /\ \A i \in 1..(n + 1 - 1 + 1) : SubSeq(q, 1, n + 1)[i] = q[1 + i - 1]
              BY <5>3, <7>1, SubSeqProperties
            <7> QED BY <7>2 DEF q
          <6> QED BY <5>3, <6>1
        <5> DEFINE a == SubSeq(Append(t.matched, k), 1, n + 1)
                   b == SubSeq(t.matched, 1, n + 1)
        <5>7. a \in Seq(DOMAIN folder) /\ b \in Seq(DOMAIN folder) /\ Len(a) = Len(b) /\ \A i \in 1..Len(a) : a[i] = b[i]
          BY <5>1, <5>5, <5>6
        <5> HIDE DEF a, b
        <5>8. a = b
          BY <5>7, SeqEqual
        <5> QED BY <5>8 DEF a, b
      <4> QED BY <1>2, <1>5, <1>7, <3>1, <4>2
    <3>2. CASE ~t.full
      <4>1. t.of = t.matched /\ t.size + Curator!EntrySize(k) > most
        BY <1>5, <1>7, <3>2
      <4>2. SubSeq(o.matched, 1, n + 1) = Append(t.of, k)
        <5>1. o.matched = Append(t.of, k) /\ o.matched \in Seq(DOMAIN folder) /\ Len(o.matched) = n + 1
          BY <1>2, <1>4, <1>7, <4>1
        <5>2. SubSeq(o.matched, 1, Len(o.matched)) = o.matched
          BY <5>1, SubSeqFull
        <5> QED BY <5>1, <5>2
      <4>3. Curator!SizeOf(Append(t.of, k)) = Curator!SizeOf(t.of) + Curator!EntrySize(k)
        BY <1>1, SizeOfMore
      <4> QED BY <1>5, <4>1, <4>2, <4>3
    <3> QED BY <1>1, <3>1, <3>2
  <2>4. o.of = t.of /\ o.size = t.size /\ o.full = TRUE
    BY <1>2, <1>7
  <2>5. o.size = Curator!SizeOf(o.of) /\ o.size <= most /\ Len(o.of) < Len(o.matched)
        /\ Curator!SizeOf(SubSeq(o.matched, 1, Len(o.of) + 1)) > most
    BY <1>5, <2>2, <2>3, <2>4
  <2> QED BY <1>2, <2>1, <2>4, <2>5, Zenon DEF TakenFits, o
<1> QED BY <1>6, <1>7

-------------------------------------------------------------------------------
(* Skills: the preface, and the archive.                                     *)

\* So it is when every file was offered.
LEMMA ScanFits ==
  ASSUME folder \in Seq(Manifests), NEW matches \in SUBSET DOMAIN folder, NEW most \in Nat
  PROVE  TakenFits(Curator!Taken(matches, most), most)
<1> DEFINE last == Len(folder)
           f == CHOOSE g : IsScan(g, matches, most)
           After(k, x) == IF k \in matches THEN Curator!Offer(x, k, most) ELSE x
           h == [p \in (1..last) \X Takes |-> After(p[1], p[2])]
<1>1. last \in Nat /\ DOMAIN folder = 1..last
  BY LenProperties
<1>2. Curator!Taken(matches, most) = f[last]
  BY DEF Curator!Taken, IsScan
<1>3. Curator!NothingTaken \in Takes /\ TakenFits(Curator!NothingTaken, most)
  <2> DEFINE t == Curator!NothingTaken
  <2>1. t.of = <<>> /\ t.matched = <<>> /\ t.size = 0 /\ t.full = FALSE /\ t \in Takes
    BY DEF Curator!NothingTaken, Takes
  <2>2. Curator!SizeOf(<<>>) = 0
    BY SizeOfNothing
  <2> HIDE DEF t
  <2>3. Begins(t.of, t.matched)
    BY <2>1 DEF Begins
  <2>4. t.size = Curator!SizeOf(t.of) /\ t.size <= most
    BY <2>1, <2>2
  <2> QED BY <2>1, <2>3, <2>4, Zenon DEF TakenFits, t
<1> HIDE DEF last
<1>4. ASSUME NEW k \in 1..last, NEW x \in Takes PROVE After(k, x) \in Takes
  <2>1. CASE k \in matches
    <3>1. Curator!Offer(x, k, most) \in Takes
      BY <1>1, OfferIsTaken
    <3> QED BY <2>1, <3>1
  <2>2. CASE k \notin matches
    BY <2>2
  <2> QED BY <2>1, <2>2
<1>5. \E g : IsScan(g, matches, most)
  <2> HIDE DEF After
  <2>1. h \in [(1..last) \X Takes -> Takes]
    <3> SUFFICES ASSUME NEW p \in (1..last) \X Takes PROVE After(p[1], p[2]) \in Takes
      OBVIOUS
    <3>1. p[2] \in Takes /\ p[1] \in 1..last
      OBVIOUS
    <3> QED BY <1>4, <3>1
  <2>2. \A i \in 1..last, x \in Takes : h[<<i, x>>] = After(i, x)
    OBVIOUS
  <2> HIDE DEF h
  <2>3. PICK g \in [0..last -> Takes] : Solves(g, last, Curator!NothingTaken, h)
    BY <1>1, <1>3, <2>1, Recursion
  <2>4. ASSUME NEW k \in 0..last
        PROVE  g[k] = IF k = 0 THEN Curator!NothingTaken ELSE After(k, g[k - 1])
    <3>1. CASE k = 0
      BY <2>3, <3>1 DEF Solves
    <3>2. CASE k # 0
      <4>1. k \in 1..last /\ k - 1 \in 0..last
        BY <1>1, <3>2
      <4>2. g[k - 1] \in Takes /\ g[k] = h[<<k, g[k - 1]>>]
        BY <2>3, <4>1 DEF Solves
      <4> QED BY <2>2, <3>2, <4>1, <4>2
    <3> QED BY <3>1, <3>2
  <2>5. g = [k \in 0..last |-> IF k = 0 THEN Curator!NothingTaken ELSE After(k, g[k - 1])]
    BY <2>4
  <2> QED BY <2>5 DEF IsScan, last, After
<1>6. IsScan(f, matches, most)
  BY <1>5
<1> HIDE DEF f, h, After
<1>7. \A k \in 0..last : f[k] = IF k = 0 THEN Curator!NothingTaken ELSE After(k, f[k - 1])
  BY <1>6 DEF IsScan, last, After
<1> DEFINE S == {k \in 0..last : TakenFits(f[k], most)}
<1>8. 0 \in S
  <2>1. 0 \in 0..last
    BY <1>1
  <2>2. f[0] = Curator!NothingTaken
    BY <1>7, <2>1
  <2> QED BY <1>3, <2>1, <2>2
<1>9. ASSUME NEW k \in 1..last, k - 1 \in S PROVE k \in S
  <2>1. TakenFits(f[k - 1], most) /\ k \in 0..last /\ k # 0
    BY <1>9
  <2>2. f[k] = After(k, f[k - 1])
    BY <1>7, <2>1
  <2>3. CASE k \in matches
    <3>1. TakenFits(Curator!Offer(f[k - 1], k, most), most)
      BY <1>1, <2>1, OfferFits
    <3>2. f[k] = Curator!Offer(f[k - 1], k, most)
      BY <2>2, <2>3 DEF After
    <3> QED BY <2>1, <3>1, <3>2
  <2>4. CASE k \notin matches
    <3>1. f[k] = f[k - 1]
      BY <2>2, <2>4 DEF After
    <3> QED BY <2>1, <3>1
  <2> QED BY <2>3, <2>4
<1> HIDE DEF S
<1>10. \A k \in 0..last : k \in S
  BY <1>1, <1>8, <1>9, UpTo
<1>11. last \in 0..last
  BY <1>1
<1>12. TakenFits(f[last], most)
  BY <1>10, <1>11 DEF S
<1> QED BY <1>2, <1>12

-------------------------------------------------------------------------------
(* The invariant, part by part: the archive, and the preface.                 *)

ArchiveFits ==
  /\ skillNow \in Nat /\ drawn \subseteq SkillIds
  /\ registry \in [SkillIds -> SUBSET Curator!SkillRecord]
  /\ \A i \in SkillIds : \A s, t \in registry[i] : s = t
  /\ archive \in [SkillIds -> SUBSET {"torn", "temp", "whole"}]
  /\ pass \in [at : {"idle", "write", "rename", "mark"}, left : SUBSET SkillIds, done : SUBSET SkillIds]

ArchiveHas ==
  /\ \A i \in SkillIds : \A s \in registry[i] :
       /\ s.source = "archived" => "whole" \in archive[i]
       /\ archive[i] # {} => s.source \in {"agent", "archived"}
  /\ \A i \in pass.done : "whole" \in archive[i]

ArchiveGood == ArchiveFits /\ Curator!PassIsOfAgents /\ ArchiveHas

\* A preface that is right for the folder.
PrefaceOf(p) ==
  /\ p.matched \in Seq(DOMAIN folder) /\ p.of \in Seq(DOMAIN folder)
  /\ Curator!IsPrefix(p.of, p.matched)
  /\ Curator!SizeOf(p.of) <= p.cap
  /\ p.of # p.matched => Curator!SizeOf(SubSeq(p.matched, 1, Len(p.of) + 1)) > p.cap

PrefaceGood == folder \in Seq(Manifests) /\ PrefaceOf(preface)

ReadersGood ==
  \A k \in DOMAIN folder :
    Curator!Fenced(folder[k]) /\ Curator!Loadable(folder[k]) /\ ~folder[k].crlf =>
      Curator!ManifestBody(folder[k]) = Curator!PrefaceBody(folder[k])

\* The property and the invariant in the parts that a step can disturb one by one.
LEMMA SkillParts ==
  /\ Curator!SkillsAreKept <=>
       /\ ArchiveHas /\ ReadersGood
       /\ Curator!IsPrefix(preface.of, preface.matched)
       /\ Curator!SizeOf(preface.of) <= preface.cap
       /\ preface.of # preface.matched =>
            Curator!SizeOf(SubSeq(preface.matched, 1, Len(preface.of) + 1)) > preface.cap
  /\ Curator!IInv <=> ArchiveGood /\ PrefaceGood /\ ReadersGood
<1>1. Curator!SkillsAreKept <=>
       /\ ArchiveHas /\ ReadersGood
       /\ Curator!IsPrefix(preface.of, preface.matched)
       /\ Curator!SizeOf(preface.of) <= preface.cap
       /\ preface.of # preface.matched =>
            Curator!SizeOf(SubSeq(preface.matched, 1, Len(preface.of) + 1)) > preface.cap
  BY Zenon DEF Curator!SkillsAreKept, ArchiveHas, ReadersGood
<1>2. Curator!TypeOK <=> /\ ArchiveFits /\ folder \in Seq(Manifests)
                         /\ preface.matched \in Seq(DOMAIN folder) /\ preface.of \in Seq(DOMAIN folder)
  BY Zenon DEF Curator!TypeOK, ArchiveFits
<1>3. Curator!IInv <=> ArchiveGood /\ PrefaceGood /\ ReadersGood
  BY <1>1, <1>2, Zenon DEF Curator!IInv, ArchiveGood, PrefaceGood, PrefaceOf
<1> QED BY <1>1, <1>3

\* Both readers find one body.
LEMMA ReadersAreGood == folder \in Seq(Manifests) => ReadersGood
<1> SUFFICES ASSUME folder \in Seq(Manifests), NEW k \in DOMAIN folder,
                    Curator!Fenced(folder[k]), Curator!Loadable(folder[k]), ~folder[k].crlf
             PROVE  Curator!ManifestBody(folder[k]) = Curator!PrefaceBody(folder[k])
  BY DEF ReadersGood
<1>1. folder[k] \in Manifests
  BY LenProperties, ElementOfSeq
<1> QED BY <1>1, ReadersAgree

\* IsPrefix, place by place.
LEMMA BeginsIsPrefix ==
  ASSUME NEW S, NEW s \in Seq(S), NEW t \in Seq(S), Begins(s, t)
  PROVE  Curator!IsPrefix(s, t)
<1> DEFINE n == Len(s)
           a == SubSeq(t, 1, n)
<1>1. n \in Nat /\ Len(t) \in Nat /\ n <= Len(t) /\ (\A i \in 1..n : s[i] = t[i]) /\ (\A i \in 1..Len(t) : t[i] \in S)
  BY LenProperties, ElementOfSeq DEF Begins
<1>2. 1 \in Int /\ n \in Int /\ (\A i \in 1..n : t[i] \in S) /\ (IF 1 <= n THEN n - 1 + 1 ELSE 0) = n
      /\ n - 1 + 1 = n /\ \A i \in 1..n : 1 + i - 1 = i
  BY <1>1
<1>3. a \in Seq(S) /\ Len(a) = (IF 1 <= n THEN n - 1 + 1 ELSE 0) /\ \A i \in 1..(n - 1 + 1) : a[i] = t[1 + i - 1]
  BY <1>2, SubSeqProperties
<1> HIDE DEF a
<1>4. a \in Seq(S) /\ Len(a) = Len(s) /\ \A i \in 1..Len(a) : a[i] = s[i]
  BY <1>1, <1>2, <1>3
<1>5. a = s
  BY <1>4, SeqEqual
<1>6. SubSeq(s, 1, Len(s)) = s
  BY SubSeqFull
<1> QED BY <1>1, <1>5, <1>6 DEF Curator!IsPrefix, a

\* The inductive invariant of the skills: at the start ...
LEMMA SkillsStart == Curator!Init => Curator!IInv
<1> SUFFICES ASSUME Curator!Init PROVE Curator!IInv
  OBVIOUS
<1>1. /\ skillNow = 0 /\ drawn = {} /\ pass = Curator!NoPass
      /\ registry = [i \in SkillIds |-> {}] /\ archive = [i \in SkillIds |-> {}]
      /\ folder = <<>> /\ preface = [of |-> <<>>, matched |-> <<>>, cap |-> 0]
  BY DEF Curator!Init
<1>2. ArchiveFits
  BY <1>1 DEF ArchiveFits, Curator!NoPass
<1>3. Curator!PassIsOfAgents
  BY <1>1 DEF Curator!PassIsOfAgents, Curator!NoPass
<1>4. ArchiveHas
  BY <1>1 DEF ArchiveHas, Curator!NoPass
<1>5. folder \in Seq(Manifests) /\ preface.of = <<>> /\ preface.matched = <<>> /\ preface.cap = 0
  BY <1>1
<1>6. <<>> \in Seq(DOMAIN folder) /\ Begins(<<>>, <<>>)
  BY DEF Begins
<1>7. Curator!SizeOf(<<>>) = 0 /\ Curator!IsPrefix(<<>>, <<>>)
  BY <1>5, <1>6, SizeOfNothing, BeginsIsPrefix
<1>8. PrefaceGood
  <2>1. Curator!SizeOf(preface.of) <= preface.cap
    BY <1>5, <1>7
  <2> QED BY <1>5, <1>6, <1>7, <2>1 DEF PrefaceGood, PrefaceOf
<1> QED BY <1>2, <1>3, <1>4, <1>5, <1>8, ReadersAreGood, SkillParts DEF ArchiveGood

-------------------------------------------------------------------------------
(* What a step does to the preface, ...                                       *)

\* ... the preface when the archive moves,
LEMMA PrefaceRests ==
  ASSUME PrefaceGood, folder' = folder, preface' = preface
  PROVE  PrefaceGood' /\ ReadersGood'
<1>1. ReadersGood
  BY ReadersAreGood DEF PrefaceGood
<1>2. ReadersGood'
  BY <1>1 DEF ReadersGood, Curator!Fenced, Curator!Loadable, Curator!ManifestBody, Curator!PrefaceBody
<1>4. PrefaceGood'
  BY DEF PrefaceGood, PrefaceOf, Curator!SizeOf, Curator!EntrySize
<1> QED BY <1>2, <1>4

\* sizes when a file comes,
LEMMA SizeKeeps ==
  ASSUME folder \in Seq(Manifests), NEW m, folder' = Append(folder, m) \/ folder' = folder,
         NEW ks \in Seq(DOMAIN folder)
  PROVE  Curator!SizeOf(ks)' = Curator!SizeOf(ks)
<1>1. DOMAIN folder = 1..Len(folder) /\ DOMAIN ks = 1..Len(ks) /\ (\A n \in 1..Len(ks) : ks[n] \in DOMAIN folder)
  BY LenProperties, ElementOfSeq
<1>2. \A k \in DOMAIN folder : folder'[k] = folder[k]
  BY <1>1
<1>3. \A n \in DOMAIN ks : 1 + Len(Curator!PrefaceBody(folder'[ks[n]])) = 1 + Len(Curator!PrefaceBody(folder[ks[n]]))
  BY <1>1, <1>2
<1>4. [n \in DOMAIN ks |-> 1 + Len(Curator!PrefaceBody(folder'[ks[n]]))]
        = [n \in DOMAIN ks |-> 1 + Len(Curator!PrefaceBody(folder[ks[n]]))]
  BY <1>3
<1> HIDE <1>3
<1>5. Curator!SizeOf(ks)' = Curator!Total([n \in DOMAIN ks |-> 1 + Len(Curator!PrefaceBody(folder'[ks[n]]))])
  BY DEF Curator!SizeOf, Curator!EntrySize
<1>6. Curator!SizeOf(ks) = Curator!Total([n \in DOMAIN ks |-> 1 + Len(Curator!PrefaceBody(folder[ks[n]]))])
  BY DEF Curator!SizeOf, Curator!EntrySize
<1> QED BY <1>4, <1>5, <1>6

\* and with them what is known of a preface,
LEMMA PrefaceKeeps ==
  ASSUME folder \in Seq(Manifests), NEW m, folder' = Append(folder, m) \/ folder' = folder,
         folder' \in Seq(Manifests), NEW p, PrefaceOf(p)
  PROVE  PrefaceOf(p)'
<1>1. DOMAIN folder \subseteq DOMAIN folder'
  <2>1. DOMAIN folder = 1..Len(folder) /\ Len(folder) \in Nat
    BY LenProperties
  <2>2. CASE folder' = Append(folder, m)
    <3>1. Len(folder') = Len(folder) + 1 /\ DOMAIN folder' = 1..Len(folder')
      BY <2>2, LenProperties
    <3> QED BY <2>1, <3>1
  <2> QED BY <2>2
<1>2. p.matched \in Seq(DOMAIN folder) /\ p.of \in Seq(DOMAIN folder)
  BY DEF PrefaceOf
<1>3. p.matched \in Seq(DOMAIN folder') /\ p.of \in Seq(DOMAIN folder')
  BY <1>1, <1>2
<1>4. Curator!SizeOf(p.of)' = Curator!SizeOf(p.of)
  BY <1>2, SizeKeeps
<1>5. p.of # p.matched => SubSeq(p.matched, 1, Len(p.of) + 1) \in Seq(DOMAIN folder)
  <2>1. Len(p.of) \in Nat /\ Len(p.matched) \in Nat /\ Len(p.of) <= Len(p.matched)
    BY <1>2, LenProperties DEF PrefaceOf, Curator!IsPrefix
  <2>2. CASE Len(p.of) < Len(p.matched)
    <3>1. 1 \in Int /\ Len(p.of) + 1 \in Int /\ \A i \in 1..(Len(p.of) + 1) : p.matched[i] \in DOMAIN folder
      <4>1. \A i \in 1..(Len(p.of) + 1) : i \in 1..Len(p.matched)
        BY <2>1, <2>2
      <4>2. \A i \in 1..Len(p.matched) : p.matched[i] \in DOMAIN folder
        BY <1>2, ElementOfSeq
      <4> QED BY <2>1, <4>1, <4>2
    <3> QED BY <3>1, SubSeqProperties
  <2>3. CASE Len(p.of) = Len(p.matched)
    <3>1. SubSeq(p.of, 1, Len(p.of)) = p.of /\ SubSeq(p.matched, 1, Len(p.matched)) = p.matched
      BY <1>2, SubSeqFull
    <3>2. SubSeq(p.of, 1, Len(p.of)) = SubSeq(p.matched, 1, Len(p.of))
      BY DEF PrefaceOf, Curator!IsPrefix
    <3>3. p.of = p.matched
      BY <2>3, <3>1, <3>2
    <3> QED BY <3>3
  <2> QED BY <2>1, <2>2, <2>3
<1>6. p.of # p.matched => Curator!SizeOf(SubSeq(p.matched, 1, Len(p.of) + 1))' = Curator!SizeOf(SubSeq(p.matched, 1, Len(p.of) + 1))
  BY <1>5, SizeKeeps
<1> QED BY <1>3, <1>4, <1>6 DEF PrefaceOf

\* so when a file comes,
LEMMA FileIsPut ==
  ASSUME PrefaceGood, NEW m \in Manifests, Curator!PutFile(m)
  PROVE  PrefaceGood' /\ ReadersGood'
<1>1. folder \in Seq(Manifests) /\ folder' = Append(folder, m) /\ preface' = preface /\ PrefaceOf(preface)
  BY DEF PrefaceGood, Curator!PutFile
<1>2. folder' \in Seq(Manifests)
  BY <1>1, AppendProperties
<1>3. PICK p : p = preface
  OBVIOUS
<1>4. PrefaceOf(p)
  BY <1>1, <1>3
<1>5. PrefaceOf(p)'
  BY <1>1, <1>2, <1>4, PrefaceKeeps
<1>6. preface' = p
  BY <1>1, <1>3
<1>7. PrefaceOf(preface)'
  BY <1>5, <1>6 DEF PrefaceOf
<1>8. PrefaceGood'
  BY <1>2, <1>7 DEF PrefaceGood
<1>9. ReadersGood'
  <2>1. (folder \in Seq(Manifests))'
    BY <1>2
  <2> QED BY <2>1, ReadersAreGood, PTL
<1> QED BY <1>8, <1>9

\* when a preface is made,
LEMMA PrefaceIsMade ==
  ASSUME PrefaceGood, NEW matches \in SUBSET DOMAIN folder, NEW most \in Caps, Curator!Prepare(matches, most)
  PROVE  PrefaceGood' /\ ReadersGood'
<1>1. folder \in Seq(Manifests) /\ most \in Nat
  BY LengthsAssumption DEF PrefaceGood
<1>2. PICK t : t = Curator!Taken(matches, most)
  OBVIOUS
<1>3. TakenFits(t, most)
  BY <1>1, <1>2, ScanFits
<1>4. folder' = folder /\ preface' = [of |-> t.of, matched |-> t.matched, cap |-> most]
  BY <1>2 DEF Curator!Prepare
<1>5. PICK p : p = [of |-> t.of, matched |-> t.matched, cap |-> most]
  OBVIOUS
<1>6. p.of = t.of /\ p.matched = t.matched /\ p.cap = most
  BY <1>5
<1>7. t.of \in Seq(DOMAIN folder) /\ t.matched \in Seq(DOMAIN folder) /\ t.full \in BOOLEAN
  BY <1>3 DEF TakenFits, Takes
<1>8. /\ Begins(t.of, t.matched) /\ Curator!SizeOf(t.of) <= most
      /\ t.of # t.matched => Curator!SizeOf(SubSeq(t.matched, 1, Len(t.of) + 1)) > most
  BY <1>3 DEF TakenFits
<1>9. Curator!IsPrefix(t.of, t.matched)
  BY <1>7, <1>8, BeginsIsPrefix
<1>10. PrefaceOf(p)
  BY <1>6, <1>7, <1>8, <1>9 DEF PrefaceOf
<1>11. folder' \in Seq(Manifests)
  BY <1>1, <1>4
<1>12. PrefaceOf(p)'
  BY <1>1, <1>4, <1>10, <1>11, PrefaceKeeps
<1>13. preface' = p
  BY <1>4, <1>5
<1>14. PrefaceOf(preface)'
  BY <1>12, <1>13 DEF PrefaceOf
<1>15. PrefaceGood'
  BY <1>11, <1>14 DEF PrefaceGood
<1>16. ReadersGood'
  <2>1. (folder \in Seq(Manifests))'
    BY <1>11
  <2> QED BY <2>1, ReadersAreGood, PTL
<1> QED BY <1>15, <1>16

-------------------------------------------------------------------------------
(* ... and what it does to the archive.                                       *)

\* A pass goes on: what it writes is of a skill that is the agent's.
LEMMA PassGoesOn ==
  ASSUME ArchiveGood, NEW i \in pass.left, NEW set \in SUBSET {"torn", "temp", "whole"},
         "whole" \in archive[i] => "whole" \in set, archive' = [archive EXCEPT ![i] = set],
         UNCHANGED <<registry, drawn, skillNow>>,
         NEW next \in [at : {"idle", "write", "rename", "mark"}, left : SUBSET SkillIds, done : SUBSET SkillIds],
         pass' = next, next.left \cup next.done \subseteq pass.left \cup pass.done,
         next.at = "idle" => next = Curator!NoPass,
         \A j \in next.done : j \in pass.done \/ (j = i /\ "whole" \in set)
  PROVE  ArchiveGood'
<1>1. ArchiveFits /\ Curator!PassIsOfAgents /\ ArchiveHas
  BY DEF ArchiveGood
<1>2. i \in SkillIds /\ i \in drawn /\ (\A s \in registry[i] : s.source = "agent") /\ DOMAIN archive = SkillIds
  BY <1>1 DEF ArchiveFits, Curator!PassIsOfAgents
<1>3. archive'[i] = set /\ \A j \in SkillIds : j # i => archive'[j] = archive[j]
  BY <1>2
<1>4. ArchiveFits'
  <2>1. archive' \in [SkillIds -> SUBSET {"torn", "temp", "whole"}]
    BY <1>1 DEF ArchiveFits
  <2> QED BY <1>1, <2>1 DEF ArchiveFits, Curator!SkillRecord
<1>5. Curator!PassIsOfAgents'
  <2>1. \A j \in pass'.left \cup pass'.done : j \in drawn /\ \A s \in registry[j] : s.source = "agent"
    BY <1>1 DEF Curator!PassIsOfAgents
  <2>2. \A j \in SkillIds \ drawn : registry[j] = {} /\ archive'[j] = {}
    BY <1>1, <1>2, <1>3 DEF Curator!PassIsOfAgents
  <2> QED BY <2>1, <2>2 DEF Curator!PassIsOfAgents, Curator!NoPass
<1>6. ArchiveHas'
  <2>1. ASSUME NEW j \in SkillIds, NEW s \in registry[j]
        PROVE  /\ s.source = "archived" => "whole" \in archive'[j]
               /\ archive'[j] # {} => s.source \in {"agent", "archived"}
    <3>1. CASE j = i
      BY <1>2, <2>1, <3>1
    <3>2. CASE j # i
      BY <1>1, <1>3, <2>1, <3>2 DEF ArchiveHas
    <3> QED BY <3>1, <3>2
  <2>2. \A j \in pass'.done : "whole" \in archive'[j]
    <3> SUFFICES ASSUME NEW j \in next.done PROVE "whole" \in archive'[j]
      OBVIOUS
    <3>1. j \in SkillIds
      OBVIOUS
    <3>2. CASE j = i
      BY <1>1, <1>3, <3>2 DEF ArchiveHas
    <3>3. CASE j # i
      BY <1>1, <1>3, <3>1, <3>3 DEF ArchiveHas
    <3> QED BY <3>2, <3>3
  <2> QED BY <2>1, <2>2 DEF ArchiveHas
<1> QED BY <1>4, <1>5, <1>6 DEF ArchiveGood

\* Nobody archives: a skill is added, changed or removed.
LEMMA SkillChanges ==
  ASSUME ArchiveGood, Curator!Idle, NEW i \in SkillIds, NEW set \in SUBSET Curator!SkillRecord,
         \A s, t \in set : s = t, registry' = [registry EXCEPT ![i] = set],
         UNCHANGED <<archive, pass, skillNow>>, drawn' = drawn \/ drawn' = drawn \cup {i}, i \in drawn',
         \A s \in set : \/ archive[i] = {} /\ s.source # "archived"
                       \/ \E t \in registry[i] : s.source = t.source
  PROVE  ArchiveGood'
<1>1. ArchiveFits /\ Curator!PassIsOfAgents /\ ArchiveHas
  BY DEF ArchiveGood
<1>2. pass = Curator!NoPass /\ pass' = pass /\ pass.left = {} /\ pass.done = {} /\ pass.at = "idle"
  BY <1>1 DEF Curator!PassIsOfAgents, Curator!Idle, Curator!NoPass
<1>3. registry'[i] = set /\ \A j \in SkillIds : j # i => registry'[j] = registry[j]
  BY <1>1 DEF ArchiveFits
<1>4. ArchiveFits'
  <2>1. registry' \in [SkillIds -> SUBSET Curator!SkillRecord]
    BY <1>1 DEF ArchiveFits
  <2>2. \A j \in SkillIds : \A s, t \in registry'[j] : s = t
    BY <1>1, <1>3 DEF ArchiveFits
  <2>3. drawn' \subseteq SkillIds
    BY <1>1 DEF ArchiveFits
  <2> QED BY <1>1, <2>1, <2>2, <2>3 DEF ArchiveFits, Curator!SkillRecord
<1>5. Curator!PassIsOfAgents'
  <2>1. \A j \in SkillIds \ drawn' : registry'[j] = {} /\ archive'[j] = {}
    BY <1>1, <1>3 DEF Curator!PassIsOfAgents
  <2> QED BY <1>2, <2>1 DEF Curator!PassIsOfAgents, Curator!NoPass
<1>6. ArchiveHas'
  <2>1. ASSUME NEW j \in SkillIds, NEW s \in registry'[j]
        PROVE  /\ s.source = "archived" => "whole" \in archive[j]
               /\ archive[j] # {} => s.source \in {"agent", "archived"}
    <3>1. CASE j # i
      BY <1>1, <1>3, <2>1, <3>1 DEF ArchiveHas
    <3>2. CASE j = i
      <4>1. s \in set
        BY <1>3, <2>1, <3>2
      <4>2. CASE archive[i] = {} /\ s.source # "archived"
        BY <3>2, <4>2
      <4>3. CASE \E t \in registry[i] : s.source = t.source
        BY <1>1, <3>2, <4>3 DEF ArchiveHas
      <4> QED BY <4>1, <4>2, <4>3
    <3> QED BY <3>1, <3>2
  <2> QED BY <1>2, <2>1 DEF ArchiveHas
<1> QED BY <1>4, <1>5, <1>6 DEF ArchiveGood

\* The archive and its pass rest.
LEMMA ArchiveRests ==
  ASSUME ArchiveGood, UNCHANGED <<registry, drawn, archive, pass>>, skillNow' \in Nat
  PROVE  ArchiveGood'
<1>1. ArchiveFits'
  BY DEF ArchiveGood, ArchiveFits, Curator!SkillRecord
<1>2. Curator!PassIsOfAgents' /\ ArchiveHas'
  BY DEF ArchiveGood, Curator!PassIsOfAgents, Curator!NoPass, ArchiveHas
<1> QED BY <1>1, <1>2 DEF ArchiveGood

\* when a skill is added,
LEMMA SkillIsAdded ==
  ASSUME ArchiveGood, NEW i \in SkillIds, NEW source \in {"user", "agent"}, Curator!Add(i, source)
  PROVE  ArchiveGood'
<1> DEFINE s == [source |-> source, last |-> skillNow, pinned |-> FALSE]
<1>1. /\ Curator!Idle /\ i \notin drawn /\ drawn' = drawn \cup {i}
      /\ registry' = [registry EXCEPT ![i] = {s}] /\ UNCHANGED <<archive, pass, skillNow>>
  BY DEF Curator!Add
<1>2. archive[i] = {} /\ skillNow \in Nat
  BY <1>1 DEF ArchiveGood, ArchiveFits, Curator!PassIsOfAgents
<1>3. s \in Curator!SkillRecord /\ s.source # "archived"
  BY <1>2 DEF Curator!SkillRecord
<1> HIDE DEF s
<1>4. PICK set : set = {s}
  OBVIOUS
<1>5. set \in SUBSET Curator!SkillRecord /\ (\A t, u \in set : t = u) /\ i \in drawn'
      /\ (\A t \in set : archive[i] = {} /\ t.source # "archived") /\ registry' = [registry EXCEPT ![i] = set]
  BY <1>1, <1>2, <1>3, <1>4
<1>6. \A t \in set : \/ archive[i] = {} /\ t.source # "archived"
                    \/ \E u \in registry[i] : t.source = u.source
  BY <1>5
<1>7. UNCHANGED <<archive, pass, skillNow>> /\ (drawn' = drawn \/ drawn' = drawn \cup {i}) /\ Curator!Idle
  BY <1>1
<1>8. set \in SUBSET Curator!SkillRecord /\ (\A t, u \in set : t = u) /\ i \in drawn' /\ registry' = [registry EXCEPT ![i] = set]
  BY <1>5
<1> QED BY <1>6, <1>7, <1>8, SkillChanges

\* when a skill is used, pinned or removed between two passes,
LEMMA SkillIsChanged ==
  ASSUME ArchiveGood, NEW i \in SkillIds, NEW set \in SUBSET Curator!SkillRecord, Curator!Idle, registry[i] # {},
         \A s, t \in set : s = t, registry' = [registry EXCEPT ![i] = set],
         UNCHANGED <<archive, pass, skillNow, drawn>>,
         \A s \in set : \E t \in registry[i] : s.source = t.source
  PROVE  ArchiveGood'
<1>1. i \in drawn'
  BY DEF ArchiveGood, Curator!PassIsOfAgents
<1> QED BY <1>1, SkillChanges

\* when anything is done to one skill,
LEMMA ArchiveMoves ==
  ASSUME ArchiveGood, NEW i \in SkillIds,
         \/ \E m \in Manifests : Curator!Load(i, m)
         \/ Curator!Create(i) \/ Curator!RecordUse(i) \/ Curator!RemoveSkill(i)
         \/ \E pinned \in BOOLEAN : Curator!Pin(i, pinned)
         \/ Curator!WriteTemp(i) \/ Curator!WriteFails(i) \/ Curator!Rename(i) \/ Curator!RenameFails(i)
  PROVE  ArchiveGood' /\ folder' = folder /\ preface' = preface
<1> DEFINE Types == [at : {"idle", "write", "rename", "mark"}, left : SUBSET SkillIds, done : SUBSET SkillIds]
<1>0. /\ registry \in [SkillIds -> SUBSET Curator!SkillRecord] /\ registry[i] \subseteq Curator!SkillRecord
      /\ \A s, t \in registry[i] : s = t
      /\ archive[i] \in SUBSET {"torn", "temp", "whole"} /\ pass \in Types /\ skillNow \in Nat
      /\ Curator!NoPass \in Types /\ Curator!NoPass.left = {} /\ Curator!NoPass.done = {}
  BY DEF ArchiveGood, ArchiveFits, Curator!NoPass
<1>1. CASE (\E m \in Manifests : Curator!Load(i, m)) \/ Curator!Create(i)
  <2>1. PICK source \in {"user", "agent"} : Curator!Add(i, source)
    BY <1>1 DEF Curator!Load, Curator!Create
  <2>2. ArchiveGood'
    BY <2>1, SkillIsAdded
  <2> QED BY <2>1, <2>2 DEF Curator!Add
<1>2. CASE Curator!RecordUse(i)
  <2> DEFINE set == {[source |-> s.source, last |-> skillNow, pinned |-> s.pinned] : s \in registry[i]}
  <2>1. /\ Curator!Idle /\ registry[i] # {} /\ registry' = [registry EXCEPT ![i] = set]
        /\ UNCHANGED <<skillNow, drawn, archive, pass, folder, preface>>
    BY <1>2 DEF Curator!RecordUse, Curator!Change
  <2>2. set \in SUBSET Curator!SkillRecord
    BY <1>0 DEF Curator!SkillRecord
  <2>3. (\A s, t \in set : s = t) /\ \A s \in set : \E t \in registry[i] : s.source = t.source
    BY <1>0
  <2> HIDE DEF set
  <2> QED BY <2>1, <2>2, <2>3, SkillIsChanged
<1>3. CASE \E pinned \in BOOLEAN : Curator!Pin(i, pinned)
  <2>0. PICK pinned \in BOOLEAN : Curator!Pin(i, pinned)
    BY <1>3
  <2> DEFINE set == {[source |-> s.source, last |-> s.last, pinned |-> pinned] : s \in registry[i]}
  <2>1. /\ Curator!Idle /\ registry[i] # {} /\ registry' = [registry EXCEPT ![i] = set]
        /\ UNCHANGED <<skillNow, drawn, archive, pass, folder, preface>>
    BY <2>0 DEF Curator!Pin, Curator!Change
  <2>2. set \in SUBSET Curator!SkillRecord
    BY <1>0 DEF Curator!SkillRecord
  <2>3. (\A s, t \in set : s = t) /\ \A s \in set : \E t \in registry[i] : s.source = t.source
    BY <1>0
  <2> HIDE DEF set
  <2> QED BY <2>1, <2>2, <2>3, SkillIsChanged
<1>4. CASE Curator!RemoveSkill(i)
  <2>1. /\ Curator!Idle /\ registry[i] # {} /\ registry' = [registry EXCEPT ![i] = {}]
        /\ UNCHANGED <<skillNow, drawn, archive, pass, folder, preface>>
    BY <1>4 DEF Curator!RemoveSkill
  <2>2. {} \in SUBSET Curator!SkillRecord
    OBVIOUS
  <2> QED BY <2>1, <2>2, SkillIsChanged
<1>5. CASE Curator!WriteTemp(i)
  <2> DEFINE set == (archive[i] \ {"torn"}) \cup {"temp"}
  <2>1. /\ i \in pass.left /\ archive' = [archive EXCEPT ![i] = set] /\ pass' = [pass EXCEPT !.at = "rename"]
        /\ UNCHANGED <<skillNow, drawn, folder, preface, registry>>
    BY <1>5 DEF Curator!WriteTemp, Curator!Goes
  <2>2. set \in SUBSET {"torn", "temp", "whole"} /\ ("whole" \in archive[i] => "whole" \in set)
    BY <1>0
  <2>3. PICK next : next = [pass EXCEPT !.at = "rename"]
    OBVIOUS
  <2>4. next \in Types /\ next.left = pass.left /\ next.done = pass.done /\ next.at = "rename"
    BY <1>0, <2>3
  <2> HIDE DEF set, Types
  <2>5. next \in [at : {"idle", "write", "rename", "mark"}, left : SUBSET SkillIds, done : SUBSET SkillIds]
    BY <2>4 DEF Types
  <2>6. ArchiveGood'
    BY <2>1, <2>2, <2>3, <2>4, <2>5, PassGoesOn
  <2> QED BY <2>1, <2>6
<1>6. CASE Curator!WriteFails(i) \/ Curator!RenameFails(i)
  <2>1. PICK set \in SUBSET {"torn", "temp", "whole"} :
          /\ i \in pass.left /\ archive' = [archive EXCEPT ![i] = set] /\ ("whole" \in archive[i] => "whole" \in set)
    <3>1. CASE Curator!WriteFails(i)
      <4>1. i \in pass.left /\ archive' = [archive EXCEPT ![i] = archive[i] \cup {"torn"}]
        BY <3>1 DEF Curator!WriteFails
      <4>2. archive[i] \cup {"torn"} \in SUBSET {"torn", "temp", "whole"}
        BY <1>0
      <4> QED BY <4>1, <4>2
    <3>2. CASE Curator!RenameFails(i)
      <4>1. i \in pass.left /\ archive' = [archive EXCEPT ![i] = archive[i] \ {"temp"}]
        BY <3>2 DEF Curator!RenameFails
      <4>2. archive[i] \ {"temp"} \in SUBSET {"torn", "temp", "whole"}
        BY <1>0
      <4> QED BY <4>1, <4>2
    <3> QED BY <1>6, <3>1, <3>2
  <2>2. pass' = Curator!NoPass /\ UNCHANGED <<skillNow, drawn, folder, preface, registry>>
    BY <1>6 DEF Curator!WriteFails, Curator!RenameFails, Curator!Goes
  <2>3. Curator!NoPass \in [at : {"idle", "write", "rename", "mark"}, left : SUBSET SkillIds, done : SUBSET SkillIds]
    BY <1>0
  <2>4. ArchiveGood'
    BY <1>0, <2>1, <2>2, <2>3, PassGoesOn
  <2> QED BY <2>2, <2>4
<1>7. CASE Curator!Rename(i)
  <2> DEFINE set == (archive[i] \ {"temp"}) \cup {"whole"}
             goal == [at |-> IF pass.left = {i} THEN "mark" ELSE "write", left |-> pass.left \ {i}, done |-> pass.done \cup {i}]
  <2>1. /\ i \in pass.left /\ archive' = [archive EXCEPT ![i] = set] /\ pass' = goal
        /\ UNCHANGED <<skillNow, drawn, folder, preface, registry>>
    BY <1>7 DEF Curator!Rename, Curator!Past, Curator!Goes
  <2>2. set \in SUBSET {"torn", "temp", "whole"} /\ "whole" \in set
    BY <1>0
  <2>3. PICK next : next = goal
    OBVIOUS
  <2>4. next.left = pass.left \ {i} /\ next.done = pass.done \cup {i} /\ next.at # "idle"
        /\ next \in [at : {"idle", "write", "rename", "mark"}, left : SUBSET SkillIds, done : SUBSET SkillIds]
    BY <1>0, <2>3
  <2>5. pass' = next
    BY <2>1, <2>3
  <2> HIDE DEF set, goal
  <2>6. next.left \cup next.done \subseteq pass.left \cup pass.done /\ \A j \in next.done : j \in pass.done \/ j = i
    BY <2>1, <2>4
  <2>7. ArchiveGood'
    BY <2>1, <2>2, <2>4, <2>5, <2>6, PassGoesOn
  <2> QED BY <2>1, <2>7
<1> QED BY <1>1, <1>2, <1>3, <1>4, <1>5, <1>6, <1>7

\* when a pass begins or marks what it wrote, or the process dies,
LEMMA PassMoves ==
  ASSUME ArchiveGood, Curator!Begin \/ Curator!Mark \/ Curator!Crash
  PROVE  ArchiveGood' /\ folder' = folder /\ preface' = preface
<1>0. ArchiveFits /\ Curator!PassIsOfAgents /\ ArchiveHas /\ Curator!NoPass.done = {} /\ Curator!NoPass.left = {}
  BY DEF ArchiveGood, Curator!NoPass
<1>1. CASE Curator!Begin
  <2>1. /\ pass' = [at |-> "write", left |-> Curator!Stale, done |-> {}]
        /\ UNCHANGED <<skillNow, drawn, folder, preface, registry, archive>>
    BY <1>1 DEF Curator!Begin, Curator!Goes
  <2>2. Curator!Stale \subseteq SkillIds
    BY DEF Curator!Stale
  <2>3. \A j \in Curator!Stale : j \in drawn /\ \A s \in registry[j] : s.source = "agent"
    <3> SUFFICES ASSUME NEW j \in SkillIds, NEW s \in registry[j], Curator!IsStale(s)
                 PROVE  j \in drawn /\ \A t \in registry[j] : t.source = "agent"
      BY DEF Curator!Stale
    <3>1. s.source = "agent"
      BY DEF Curator!IsStale
    <3>2. \A t \in registry[j] : t = s
      BY <1>0 DEF ArchiveFits
    <3>3. j \in drawn
      BY <1>0 DEF Curator!PassIsOfAgents
    <3> QED BY <3>1, <3>2, <3>3
  <2>4. pass'.left = Curator!Stale /\ pass'.done = {} /\ pass'.at = "write"
    BY <2>1
  <2>5. ArchiveFits'
    BY <1>0, <2>1, <2>2 DEF ArchiveFits, Curator!SkillRecord
  <2>6. Curator!PassIsOfAgents'
    <3>1. \A j \in pass'.left \cup pass'.done : j \in drawn /\ \A s \in registry[j] : s.source = "agent"
      BY <2>3, <2>4
    <3>2. \A j \in SkillIds \ drawn : registry[j] = {} /\ archive[j] = {}
      BY <1>0 DEF Curator!PassIsOfAgents
    <3> QED BY <2>1, <2>4, <3>1, <3>2 DEF Curator!PassIsOfAgents
  <2>7. ArchiveHas'
    BY <1>0, <2>1, <2>4 DEF ArchiveHas
  <2> QED BY <2>1, <2>5, <2>6, <2>7 DEF ArchiveGood
<1>2. CASE Curator!Mark
  <2> DEFINE marked(j) == {[source |-> "archived", last |-> s.last, pinned |-> s.pinned] : s \in registry[j]}
  <2>1. /\ registry' = [j \in SkillIds |-> IF j \in pass.done THEN marked(j) ELSE registry[j]]
        /\ pass' = Curator!NoPass /\ UNCHANGED <<skillNow, drawn, folder, preface, archive>>
    BY <1>2 DEF Curator!Mark, Curator!Goes
  <2>2. ASSUME NEW j \in SkillIds
        PROVE  /\ marked(j) \in SUBSET Curator!SkillRecord /\ (\A s, t \in marked(j) : s = t)
               /\ (\A s \in marked(j) : s.source = "archived") /\ (registry[j] = {} => marked(j) = {})
    <3>1. registry[j] \subseteq Curator!SkillRecord /\ \A s, t \in registry[j] : s = t
      BY <1>0 DEF ArchiveFits
    <3>2. marked(j) \in SUBSET Curator!SkillRecord
      BY <3>1 DEF Curator!SkillRecord
    <3> QED BY <3>1, <3>2
  <2> HIDE DEF marked
  <2>3. \A j \in SkillIds : registry'[j] = IF j \in pass.done THEN marked(j) ELSE registry[j]
    BY <2>1
  <2>4. ArchiveFits'
    <3>1. \A j \in SkillIds : (IF j \in pass.done THEN marked(j) ELSE registry[j]) \in SUBSET Curator!SkillRecord
      BY <1>0, <2>2 DEF ArchiveFits
    <3>2. registry' \in [SkillIds -> SUBSET Curator!SkillRecord]
      BY <2>1, <3>1
    <3>3. \A j \in SkillIds : \A s, t \in registry'[j] : s = t
      BY <1>0, <2>2, <2>3 DEF ArchiveFits
    <3> QED BY <1>0, <2>1, <3>2, <3>3 DEF ArchiveFits, Curator!SkillRecord, Curator!NoPass
  <2>5. Curator!PassIsOfAgents'
    <3>1. \A j \in SkillIds \ drawn : registry'[j] = {} /\ archive[j] = {}
      BY <1>0, <2>2, <2>3 DEF Curator!PassIsOfAgents
    <3> QED BY <1>0, <2>1, <3>1 DEF Curator!PassIsOfAgents, Curator!NoPass
  <2>6. ArchiveHas'
    <3>1. ASSUME NEW j \in SkillIds, NEW s \in registry'[j]
          PROVE  /\ s.source = "archived" => "whole" \in archive[j]
                 /\ archive[j] # {} => s.source \in {"agent", "archived"}
      <4>1. CASE j \in pass.done
        BY <1>0, <2>2, <2>3, <3>1, <4>1 DEF ArchiveHas
      <4>2. CASE j \notin pass.done
        BY <1>0, <2>3, <3>1, <4>2 DEF ArchiveHas
      <4> QED BY <4>1, <4>2
    <3> QED BY <1>0, <2>1, <3>1 DEF ArchiveHas
  <2> QED BY <2>1, <2>4, <2>5, <2>6 DEF ArchiveGood
<1>3. CASE Curator!Crash
  <2> DEFINE cut(j) == IF "temp" \in archive[j] THEN (archive[j] \ {"temp"}) \cup {"torn"} ELSE archive[j]
  <2>1. /\ registry' = [j \in SkillIds |-> {}] /\ archive' = [j \in SkillIds |-> cut(j)]
        /\ pass' = Curator!NoPass /\ UNCHANGED <<skillNow, drawn, folder, preface>>
    BY <1>3 DEF Curator!Crash, Curator!Goes
  <2>2. \A j \in SkillIds : cut(j) \in SUBSET {"torn", "temp", "whole"} /\ (archive[j] = {} => cut(j) = {})
    BY <1>0 DEF ArchiveFits
  <2> HIDE DEF cut
  <2>3. (\A j \in SkillIds : registry'[j] = {}) /\ (\A j \in SkillIds : archive'[j] = cut(j))
    BY <2>1
  <2>4. ArchiveFits'
    <3>1. archive' \in [SkillIds -> SUBSET {"torn", "temp", "whole"}]
      BY <2>1, <2>2
    <3>2. registry' \in [SkillIds -> SUBSET Curator!SkillRecord]
      BY <2>1
    <3> QED BY <1>0, <2>1, <2>3, <3>1, <3>2 DEF ArchiveFits, Curator!SkillRecord, Curator!NoPass
  <2>5. Curator!PassIsOfAgents'
    <3>1. \A j \in SkillIds \ drawn : registry'[j] = {} /\ archive'[j] = {}
      BY <1>0, <2>2, <2>3 DEF Curator!PassIsOfAgents
    <3> QED BY <1>0, <2>1, <3>1 DEF Curator!PassIsOfAgents, Curator!NoPass
  <2>6. ArchiveHas'
    BY <1>0, <2>1, <2>3 DEF ArchiveHas
  <2> QED BY <2>1, <2>4, <2>5, <2>6 DEF ArchiveGood
<1> QED BY <1>1, <1>2, <1>3

\* and in every step.
LEMMA SkillsStay == Curator!IInv /\ [Curator!Next]_(Curator!vars) => Curator!IInv'
<1> SUFFICES ASSUME Curator!IInv, [Curator!Next]_(Curator!vars) PROVE Curator!IInv'
  OBVIOUS
<1>0. ArchiveGood /\ PrefaceGood
  BY SkillParts
<1>1. SUFFICES ArchiveGood' /\ PrefaceGood' /\ ReadersGood'
  <2>1. ArchiveGood' /\ PrefaceGood' /\ ReadersGood' => Curator!IInv'
    BY SkillParts, PTL
  <2> QED BY <2>1
<1>2. CASE Curator!Tick \/ UNCHANGED Curator!vars
  <2>1. UNCHANGED <<registry, drawn, archive, pass, folder, preface>> /\ skillNow' \in Nat
    BY <1>0, <1>2 DEF Curator!Tick, Curator!vars, ArchiveGood, ArchiveFits
  <2> QED BY <1>0, <2>1, ArchiveRests, PrefaceRests
<1>3. CASE Curator!Begin \/ Curator!Mark \/ Curator!Crash
  <2>1. ArchiveGood' /\ folder' = folder /\ preface' = preface
    BY <1>0, <1>3, PassMoves
  <2> QED BY <1>0, <2>1, PrefaceRests
<1>4. ASSUME NEW i \in SkillIds,
             \/ \E m \in Manifests : Curator!Load(i, m)
             \/ Curator!Create(i) \/ Curator!RecordUse(i) \/ Curator!RemoveSkill(i)
             \/ \E pinned \in BOOLEAN : Curator!Pin(i, pinned)
             \/ Curator!WriteTemp(i) \/ Curator!WriteFails(i) \/ Curator!Rename(i) \/ Curator!RenameFails(i)
      PROVE  ArchiveGood' /\ PrefaceGood' /\ ReadersGood'
  <2>1. ArchiveGood' /\ folder' = folder /\ preface' = preface
    BY <1>0, <1>4, ArchiveMoves
  <2> QED BY <1>0, <2>1, PrefaceRests
<1>5. ASSUME NEW m \in Manifests, Curator!PutFile(m)
      PROVE  ArchiveGood' /\ PrefaceGood' /\ ReadersGood'
  <2>1. UNCHANGED <<registry, drawn, archive, pass>> /\ skillNow' \in Nat
    BY <1>0, <1>5 DEF Curator!PutFile, ArchiveGood, ArchiveFits
  <2> QED BY <1>0, <1>5, <2>1, ArchiveRests, FileIsPut
<1>6. ASSUME NEW matches \in SUBSET DOMAIN folder, NEW most \in Caps, Curator!Prepare(matches, most)
      PROVE  ArchiveGood' /\ PrefaceGood' /\ ReadersGood'
  <2>1. UNCHANGED <<registry, drawn, archive, pass>> /\ skillNow' \in Nat
    BY <1>0, <1>6 DEF Curator!Prepare, ArchiveGood, ArchiveFits
  <2> QED BY <1>0, <1>6, <2>1, ArchiveRests, PrefaceIsMade
<1> QED BY <1>2, <1>3, <1>4, <1>5, <1>6 DEF Curator!Next

\* It implies what is checked of the skills.
LEMMA SkillsAreSound == Curator!IInv => Curator!SkillsAreKept
BY DEF Curator!IInv

-------------------------------------------------------------------------------
(* Subagents.                                                                *)

\* Subagents counts with the Cardinality the theorems on finite sets are about.
LEMMA ChildrenCount == \A S : Children!Cardinality(S) = Cardinality(S)
BY DEF Children!Cardinality, Cardinality

Entries == {"prompt", "steer", "step"}
StepsOf(entries) == {i \in DOMAIN entries : entries[i] = "step"}

\* An entry more is a step more, or is not.
LEMMA StepsAreCounted ==
  ASSUME NEW q \in Seq(Entries), NEW e \in Entries
  PROVE  /\ Append(q, e) \in Seq(Entries) /\ IsFiniteSet(StepsOf(q))
         /\ Cardinality(StepsOf(q)) \in Nat
         /\ Cardinality(StepsOf(Append(q, e))) = Cardinality(StepsOf(q)) + (IF e = "step" THEN 1 ELSE 0)
<1> DEFINE n == Len(q)
<1>1. /\ Append(q, e) \in Seq(Entries) /\ Len(Append(q, e)) = n + 1 /\ n \in Nat
      /\ Append(q, e)[n + 1] = e /\ (\A i \in 1..n : Append(q, e)[i] = q[i])
      /\ DOMAIN q = 1..n /\ DOMAIN Append(q, e) = 1..(n + 1)
  BY AppendProperties, LenProperties
<1> HIDE DEF n
<1>2. /\ StepsOf(q) = {i \in 1..n : q[i] = "step"}
      /\ StepsOf(Append(q, e)) = {i \in 1..(n + 1) : Append(q, e)[i] = "step"}
  BY <1>1 DEF StepsOf
<1>3. IsFiniteSet(StepsOf(q)) /\ Cardinality(StepsOf(q)) \in Nat
  <2>1. IsFiniteSet(1..n) /\ StepsOf(q) \subseteq 1..n
    BY <1>1, <1>2, FS_Interval
  <2> QED BY <2>1, FS_Subset, FS_CardinalityType
<1>4. CASE e = "step"
  <2>1. StepsOf(Append(q, e)) = StepsOf(q) \cup {n + 1} /\ n + 1 \notin StepsOf(q)
    BY <1>1, <1>2, <1>4
  <2> QED BY <1>1, <1>3, <1>4, <2>1, FS_AddElement
<1>5. CASE e # "step"
  <2>1. StepsOf(Append(q, e)) = StepsOf(q)
    BY <1>1, <1>2, <1>5
  <2> QED BY <1>1, <1>3, <1>5, <2>1
<1> QED BY <1>4, <1>5

\* An agent whose steps are those of its transcript and whose output fits its schema.
Fits(p, schema) ==
  p.type = "object" =>
    \A k \in Keys :
      /\ k \in schema.required => k \in DOMAIN p.fields
      /\ k \in DOMAIN p.fields /\ k \in DOMAIN schema.properties => p.fields[k] = schema.properties[k]

AgentFits(s) ==
  /\ s.steps = Cardinality(StepsOf(s.transcript))
  /\ \A p \in s.output : \A schema \in s.schema : Fits(p, schema)

\* What stop gave is the last there is.
LastOf(r, s) == ~s.running /\ r.transcript = s.transcript /\ r.steps = s.steps

ChildrenFit ==
  /\ agents \in [Workers -> SUBSET Children!AgentRecord] /\ DOMAIN partial = Workers
  /\ \A a \in Workers :
       /\ \A s, u \in agents[a] : s = u
       /\ agents[a] = {} => partial[a] = {}
       /\ \A s \in agents[a] : AgentFits(s) /\ \A r \in partial[a] : LastOf(r, s)

\* The invariant, agent by agent.
LEMMA ChildrenParts == Children!IInv <=> ChildrenFit
<1> DEFINE Settled(a) ==
             /\ \A r \in partial[a] :
                  /\ a \notin Children!ListRunning
                  /\ \A s \in agents[a] : r.transcript = s.transcript /\ r.steps = s.steps
             /\ \A s \in agents[a] : AgentFits(s)
<1>1. Children!SubagentsSettle <=> \A a \in Workers : Settled(a)
  BY ChildrenCount DEF Children!SubagentsSettle, AgentFits, Fits, StepsOf
<1>2. ASSUME NEW a \in Workers, agents[a] = {} => partial[a] = {}
      PROVE  Settled(a) <=> \A s \in agents[a] : AgentFits(s) /\ \A r \in partial[a] : LastOf(r, s)
  BY <1>2 DEF Children!ListRunning, LastOf
<1> HIDE DEF Settled
<1> QED BY <1>1, <1>2 DEF Children!IInv, ChildrenFit

\* The inductive invariant of the subagents: at the start ...
LEMMA ChildrenStart == Children!Init => Children!IInv
BY ChildrenParts DEF Children!Init, ChildrenFit

\* One agent is replaced, and with it what stop gave or nothing.
LEMMA ChildMoves ==
  ASSUME Children!IInv, NEW a \in Workers, NEW new \in Children!AgentRecord, NEW given_,
         AgentFits(new), agents' = [agents EXCEPT ![a] = {new}],
         DOMAIN partial' = Workers, partial'[a] = given_, \A b \in Workers : b # a => partial'[b] = partial[b],
         \A r \in given_ : LastOf(r, new)
  PROVE  Children!IInv'
<1>1. /\ agents \in [Workers -> SUBSET Children!AgentRecord] /\ DOMAIN partial = Workers
      /\ \A b \in Workers :
           /\ \A s, u \in agents[b] : s = u
           /\ agents[b] = {} => partial[b] = {}
           /\ \A s \in agents[b] : AgentFits(s) /\ \A r \in partial[b] : LastOf(r, s)
  BY ChildrenParts DEF ChildrenFit
<1>2. /\ agents' \in [Workers -> SUBSET Children!AgentRecord] /\ agents'[a] = {new}
      /\ \A b \in Workers : b # a => agents'[b] = agents[b]
  BY <1>1
<1>3. \A b \in Workers :
           /\ \A s, u \in agents'[b] : s = u
           /\ agents'[b] = {} => partial'[b] = {}
           /\ \A s \in agents'[b] : AgentFits(s) /\ \A r \in partial'[b] : LastOf(r, s)
  BY <1>1, <1>2
<1>4. ChildrenFit'
  BY <1>2, <1>3 DEF ChildrenFit
<1>5. ChildrenFit' => Children!IInv'
  BY ChildrenParts, PTL
<1> QED BY <1>4, <1>5

\* ... and in every step.
LEMMA ChildrenStay == Children!IInv /\ [Children!Next]_(Children!vars) => Children!IInv'
<1> SUFFICES ASSUME Children!IInv, [Children!Next]_(Children!vars) PROVE Children!IInv'
  OBVIOUS
<1>0. /\ agents \in [Workers -> SUBSET Children!AgentRecord] /\ DOMAIN partial = Workers
      /\ \A b \in Workers :
           /\ \A s, u \in agents[b] : s = u
           /\ agents[b] = {} => partial[b] = {}
           /\ \A s \in agents[b] : AgentFits(s) /\ \A r \in partial[b] : LastOf(r, s)
  BY ChildrenParts DEF ChildrenFit
<1>u. UNCHANGED <<agents, partial>> => Children!IInv'
  BY DEF Children!IInv, Children!SubagentsSettle, Children!ListRunning
<1>f. ASSUME NEW error, Children!Fails(error) PROVE Children!IInv'
  BY <1>f, <1>u DEF Children!Fails
\* An agent that was not stopped, or stays as stop found it.
<1>p. ASSUME NEW a \in Workers, NEW new \in Children!AgentRecord, AgentFits(new), Children!Put(a, new),
             \A r \in partial[a] : LastOf(r, new)
      PROVE  Children!IInv'
  <2>1. agents' = [agents EXCEPT ![a] = {new}] /\ partial' = partial
    BY <1>p DEF Children!Put
  <2>2. DOMAIN partial' = Workers /\ partial'[a] = partial[a] /\ \A b \in Workers : b # a => partial'[b] = partial[b]
    BY <1>0, <2>1
  <2> QED BY <1>p, <2>1, <2>2, ChildMoves
<1>1. ASSUME NEW a \in Workers, NEW schema \in SUBSET Children!Schemas, Children!Spawn(a, schema) PROVE Children!IInv'
  <2>1. PICK new : new = [schema |-> schema, steps |-> 0, transcript |-> <<"prompt">>, output |-> {}, running |-> TRUE]
    OBVIOUS
  <2>2. new \in Children!AgentRecord
    BY <2>1 DEF Children!AgentRecord
  <2>3. AgentFits(new)
    <3>1. StepsOf(<<"prompt">>) = {}
      BY DEF StepsOf
    <3> QED BY <2>1, <3>1, FS_EmptySet DEF AgentFits
  <2>4. Children!Put(a, new) /\ partial[a] = {}
    BY <1>0, <1>1, <2>1 DEF Children!Spawn
  <2> QED BY <1>p, <2>2, <2>3, <2>4
\* An entry in the transcript of an agent that runs.
<1>l. ASSUME NEW a \in Workers, NEW s \in agents[a], Children!MayTell(s), NEW e \in {"steer", "step"},
             Children!Put(a, Children!Log(s, e, IF e = "step" THEN 1 ELSE 0))
      PROVE  Children!IInv'
  <2>1. s \in Children!AgentRecord /\ s.transcript \in Seq(Entries) /\ s.steps = Cardinality(StepsOf(s.transcript))
        /\ s.steps \in Nat /\ AgentFits(s) /\ e \in Entries
    BY <1>0 DEF Children!AgentRecord, AgentFits, Entries
  <2>2. PICK new : new = Children!Log(s, e, IF e = "step" THEN 1 ELSE 0)
    OBVIOUS
  <2>3. /\ new.transcript = Append(s.transcript, e) /\ new.steps = s.steps + (IF e = "step" THEN 1 ELSE 0)
        /\ new.output = s.output /\ new.schema = s.schema
        /\ new = [schema |-> s.schema, steps |-> s.steps + (IF e = "step" THEN 1 ELSE 0),
                  transcript |-> Append(s.transcript, e), output |-> s.output, running |-> s.running]
    BY <2>2 DEF Children!Log
  <2>4. /\ Append(s.transcript, e) \in Seq(Entries)
        /\ Cardinality(StepsOf(Append(s.transcript, e))) = Cardinality(StepsOf(s.transcript)) + (IF e = "step" THEN 1 ELSE 0)
    BY <2>1, StepsAreCounted
  <2>5. s.steps + (IF e = "step" THEN 1 ELSE 0) \in Nat
    BY <2>1
  <2>6. new \in Children!AgentRecord
    BY <2>1, <2>3, <2>4, <2>5 DEF Children!AgentRecord, Entries
  <2>7. AgentFits(new)
    BY <2>1, <2>3, <2>4 DEF AgentFits
  <2>8. partial[a] = {}
    BY <1>0, <1>l DEF LastOf, Children!MayTell
  <2> QED BY <1>l, <1>p, <2>2, <2>6, <2>7, <2>8
<1>2. ASSUME NEW a \in Workers, Children!Steer(a) PROVE Children!IInv'
  <2>1. CASE agents[a] = {}
    BY <1>2, <1>f, <2>1 DEF Children!Steer
  <2>2. CASE agents[a] # {}
    <3>1. PICK s \in agents[a] : IF Children!MayTell(s) THEN Children!Put(a, Children!Log(s, "steer", 0))
                                 ELSE Children!Fails("terminated")
      BY <1>2, <2>2 DEF Children!Steer
    <3>2. 0 = IF "steer" = "step" THEN 1 ELSE 0
      OBVIOUS
    <3>3. CASE Children!MayTell(s)
      <4>1. Children!Put(a, Children!Log(s, "steer", IF "steer" = "step" THEN 1 ELSE 0))
        BY <3>1, <3>2, <3>3
      <4> QED BY <1>l, <3>3, <4>1
    <3> QED BY <1>f, <3>1, <3>3
  <2> QED BY <2>1, <2>2
<1>3. ASSUME NEW a \in Workers, Children!RecordStep(a) PROVE Children!IInv'
  <2>1. CASE agents[a] = {}
    BY <1>3, <1>f, <2>1 DEF Children!RecordStep
  <2>2. CASE agents[a] # {}
    <3>1. PICK s \in agents[a] : IF Children!MayTell(s) THEN Children!Put(a, Children!Log(s, "step", 1))
                                 ELSE Children!Fails("terminated")
      BY <1>3, <2>2 DEF Children!RecordStep
    <3>2. 1 = IF "step" = "step" THEN 1 ELSE 0
      OBVIOUS
    <3>3. CASE Children!MayTell(s)
      <4>1. Children!Put(a, Children!Log(s, "step", IF "step" = "step" THEN 1 ELSE 0))
        BY <3>1, <3>2, <3>3
      <4> QED BY <1>l, <3>3, <4>1
    <3> QED BY <1>f, <3>1, <3>3
  <2> QED BY <2>1, <2>2
<1>4. ASSUME NEW a \in Workers, Children!Stop(a) PROVE Children!IInv'
  <2>1. CASE agents[a] = {}
    BY <1>4, <1>f, <2>1 DEF Children!Stop
  <2>2. CASE agents[a] # {}
    <3>1. PICK s \in agents[a] :
            /\ agents' = [agents EXCEPT ![a] = {Children!Halt(s)}]
            /\ partial' = [partial EXCEPT ![a] = {[steps |-> s.steps, transcript |-> s.transcript]}]
      BY <1>4, <2>2 DEF Children!Stop
    <3>2. s \in Children!AgentRecord /\ AgentFits(s)
      BY <1>0
    <3>3. PICK new : new = Children!Halt(s)
      OBVIOUS
    <3>4. /\ new \in Children!AgentRecord /\ new.transcript = s.transcript /\ new.steps = s.steps
          /\ new.output = s.output /\ new.schema = s.schema /\ ~new.running
      BY <3>2, <3>3 DEF Children!Halt, Children!AgentRecord
    <3>5. PICK last : last = [steps |-> s.steps, transcript |-> s.transcript]
      OBVIOUS
    <3>6. /\ DOMAIN partial' = Workers /\ partial'[a] = {last}
          /\ \A b \in Workers : b # a => partial'[b] = partial[b]
      BY <1>0, <3>1, <3>5
    <3>7. \A r \in {last} : LastOf(r, new)
      BY <3>4, <3>5 DEF LastOf
    <3>8. AgentFits(new)
      BY <3>2, <3>4 DEF AgentFits
    <3>9. agents' = [agents EXCEPT ![a] = {new}]
      BY <3>1, <3>3
    <3> QED BY <3>4, <3>6, <3>7, <3>8, <3>9, ChildMoves
  <2> QED BY <2>1, <2>2
<1>5. ASSUME NEW a \in Workers, NEW p \in Children!Answers, Children!Complete(a, p) PROVE Children!IInv'
  <2>1. CASE agents[a] = {}
    BY <1>5, <1>f, <2>1 DEF Children!Complete
  <2>2. CASE agents[a] # {}
    <3>1. PICK s \in agents[a] :
            IF \A schema \in s.schema : Children!Valid(p, schema)
            THEN Children!Put(a, [schema |-> s.schema, steps |-> s.steps, transcript |-> s.transcript,
                                 output |-> {p}, running |-> FALSE])
            ELSE Children!Fails("schema violation")
      BY <1>5, <2>2 DEF Children!Complete
    <3>2. CASE ~\A schema \in s.schema : Children!Valid(p, schema)
      BY <1>f, <3>1, <3>2
    <3>3. CASE \A schema \in s.schema : Children!Valid(p, schema)
      <4>1. s \in Children!AgentRecord /\ AgentFits(s)
        BY <1>0
      <4>2. PICK new : new = [schema |-> s.schema, steps |-> s.steps, transcript |-> s.transcript,
                              output |-> {p}, running |-> FALSE]
        OBVIOUS
      <4>3. new \in Children!AgentRecord /\ Children!Put(a, new)
        BY <3>1, <3>3, <4>1, <4>2 DEF Children!AgentRecord
      <4>4. AgentFits(new)
        <5>1. ASSUME NEW schema \in s.schema PROVE Fits(p, schema)
          <6>1. schema.required \subseteq Keys /\ Children!Valid(p, schema)
            BY <3>3, <4>1 DEF Children!AgentRecord, Children!Schemas
          <6> QED BY <6>1 DEF Fits, Children!Valid, Children!FieldFits
        <5> QED BY <4>1, <4>2, <5>1 DEF AgentFits
      <4>5. \A r \in partial[a] : LastOf(r, new)
        BY <1>0, <4>2 DEF LastOf
      <4> QED BY <1>p, <4>3, <4>4, <4>5
    <3> QED BY <3>2, <3>3
  <2> QED BY <2>1, <2>2
<1>6. ASSUME NEW a \in Workers, NEW schema \in Children!Schemas, Children!Spawn(a, {schema}) PROVE Children!IInv'
  BY <1>1, <1>6
<1>7. ASSUME NEW a \in Workers, Children!Spawn(a, {}) PROVE Children!IInv'
  BY <1>1, <1>7
<1>8. CASE UNCHANGED Children!vars
  BY <1>8, <1>u DEF Children!vars
<1>9. CASE Children!CallWithout
  BY <1>9, <1>f DEF Children!CallWithout
<1> QED BY <1>2, <1>3, <1>4, <1>5, <1>6, <1>7, <1>8, <1>9 DEF Children!Next

\* It implies what is checked of the subagents.
LEMMA ChildrenAreKept == Children!IInv => Children!SubagentsSettle
BY DEF Children!IInv

-------------------------------------------------------------------------------
(* Approvals, processes, plugins and the audit log.                          *)

\* Isolation counts with the Cardinality the theorems on finite sets are about.
LEMMA GatesCount == \A S : Gates!Cardinality(S) = Cardinality(S)
BY DEF Gates!Cardinality, Cardinality

\* The parts of the invariant, by the variables they are about.
ApprovalsFit ==
  /\ approved \subseteq Gates!Approvals /\ uses \in [Gates!Approvals -> [given : Nat, used : Nat]]
  /\ \A a \in Gates!Approvals :
       uses[a].used <= uses[a].given /\ (a \in approved => uses[a].used < uses[a].given)

CallsFit ==
  /\ DOMAIN guarded = Callers
  /\ \A c \in Callers :
       /\ guarded[c] = [at |-> guarded[c].at, of |-> guarded[c].of] /\ guarded[c].at \in Gates!Places
       /\ guarded[c].at = "path" => guarded[c].of \in Paths
       /\ guarded[c].at = "record" \/ guarded[c].at = "tell" => guarded[c].of \in Gates!Statuses
       /\ guarded[c].at = "wait" \/ guarded[c].at = "kill" \/ guarded[c].at = "ended" => guarded[c].of \in Pids

EndsFit ==
  /\ procs \in [Pids -> {"none", "running", "dead"}]
  /\ \A c \in Callers : guarded[c].at = "ended" => procs[guarded[c].of] = "dead"

PluginsFit ==
  /\ DOMAIN plugins = {p.name : p \in Plugins}
  /\ \A n \in DOMAIN plugins : plugins[n] \in {{}} \cup {{p} : p \in {q \in Plugins : q.name = n}}
  /\ life \in [Plugins -> [inits : Nat, shut : BOOLEAN]]
  /\ \A p \in Plugins : life[p].inits > 0 \/ life[p].shut => plugins[p.name] = {p}

AuditFits ==
  /\ audit \in [entries : [Gates!Statuses -> Nat], told : [Gates!Statuses -> Nat]]
  /\ \A s \in Gates!Statuses : audit.entries[s] = audit.told[s] + Cardinality(Gates!Telling(s))

\* The invariant in the parts that a step can disturb one by one.
LEMMA GatesParts == Gates!IInv <=> ApprovalsFit /\ CallsFit /\ EndsFit /\ PluginsFit /\ AuditFits
BY GatesCount
DEF Gates!IInv, Gates!TypeOK, Gates!IsolationHolds, Gates!At, ApprovalsFit, CallsFit, EndsFit, PluginsFit, AuditFits

\* The inductive invariant of the gates: at the start ...
LEMMA GatesStart == Gates!Init => Gates!IInv
<1> SUFFICES ASSUME Gates!Init PROVE Gates!IInv
  OBVIOUS
<1> USE DEF Gates!Init, Gates!NoCall
<1>1. ApprovalsFit
  BY DEF ApprovalsFit
<1>2. CallsFit /\ EndsFit
  BY DEF CallsFit, EndsFit, Gates!Places
<1>3. PluginsFit
  BY DEF PluginsFit
<1>4. AuditFits
  <2>1. \A s \in Gates!Statuses : Gates!Telling(s) = {}
    BY DEF Gates!Telling, Gates!At
  <2>2. audit = [entries |-> Gates!NoEntries, told |-> Gates!NoEntries] /\ Gates!NoEntries \in [Gates!Statuses -> Nat]
    BY DEF Gates!NoEntries
  <2>3. \A s \in Gates!Statuses : Gates!NoEntries[s] = 0
    BY DEF Gates!NoEntries
  <2>4. audit \in [entries : [Gates!Statuses -> Nat], told : [Gates!Statuses -> Nat]]
    BY <2>2
  <2>5. ASSUME NEW s \in Gates!Statuses PROVE audit.entries[s] = audit.told[s] + Cardinality(Gates!Telling(s))
    <3>1. audit.entries[s] = 0 /\ audit.told[s] = 0
      BY <2>2, <2>3
    <3>2. Cardinality(Gates!Telling(s)) = 0
      BY <2>1, FS_EmptySet
    <3> QED BY <3>1, <3>2
  <2> QED BY <2>4, <2>5 DEF AuditFits
<1> QED BY <1>1, <1>2, <1>3, <1>4, GatesParts

\* What a call is of, at a place.
CallFits(place, what) ==
  /\ place = "path" => what \in Paths
  /\ place = "record" \/ place = "tell" => what \in Gates!Statuses
  /\ place = "wait" \/ place = "kill" \/ place = "ended" => what \in Pids

\* A caller goes on: what his call is of fits the place he comes to.
LEMMA CallGoes ==
  ASSUME CallsFit, NEW c \in Callers, NEW place \in Gates!Places, NEW what,
         guarded' = [guarded EXCEPT ![c] = [at |-> place, of |-> what]], CallFits(place, what)
  PROVE  CallsFit' /\ guarded'[c].at = place /\ guarded'[c].of = what
         /\ \A d \in Callers : d # c => guarded'[d] = guarded[d]
<1>1. DOMAIN guarded = Callers /\ guarded'[c] = [at |-> place, of |-> what]
  BY DEF CallsFit
<1>2. DOMAIN guarded' = Callers /\ \A d \in Callers : d # c => guarded'[d] = guarded[d]
  BY <1>1
<1>3. guarded'[c].at = place /\ guarded'[c].of = what
  BY <1>1
<1>4. CallsFit'
  <2> SUFFICES ASSUME NEW d \in Callers
               PROVE  /\ guarded'[d] = [at |-> guarded'[d].at, of |-> guarded'[d].of] /\ guarded'[d].at \in Gates!Places
                      /\ CallFits(guarded'[d].at, guarded'[d].of)
    BY <1>2 DEF CallsFit, CallFits
  <2>1. CASE d = c
    BY <1>1, <1>3, <2>1
  <2>2. CASE d # c
    BY <1>2, <2>2 DEF CallsFit, CallFits
  <2> QED BY <2>1, <2>2
<1> QED BY <1>2, <1>3, <1>4

\* Who tells, when one caller goes on.
LEMMA TellingMoves ==
  ASSUME CallsFit, NEW c \in Callers,
         \A d \in Callers : d # c => guarded'[d] = guarded[d],
         NEW s \in Gates!Statuses
  PROVE  LET before == guarded[c].at = "tell" /\ guarded[c].of = s
             after == guarded'[c].at = "tell" /\ guarded'[c].of = s
         IN  /\ IsFiniteSet(Gates!Telling(s)) /\ Cardinality(Gates!Telling(s)) \in Nat
             /\ (before <=> after) => Gates!Telling(s)' = Gates!Telling(s)
             /\ after /\ ~before => Cardinality(Gates!Telling(s)') = Cardinality(Gates!Telling(s)) + 1
             /\ before /\ ~after => Cardinality(Gates!Telling(s)') = Cardinality(Gates!Telling(s)) - 1
<1> DEFINE before == guarded[c].at = "tell" /\ guarded[c].of = s
           after == guarded'[c].at = "tell" /\ guarded'[c].of = s
           T == Gates!Telling(s)
<1>1. IsFiniteSet(T) /\ Cardinality(T) \in Nat
  <2>1. T \subseteq Callers
    BY DEF Gates!Telling
  <2> QED BY <2>1, CountsAssumption, FS_Subset, FS_CardinalityType
<1>2. c \in T <=> before
  BY DEF Gates!Telling, Gates!At
<1>3. T' = {d \in Callers : guarded'[d].at = "tell" /\ guarded'[d].of = s}
  BY DEF Gates!Telling, Gates!At
<1>4. T = {d \in Callers : guarded[d].at = "tell" /\ guarded[d].of = s}
  BY DEF Gates!Telling, Gates!At
<1>5. (before <=> after) => T' = T
  BY <1>3, <1>4
<1>6. after /\ ~before => T' = T \cup {c}
  BY <1>3, <1>4
<1>7. before /\ ~after => T' = T \ {c}
  BY <1>3, <1>4
<1> HIDE DEF T, before, after
<1>8. after /\ ~before => Cardinality(T') = Cardinality(T) + 1
  BY <1>1, <1>2, <1>6, FS_AddElement
<1>9. before /\ ~after => Cardinality(T') = Cardinality(T) - 1
  BY <1>1, <1>2, <1>7, FS_RemoveElement
<1> QED BY <1>1, <1>5, <1>8, <1>9 DEF T, before, after

\* A caller that comes from no telling and goes to none leaves the audit log's account.
LEMMA AuditRests ==
  ASSUME CallsFit, AuditFits, NEW c \in Callers,
         \A d \in Callers : d # c => guarded'[d] = guarded[d],
         guarded[c].at # "tell", guarded'[c].at # "tell", UNCHANGED audit
  PROVE  AuditFits'
<1>1. \A s \in Gates!Statuses : Gates!Telling(s)' = Gates!Telling(s)
  BY TellingMoves
<1> QED BY <1>1 DEF AuditFits

\* An approval that allows a write is used up.
LEMMA ApprovalIsUsed ==
  ASSUME ApprovalsFit, NEW a \in Gates!Approvals, a \in approved,
         approved' = Gates!Consumes(a), uses' = [uses EXCEPT ![a].used = @ + 1]
  PROVE  ApprovalsFit'
<1>1. uses[a] \in [given : Nat, used : Nat] /\ uses[a].used < uses[a].given
  BY DEF ApprovalsFit
<1>2. PICK new : new = [uses[a] EXCEPT !.used = @ + 1]
  OBVIOUS
<1>3. new \in [given : Nat, used : Nat] /\ new.given = uses[a].given /\ new.used = uses[a].used + 1
  BY <1>1, <1>2
<1>4. uses' = [uses EXCEPT ![a] = new] /\ DOMAIN uses = Gates!Approvals
  BY <1>2 DEF ApprovalsFit
<1>5. uses' \in [Gates!Approvals -> [given : Nat, used : Nat]] /\ uses'[a] = new
      /\ \A b \in Gates!Approvals : b # a => uses'[b] = uses[b]
  BY <1>3, <1>4 DEF ApprovalsFit
<1>6. approved' \subseteq approved /\ a \notin approved'
  BY DEF Gates!Consumes
<1>7. \A b \in Gates!Approvals : uses'[b].used <= uses'[b].given /\ (b \in approved' => uses'[b].used < uses'[b].given)
  BY <1>1, <1>3, <1>5, <1>6 DEF ApprovalsFit
<1> QED BY <1>5, <1>6, <1>7 DEF ApprovalsFit

\* ... and in every step.
LEMMA GatesStay == Gates!IInv /\ [Gates!Next]_(Gates!vars) => Gates!IInv'
<1> SUFFICES ASSUME Gates!IInv, [Gates!Next]_(Gates!vars) PROVE Gates!IInv'
  OBVIOUS
<1>0. ApprovalsFit /\ CallsFit /\ EndsFit /\ PluginsFit /\ AuditFits
  BY GatesParts
<1>u. /\ UNCHANGED <<approved, uses>> => ApprovalsFit'
      /\ UNCHANGED guarded => CallsFit'
      /\ UNCHANGED <<procs, guarded>> => EndsFit'
      /\ UNCHANGED <<plugins, life>> => PluginsFit'
      /\ UNCHANGED <<guarded, audit>> => AuditFits'
  <2>1. UNCHANGED guarded => \A s \in Gates!Statuses : Gates!Telling(s)' = Gates!Telling(s)
    BY DEF Gates!Telling, Gates!At
  <2> QED BY <1>0, <2>1 DEF ApprovalsFit, CallsFit, EndsFit, PluginsFit, AuditFits
<1>q. ApprovalsFit' /\ CallsFit' /\ EndsFit' /\ PluginsFit' /\ AuditFits' => Gates!IInv'
  <2>1. (Gates!IInv <=> ApprovalsFit /\ CallsFit /\ EndsFit /\ PluginsFit /\ AuditFits)'
    BY GatesParts, GatesCount
    DEF Gates!IInv, Gates!TypeOK, Gates!IsolationHolds, Gates!At, ApprovalsFit, CallsFit, EndsFit, PluginsFit, AuditFits
  <2> QED BY <2>1
\* A caller goes on outside of the sandbox and the audit.
<1>g. ASSUME NEW c \in Callers, NEW place \in {"idle", "path", "record", "wait", "kill"}, NEW what,
             guarded[c].at # "tell", Gates!Goes(c, place, what),
             place = "path" => what \in Paths, place = "record" => what \in Gates!Statuses,
             place = "wait" \/ place = "kill" => what \in Pids,
             UNCHANGED audit, \A p \in Pids : procs[p] = "dead" => procs'[p] = "dead",
             procs' \in [Pids -> {"none", "running", "dead"}]
      PROVE  CallsFit' /\ EndsFit' /\ AuditFits'
  <2>1. place \in Gates!Places
    BY DEF Gates!Places
  <2>2. CallsFit' /\ guarded'[c].at = place /\ guarded'[c].of = what /\ \A d \in Callers : d # c => guarded'[d] = guarded[d]
    <3>1. guarded' = [guarded EXCEPT ![c] = [at |-> place, of |-> what]]
      BY <1>g DEF Gates!Goes
    <3>2. CallsFit
      BY <1>0
    <3>3. CallFits(place, what)
      BY <1>g DEF CallFits
    <3> QED BY <2>1, <3>1, <3>2, <3>3, CallGoes
  <2>3. EndsFit'
    <3>1. ASSUME NEW d \in Callers, guarded'[d].at = "ended" PROVE procs'[guarded'[d].of] = "dead"
      <4>1. d # c
        BY <2>2, <3>1
      <4>2. guarded[d].at = "ended" /\ guarded'[d].of = guarded[d].of
        BY <2>2, <3>1, <4>1
      <4>3. guarded[d].of \in Pids /\ procs[guarded[d].of] = "dead"
        BY <1>0, <4>2 DEF CallsFit, EndsFit
      <4> QED BY <1>g, <4>2, <4>3
    <3> QED BY <1>g, <3>1 DEF EndsFit
  <2>4. AuditFits'
    BY <1>0, <1>g, <2>2, AuditRests
  <2> QED BY <2>2, <2>3, <2>4
<1>1. ASSUME NEW a \in Gates!Approvals, Gates!Approve(a) PROVE Gates!IInv'
  <2>1. ApprovalsFit'
    <3>1. uses[a] \in [given : Nat, used : Nat] /\ uses[a].used <= uses[a].given
      BY <1>0 DEF ApprovalsFit
    <3>2. PICK new : new = [uses[a] EXCEPT !.given = @ + 1]
      OBVIOUS
    <3>3. new \in [given : Nat, used : Nat] /\ new.given = uses[a].given + 1 /\ new.used = uses[a].used
      BY <3>1, <3>2
    <3>4. uses' = [uses EXCEPT ![a] = new] /\ approved' = approved \cup {a}
      BY <1>1, <3>2 DEF Gates!Approve
    <3>5. uses' \in [Gates!Approvals -> [given : Nat, used : Nat]] /\ uses'[a] = new
          /\ \A b \in Gates!Approvals : b # a => uses'[b] = uses[b]
      BY <1>0, <3>3, <3>4 DEF ApprovalsFit
    <3>6. \A b \in Gates!Approvals : uses'[b].used <= uses'[b].given /\ (b \in approved' => uses'[b].used < uses'[b].given)
      BY <1>0, <3>1, <3>3, <3>4, <3>5 DEF ApprovalsFit
    <3> QED BY <1>0, <3>4, <3>5, <3>6 DEF ApprovalsFit
  <2> QED BY <1>1, <1>q, <1>u, <2>1 DEF Gates!Approve, Gates!GateOnly
<1>2. ASSUME NEW c \in Callers, NEW path \in Paths, NEW token \in {{}} \cup {{t} : t \in Tokens}, Gates!CheckToken(c, path, token)
      PROVE  Gates!IInv'
  <2>1. guarded[c].at = "idle" /\ UNCHANGED <<procs, tiers, plugins, life, audit>>
    BY <1>2 DEF Gates!CheckToken, Gates!GateOnly, Gates!At
  <2>2. \A p \in Pids : procs[p] = "dead" => procs'[p] = "dead"
    BY <2>1
  <2>3. procs' \in [Pids -> {"none", "running", "dead"}]
    BY <1>0, <2>1 DEF EndsFit
  <2>4. CASE \E t \in token : t \in approved /\ Gates!Uses(c, t)
    <3>1. PICK t \in token : t \in approved /\ Gates!Uses(c, t)
      BY <2>4
    <3>2. t \in Gates!Approvals
      BY DEF Gates!Approvals
    <3>3. ApprovalsFit'
      BY <1>0, <3>1, <3>2, ApprovalIsUsed DEF Gates!Uses
    <3>4. Gates!Goes(c, "idle", "none")
      BY <3>1 DEF Gates!Uses
    <3>5. CallsFit' /\ EndsFit' /\ AuditFits'
      BY <1>g, <2>1, <2>2, <2>3, <3>4
    <3> QED BY <1>q, <1>u, <2>1, <3>3, <3>5
  <2>5. CASE Gates!Goes(c, "path", path) /\ UNCHANGED <<approved, uses>>
    <3>1. CallsFit' /\ EndsFit' /\ AuditFits'
      BY <1>g, <2>1, <2>2, <2>3, <2>5
    <3> QED BY <1>q, <1>u, <2>1, <2>5, <3>1
  <2> QED BY <1>2, <2>4, <2>5 DEF Gates!CheckToken
<1>3. ASSUME NEW c \in Callers, Gates!CheckPath(c) PROVE Gates!IInv'
  <2>1. guarded[c].at = "path" /\ UNCHANGED <<procs, tiers, plugins, life, audit>> /\ guarded[c].of \in Gates!Approvals
    BY <1>0, <1>3 DEF Gates!CheckPath, Gates!GateOnly, Gates!At, CallsFit, Gates!Approvals
  <2>2. \A p \in Pids : procs[p] = "dead" => procs'[p] = "dead"
    BY <2>1
  <2>3. procs' \in [Pids -> {"none", "running", "dead"}]
    BY <1>0, <2>1 DEF EndsFit
  <2>4. Gates!Goes(c, "idle", "none")
    BY <1>3 DEF Gates!CheckPath, Gates!Uses
  <2>5. CallsFit' /\ EndsFit' /\ AuditFits'
    BY <1>g, <2>1, <2>2, <2>3, <2>4
  <2>6. ApprovalsFit'
    <3>1. CASE guarded[c].of \in approved
      BY <1>0, <1>3, <2>1, <3>1, ApprovalIsUsed DEF Gates!CheckPath, Gates!Uses
    <3>2. CASE guarded[c].of \notin approved
      BY <1>3, <1>u, <3>2 DEF Gates!CheckPath
    <3> QED BY <3>1, <3>2
  <2> QED BY <1>q, <1>u, <2>1, <2>5, <2>6
<1>4. ASSUME NEW c \in Callers, NEW status \in Gates!Statuses, Gates!Decide(c, status) PROVE Gates!IInv'
  <2>1. guarded[c].at = "idle" /\ Gates!Goes(c, "record", status)
        /\ UNCHANGED <<approved, uses, procs, tiers, plugins, life, audit>>
    BY <1>4 DEF Gates!Decide, Gates!CheckOnly, Gates!At
  <2>2. \A p \in Pids : procs[p] = "dead" => procs'[p] = "dead"
    BY <2>1
  <2>3. procs' \in [Pids -> {"none", "running", "dead"}]
    BY <1>0, <2>1 DEF EndsFit
  <2>4. CallsFit' /\ EndsFit' /\ AuditFits'
    BY <1>g, <2>1, <2>2, <2>3
  <2> QED BY <1>q, <1>u, <2>1, <2>4
\* The two steps that write the audit log or tell.
<1>a. ASSUME NEW c \in Callers, NEW s \in Gates!Statuses, NEW place \in {"idle", "tell"}, NEW what,
             guarded[c].of = s, guarded[c].at = IF place = "tell" THEN "record" ELSE "tell",
             Gates!Goes(c, place, what), place = "tell" => what = s,
             UNCHANGED <<approved, uses, procs, plugins, life>>,
             audit' = IF place = "tell" THEN [audit EXCEPT !.entries = Gates!More(@, s)]
                      ELSE [audit EXCEPT !.told = Gates!More(@, s)]
      PROVE  Gates!IInv'
  <2>1. place \in Gates!Places
    BY DEF Gates!Places
  <2>2. CallsFit' /\ guarded'[c].at = place /\ guarded'[c].of = what /\ \A d \in Callers : d # c => guarded'[d] = guarded[d]
    <3>1. guarded' = [guarded EXCEPT ![c] = [at |-> place, of |-> what]]
      BY <1>a DEF Gates!Goes
    <3>2. CallsFit
      BY <1>0
    <3>3. CallFits(place, what)
      BY <1>a DEF CallFits
    <3> QED BY <2>1, <3>1, <3>2, <3>3, CallGoes
  <2>3. EndsFit'
    <3>1. ASSUME NEW d \in Callers, guarded'[d].at = "ended" PROVE procs'[guarded'[d].of] = "dead"
      <4>1. d # c
        BY <2>2, <3>1
      <4>2. guarded'[d] = guarded[d]
        BY <2>2, <4>1
      <4> QED BY <1>0, <1>a, <3>1, <4>2 DEF EndsFit
    <3> QED BY <1>0, <1>a, <3>1 DEF EndsFit
  <2>4. audit.entries \in [Gates!Statuses -> Nat] /\ audit.told \in [Gates!Statuses -> Nat]
        /\ audit = [entries |-> audit.entries, told |-> audit.told]
    BY <1>0 DEF AuditFits
  <2>5. ASSUME NEW f \in [Gates!Statuses -> Nat]
        PROVE  Gates!More(f, s) \in [Gates!Statuses -> Nat] /\ Gates!More(f, s)[s] = f[s] + 1
               /\ \A r \in Gates!Statuses : r # s => Gates!More(f, s)[r] = f[r]
    BY DEF Gates!More
  <2>6. AuditFits'
    <3>1. CASE place = "tell"
      <4>1. audit' = [entries |-> Gates!More(audit.entries, s), told |-> audit.told]
        BY <1>a, <2>4, <3>1
      <4>2. audit'.entries = Gates!More(audit.entries, s) /\ audit'.told = audit.told
        BY <4>1
      <4>3. ASSUME NEW r \in Gates!Statuses PROVE audit'.entries[r] = audit'.told[r] + Cardinality(Gates!Telling(r)')
        <5>1. /\ Cardinality(Gates!Telling(r)) \in Nat
              /\ r = s => Cardinality(Gates!Telling(r)') = Cardinality(Gates!Telling(r)) + 1
              /\ r # s => Gates!Telling(r)' = Gates!Telling(r)
          BY <1>0, <1>a, <2>2, <3>1, TellingMoves
        <5>2. audit.entries[r] = audit.told[r] + Cardinality(Gates!Telling(r)) /\ audit.told[r] \in Nat
          BY <1>0, <2>4 DEF AuditFits
        <5>3. audit'.entries[r] = IF r = s THEN audit.entries[r] + 1 ELSE audit.entries[r]
          BY <2>4, <2>5, <4>2
        <5> QED BY <4>2, <5>1, <5>2, <5>3
      <4>4. audit' \in [entries : [Gates!Statuses -> Nat], told : [Gates!Statuses -> Nat]]
        BY <2>4, <2>5, <4>1
      <4> QED BY <4>3, <4>4 DEF AuditFits
    <3>2. CASE place = "idle"
      <4>1. audit' = [entries |-> audit.entries, told |-> Gates!More(audit.told, s)]
        BY <1>a, <2>4, <3>2
      <4>2. audit'.entries = audit.entries /\ audit'.told = Gates!More(audit.told, s)
        BY <4>1
      <4>3. ASSUME NEW r \in Gates!Statuses PROVE audit'.entries[r] = audit'.told[r] + Cardinality(Gates!Telling(r)')
        <5>1. /\ Cardinality(Gates!Telling(r)) \in Nat
              /\ r = s => Cardinality(Gates!Telling(r)') = Cardinality(Gates!Telling(r)) - 1
              /\ r # s => Gates!Telling(r)' = Gates!Telling(r)
          BY <1>0, <1>a, <2>2, <3>2, TellingMoves
        <5>2. audit.entries[r] = audit.told[r] + Cardinality(Gates!Telling(r)) /\ audit.told[r] \in Nat
          BY <1>0, <2>4 DEF AuditFits
        <5>3. audit'.told[r] = IF r = s THEN audit.told[r] + 1 ELSE audit.told[r]
          BY <2>4, <2>5, <4>2
        <5> QED BY <4>2, <5>1, <5>2, <5>3
      <4>4. audit' \in [entries : [Gates!Statuses -> Nat], told : [Gates!Statuses -> Nat]]
        BY <2>4, <2>5, <4>1
      <4> QED BY <4>3, <4>4 DEF AuditFits
    <3> QED BY <3>1, <3>2
  <2> QED BY <1>a, <1>q, <1>u, <2>2, <2>3, <2>6
<1>5. ASSUME NEW c \in Callers, Gates!Record(c) PROVE Gates!IInv'
  <2>1. PICK s \in Gates!Statuses : s = guarded[c].of
    BY <1>0, <1>5 DEF Gates!Record, Gates!At, CallsFit
  <2>2. /\ guarded[c].at = "record" /\ Gates!Goes(c, "tell", s) /\ UNCHANGED <<approved, uses, procs, plugins, life>>
        /\ audit' = [audit EXCEPT !.entries = Gates!More(@, s)]
    BY <1>5, <2>1 DEF Gates!Record, Gates!CheckOnly, Gates!At
  <2> QED BY <1>a, <2>1, <2>2
<1>6. ASSUME NEW c \in Callers, Gates!Tell(c) PROVE Gates!IInv'
  <2>1. PICK s \in Gates!Statuses : s = guarded[c].of
    BY <1>0, <1>6 DEF Gates!Tell, Gates!At, CallsFit
  <2>2. /\ guarded[c].at = "tell" /\ Gates!Goes(c, "idle", "none") /\ UNCHANGED <<approved, uses, procs, plugins, life>>
        /\ audit' = [audit EXCEPT !.told = Gates!More(@, s)]
    BY <1>6, <2>1 DEF Gates!Tell, Gates!CheckOnly, Gates!At
  <2> QED BY <1>a, <2>1, <2>2
<1>7. ASSUME NEW tier \in Gates!Tiers, NEW p \in Pids, Gates!Spawn(tier, p) PROVE Gates!IInv'
  <2>1. procs[p] = "none" /\ procs' = [procs EXCEPT ![p] = "running"]
        /\ UNCHANGED <<approved, uses, plugins, life, audit, guarded>>
    BY <1>7 DEF Gates!Spawn, Gates!SandboxOnly
  <2>2. EndsFit'
    BY <1>0, <2>1 DEF EndsFit, CallsFit
  <2> QED BY <1>q, <1>u, <2>1, <2>2
<1>8. ASSUME NEW p \in Pids, Gates!Exits(p) PROVE Gates!IInv'
  <2>1. procs' = [procs EXCEPT ![p] = "dead"] /\ UNCHANGED <<approved, uses, plugins, life, audit, guarded>>
    BY <1>8 DEF Gates!Exits, Gates!SandboxOnly
  <2>2. EndsFit'
    BY <1>0, <2>1 DEF EndsFit, CallsFit
  <2> QED BY <1>q, <1>u, <2>1, <2>2
<1>9. ASSUME NEW c \in Callers, NEW p \in Pids, Gates!Terminate(c, p) PROVE Gates!IInv'
  <2>1. /\ guarded[c].at = "idle" /\ Gates!Goes(c, "wait", p) /\ UNCHANGED <<approved, uses, plugins, life, audit>>
        /\ procs' = [procs EXCEPT ![p] = "dead"] \/ procs' = procs
    BY <1>9 DEF Gates!Terminate, Gates!SandboxOnly, Gates!At
  <2>2. /\ \A q \in Pids : procs[q] = "dead" => procs'[q] = "dead"
        /\ procs' \in [Pids -> {"none", "running", "dead"}]
    BY <1>0, <2>1 DEF EndsFit
  <2>3. CallsFit' /\ EndsFit' /\ AuditFits'
    BY <1>g, <2>1, <2>2
  <2> QED BY <1>q, <1>u, <2>1, <2>3
<1>10. ASSUME NEW c \in Callers, Gates!Elapses(c) PROVE Gates!IInv'
  <2>1. /\ guarded[c].at = "wait" /\ Gates!Goes(c, "kill", guarded[c].of) /\ guarded[c].of \in Pids
        /\ UNCHANGED <<approved, uses, plugins, life, audit, procs>>
    BY <1>0, <1>10 DEF Gates!Elapses, Gates!SandboxOnly, Gates!At, CallsFit
  <2>2. procs' \in [Pids -> {"none", "running", "dead"}]
    BY <1>0, <2>1 DEF EndsFit
  <2>3. CallsFit' /\ EndsFit' /\ AuditFits'
    BY <1>g, <2>1, <2>2
  <2> QED BY <1>q, <1>u, <2>1, <2>3
<1>11. ASSUME NEW c \in Callers, Gates!ForceTerminate(c) PROVE Gates!IInv'
  <2>1. PICK p \in Pids : p = guarded[c].of
    BY <1>0, <1>11 DEF Gates!ForceTerminate, Gates!At, CallsFit
  <2>2. /\ guarded[c].at = "kill" /\ Gates!Goes(c, "ended", p) /\ UNCHANGED <<approved, uses, plugins, life, audit>>
        /\ procs' = [procs EXCEPT ![p] = "dead"]
    BY <1>11, <2>1 DEF Gates!ForceTerminate, Gates!SandboxOnly, Gates!At
  <2>3. "ended" \in Gates!Places
    BY DEF Gates!Places
  <2>4. CallsFit' /\ guarded'[c].at = "ended" /\ guarded'[c].of = p /\ \A d \in Callers : d # c => guarded'[d] = guarded[d]
    <3>1. guarded' = [guarded EXCEPT ![c] = [at |-> "ended", of |-> p]]
      BY <2>2 DEF Gates!Goes
    <3>2. CallsFit
      BY <1>0
    <3>3. CallFits("ended", p)
      BY DEF CallFits
    <3> QED BY <2>3, <3>1, <3>2, <3>3, CallGoes
  <2>5. EndsFit'
    <3>1. procs' \in [Pids -> {"none", "running", "dead"}] /\ procs'[p] = "dead"
          /\ \A q \in Pids : procs[q] = "dead" => procs'[q] = "dead"
      BY <1>0, <2>2 DEF EndsFit
    <3>2. ASSUME NEW d \in Callers, d # c, guarded'[d].at = "ended" PROVE procs'[guarded'[d].of] = "dead"
      <4>1. guarded'[d] = guarded[d]
        BY <2>4, <3>2
      <4>2. guarded[d].of \in Pids /\ procs[guarded[d].of] = "dead"
        BY <1>0, <3>2, <4>1 DEF CallsFit, EndsFit
      <4> QED BY <3>1, <4>1, <4>2
    <3> QED BY <2>4, <3>1, <3>2 DEF EndsFit
  <2>6. AuditFits'
    BY <1>0, <2>2, <2>4, AuditRests
  <2> QED BY <1>q, <1>u, <2>2, <2>4, <2>5, <2>6
<1>12. ASSUME NEW c \in Callers, Gates!Leaves(c) PROVE Gates!IInv'
  <2>1. /\ guarded[c].at = "ended" /\ Gates!Goes(c, "idle", "none")
        /\ UNCHANGED <<approved, uses, plugins, life, audit, procs>>
    BY <1>12 DEF Gates!Leaves, Gates!SandboxOnly, Gates!At
  <2>2. procs' \in [Pids -> {"none", "running", "dead"}]
    BY <1>0, <2>1 DEF EndsFit
  <2>3. CallsFit' /\ EndsFit' /\ AuditFits'
    BY <1>g, <2>1, <2>2
  <2> QED BY <1>q, <1>u, <2>1, <2>3
<1>13. ASSUME NEW p \in Plugins, Gates!Register(p) PROVE Gates!IInv'
  <2>1. /\ plugins[p.name] = {} /\ plugins' = [plugins EXCEPT ![p.name] = {p}]
        /\ UNCHANGED <<approved, uses, procs, guarded, audit, life>>
    BY <1>13 DEF Gates!Register, Gates!PluginsOnly
  <2>2. /\ p.name \in DOMAIN plugins /\ DOMAIN plugins' = DOMAIN plugins /\ plugins'[p.name] = {p}
        /\ \A n \in DOMAIN plugins : n # p.name => plugins'[n] = plugins[n]
    BY <1>0, <2>1 DEF PluginsFit
  <2>3. \A q \in Plugins : q.name = p.name => ~(life[q].inits > 0 \/ life[q].shut)
    BY <1>0, <2>1 DEF PluginsFit
  <2>4. \A n \in DOMAIN plugins : plugins'[n] \in {{}} \cup {{r} : r \in {q \in Plugins : q.name = n}}
    <3> SUFFICES ASSUME NEW n \in DOMAIN plugins
                 PROVE  plugins'[n] \in {{}} \cup {{r} : r \in {q \in Plugins : q.name = n}}
      OBVIOUS
    <3>1. CASE n = p.name
      BY <2>2, <3>1
    <3>2. CASE n # p.name
      <4>1. plugins[n] \in {{}} \cup {{r} : r \in {q \in Plugins : q.name = n}}
        BY <1>0 DEF PluginsFit
      <4> QED BY <2>2, <3>2, <4>1
    <3> QED BY <3>1, <3>2
  <2>5. \A q \in Plugins : life[q].inits > 0 \/ life[q].shut => plugins'[q.name] = {q}
    BY <1>0, <2>2, <2>3 DEF PluginsFit
  <2>6. PluginsFit'
    BY <1>0, <2>1, <2>2, <2>4, <2>5 DEF PluginsFit
  <2> QED BY <1>q, <1>u, <2>1, <2>6
<1>r. ASSUME NEW p \in Gates!Registered PROVE p \in Plugins /\ plugins[p.name] = {p}
  BY <1>0 DEF Gates!Registered, PluginsFit
\* The plugins that were called are registered.
<1>c. ASSUME NEW S \in SUBSET Gates!Registered,
             life' \in [Plugins -> [inits : Nat, shut : BOOLEAN]],
             \A p \in Plugins : p \notin S => life'[p] = life[p],
             UNCHANGED <<approved, uses, procs, guarded, audit, plugins>>
      PROVE  Gates!IInv'
  <2>1. \A p \in Plugins : life'[p].inits > 0 \/ life'[p].shut => plugins[p.name] = {p}
    BY <1>0, <1>c, <1>r DEF PluginsFit
  <2>2. PluginsFit'
    BY <1>0, <1>c, <2>1 DEF PluginsFit
  <2> QED BY <1>c, <1>q, <1>u, <2>2
<1>14. ASSUME NEW before \in SUBSET Gates!Registered, NEW failing \in {{}} \cup {{p} : p \in Gates!Registered},
              Gates!InitAll(before, failing)
       PROVE  Gates!IInv'
  <2>1. PICK S \in SUBSET Gates!Registered : S = before \cup failing
    OBVIOUS
  <2>2. life' = [p \in Plugins |-> IF p \in S THEN [life[p] EXCEPT !.inits = @ + 1] ELSE life[p]]
        /\ UNCHANGED <<approved, uses, procs, guarded, audit, plugins>>
    BY <1>14, <2>1 DEF Gates!InitAll, Gates!PluginsOnly
  <2>3. \A p \in Plugins : life[p] \in [inits : Nat, shut : BOOLEAN]
    BY <1>0 DEF PluginsFit
  <2>4. \A r \in [inits : Nat, shut : BOOLEAN] : [r EXCEPT !.inits = @ + 1] \in [inits : Nat, shut : BOOLEAN]
    OBVIOUS
  <2>5. life' \in [Plugins -> [inits : Nat, shut : BOOLEAN]]
    BY <2>2, <2>3, <2>4
  <2>6. \A p \in Plugins : p \notin S => life'[p] = life[p]
    BY <2>2
  <2> QED BY <1>c, <2>2, <2>5, <2>6
<1>15. ASSUME NEW before \in SUBSET Gates!Registered, NEW failing \in {{}} \cup {{p} : p \in Gates!Registered},
              Gates!ShutdownAll(before, failing)
       PROVE  Gates!IInv'
  <2>2. life' = [p \in Plugins |-> IF p \in before THEN [life[p] EXCEPT !.shut = TRUE] ELSE life[p]]
        /\ UNCHANGED <<approved, uses, procs, guarded, audit, plugins>>
    BY <1>15 DEF Gates!ShutdownAll, Gates!PluginsOnly
  <2>3. \A p \in Plugins : life[p] \in [inits : Nat, shut : BOOLEAN]
    BY <1>0 DEF PluginsFit
  <2>4. \A r \in [inits : Nat, shut : BOOLEAN] : [r EXCEPT !.shut = TRUE] \in [inits : Nat, shut : BOOLEAN]
    OBVIOUS
  <2>5. life' \in [Plugins -> [inits : Nat, shut : BOOLEAN]]
    BY <2>2, <2>3, <2>4
  <2>6. \A p \in Plugins : p \notin before => life'[p] = life[p]
    BY <2>2
  <2> QED BY <1>c, <2>2, <2>5, <2>6
<1>16. CASE UNCHANGED Gates!vars
  BY <1>16, <1>q, <1>u DEF Gates!vars
<1> QED BY <1>1, <1>2, <1>3, <1>4, <1>5, <1>6, <1>7, <1>8, <1>9, <1>10, <1>11, <1>12, <1>13, <1>14, <1>15, <1>16
    DEF Gates!Next

\* It implies what is checked of the gates.
LEMMA GatesAreKept == Gates!IInv => Gates!IsolationHolds
BY DEF Gates!IInv

-------------------------------------------------------------------------------
(* The prompt cache.                                                         *)

\* The next lock of a spot, and the spot once it is taken.
GoesOn(call, takes, mine) ==
  /\ Head(takes) \in Cache!Locks /\ Head(takes) \notin mine
  /\ Cache!Spot(call, Tail(takes), IF Tail(takes) = <<>> \/ call = "clear" THEN {} ELSE mine \cup {Head(takes)})
  /\ takes = <<"metrics">> => "stats" \in mine
  /\ takes = <<"keys">> /\ call = "bump" => "version" \in mine
  /\ Tail(takes) = <<"metrics">> <=> Head(takes) = "stats" /\ call \in {"check", "record"}
  /\ Tail(takes) = <<"keys">> /\ call = "bump" <=> Head(takes) = "version" /\ call = "bump"
  /\ Head(takes) = "metrics" => takes = <<"metrics">>
  /\ Head(takes) = "keys" => call \in {"check", "bump", "clear"} /\ takes # <<"metrics">>
  /\ Head(takes) = "version" => call \in {"bump", "read"} /\ takes # <<"metrics">> /\ takes # <<"keys">>
  /\ Head(takes) = "stats" => call \in {"check", "record", "clear"} /\ takes # <<"metrics">> /\ takes # <<"keys">>

\* Who takes its next lock is at the next spot of its call.
LEMMA SpotGoesOn ==
  ASSUME NEW call, NEW takes, NEW mine, Cache!Spot(call, takes, mine), takes # <<>>
  PROVE  GoesOn(call, takes, mine)
<1>1. CASE call = "check" /\ takes = <<"keys", "stats", "metrics">> /\ mine = {}
  <2>1. Head(takes) = "keys" /\ Tail(takes) = <<"stats", "metrics">>
    BY <1>1
  <2>2. /\ takes # <<"metrics">> /\ takes # <<"keys">>
        /\ Tail(takes) # <<"metrics">> /\ Tail(takes) # <<"keys">> /\ Tail(takes) # <<>>
    BY <1>1, <2>1
  <2>3. Cache!Spot(call, Tail(takes), {"keys"})
    BY <1>1, <2>1 DEF Cache!Spot
  <2> QED BY <1>1, <2>1, <2>2, <2>3 DEF GoesOn, Cache!Locks
<1>2. CASE call = "check" /\ takes = <<"stats", "metrics">> /\ mine = {"keys"}
  <2>1. Head(takes) = "stats" /\ Tail(takes) = <<"metrics">>
    BY <1>2
  <2>2. /\ takes # <<"metrics">> /\ takes # <<"keys">>
        /\ Tail(takes) = <<"metrics">> /\ Tail(takes) # <<"keys">> /\ Tail(takes) # <<>>
    BY <1>2, <2>1
  <2>3. Cache!Spot(call, Tail(takes), {"keys", "stats"})
    BY <1>2, <2>1 DEF Cache!Spot
  <2> QED BY <1>2, <2>1, <2>2, <2>3 DEF GoesOn, Cache!Locks
<1>3. CASE call = "check" /\ takes = <<"metrics">> /\ mine = {"keys", "stats"}
  <2>1. Head(takes) = "metrics" /\ Tail(takes) = <<>>
    BY <1>3
  <2>2. /\ takes = <<"metrics">> /\ takes # <<"keys">>
        /\ Tail(takes) # <<"metrics">> /\ Tail(takes) # <<"keys">> /\ Tail(takes) = <<>>
    BY <1>3, <2>1
  <2>3. Cache!Spot(call, Tail(takes), {})
    BY <1>3, <2>1 DEF Cache!Spot
  <2> QED BY <1>3, <2>1, <2>2, <2>3 DEF GoesOn, Cache!Locks
<1>4. CASE call = "record" /\ takes = <<"stats", "metrics">> /\ mine = {}
  <2>1. Head(takes) = "stats" /\ Tail(takes) = <<"metrics">>
    BY <1>4
  <2>2. /\ takes # <<"metrics">> /\ takes # <<"keys">>
        /\ Tail(takes) = <<"metrics">> /\ Tail(takes) # <<"keys">> /\ Tail(takes) # <<>>
    BY <1>4, <2>1
  <2>3. Cache!Spot(call, Tail(takes), {"stats"})
    BY <1>4, <2>1 DEF Cache!Spot
  <2> QED BY <1>4, <2>1, <2>2, <2>3 DEF GoesOn, Cache!Locks
<1>5. CASE call = "record" /\ takes = <<"metrics">> /\ mine = {"stats"}
  <2>1. Head(takes) = "metrics" /\ Tail(takes) = <<>>
    BY <1>5
  <2>2. /\ takes = <<"metrics">> /\ takes # <<"keys">>
        /\ Tail(takes) # <<"metrics">> /\ Tail(takes) # <<"keys">> /\ Tail(takes) = <<>>
    BY <1>5, <2>1
  <2>3. Cache!Spot(call, Tail(takes), {})
    BY <1>5, <2>1 DEF Cache!Spot
  <2> QED BY <1>5, <2>1, <2>2, <2>3 DEF GoesOn, Cache!Locks
<1>6. CASE call = "bump" /\ takes = <<"version", "keys">> /\ mine = {}
  <2>1. Head(takes) = "version" /\ Tail(takes) = <<"keys">>
    BY <1>6
  <2>2. /\ takes # <<"metrics">> /\ takes # <<"keys">>
        /\ Tail(takes) # <<"metrics">> /\ Tail(takes) = <<"keys">> /\ Tail(takes) # <<>>
    BY <1>6, <2>1
  <2>3. Cache!Spot(call, Tail(takes), {"version"})
    BY <1>6, <2>1 DEF Cache!Spot
  <2> QED BY <1>6, <2>1, <2>2, <2>3 DEF GoesOn, Cache!Locks
<1>7. CASE call = "bump" /\ takes = <<"keys">> /\ mine = {"version"}
  <2>1. Head(takes) = "keys" /\ Tail(takes) = <<>>
    BY <1>7
  <2>2. /\ takes # <<"metrics">> /\ takes = <<"keys">>
        /\ Tail(takes) # <<"metrics">> /\ Tail(takes) # <<"keys">> /\ Tail(takes) = <<>>
    BY <1>7, <2>1
  <2>3. Cache!Spot(call, Tail(takes), {})
    BY <1>7, <2>1 DEF Cache!Spot
  <2> QED BY <1>7, <2>1, <2>2, <2>3 DEF GoesOn, Cache!Locks
<1>8. CASE call = "clear" /\ takes = <<"stats", "keys">> /\ mine = {}
  <2>1. Head(takes) = "stats" /\ Tail(takes) = <<"keys">>
    BY <1>8
  <2>2. /\ takes # <<"metrics">> /\ takes # <<"keys">>
        /\ Tail(takes) # <<"metrics">> /\ Tail(takes) = <<"keys">> /\ Tail(takes) # <<>>
    BY <1>8, <2>1
  <2>3. Cache!Spot(call, Tail(takes), {})
    BY <1>8, <2>1 DEF Cache!Spot
  <2> QED BY <1>8, <2>1, <2>2, <2>3 DEF GoesOn, Cache!Locks
<1>9. CASE call = "clear" /\ takes = <<"keys">> /\ mine = {}
  <2>1. Head(takes) = "keys" /\ Tail(takes) = <<>>
    BY <1>9
  <2>2. /\ takes # <<"metrics">> /\ takes = <<"keys">>
        /\ Tail(takes) # <<"metrics">> /\ Tail(takes) # <<"keys">> /\ Tail(takes) = <<>>
    BY <1>9, <2>1
  <2>3. Cache!Spot(call, Tail(takes), {})
    BY <1>9, <2>1 DEF Cache!Spot
  <2> QED BY <1>9, <2>1, <2>2, <2>3 DEF GoesOn, Cache!Locks
<1>10. CASE call = "read" /\ takes = <<"version">> /\ mine = {}
  <2>1. Head(takes) = "version" /\ Tail(takes) = <<>>
    BY <1>10
  <2>2. /\ takes # <<"metrics">> /\ takes # <<"keys">>
        /\ Tail(takes) # <<"metrics">> /\ Tail(takes) # <<"keys">> /\ Tail(takes) = <<>>
    BY <1>10, <2>1
  <2>3. Cache!Spot(call, Tail(takes), {})
    BY <1>10, <2>1 DEF Cache!Spot
  <2> QED BY <1>10, <2>1, <2>2, <2>3 DEF GoesOn, Cache!Locks
<1> QED BY <1>1, <1>2, <1>3, <1>4, <1>5, <1>6, <1>7, <1>8, <1>9, <1>10 DEF Cache!Spot

\* The locks are taken in one order.
Rank(l) == CASE l = "version" -> 1 [] l = "keys" -> 2 [] l = "stats" -> 3 [] l = "metrics" -> 4 [] OTHER -> 0

\* Locks are taken in one order, whatever the call.
LEMMA SpotsAreRanked ==
  ASSUME NEW call, NEW takes, NEW mine, Cache!Spot(call, takes, mine), takes # <<>>, NEW l \in mine
  PROVE  Rank(l) \in Nat /\ Rank(Head(takes)) \in Nat /\ Rank(l) < Rank(Head(takes))
<1>1. \A a, b : Head(<<a, b>>) = a /\ Head(<<a>>) = a
  OBVIOUS
<1> QED BY <1>1 DEF Cache!Spot, Rank

Doings == [call : Cache!Calls \cup {"none"}, takes : Seq(Cache!Locks), prefix : SUBSET Prefixes,
           knows : Nat, hit : BOOLEAN, under : Nat]

\* A thread that has the next lock lets go of all of them, or keeps it with the others.
LEMMA LockIsTaken ==
  ASSUME Cache!LocksAreHeld, DOMAIN holder = Cache!Locks,
         NEW t \in Threads, NEW l \in Cache!Locks, Cache!Take(t, l)
  PROVE  /\ DOMAIN holder' = Cache!Locks
         /\ \A k \in Cache!Locks : holder'[k] \in {{}} \cup {{u} : u \in Threads}
         /\ Cache!Mine(t)' = IF Tail(doing[t].takes) = <<>> \/ doing[t].call = "clear" THEN {} ELSE Cache!Mine(t) \cup {l}
         /\ \A u \in Threads \ {t} : l \notin Cache!Mine(u) /\ Cache!Mine(u)' = Cache!Mine(u)
<1> DEFINE all == Tail(doing[t].takes) = <<>> \/ doing[t].call = "clear"
           freed == IF all THEN Cache!Mine(t) \cup {l} ELSE {}
<1>1. /\ holder[l] = {}
      /\ holder' = [k \in Cache!Locks |-> IF k \in freed THEN {} ELSE IF k = l THEN {t} ELSE holder[k]]
  BY DEF Cache!Take, Cache!LetsGo
<1> HIDE DEF all
<1>2. \A k \in Cache!Locks : holder'[k] = IF k \in freed THEN {} ELSE IF k = l THEN {t} ELSE holder[k]
  BY <1>1
<1>3. \A k \in Cache!Locks : k \in freed <=> all /\ (holder[k] = {t} \/ k = l)
  BY DEF Cache!Mine
<1> HIDE DEF freed
<1>4. \A k \in Cache!Locks : holder'[k] \in {{}} \cup {{u} : u \in Threads}
  BY <1>2 DEF Cache!LocksAreHeld
<1>5. Cache!Mine(t)' = IF all THEN {} ELSE Cache!Mine(t) \cup {l}
  BY <1>2, <1>3 DEF Cache!Mine
<1>6. ASSUME NEW u \in Threads \ {t} PROVE l \notin Cache!Mine(u) /\ Cache!Mine(u)' = Cache!Mine(u)
  <2>1. \A k \in Cache!Locks : holder'[k] = {u} <=> holder[k] = {u}
    BY <1>1, <1>2, <1>3
  <2>2. l \notin Cache!Mine(u)
    BY <1>1 DEF Cache!Mine
  <2> QED BY <2>1, <2>2 DEF Cache!Mine
<1> QED BY <1>1, <1>4, <1>5, <1>6 DEF all

\* What a thread does with a lock, to what it is in.
LEMMA ThreadGoesOn ==
  ASSUME Cache!TypeOK, Cache!LocksAreHeld, NEW t \in Threads, NEW l \in Cache!Locks, Cache!Take(t, l),
         NEW h \in BOOLEAN, NEW v \in Nat, NEW k \in Nat, Cache!Moves(t, h, v, k)
  PROVE  /\ doing' \in [Threads -> Doings]
         /\ doing'[t].takes = Tail(doing[t].takes) /\ doing'[t].call = doing[t].call
         /\ doing'[t].hit = h /\ doing'[t].under = v /\ doing'[t].knows = k
         /\ \A u \in Threads : u # t => doing'[u] = doing[u]
         /\ DOMAIN holder' = Cache!Locks /\ Cache!LocksAreHeld'
         /\ GoesOn(doing[t].call, doing[t].takes, Cache!Mine(t)) /\ l = Head(doing[t].takes)
         /\ \A u \in Threads \ {t} : l \notin Cache!Mine(u)
<1>1. doing \in [Threads -> Doings] /\ doing[t] \in Doings /\ doing[t].takes # <<>> /\ l = Head(doing[t].takes)
  BY DEF Cache!TypeOK, Doings, Cache!Take
<1>2. GoesOn(doing[t].call, doing[t].takes, Cache!Mine(t))
  BY <1>1, SpotGoesOn DEF Cache!LocksAreHeld
<1>3. Tail(doing[t].takes) \in Seq(Cache!Locks)
  BY <1>1, HeadTailProperties DEF Doings
<1>4. PICK new : new = [doing[t] EXCEPT !.takes = Tail(@), !.hit = h, !.under = v, !.knows = k]
  OBVIOUS
<1>5. /\ new \in Doings /\ new.takes = Tail(doing[t].takes) /\ new.call = doing[t].call
      /\ new.hit = h /\ new.under = v /\ new.knows = k
  BY <1>1, <1>3, <1>4 DEF Doings
<1>6. doing' = [doing EXCEPT ![t] = new]
  BY <1>1, <1>4 DEF Cache!Moves
<1>7. doing' \in [Threads -> Doings] /\ doing'[t] = new /\ \A u \in Threads : u # t => doing'[u] = doing[u]
  BY <1>1, <1>5, <1>6
<1>8. DOMAIN holder = Cache!Locks
  BY DEF Cache!TypeOK
<1>9. /\ DOMAIN holder' = Cache!Locks
      /\ \A j \in Cache!Locks : holder'[j] \in {{}} \cup {{u} : u \in Threads}
      /\ Cache!Mine(t)' = IF Tail(doing[t].takes) = <<>> \/ doing[t].call = "clear" THEN {} ELSE Cache!Mine(t) \cup {l}
      /\ \A u \in Threads \ {t} : l \notin Cache!Mine(u) /\ Cache!Mine(u)' = Cache!Mine(u)
  BY <1>8, LockIsTaken
<1>10. Cache!LocksAreHeld'
  <2>1. ASSUME NEW u \in Threads PROVE Cache!Spot(doing'[u].call, doing'[u].takes, Cache!Mine(u)')
    <3>1. CASE u = t
      BY <1>1, <1>2, <1>5, <1>7, <1>9, <3>1 DEF GoesOn
    <3>2. CASE u # t
      <4>1. doing'[u] = doing[u] /\ Cache!Mine(u)' = Cache!Mine(u)
        BY <1>7, <1>9, <3>2
      <4>2. Cache!Spot(doing[u].call, doing[u].takes, Cache!Mine(u))
        BY DEF Cache!LocksAreHeld
      <4> QED BY <4>1, <4>2
    <3> QED BY <3>1, <3>2
  <2> QED BY <1>9, <2>1 DEF Cache!LocksAreHeld
<1> QED BY <1>1, <1>2, <1>5, <1>7, <1>9, <1>10

\* The inductive invariant of the prompt cache: at the start ...
LEMMA CacheStarts == Cache!Init => Cache!IInv
<1> SUFFICES ASSUME Cache!Init PROVE Cache!IInv
  OBVIOUS
<1>1. Cache!Rest \in Doings /\ Cache!Rest.takes = <<>> /\ Cache!Rest.knows = 0 /\ Cache!Rest.hit = FALSE
      /\ Cache!Rest.call = "none"
  BY DEF Cache!Rest, Doings
<1>2. \A t \in Threads : doing[t] = Cache!Rest /\ Cache!Mine(t) = {}
  BY DEF Cache!Init, Cache!Mine
<1>3. Cache!TypeOK
  BY <1>1 DEF Cache!Init, Cache!TypeOK, Doings
<1>4. Cache!LocksAreHeld
  BY <1>1, <1>2 DEF Cache!Init, Cache!LocksAreHeld, Cache!Spot
<1>5. Cache!VersionsAreKnown
  BY <1>1, <1>2 DEF Cache!Init, Cache!VersionsAreKnown, Cache!Bumping
<1>6. Cache!TurnsAreCounted
  BY DEF Cache!Init, Cache!TurnsAreCounted
<1> QED BY <1>1, <1>2, <1>3, <1>4, <1>5, <1>6 DEF Cache!IInv

\* Who waits for the last lock has the one before.
LEMMA LastLocks ==
  ASSUME Cache!LocksAreHeld, NEW t \in Threads
  PROVE  /\ doing[t].takes = <<"metrics">> => "stats" \in Cache!Mine(t)
         /\ doing[t].call = "bump" /\ doing[t].takes = <<"keys">> => "version" \in Cache!Mine(t)
<1>1. Cache!Spot(doing[t].call, doing[t].takes, Cache!Mine(t))
  BY DEF Cache!LocksAreHeld
<1>2. <<"metrics">> # <<>> /\ <<"keys">> # <<>>
  OBVIOUS
<1>3. doing[t].takes # <<>> => GoesOn(doing[t].call, doing[t].takes, Cache!Mine(t))
  BY <1>1, SpotGoesOn
<1> QED BY <1>2, <1>3 DEF GoesOn

\* ... and in every step.
LEMMA CacheStays == Cache!IInv /\ [Cache!Next]_(Cache!vars) => Cache!IInv'
<1> SUFFICES ASSUME Cache!IInv, [Cache!Next]_(Cache!vars) PROVE Cache!IInv'
  OBVIOUS
<1> DEFINE Warned == \A t \in Threads : doing[t].hit => doing[t].under >= doing[t].knows
           Last == \E t \in Threads : doing[t].takes = <<"metrics">>
<1>0. /\ Cache!TypeOK /\ Cache!LocksAreHeld /\ Cache!VersionsAreKnown /\ Cache!TurnsAreCounted /\ Warned
      /\ doing \in [Threads -> Doings] /\ DOMAIN holder = Cache!Locks
      /\ version \in Nat /\ warm \in [Prefixes -> SUBSET Nat]
      /\ stats \in Nat /\ metrics \in [hits : Nat, misses : Nat]
  BY DEF Cache!IInv, Cache!TypeOK, Doings
<1>d. \A t \in Threads : doing[t] \in Doings /\ doing[t].knows \in Nat /\ doing[t].under \in Nat /\ doing[t].hit \in BOOLEAN
  BY <1>0 DEF Doings
<1>c. stats <= metrics.hits + metrics.misses + (IF Last THEN 1 ELSE 0)
  BY <1>0 DEF Cache!TurnsAreCounted
<1>1. ASSUME NEW t \in Threads, Cache!TakeKeys(t) PROVE Cache!IInv'
  <2>1. Cache!Take(t, "keys") /\ UNCHANGED <<version, stats, metrics>> /\ "keys" \in Cache!Locks
    BY <1>1 DEF Cache!TakeKeys, Cache!Locks
  <2>2. PICK hit \in BOOLEAN, under \in Nat :
          /\ Cache!Moves(t, hit, under, doing[t].knows) /\ warm' \in [Prefixes -> SUBSET Nat]
          /\ (hit => under >= doing[t].knows)
          /\ \A p \in Prefixes : \A v \in warm'[p] :
               v = version \/ (v \in warm[p] /\ doing[t].call = "check")
    <3>1. CASE doing[t].call # "check"
      BY <1>0, <1>1, <1>d, <3>1 DEF Cache!TakeKeys, Cache!Goes, Warned
    <3>2. CASE doing[t].call = "check"
      <4>1. PICK p \in doing[t].prefix :
              IF warm[p] # {}
              THEN Cache!Moves(t, TRUE, CHOOSE v \in warm[p] : TRUE, doing[t].knows) /\ UNCHANGED warm
              ELSE warm' = [warm EXCEPT ![p] = {version}] /\ Cache!Moves(t, FALSE, 0, doing[t].knows)
        BY <1>1, <3>2 DEF Cache!TakeKeys
      <4>2. p \in Prefixes
        BY <1>d DEF Doings
      <4>3. CASE warm[p] # {}
        <5>1. PICK v : v = CHOOSE w \in warm[p] : TRUE
          OBVIOUS
        <5>2. v \in warm[p] /\ v \in Nat
          BY <1>0, <4>2, <4>3, <5>1
        <5>3. v >= doing[t].knows
          BY <1>0, <1>d, <4>2, <5>2 DEF Cache!VersionsAreKnown
        <5>4. Cache!Moves(t, TRUE, v, doing[t].knows) /\ UNCHANGED warm
          BY <4>1, <4>3, <5>1
        <5> QED BY <1>0, <3>2, <5>2, <5>3, <5>4
      <4>4. CASE warm[p] = {}
        <5>1. warm' = [warm EXCEPT ![p] = {version}] /\ Cache!Moves(t, FALSE, 0, doing[t].knows)
          BY <4>1, <4>4
        <5>2. warm' \in [Prefixes -> SUBSET Nat] /\ warm'[p] = {version} /\ \A q \in Prefixes : q # p => warm'[q] = warm[q]
          BY <1>0, <4>2, <5>1
        <5> QED BY <3>2, <5>1, <5>2
      <4> QED BY <4>3, <4>4
    <3> QED BY <3>1, <3>2
  <2>3. /\ doing' \in [Threads -> Doings] /\ DOMAIN holder' = Cache!Locks /\ Cache!LocksAreHeld'
        /\ doing'[t].hit = hit /\ doing'[t].under = under /\ doing'[t].knows = doing[t].knows
        /\ doing'[t].takes = Tail(doing[t].takes) /\ doing'[t].call = doing[t].call
        /\ \A u \in Threads : u # t => doing'[u] = doing[u]
        /\ GoesOn(doing[t].call, doing[t].takes, Cache!Mine(t)) /\ "keys" = Head(doing[t].takes)
    BY <1>0, <1>d, <2>1, <2>2, ThreadGoesOn
  <2>4. Cache!TypeOK'
    BY <1>0, <2>1, <2>2, <2>3 DEF Cache!TypeOK, Doings
  <2>5. Warned'
    BY <1>0, <2>2, <2>3
  <2>6. doing'[t].takes # <<"metrics">> /\ ~(doing'[t].call = "bump" /\ doing'[t].takes = <<"keys">>)
        /\ doing[t].takes # <<"metrics">>
    BY <2>3 DEF GoesOn
  <2>7. (Last' <=> Last) /\ (Cache!Bumping' => Cache!Bumping)
    BY <2>3, <2>6 DEF Cache!Bumping
  <2>8. doing[t].call = "check" => (Cache!Bumping => Cache!Bumping')
    BY <2>3 DEF Cache!Bumping
  <2>9. Cache!VersionsAreKnown'
    <3>1. \A u \in Threads : doing'[u].knows = doing[u].knows
      BY <2>3
    <3>2. \A p \in Prefixes : \A v \in warm'[p] : v = version \/ (Cache!Bumping' /\ v + 1 = version)
      BY <1>0, <2>2, <2>8 DEF Cache!VersionsAreKnown
    <3> QED BY <1>0, <2>1, <2>7, <3>1, <3>2 DEF Cache!VersionsAreKnown
  <2>10. Cache!TurnsAreCounted'
    BY <1>c, <2>1, <2>7 DEF Cache!TurnsAreCounted
  <2> QED BY <2>3, <2>4, <2>5, <2>9, <2>10 DEF Cache!IInv
\* A thread that goes on with the version it knew, in a step that leaves what is warm.
<1>g. ASSUME NEW t \in Threads, NEW l \in {"stats", "metrics"}, Cache!Take(t, l), Cache!Goes(t), UNCHANGED <<version, warm>>
      PROVE  /\ doing' \in [Threads -> Doings] /\ DOMAIN holder' = Cache!Locks /\ Cache!LocksAreHeld'
             /\ doing'[t].takes = Tail(doing[t].takes) /\ \A u \in Threads : u # t => doing'[u] = doing[u]
             /\ GoesOn(doing[t].call, doing[t].takes, Cache!Mine(t)) /\ l = Head(doing[t].takes)
             /\ \A u \in Threads \ {t} : l \notin Cache!Mine(u)
             /\ Warned' /\ Cache!VersionsAreKnown'
  <2>1. l \in Cache!Locks
    BY DEF Cache!Locks
  <2>2. Cache!Moves(t, doing[t].hit, doing[t].under, doing[t].knows)
    BY <1>g DEF Cache!Goes
  <2>3. /\ doing' \in [Threads -> Doings] /\ DOMAIN holder' = Cache!Locks /\ Cache!LocksAreHeld'
        /\ doing'[t].hit = doing[t].hit /\ doing'[t].under = doing[t].under /\ doing'[t].knows = doing[t].knows
        /\ doing'[t].takes = Tail(doing[t].takes) /\ doing'[t].call = doing[t].call
        /\ \A u \in Threads : u # t => doing'[u] = doing[u]
        /\ GoesOn(doing[t].call, doing[t].takes, Cache!Mine(t)) /\ l = Head(doing[t].takes)
        /\ \A u \in Threads \ {t} : l \notin Cache!Mine(u)
    BY <1>0, <1>d, <1>g, <2>1, <2>2, ThreadGoesOn
  <2>4. Warned'
    BY <1>0, <2>3
  <2>5. ~(doing'[t].call = "bump" /\ doing'[t].takes = <<"keys">>) /\ ~(doing[t].call = "bump" /\ doing[t].takes = <<"keys">>)
    BY <1>g, <2>3 DEF GoesOn
  <2>6. Cache!Bumping' <=> Cache!Bumping
    BY <2>3, <2>5 DEF Cache!Bumping
  <2>7. \A u \in Threads : doing'[u].knows = doing[u].knows
    BY <2>3
  <2>8. Cache!VersionsAreKnown'
    BY <1>0, <1>g, <2>6, <2>7 DEF Cache!VersionsAreKnown
  <2> QED BY <2>3, <2>4, <2>8
<1>2. ASSUME NEW t \in Threads, Cache!TakeStats(t) PROVE Cache!IInv'
  <2>1. /\ Cache!Take(t, "stats") /\ Cache!Goes(t) /\ UNCHANGED <<version, warm, metrics>>
        /\ stats' = IF doing[t].call = "clear" THEN 0 ELSE stats + 1
    BY <1>2 DEF Cache!TakeStats
  <2>2. /\ doing' \in [Threads -> Doings] /\ DOMAIN holder' = Cache!Locks /\ Cache!LocksAreHeld'
        /\ doing'[t].takes = Tail(doing[t].takes) /\ \A u \in Threads : u # t => doing'[u] = doing[u]
        /\ GoesOn(doing[t].call, doing[t].takes, Cache!Mine(t)) /\ "stats" = Head(doing[t].takes)
        /\ \A u \in Threads \ {t} : "stats" \notin Cache!Mine(u)
        /\ Warned' /\ Cache!VersionsAreKnown'
    BY <1>g, <2>1
  <2>3. ~Last
    BY <1>0, <2>2, LastLocks DEF GoesOn
  <2>4. doing[t].call # "clear" => Last'
    BY <2>2 DEF GoesOn
  <2>5. Cache!TurnsAreCounted'
    <3>1. metrics.hits \in Nat /\ metrics.misses \in Nat /\ stats <= metrics.hits + metrics.misses
      BY <1>0, <1>c, <2>3
    <3>2. stats' <= metrics.hits + metrics.misses + (IF Last' THEN 1 ELSE 0)
      BY <1>0, <2>1, <2>4, <3>1
    <3> QED BY <2>1, <3>2 DEF Cache!TurnsAreCounted
  <2>6. Cache!TypeOK'
    BY <1>0, <2>1, <2>2 DEF Cache!TypeOK, Doings
  <2> QED BY <2>2, <2>5, <2>6 DEF Cache!IInv
<1>3. ASSUME NEW t \in Threads, Cache!TakeMetrics(t) PROVE Cache!IInv'
  <2>1. /\ Cache!Take(t, "metrics") /\ Cache!Goes(t) /\ UNCHANGED <<version, warm, stats>>
    BY <1>3 DEF Cache!TakeMetrics
  <2>a. /\ metrics' \in [hits : Nat, misses : Nat] /\ metrics'.hits + metrics'.misses = metrics.hits + metrics.misses + 1
    <3>1. metrics' = [metrics EXCEPT !.hits = @ + 1] \/ metrics' = [metrics EXCEPT !.misses = @ + 1]
      BY <1>3 DEF Cache!TakeMetrics
    <3> QED BY <1>0, <3>1
  <2>2. /\ doing' \in [Threads -> Doings] /\ DOMAIN holder' = Cache!Locks /\ Cache!LocksAreHeld'
        /\ Warned' /\ Cache!VersionsAreKnown'
    BY <1>g, <2>1
  <2>3. Cache!TurnsAreCounted'
    <3>1. stats <= metrics'.hits + metrics'.misses
      BY <1>0, <1>c, <2>a
    <3> QED BY <1>0, <2>1, <2>a, <3>1 DEF Cache!TurnsAreCounted
  <2>4. Cache!TypeOK'
    BY <1>0, <2>1, <2>2, <2>a DEF Cache!TypeOK, Doings
  <2> QED BY <2>2, <2>3, <2>4 DEF Cache!IInv
<1>4. ASSUME NEW t \in Threads, Cache!TakeVersion(t) PROVE Cache!IInv'
  <2>1. Cache!Take(t, "version") /\ UNCHANGED <<warm, stats, metrics>> /\ "version" \in Cache!Locks
    BY <1>4 DEF Cache!TakeVersion, Cache!Locks
  <2>2. PICK hit \in BOOLEAN, under \in Nat, knows \in Nat :
          /\ Cache!Moves(t, hit, under, knows)
          /\ (hit => under >= knows)
          /\ doing[t].call = "bump" => version' = version + 1 /\ knows = doing[t].knows
          /\ doing[t].call # "bump" => version' = version /\ knows = version
    <3>1. CASE doing[t].call = "bump"
      BY <1>0, <1>4, <1>d, <3>1 DEF Cache!TakeVersion, Cache!Goes, Warned
    <3>2. CASE doing[t].call # "bump"
      BY <1>0, <1>4, <3>2 DEF Cache!TakeVersion
    <3> QED BY <3>1, <3>2
  <2>3. /\ doing' \in [Threads -> Doings] /\ DOMAIN holder' = Cache!Locks /\ Cache!LocksAreHeld'
        /\ doing'[t].hit = hit /\ doing'[t].under = under /\ doing'[t].knows = knows
        /\ doing'[t].takes = Tail(doing[t].takes) /\ doing'[t].call = doing[t].call
        /\ \A u \in Threads : u # t => doing'[u] = doing[u]
        /\ GoesOn(doing[t].call, doing[t].takes, Cache!Mine(t)) /\ "version" = Head(doing[t].takes)
        /\ \A u \in Threads \ {t} : "version" \notin Cache!Mine(u)
    BY <1>0, <2>1, <2>2, ThreadGoesOn
  <2>4. doing[t].takes # <<"metrics">> /\ doing[t].takes # <<"keys">> /\ doing'[t].takes # <<"metrics">>
        /\ (doing'[t].takes = <<"keys">> /\ doing[t].call = "bump" <=> doing[t].call = "bump")
    BY <2>3 DEF GoesOn
  <2>5. ~Cache!Bumping
    BY <1>0, <2>3, <2>4, LastLocks DEF Cache!Bumping
  <2>6. Cache!Bumping' <=> doing[t].call = "bump"
    BY <2>3, <2>4, <2>5 DEF Cache!Bumping
  <2>7. version' \in Nat /\ Cache!TypeOK'
    BY <1>0, <2>1, <2>2, <2>3 DEF Cache!TypeOK, Doings
  <2>8. Warned'
    BY <1>0, <2>2, <2>3
  <2>9. Cache!VersionsAreKnown'
    <3>1. \A u \in Threads : doing'[u].knows <= version' /\ (Cache!Bumping' => doing'[u].knows < version')
      BY <1>0, <1>d, <2>2, <2>3, <2>6 DEF Cache!VersionsAreKnown
    <3>2. \A p \in Prefixes : \A v \in warm[p] : v = version
      BY <1>0, <2>5 DEF Cache!VersionsAreKnown
    <3>3. \A p \in Prefixes : \A v \in warm'[p] : v = version' \/ (Cache!Bumping' /\ v + 1 = version')
      BY <2>1, <2>2, <2>6, <3>2
    <3> QED BY <3>1, <3>3 DEF Cache!VersionsAreKnown
  <2>10. Last' <=> Last
    BY <2>3, <2>4
  <2>11. Cache!TurnsAreCounted'
    BY <1>c, <2>1, <2>10 DEF Cache!TurnsAreCounted
  <2> QED BY <2>3, <2>7, <2>8, <2>9, <2>11 DEF Cache!IInv
<1>5. ASSUME NEW t \in Threads, NEW call \in Cache!Calls, NEW prefix \in SUBSET Prefixes, Cache!Begin(t, call, prefix)
      PROVE  Cache!IInv'
  <2>1. doing[t].takes = <<>> /\ UNCHANGED <<holder, version, warm, stats, metrics>>
    BY <1>5 DEF Cache!Begin
  <2>2. /\ Cache!Order(call) \in Seq(Cache!Locks) /\ Cache!Order(call) # <<"metrics">> /\ Cache!Order(call) # <<"keys">>
        /\ Cache!Spot(call, Cache!Order(call), {})
    <3>1. CASE call = "check"
      BY <3>1 DEF Cache!Order, Cache!Spot, Cache!Locks
    <3>2. CASE call = "record"
      BY <3>2 DEF Cache!Order, Cache!Spot, Cache!Locks
    <3>3. CASE call = "bump"
      BY <3>3 DEF Cache!Order, Cache!Spot, Cache!Locks
    <3>4. CASE call = "clear"
      BY <3>4 DEF Cache!Order, Cache!Spot, Cache!Locks
    <3>5. CASE call = "read"
      BY <3>5 DEF Cache!Order, Cache!Spot, Cache!Locks
    <3> QED BY <3>1, <3>2, <3>3, <3>4, <3>5 DEF Cache!Calls
  <2>3. PICK new : new = [doing[t] EXCEPT !.call = call, !.takes = Cache!Order(call), !.prefix = prefix, !.hit = FALSE]
    OBVIOUS
  <2>4. /\ new \in Doings /\ new.call = call /\ new.takes = Cache!Order(call) /\ new.hit = FALSE
        /\ new.knows = doing[t].knows
    BY <1>d, <2>2, <2>3 DEF Doings
  <2>5. doing' = [doing EXCEPT ![t] = new]
    BY <1>0, <1>5, <2>3 DEF Cache!Begin
  <2>6. doing' \in [Threads -> Doings] /\ doing'[t] = new /\ \A u \in Threads : u # t => doing'[u] = doing[u]
    BY <1>0, <2>4, <2>5
  <2>7. \A u \in Threads : Cache!Mine(u)' = Cache!Mine(u)
    BY <2>1 DEF Cache!Mine
  <2>8. Cache!Mine(t) = {}
    <3>1. Cache!Spot(doing[t].call, <<>>, Cache!Mine(t))
      BY <1>0, <2>1 DEF Cache!LocksAreHeld
    <3> QED BY <3>1 DEF Cache!Spot
  <2>9. Cache!LocksAreHeld'
    <3>1. ASSUME NEW u \in Threads PROVE Cache!Spot(doing'[u].call, doing'[u].takes, Cache!Mine(u)')
      <4>1. CASE u = t
        BY <2>2, <2>4, <2>6, <2>7, <2>8, <4>1
      <4>2. CASE u # t
        <5>1. Cache!Spot(doing[u].call, doing[u].takes, Cache!Mine(u))
          BY <1>0 DEF Cache!LocksAreHeld
        <5> QED BY <2>6, <2>7, <4>2, <5>1
      <4> QED BY <4>1, <4>2
    <3> QED BY <1>0, <2>1, <3>1 DEF Cache!LocksAreHeld
  <2>10. Cache!TypeOK'
    BY <1>0, <2>1, <2>6 DEF Cache!TypeOK, Doings
  <2>11. <<>> # <<"metrics">> /\ <<>> # <<"keys">>
    OBVIOUS
  <2>12. (Last' <=> Last) /\ (Cache!Bumping' <=> Cache!Bumping)
    BY <2>1, <2>2, <2>4, <2>6, <2>11 DEF Cache!Bumping
  <2>13. \A u \in Threads : doing'[u].knows = doing[u].knows
    BY <2>4, <2>6
  <2>14. Cache!VersionsAreKnown'
    BY <1>0, <2>1, <2>12, <2>13 DEF Cache!VersionsAreKnown
  <2>15. Cache!TurnsAreCounted'
    BY <1>c, <2>1, <2>12 DEF Cache!TurnsAreCounted
  <2>16. Warned'
    BY <1>0, <2>4, <2>6
  <2> QED BY <2>9, <2>10, <2>14, <2>15, <2>16 DEF Cache!IInv
<1>6. CASE UNCHANGED Cache!vars
  <2>1. /\ Cache!TypeOK' /\ Cache!LocksAreHeld' /\ Warned'
    BY <1>0, <1>6 DEF Cache!vars, Cache!TypeOK, Cache!LocksAreHeld, Cache!Mine
  <2>2. Cache!VersionsAreKnown' /\ Cache!TurnsAreCounted'
    BY <1>0, <1>6 DEF Cache!vars, Cache!VersionsAreKnown, Cache!TurnsAreCounted, Cache!Bumping
  <2> QED BY <2>1, <2>2 DEF Cache!IInv
<1>7. ASSUME NEW t \in Threads, NEW call \in {"record", "bump", "clear", "read"}, Cache!Begin(t, call, {}) PROVE Cache!IInv'
  <2>1. call \in Cache!Calls
    BY DEF Cache!Calls
  <2> QED BY <1>5, <1>7, <2>1
<1>8. ASSUME NEW t \in Threads, NEW p \in Prefixes, Cache!Begin(t, "check", {p}) PROVE Cache!IInv'
  <2>1. "check" \in Cache!Calls
    BY DEF Cache!Calls
  <2> QED BY <1>5, <1>8, <2>1
<1> QED BY <1>1, <1>2, <1>3, <1>4, <1>6, <1>7, <1>8 DEF Cache!Next

\* Who waits, waits for a lock after those he has.
LEMMA CacheIsKept == Cache!IInv => Cache!CacheIsOfVersion
<1> SUFFICES ASSUME Cache!IInv PROVE Cache!CacheIsOfVersion
  OBVIOUS
<1>1. ASSUME NEW S \in SUBSET Threads, S # {}, \A t \in S : \E u \in S : Cache!WaitsFor(t, u) PROVE FALSE
  <2>1. ASSUME NEW t \in S
        PROVE  /\ doing[t].takes # <<>> /\ Cache!Spot(doing[t].call, doing[t].takes, Cache!Mine(t))
               /\ Head(doing[t].takes) \in Cache!Locks
    <3>1. t \in Threads /\ \E u \in S : Cache!WaitsFor(t, u)
      BY <1>1
    <3>2. doing[t].takes # <<>>
      BY <3>1 DEF Cache!WaitsFor
    <3>3. Cache!Spot(doing[t].call, doing[t].takes, Cache!Mine(t))
      BY <3>1 DEF Cache!IInv, Cache!LocksAreHeld
    <3>4. GoesOn(doing[t].call, doing[t].takes, Cache!Mine(t))
      BY <3>2, <3>3, SpotGoesOn
    <3> QED BY <3>2, <3>3, <3>4 DEF GoesOn
  <2>2. ASSUME NEW t \in S
        PROVE  \E u \in S : Rank(Head(doing[t].takes)) < Rank(Head(doing[u].takes))
    <3>1. PICK u \in S : holder[Head(doing[t].takes)] = {u}
      BY <1>1 DEF Cache!WaitsFor
    <3>2. Head(doing[t].takes) \in Cache!Mine(u)
      BY <2>1, <3>1 DEF Cache!Mine
    <3>3. Rank(Head(doing[t].takes)) < Rank(Head(doing[u].takes))
      BY <2>1, <3>2, SpotsAreRanked
    <3> QED BY <3>3
  <2> DEFINE R(t) == Rank(Head(doing[t].takes))
             T == {k \in Nat : \E t \in S : k = 4 - R(t)}
  <2>3. \A t \in S : R(t) \in 0..4
    BY <2>1 DEF Rank, Cache!Locks
  <2>4. \A t \in S : \E u \in S : R(t) < R(u)
    BY <2>2
  <2> HIDE DEF R
  <2>5. T \subseteq Nat /\ T # {}
    <3>1. T \subseteq Nat
      OBVIOUS
    <3>2. PICK t \in S : TRUE
      BY <1>1
    <3>3. 4 - R(t) \in Nat
      BY <2>3, <3>2
    <3>4. 4 - R(t) \in T
      BY <3>2, <3>3
    <3> QED BY <3>1, <3>4
  <2>6. PICK k \in T : \A y \in T : k <= y
    <3> HIDE DEF T
    <3> QED BY <2>5, LeastOf
  <2>7. PICK t \in S : k = 4 - R(t)
    BY <2>6
  <2>8. PICK u \in S : R(t) < R(u)
    BY <2>4
  <2>9. 4 - R(u) \in T
    BY <2>3
  <2> QED BY <2>3, <2>6, <2>7, <2>8, <2>9
<1>2. (\A t \in Threads : doing[t].takes = <<>>) => stats <= metrics.hits + metrics.misses
  <2> SUFFICES ASSUME \A t \in Threads : doing[t].takes = <<>> PROVE stats <= metrics.hits + metrics.misses
    OBVIOUS
  <2>1. <<>> # <<"metrics">>
    OBVIOUS
  <2>2. metrics.hits \in Nat /\ metrics.misses \in Nat
    BY DEF Cache!IInv, Cache!TypeOK
  <2>3. ~\E t \in Threads : doing[t].takes = <<"metrics">>
    BY <2>1
  <2>4. stats <= metrics.hits + metrics.misses + (IF \E t \in Threads : doing[t].takes = <<"metrics">> THEN 1 ELSE 0)
    BY DEF Cache!IInv, Cache!TurnsAreCounted
  <2>5. stats <= metrics.hits + metrics.misses + 0
    BY <2>3, <2>4
  <2> QED BY <2>2, <2>5
<1> QED BY <1>1, <1>2 DEF Cache!IInv, Cache!CacheIsOfVersion

-------------------------------------------------------------------------------
(* The theorems.                                                             *)

\* A step of the whole is, for each component, a step of its own or none.
LEMMA StepsOfParts ==
  ASSUME [Next]_vars
  PROVE  /\ [Daemon!SessionNext]_(Daemon!sessionVars) /\ [Daemon!QuotaNext]_(Daemon!quotaVars)
         /\ [Boards!Next]_(Boards!vars) /\ [Cron!Next]_(Cron!vars) /\ [Trees!Next]_(Trees!vars)
         /\ [Memory!Next]_(Memory!vars) /\ [Hashline!Next]_(Hashline!vars) /\ [Curator!Next]_(Curator!vars)
         /\ [Children!Next]_(Children!vars) /\ [Compact!Next]_(Compact!vars)
         /\ [Gates!Next]_(Gates!vars) /\ [Cache!Next]_(Cache!vars)
<1>1. [Daemon!SessionNext]_(Daemon!sessionVars)
  <2>1. Daemon!SessionNext \/ UNCHANGED daemonVars
    BY DEF Next, Only, vars
  <2> QED BY <2>1 DEF daemonVars, Daemon!sessionVars
<1>2. [Daemon!QuotaNext]_(Daemon!quotaVars)
  <2>1. Daemon!QuotaNext \/ UNCHANGED quotaVars
    BY DEF Next, Only, vars
  <2> QED BY <2>1 DEF quotaVars, Daemon!quotaVars
<1>3. [Boards!Next]_(Boards!vars)
  <2>1. Boards!Next \/ UNCHANGED boardVars
    BY DEF Next, Only, vars
  <2> QED BY <2>1 DEF boardVars, Boards!vars
<1>4. [Cron!Next]_(Cron!vars)
  <2>1. Cron!Next \/ UNCHANGED cronVars
    BY DEF Next, Only, vars
  <2> QED BY <2>1 DEF cronVars, Cron!vars
<1>5. [Trees!Next]_(Trees!vars)
  <2>1. Trees!Next \/ UNCHANGED treeVars
    BY DEF Next, Only, vars
  <2> QED BY <2>1 DEF treeVars, Trees!vars
<1>6. [Memory!Next]_(Memory!vars)
  <2>1. Memory!Next \/ UNCHANGED memoryVars
    BY DEF Next, Only, vars
  <2> QED BY <2>1 DEF memoryVars, Memory!vars
<1>7. [Hashline!Next]_(Hashline!vars)
  <2>1. Hashline!Next \/ UNCHANGED hashVars
    BY DEF Next, Only, vars
  <2> QED BY <2>1 DEF hashVars, Hashline!vars
<1>8. [Curator!Next]_(Curator!vars)
  <2>1. Curator!Next \/ UNCHANGED skillVars
    BY DEF Next, Only, vars
  <2> QED BY <2>1 DEF skillVars, Curator!vars
<1>9. [Children!Next]_(Children!vars)
  <2>1. Children!Next \/ UNCHANGED agentVars
    BY DEF Next, Only, vars
  <2> QED BY <2>1 DEF agentVars, Children!vars
<1>10. [Compact!Next]_(Compact!vars)
  <2>1. Compact!Next \/ UNCHANGED compactVars
    BY DEF Next, Only, vars
  <2> QED BY <2>1 DEF compactVars, Compact!vars
<1>11. [Gates!Next]_(Gates!vars)
  <2>1. Gates!Next \/ UNCHANGED gateVars
    BY DEF Next, Only, vars
  <2> QED BY <2>1 DEF gateVars, Gates!vars
<1>12. [Cache!Next]_(Cache!vars)
  <2>1. Cache!Next \/ UNCHANGED cacheVars
    BY DEF Next, Only, vars
  <2> QED BY <2>1 DEF cacheVars, Cache!vars
<1> QED BY <1>1, <1>2, <1>3, <1>4, <1>5, <1>6, <1>7, <1>8, <1>9, <1>10, <1>11, <1>12

\* The event log tells what became of every session, whichever operations overlapped and
\* wherever the daemon crashed between the writes of one (daemon.rs); and every place an
\* agent's task took is given back once, on each of the paths that end it (a2a_quotas.rs).
THEOREM SessionsStayAccounted == Spec => []SessionsAreAccounted
<1> DEFINE I == Daemon!SessionInv /\ Daemon!QuotaInv
<1>1. Init => I
  BY SessionsStart, QuotaStarts DEF Init
<1>2. I /\ [Next]_vars => I'
  BY StepsOfParts, SessionsStay, QuotaStays
<1>3. I => SessionsAreAccounted
  BY SessionsAreTold, QuotaIsKept DEF SessionsAreAccounted
<1> HIDE DEF I
<1> QED BY <1>1, <1>2, <1>3, PTL DEF Spec

\* Two agents do not work on one card within the threshold, the other board's replies are
\* true of it (kanban.rs); and a job that fails runs no more often in a row than its
\* breaker lets it, whoever runs it at once (cron.rs).
THEOREM WorkStaysExclusive == Spec => []WorkIsExclusive
<1> DEFINE I == Boards!IInv /\ Cron!IInv
<1>1. Init => I
  BY BoardsStart, CronStarts DEF Init
<1>2. I /\ [Next]_vars => I'
  BY StepsOfParts, BoardsStay, CronStays
<1>3. I => WorkIsExclusive
  BY BoardsAreKept, CronIsKept DEF WorkIsExclusive
<1> HIDE DEF I
<1> QED BY <1>1, <1>2, <1>3, PTL DEF Spec

\* The text index the triggers keep is that of the records, whichever clients overlapped;
\* imports that did not overlap make no second record of a body, and a pack keeps its bounds
\* (darius-memory); compaction empties the oldest results first and what fits does fit
\* (agent_compact.rs).
THEOREM MemoryStaysSound == Spec => []MemoryIsSound
<1> DEFINE I == Memory!IInv /\ Compact!IInv
<1>1. Init => I
  BY MemoryStarts, CompactStarts DEF Init
<1>2. I /\ [Next]_vars => I'
  BY StepsOfParts, MemoryStays, CompactStays
<1>3. I => MemoryIsSound
  BY MemoryIsKept, CompactIsKept DEF MemoryIsSound
<1> HIDE DEF I
<1> QED BY <1>1, <1>2, <1>3, PTL DEF Spec

\* A skill marked archived has its whole file, whatever failed or crashed in the pass, and a
\* preface is whole entries in order (darius-skills, skills.rs); a subagent that was stopped
\* changes no more, and one that is done has an output that fits its schema (subagent.rs).
THEOREM SkillsStayKept == Spec => []SkillsAreKept
<1> DEFINE I == Curator!IInv /\ Children!IInv
<1>1. Init => I
  BY SkillsStart, ChildrenStart DEF Init
<1>2. I /\ [Next]_vars => I'
  BY StepsOfParts, SkillsStay, ChildrenStay
<1>3. I => SkillsAreKept
  BY SkillsAreSound, ChildrenAreKept DEF SkillsAreKept
<1> HIDE DEF I
<1> QED BY <1>1, <1>2, <1>3, PTL DEF Spec

\* An approval is used at most once, a killed process stays dead, the audit log has what the
\* callers were told (darius-safety, sandbox.rs, plugins.rs); and callers of the prompt cache
\* never wait for each other in a circle, a warm prefix being of the version asked for
\* (cache.rs).
THEOREM IsolationStays == Spec => []IsolationHolds
<1> DEFINE I == Gates!IInv /\ Cache!IInv
<1>1. Init => I
  BY GatesStart, CacheStarts DEF Init
<1>2. I /\ [Next]_vars => I'
  BY StepsOfParts, GatesStay, CacheStays
<1>3. I => IsolationHolds
  BY GatesAreKept, CacheIsKept DEF IsolationHolds
<1> HIDE DEF I
<1> QED BY <1>1, <1>2, <1>3, PTL DEF Spec

\* The step a rollback is, as Worktrees states it.
RollbackIsOfItsSession ==
  \A s \in Sessions : Trees!RollbackSession(s) =>
    /\ \A i \in DOMAIN worktrees : worktrees[i].session # s => tree'[i] = tree[i]
    /\ \E i \in DOMAIN worktrees :
         worktrees[i].session = s /\ (worktrees[i].git /\ worktrees[i].based => tree'[i] = Trees!Clean)

\* A rollback undoes work in the tree of the session it names and of no other
\* (worktrees.rs); and an edit by anchor is applied to the text its editor read, with the
\* lines around it kept, whoever else edits the file (edits.rs).
THEOREM EditsStayOwn == Spec => EditsAreOwn
<1> DEFINE I == Trees!IInv /\ Hashline!IInv
<1>1. Init => I
  BY TreesStart, HashStarts DEF Init
<1>2. I /\ [Next]_vars => I'
  BY StepsOfParts, TreesStay, HashStays
<1>3. I /\ [Next]_vars => [RollbackIsOfItsSession]_<<tree, main>>
  BY RollbacksAreOwn DEF RollbackIsOfItsSession
<1>4. I /\ [Next]_vars => [EditIsOwn]_(Hashline!vars)
  BY StepsOfParts, NoEditIsLost
<1>5. Trees!RollbackIsOwn <=> [][RollbackIsOfItsSession]_<<tree, main>>
  BY DEF Trees!RollbackIsOwn, RollbackIsOfItsSession
<1>6. Hashline!NoLostEdit <=> [][EditIsOwn]_(Hashline!vars)
  BY DEF Hashline!NoLostEdit, EditIsOwn
<1> HIDE DEF I
<1> QED BY <1>1, <1>2, <1>3, <1>4, <1>5, <1>6, PTL DEF Spec, EditsAreOwn
===============================================================================
