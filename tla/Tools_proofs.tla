------------------------------ MODULE Tools_proofs -----------------------------
(***************************************************************************)
(* Theorems about the tools of a session, for any callers, requests,       *)
(* commands, processes, servers and tools: what is shown of each tool by   *)
(* the inductive invariant of its module holds of every behaviour that     *)
(* runs it.                                                                *)
(***************************************************************************)
EXTENDS MCTools, FiniteSetTheorems, SequenceTheorems, WellFoundedInduction, TLAPS

-------------------------------------------------------------------------------
(* The client of an MCP server.                                               *)

\* One caller moves, the server's side stays.
LEMMA McpCallerStep ==
  ASSUME Mcp!IInv, NEW c \in Callers, NEW new \in Mcp!Calls,
         request' = [request EXCEPT ![c] = new], holder' \in Callers \cup {Mcp!Nobody},
         holder \in {c, Mcp!Nobody},
         UNCHANGED <<asked, answered, nextId>>,
         child # "none", child' = child \/ child' = "gone",
         stdout' = stdout \/ (stdout # <<>> /\ stdout' = Tail(stdout)),
         new.id \in {0, request[c].id}, new.at \in {"writing", "waiting"} => holder' = c,
         new.at = "waiting" => new.id > 0, new.at \in {"locking", "writing"} => new.id = 0,
         new.at = "idle" /\ new.id > 0 => Mcp!Settled(new.id, new.result)
  PROVE  Mcp!IInv'
  <1>1. /\ request' \in [Callers -> Mcp!Calls] /\ request'[c] = new
        /\ \A d \in Callers : d # c => request'[d] = request[d]
    BY DEF Mcp!IInv, Mcp!TypeOK
  <1>2. /\ stdout' \in Seq(Mcp!Lines)
        /\ \A i \in DOMAIN stdout' : \E j \in DOMAIN stdout : stdout'[i] = stdout[j]
    <2>1. stdout \in Seq(Mcp!Lines)
      BY DEF Mcp!IInv, Mcp!TypeOK
    <2>2. CASE stdout' = stdout
      BY <2>1, <2>2
    <2>3. CASE stdout # <<>> /\ stdout' = Tail(stdout)
      <3>1. /\ Tail(stdout) \in Seq(Mcp!Lines)
            /\ \A i \in DOMAIN Tail(stdout) : i + 1 \in DOMAIN stdout /\ Tail(stdout)[i] = stdout[i + 1]
        BY <2>1, <2>3
      <3> QED BY <2>3, <3>1
    <2> QED BY <2>2, <2>3
  <1>3. Mcp!TypeOK'
    BY <1>1, <1>2 DEF Mcp!IInv, Mcp!TypeOK
  <1>4. \A id, body : Mcp!Settled(id, body)' <=> Mcp!Settled(id, body)
    BY DEF Mcp!Settled
  <1>5. Mcp!LinesAreAnswers'
    BY <1>2, <1>4 DEF Mcp!IInv, Mcp!LinesAreAnswers
  <1>6. new.id \in Nat /\ request[c].id \in Nat
    BY DEF Mcp!IInv, Mcp!TypeOK, Mcp!Calls
  <1>7. Mcp!IdsDiffer'
    BY <1>1, <1>6 DEF Mcp!IInv, Mcp!IdsDiffer
  <1>8. ASSUME NEW d \in Callers PROVE Mcp!Steady(d)'
    <2>1. CASE d = c
      BY <1>1, <1>4, <1>6, <2>1 DEF Mcp!IInv, Mcp!Steady, Mcp!Finished, Mcp!TypeOK
    <2>2. CASE d # c
      BY CallersAssumption, <1>1, <1>4, <2>2 DEF Mcp!IInv, Mcp!Steady, Mcp!Finished
    <2> QED BY <2>1, <2>2
  <1>9. child' # "none"
    OBVIOUS
  <1> QED BY <1>3, <1>5, <1>7, <1>8, <1>9 DEF Mcp!IInv

\* A caller gives the lock back with a result that, kept, is the answer to its id.
LEMMA McpReleaseStep ==
  ASSUME Mcp!IInv, NEW c \in Callers, NEW result \in Mcp!Results, Mcp!Release(c, result),
         holder = c, request[c].at # "idle", UNCHANGED <<asked, answered, nextId>>,
         child' = child \/ child' = "gone",
         stdout' = stdout \/ (stdout # <<>> /\ stdout' = Tail(stdout)),
         result \in Mcp!Bodies /\ request[c].kind = "request" /\ request[c].id > 0 => Mcp!Settled(request[c].id, result)
  PROVE  Mcp!IInv'
  <1> DEFINE new == IF request[c].kind = "request" /\ result \in Mcp!Bodies
                    THEN [request[c] EXCEPT !.at = "idle", !.result = result]
                    ELSE [Mcp!NoCall EXCEPT !.result = result]
  <1>1. request[c] \in Mcp!Calls
    BY DEF Mcp!IInv, Mcp!TypeOK
  <1>2. Mcp!NoCall \in Mcp!Calls
    BY DEF Mcp!NoCall, Mcp!Calls, Mcp!Results
  <1>3. /\ new \in Mcp!Calls /\ new.at = "idle" /\ new.id \in {0, request[c].id}
        /\ new.id > 0 => Mcp!Settled(new.id, new.result)
    <2>1. CASE request[c].kind = "request" /\ result \in Mcp!Bodies
      <3>1. new = [request[c] EXCEPT !.at = "idle", !.result = result]
        BY <2>1
      <3>2. new \in Mcp!Calls /\ new.at = "idle" /\ new.id = request[c].id /\ new.result = result
        BY <1>1, <3>1 DEF Mcp!Calls
      <3> QED BY <2>1, <3>2
    <2>2. CASE ~(request[c].kind = "request" /\ result \in Mcp!Bodies)
      <3>1. new = [Mcp!NoCall EXCEPT !.result = result]
        BY <2>2
      <3>2. new \in Mcp!Calls /\ new.at = "idle" /\ new.id = 0
        BY <3>1 DEF Mcp!Calls, Mcp!NoCall, Mcp!Results
      <3> QED BY <3>2
    <2> QED BY <2>1, <2>2
  <1>4. request' = [request EXCEPT ![c] = new] /\ holder' = Mcp!Nobody
    BY DEF Mcp!Release
  <1>5. child # "none"
    BY DEF Mcp!IInv
  <1> HIDE DEF new
  <1> QED BY <1>3, <1>4, <1>5, McpCallerStep

\* Whatever ends a wait.
LEMMA McpReturnStep ==
  ASSUME Mcp!IInv, NEW c \in Callers, NEW result \in Mcp!Results, Mcp!Return(c, result), Mcp!Waiting(c),
         UNCHANGED <<asked, answered, nextId>>,
         stdout' = stdout \/ (stdout # <<>> /\ stdout' = Tail(stdout)),
         result \in Mcp!Bodies => Mcp!Settled(request[c].id, result)
  PROVE  Mcp!IInv'
<1>1. Mcp!Verdict(request[c].kind, result) \in Mcp!Results
  BY DEF Mcp!Verdict, Mcp!Results
<1>2. request[c].kind = "request" => Mcp!Verdict(request[c].kind, result) = result
  BY DEF Mcp!Verdict
<1>3. CASE request[c].kind = "connect" /\ result \notin {"short", "long"}
  BY <1>3, McpReleaseStep DEF Mcp!Return, Mcp!Waiting
<1>4. CASE ~(request[c].kind = "connect" /\ result \notin {"short", "long"})
  BY <1>1, <1>2, <1>4, McpReleaseStep DEF Mcp!Return, Mcp!Waiting
<1> QED BY <1>3, <1>4

\* A request is numbered: the next id, which nobody had.
LEMMA McpAskStep ==
  ASSUME Mcp!IInv, NEW c \in Callers, nextId' = nextId + 1,
         answered' = Append(answered, "nothing"),
         asked' \in {asked, asked \cup {nextId + 1}}, UNCHANGED stdout
  PROVE  /\ nextId' \in Nat /\ asked' \subseteq 1..nextId'
         /\ answered' \in Seq(Mcp!Bodies \cup {"nothing"}) /\ Len(answered') = nextId'
         /\ \A id, body : Mcp!Settled(id, body) => Mcp!Settled(id, body)'
         /\ Mcp!LinesAreAnswers'
<1>1. /\ nextId \in Nat /\ Len(answered) = nextId /\ asked \subseteq 1..nextId
      /\ answered \in Seq(Mcp!Bodies \cup {"nothing"})
  BY DEF Mcp!IInv, Mcp!TypeOK
<1>2. /\ answered' \in Seq(Mcp!Bodies \cup {"nothing"}) /\ Len(answered') = nextId'
      /\ \A id \in 1..nextId : answered'[id] = answered[id]
  BY <1>1
<1>3. \A id, body : Mcp!Settled(id, body) => Mcp!Settled(id, body)'
  BY <1>1, <1>2 DEF Mcp!Settled
<1>4. Mcp!LinesAreAnswers'
  BY <1>3 DEF Mcp!IInv, Mcp!LinesAreAnswers
<1> QED BY <1>1, <1>2, <1>3, <1>4

LEMMA McpWriteStep ==
  ASSUME Mcp!IInv, NEW c \in Callers, Mcp!Write(c)
  PROVE  Mcp!IInv'
<1>1. holder = c /\ request[c].at = "writing" /\ request[c].id = 0
  BY DEF Mcp!Write, Mcp!IInv, Mcp!Steady
<1>2. CASE child = "gone" /\ request[c].kind = "ping"
  BY <1>1, <1>2, McpReleaseStep DEF Mcp!Write, Mcp!Results, Mcp!Bodies
<1>3. CASE ~(child = "gone" /\ request[c].kind = "ping")
  <2>0. /\ nextId' = nextId + 1 /\ answered' = Append(answered, "nothing")
        /\ asked' \in {asked, asked \cup {nextId + 1}} /\ UNCHANGED <<child, stdout>>
    BY <1>3 DEF Mcp!Write, Mcp!FreshId
  <2>1. /\ nextId' \in Nat /\ nextId \in Nat /\ asked' \subseteq 1..nextId'
        /\ answered' \in Seq(Mcp!Bodies \cup {"nothing"}) /\ Len(answered') = nextId'
        /\ \A id, body : Mcp!Settled(id, body) => Mcp!Settled(id, body)'
        /\ Mcp!LinesAreAnswers'
    BY <2>0, McpAskStep DEF Mcp!IInv, Mcp!TypeOK
  <2>2. PICK new \in Mcp!Calls :
          /\ request' = [request EXCEPT ![c] = new] /\ holder' \in {c, Mcp!Nobody}
          /\ \/ new.at = "idle" /\ new.id = 0
             \/ new.at = "waiting" /\ new.id = nextId + 1 /\ holder' = c
    <3>1. CASE child = "gone"
      <4>1. holder' = Mcp!Nobody /\ request' = [request EXCEPT ![c] = [Mcp!NoCall EXCEPT !.result = "transport"]]
        BY <1>3, <3>1 DEF Mcp!Write, Mcp!Release, Mcp!Bodies
      <4>2. [Mcp!NoCall EXCEPT !.result = "transport"] \in Mcp!Calls
        BY DEF Mcp!NoCall, Mcp!Calls, Mcp!Results
      <4>3. [Mcp!NoCall EXCEPT !.result = "transport"].at = "idle" /\ [Mcp!NoCall EXCEPT !.result = "transport"].id = 0
        BY DEF Mcp!NoCall
      <4> QED BY <4>1, <4>2, <4>3
    <3>2. CASE child # "gone"
      <4> DEFINE new == [request[c] EXCEPT !.at = "waiting", !.id = nextId + 1]
      <4>1. request' = [request EXCEPT ![c] = new] /\ holder' = c
        BY <1>1, <1>3, <3>2 DEF Mcp!Write, Mcp!FreshId
      <4>2. new \in Mcp!Calls /\ new.at = "waiting" /\ new.id = nextId + 1
        <5>1. request[c] \in Mcp!Calls
          BY DEF Mcp!IInv, Mcp!TypeOK
        <5>2. nextId + 1 \in Nat
          BY <2>1
        <5> QED BY <5>1, <5>2 DEF Mcp!Calls
      <4> HIDE DEF new
      <4> QED BY <4>1, <4>2
    <3> QED BY <3>1, <3>2
  <2>3. /\ request' \in [Callers -> Mcp!Calls] /\ request'[c] = new
        /\ \A d \in Callers : d # c => request'[d] = request[d]
    BY <2>2 DEF Mcp!IInv, Mcp!TypeOK
  <2>4. Mcp!TypeOK'
    BY <2>0, <2>1, <2>2, <2>3 DEF Mcp!IInv, Mcp!TypeOK
  <2>5. \A d \in Callers : request[d].id <= nextId /\ request[d].id \in Nat
    BY DEF Mcp!IInv, Mcp!Steady, Mcp!TypeOK, Mcp!Calls
  <2>6. Mcp!IdsDiffer'
    BY <2>1, <2>2, <2>3, <2>5 DEF Mcp!IInv, Mcp!IdsDiffer
  <2>7. ASSUME NEW d \in Callers PROVE Mcp!Steady(d)'
    <3>1. CASE d = c
      BY <2>0, <2>1, <2>2, <2>3, <3>1 DEF Mcp!Steady, Mcp!Finished
    <3>2. CASE d # c
      <4>1. request[d].at \notin {"writing", "waiting"}
        BY <1>1, <3>2 DEF Mcp!IInv, Mcp!Steady
      <4> QED BY <2>0, <2>1, <2>3, <2>5, <3>2, <4>1 DEF Mcp!IInv, Mcp!Steady, Mcp!Finished
    <3> QED BY <3>1, <3>2
  <2>8. child' # "none"
    BY <1>1, <2>0 DEF Mcp!IInv
  <2> QED BY <2>1, <2>4, <2>6, <2>7, <2>8 DEF Mcp!IInv
<1> QED BY <1>2, <1>3

LEMMA McpServerStep ==
  ASSUME Mcp!IInv, stdout' \in {stdout} \cup {Append(stdout, line) : line \in Mcp!Lines},
         nextId' = nextId, holder' = holder, request' = request, asked' \subseteq asked,
         child' = child \/ (child = "running" /\ child' = "gone"),
         answered' \in Seq(Mcp!Bodies \cup {"nothing"}), Len(answered') = nextId,
         \A id \in (1..nextId) \ asked : answered'[id] = answered[id],
         \A line \in Mcp!Lines : stdout' = Append(stdout, line) =>
           \/ line.of = 0 /\ line.body \notin Mcp!Bodies
           \/ line.body \in Mcp!Bodies /\ Mcp!Settled(line.of, line.body)'
  PROVE  Mcp!IInv'
<1>1. stdout \in Seq(Mcp!Lines) /\ asked \subseteq 1..nextId
  BY DEF Mcp!IInv, Mcp!TypeOK
<1>2. \A id, body : Mcp!Settled(id, body) => Mcp!Settled(id, body)'
  BY DEF Mcp!Settled
<1>3. Mcp!LinesAreAnswers'
  <2>1. CASE stdout' = stdout
    BY <1>2, <2>1 DEF Mcp!IInv, Mcp!LinesAreAnswers
  <2>2. ASSUME NEW line \in Mcp!Lines, stdout' = Append(stdout, line) PROVE Mcp!LinesAreAnswers'
    <3>1. \A i \in DOMAIN stdout' : stdout'[i] = line \/ (i \in DOMAIN stdout /\ stdout'[i] = stdout[i])
      BY <1>1, <2>2
    <3>2. \/ line.of = 0 /\ line.body \notin Mcp!Bodies
          \/ line.body \in Mcp!Bodies /\ Mcp!Settled(line.of, line.body)'
      BY <2>2
    <3> QED BY <1>2, <3>1, <3>2 DEF Mcp!IInv, Mcp!LinesAreAnswers
  <2> QED BY <2>1, <2>2
<1>4. stdout' \in Seq(Mcp!Lines)
  BY <1>1
<1>5. Mcp!TypeOK'
  BY <1>1, <1>4 DEF Mcp!IInv, Mcp!TypeOK
<1>6. \A c \in Callers : Mcp!Steady(c)'
  BY <1>2 DEF Mcp!IInv, Mcp!Steady, Mcp!Finished
<1>7. Mcp!IdsDiffer' /\ (child' = "none" => nextId' = 0 /\ \A c \in Callers : request'[c].at = "idle")
  BY DEF Mcp!IInv, Mcp!IdsDiffer
<1> QED BY <1>3, <1>5, <1>6, <1>7 DEF Mcp!IInv

LEMMA McpConnectStep ==
  ASSUME Mcp!IInv, NEW c \in Callers, Mcp!Connect(c)
  PROVE  Mcp!IInv'
<1>1. nextId = 0 /\ asked = {} /\ stdout \in Seq(Mcp!Lines) /\ \A d \in Callers : request[d].at = "idle" /\ request[d].id = 0
  BY DEF Mcp!Connect, Mcp!IInv, Mcp!TypeOK, Mcp!Steady, Mcp!Calls
<1> DEFINE new == [at |-> "waiting", kind |-> "connect", id |-> 1, result |-> "none"]
<1>2. new \in Mcp!Calls /\ new.at = "waiting" /\ new.id = 1
  BY DEF Mcp!Calls, Mcp!Results
<1>3. request' = [request EXCEPT ![c] = new] /\ child' = "running" /\ holder' = c /\ nextId' = 1
      /\ asked' = {1} /\ answered' = <<"nothing">> /\ stdout' = stdout
  BY DEF Mcp!Connect
<1> HIDE DEF new
<1>4. /\ request' \in [Callers -> Mcp!Calls] /\ request'[c] = new
      /\ \A d \in Callers : d # c => request'[d] = request[d]
  BY <1>2, <1>3 DEF Mcp!IInv, Mcp!TypeOK
<1>5. answered' \in Seq(Mcp!Bodies \cup {"nothing"}) /\ Len(answered') = 1
  BY <1>3
<1>6. Mcp!TypeOK'
  BY <1>1, <1>3, <1>4, <1>5 DEF Mcp!TypeOK
<1>7. \A i \in DOMAIN stdout : stdout[i].of = 0 /\ stdout[i].body \notin Mcp!Bodies
  BY <1>1 DEF Mcp!IInv, Mcp!LinesAreAnswers, Mcp!Settled
<1>8. Mcp!LinesAreAnswers'
  BY <1>3, <1>7 DEF Mcp!LinesAreAnswers
<1>9. Mcp!IdsDiffer' /\ \A d \in Callers : Mcp!Steady(d)'
  BY <1>1, <1>2, <1>3, <1>4 DEF Mcp!IdsDiffer, Mcp!Steady, Mcp!Finished
<1> QED BY <1>3, <1>6, <1>8, <1>9 DEF Mcp!IInv

LEMMA McpCallerMoves ==
  ASSUME Mcp!IInv, NEW c \in Callers,
         Mcp!Lock(c) \/ Mcp!Progress(c) \/ \E kind \in Mcp!Kinds : Mcp!Enter(c, kind)
  PROVE  Mcp!IInv'
<1>0. request[c] \in Mcp!Calls /\ request \in [Callers -> Mcp!Calls] /\ Mcp!Steady(c)
  BY DEF Mcp!IInv, Mcp!TypeOK
<1>1. CASE Mcp!Lock(c)
  <2> DEFINE new == [request[c] EXCEPT !.at = "writing"]
  <2>1. new \in Mcp!Calls /\ new.at = "writing" /\ new.id = 0
    BY <1>0, <1>1 DEF Mcp!Lock, Mcp!Calls, Mcp!Steady
  <2>2. request' = [request EXCEPT ![c] = new] /\ holder' = c /\ holder = Mcp!Nobody /\ child # "none"
        /\ UNCHANGED <<child, nextId, asked, answered, stdout>>
    BY <1>1 DEF Mcp!Lock, Mcp!IInv
  <2> HIDE DEF new
  <2> QED BY <1>0, <2>1, <2>2, McpCallerStep
<1>2. ASSUME NEW kind \in Mcp!Kinds, Mcp!Enter(c, kind) PROVE Mcp!IInv'
  <2> DEFINE new == [at |-> "locking", kind |-> kind, id |-> 0, result |-> "none"]
  <2>1. new \in Mcp!Calls /\ new.at = "locking" /\ new.id = 0
    BY DEF Mcp!Calls, Mcp!Results
  <2>2. request' = [request EXCEPT ![c] = new] /\ child # "none" /\ request[c].at = "idle"
        /\ UNCHANGED <<child, nextId, asked, answered, stdout, holder>>
    BY <1>2 DEF Mcp!Enter
  <2> HIDE DEF new
  <2>3. request' \in [Callers -> Mcp!Calls] /\ request'[c] = new /\ \A d \in Callers : d # c => request'[d] = request[d]
    BY <1>0, <2>1, <2>2
  <2>4. Mcp!TypeOK' /\ Mcp!LinesAreAnswers'
    BY <2>2, <2>3 DEF Mcp!IInv, Mcp!TypeOK, Mcp!LinesAreAnswers, Mcp!Settled
  <2>5. \A d \in Callers : Mcp!Steady(d)'
    BY <1>0, <2>1, <2>2, <2>3 DEF Mcp!IInv, Mcp!TypeOK, Mcp!Steady, Mcp!Finished, Mcp!Settled
  <2>6. Mcp!IdsDiffer'
    BY <2>1, <2>3 DEF Mcp!IInv, Mcp!IdsDiffer
  <2> QED BY <2>2, <2>4, <2>5, <2>6 DEF Mcp!IInv
<1>3. CASE Mcp!Write(c)
  BY <1>3, McpWriteStep
<1>4. CASE Mcp!OutOfIds(c) \/ Mcp!Reap(c)
  <2>1. /\ holder = c /\ request[c].at = "writing"
        /\ Mcp!Release(c, "none") \/ Mcp!Release(c, "reaped")
        /\ child' = child \/ child' = "gone"
        /\ UNCHANGED <<asked, answered, nextId, stdout>>
    BY <1>4 DEF Mcp!OutOfIds, Mcp!Reap
  <2>2. {"none", "reaped"} \subseteq Mcp!Results \ Mcp!Bodies
    BY DEF Mcp!Results, Mcp!Bodies
  <2> QED BY <2>1, <2>2, McpReleaseStep
<1>5. CASE Mcp!Disconnected(c) \/ Mcp!TimesOut(c)
  <2>1. /\ Mcp!Return(c, "transport") \/ Mcp!Return(c, "timeout")
        /\ UNCHANGED <<asked, answered, nextId, stdout>>
    BY <1>5 DEF Mcp!Disconnected, Mcp!TimesOut
  <2>2. {"transport", "timeout"} \subseteq Mcp!Results \ Mcp!Bodies
    BY DEF Mcp!Results, Mcp!Bodies
  <2>3. Mcp!Waiting(c)
    BY <1>5 DEF Mcp!Disconnected, Mcp!TimesOut
  <2> QED BY <2>1, <2>2, <2>3, McpReturnStep
<1>6. CASE Mcp!Receive(c)
  <2> DEFINE line == Head(stdout)
  <2>1. /\ Mcp!Waiting(c) /\ stdout # <<>> /\ stdout' = Tail(stdout)
        /\ UNCHANGED <<nextId, asked, answered>>
    BY <1>6 DEF Mcp!Receive
  <2>2. stdout \in Seq(Mcp!Lines) /\ line \in Mcp!Lines /\ 1 \in DOMAIN stdout /\ line = stdout[1]
    BY <2>1 DEF Mcp!IInv, Mcp!TypeOK
  <2>3. \/ line.of = 0 /\ line.body \notin Mcp!Bodies
        \/ line.body \in Mcp!Bodies /\ Mcp!Settled(line.of, line.body)
    BY <2>2 DEF Mcp!IInv, Mcp!LinesAreAnswers
  <2>4. line.body \in Mcp!Results /\ "parse" \in Mcp!Results \ Mcp!Bodies /\ "garbage" \notin Mcp!Bodies
    BY <2>2 DEF Mcp!Lines, Mcp!Results, Mcp!Bodies
  <2>5. CASE line.body = "garbage" /\ Mcp!Return(c, "parse")
    BY <2>1, <2>4, <2>5, McpReturnStep
  <2>6. CASE Mcp!OwnLine(c, line) /\ Mcp!Return(c, line.body)
    <3>1. line.of = request[c].id /\ request[c].id > 0
      BY <1>0, <2>1, <2>6 DEF Mcp!OwnLine, Mcp!Waiting, Mcp!Steady
    <3>2. Mcp!Settled(request[c].id, line.body)
      BY <2>3, <3>1
    <3> HIDE DEF line
    <3> QED BY <2>1, <2>4, <2>6, <3>2, McpReturnStep
  <2>7. CASE UNCHANGED <<child, holder, request>>
    <3>1. request' = [request EXCEPT ![c] = request[c]] /\ holder' = c /\ holder = c /\ child # "none"
      BY <1>0, <2>1, <2>7 DEF Mcp!Waiting, Mcp!IInv
    <3>2. request[c].at = "waiting" /\ request[c].id > 0
      BY <1>0, <2>1 DEF Mcp!Waiting, Mcp!Steady
    <3> QED BY <1>0, <2>1, <2>7, <3>1, <3>2, McpCallerStep
  <2> HIDE DEF line
  <2>8. \/ line.body = "garbage" /\ Mcp!Return(c, "parse")
        \/ Mcp!OwnLine(c, line) /\ Mcp!Return(c, line.body)
        \/ UNCHANGED <<child, holder, request>>
    BY <1>6 DEF Mcp!Receive, line
  <2> QED BY <2>5, <2>6, <2>7, <2>8
<1> QED BY <1>1, <1>2, <1>3, <1>4, <1>5, <1>6 DEF Mcp!Progress

LEMMA McpStarts == Mcp!Init => Mcp!IInv
<1> SUFFICES ASSUME Mcp!Init PROVE Mcp!IInv
  OBVIOUS
<1>1. Mcp!NoCall \in Mcp!Calls /\ Mcp!NoCall.at = "idle" /\ Mcp!NoCall.id = 0
  BY DEF Mcp!NoCall, Mcp!Calls, Mcp!Results
<1>2. request \in [Callers -> Mcp!Calls] /\ \A c \in Callers : request[c].at = "idle" /\ request[c].id = 0
  BY <1>1 DEF Mcp!Init
<1>3. stdout = <<>> /\ stdout \in Seq(Mcp!Lines) /\ answered \in Seq(Mcp!Bodies \cup {"nothing"}) /\ Len(answered) = 0
  BY DEF Mcp!Init
<1>4. Mcp!TypeOK
  BY <1>2, <1>3 DEF Mcp!Init, Mcp!TypeOK
<1> QED BY <1>2, <1>3, <1>4 DEF Mcp!Init, Mcp!IInv, Mcp!LinesAreAnswers, Mcp!IdsDiffer, Mcp!Steady, Mcp!Finished

LEMMA McpStays == Mcp!IInv /\ [Mcp!Next]_(Mcp!vars) => Mcp!IInv'
<1> SUFFICES ASSUME Mcp!IInv, [Mcp!Next]_(Mcp!vars) PROVE Mcp!IInv'
  OBVIOUS
<1>1. ASSUME NEW c \in Callers, Mcp!Connect(c) PROVE Mcp!IInv'
  BY <1>1, McpConnectStep
<1>2. ASSUME NEW c \in Callers, Mcp!Lock(c) \/ Mcp!Progress(c) \/ \E kind \in Mcp!Kinds : Mcp!Enter(c, kind) PROVE Mcp!IInv'
  BY <1>2, McpCallerMoves
<1>3. ASSUME NEW id \in asked, NEW body \in Mcp!Bodies, Mcp!ServerAnswers(id, body) PROVE Mcp!IInv'
  <2> DEFINE line == [of |-> id, body |-> body]
  <2>1. /\ asked \subseteq 1..nextId /\ nextId \in Nat /\ Len(answered) = nextId
        /\ answered \in Seq(Mcp!Bodies \cup {"nothing"})
    BY DEF Mcp!IInv, Mcp!TypeOK
  <2>2. /\ answered' = [answered EXCEPT ![id] = body] /\ asked' = asked \ {id}
        /\ stdout' = Append(stdout, line) /\ UNCHANGED <<child, nextId, holder, request>>
    BY <1>3 DEF Mcp!ServerAnswers, Mcp!Say
  <2>3. /\ answered' \in Seq(Mcp!Bodies \cup {"nothing"}) /\ Len(answered') = nextId
        /\ answered'[id] = body /\ \A j \in (1..nextId) \ asked : answered'[j] = answered[j]
    BY <2>1, <2>2
  <2>4. line \in Mcp!Lines /\ line.of = id /\ line.body = body
    BY <2>1 DEF Mcp!Lines
  <2>5. Mcp!Settled(id, body)'
    BY <2>1, <2>2, <2>3 DEF Mcp!Settled
  <2>6. \A l \in Mcp!Lines : stdout' = Append(stdout, l) => l = line
    BY <2>2, <2>4 DEF Mcp!IInv, Mcp!TypeOK
  <2> HIDE DEF line
  <2> QED BY <2>2, <2>3, <2>4, <2>5, <2>6, McpServerStep
<1>4. ASSUME NEW body \in {"notice", "garbage"}, Mcp!ServerSpeaks(body) PROVE Mcp!IInv'
  <2> DEFINE line == [of |-> 0, body |-> body]
  <2>1. stdout' = Append(stdout, line) /\ UNCHANGED <<child, nextId, asked, answered, holder, request>>
    BY <1>4 DEF Mcp!ServerSpeaks, Mcp!Say
  <2>2. line \in Mcp!Lines /\ line.of = 0 /\ line.body \notin Mcp!Bodies
    BY DEF Mcp!Lines, Mcp!Bodies
  <2>3. \A l \in Mcp!Lines : stdout' = Append(stdout, l) => l = line
    BY <2>1, <2>2 DEF Mcp!IInv, Mcp!TypeOK
  <2>4. answered \in Seq(Mcp!Bodies \cup {"nothing"}) /\ Len(answered) = nextId
    BY DEF Mcp!IInv, Mcp!TypeOK
  <2> HIDE DEF line
  <2> QED BY <2>1, <2>2, <2>3, <2>4, McpServerStep
<1>5. CASE Mcp!ServerExits
  <2>1. /\ child = "running" /\ child' = "gone"
        /\ UNCHANGED <<nextId, asked, answered, stdout, noise, holder, request>>
    BY <1>5 DEF Mcp!ServerExits
  <2> QED BY <2>1 DEF Mcp!IInv, Mcp!TypeOK, Mcp!LinesAreAnswers, Mcp!IdsDiffer, Mcp!Steady, Mcp!Finished, Mcp!Settled
<1>6. CASE UNCHANGED Mcp!vars
  BY <1>6 DEF Mcp!vars, Mcp!IInv, Mcp!TypeOK, Mcp!LinesAreAnswers, Mcp!IdsDiffer, Mcp!Steady, Mcp!Finished, Mcp!Settled
<1> QED BY <1>1, <1>2, <1>3, <1>4, <1>5, <1>6 DEF Mcp!Next

LEMMA McpIsOwn == Mcp!IInv => Mcp!ReplyIsOwn
<1> SUFFICES ASSUME Mcp!IInv PROVE Mcp!ReplyIsOwn
  OBVIOUS
<1>1. \A c \in Callers : Mcp!Finished(c) => request[c].result = answered[request[c].id]
  BY DEF Mcp!IInv, Mcp!Steady, Mcp!Settled
<1> DEFINE Inside == {c \in Callers : request[c].at \in {"writing", "waiting"}}
<1>2. Inside \in SUBSET {holder}
  BY DEF Mcp!IInv, Mcp!Steady
<1>3. IsFiniteSet({holder}) /\ Cardinality({holder}) = 1
  BY FS_Singleton
<1>4. Cardinality(Inside) <= 1
  BY <1>2, <1>3, FS_Subset
<1>5. Mcp!Cardinality(Inside) = Cardinality(Inside)
  BY DEF Mcp!Cardinality, Cardinality
<1> QED BY <1>1, <1>4, <1>5 DEF Mcp!ReplyIsOwn, Mcp!IInv, Mcp!IdsDiffer

\* What a finished call returns is what the server answered to that very call, for any
\* number of callers sharing the client and whatever a server writes, late or unasked.
THEOREM RepliesOwn == Spec => []ReplyIsOwn
<1>1. Init => Mcp!IInv
  BY McpStarts DEF Init
<1>2. Mcp!IInv /\ [Next]_vars => Mcp!IInv'
  <2>1. [Next]_vars => [Mcp!Next]_(Mcp!vars)
    BY DEF Next, OneOf, vars, mcpVars, Mcp!vars
  <2> QED BY <2>1, McpStays
<1>3. Mcp!IInv => ReplyIsOwn
  BY McpIsOwn DEF ReplyIsOwn
<1> QED BY <1>1, <1>2, <1>3, PTL DEF Spec

-------------------------------------------------------------------------------
(* The registry of tools.                                                     *)

LEMMA RegistryPutTable ==
  ASSUME NEW V, NEW f \in Registry!Tables(V), NEW k \in Registry!AllNames, NEW v \in V
  PROVE  Registry!Put(f, k, v) \in Registry!Tables(V)
<1>1. PICK D \in SUBSET Registry!AllNames : f \in [D -> V]
  BY DEF Registry!Tables
<1>2. D \cup {k} \in SUBSET Registry!AllNames /\ Registry!Put(f, k, v) \in [D \cup {k} -> V]
  BY <1>1 DEF Registry!Put
<1> QED BY <1>2 DEF Registry!Tables

LEMMA RegistryBuildStep ==
  ASSUME Registry!IInv, NEW s \in Sessions, Registry!Build(s), Registry!OneSession, Registry!StaticTable
  PROVE  Registry!IInv'
<1> DEFINE table == [n \in DOMAIN Builtins |-> [risk |-> Builtins[n], server |-> <<>>, tool |-> n]]
           new == Registry!Fresh("building", table)
<1>1. table \in Registry!Tables(Registry!Entries)
  <2>1. \A n \in DOMAIN Builtins : Builtins[n] \in Registry!Risks
    BY DEF Registry!StaticTable
  <2>2. table \in [DOMAIN Builtins -> Registry!Entries]
    BY <2>1 DEF Registry!Entries
  <2>3. DOMAIN Builtins \in SUBSET Registry!AllNames
    BY DEF Registry!AllNames
  <2> QED BY <2>2, <2>3 DEF Registry!Tables
<1>2. DOMAIN table = DOMAIN Builtins /\ \A n \in DOMAIN Builtins : table[n].risk = Builtins[n]
  OBVIOUS
<1> HIDE DEF table
<1>3. /\ new \in Registry!Registries /\ new.at = "building" /\ new.tools = table /\ new.specs = <<>> /\ new.todo = <<>>
  <2>1. new = [at |-> "building", tools |-> table, specs |-> <<>>, tried |-> {},
               server |-> <<>>, todo |-> <<>>]
    BY DEF Registry!Fresh
  <2>2. <<>> \in Seq(Registry!AllNames) /\ <<>> \in Seq(Registry!Items)
    OBVIOUS
  <2>3. <<>> \in Servers \cup {<<>>} /\ {} \in SUBSET Servers
    OBVIOUS
  <2> HIDE DEF new
  <2>4. new \in Registry!Registries
    BY <1>1, <2>1, <2>2, <2>3 DEF Registry!Registries
  <2> QED BY <2>1, <2>4
<1>4. session' = [session EXCEPT ![s] = new] /\ session[s].at = "off" /\ UNCHANGED <<allowed, call>>
  BY DEF Registry!Build, table
<1> HIDE DEF new
<1>5. session' \in [Sessions -> Registry!Registries] /\ session'[s] = new
  BY <1>3, <1>4 DEF Registry!IInv, Registry!TypeOK
<1>6. Registry!TypeOK'
  BY <1>3, <1>4, <1>5 DEF Registry!IInv, Registry!TypeOK, Registry!OneSession
<1>7. call'[s].at = "none"
  BY <1>4 DEF Registry!IInv, Registry!Agrees
<1>8. Registry!Agrees(s)'
  BY <1>2, <1>3, <1>5, <1>7 DEF Registry!Agrees, Registry!IsModelTool, Registry!ModelToolRisk
<1> QED BY <1>6, <1>8 DEF Registry!IInv, Registry!OneSession

\* One tool of a listing: the allowlist and the registry learn the same.
LEMMA RegistryRegisterStep ==
  ASSUME Registry!IInv, NEW s \in Sessions, Registry!RegisterNext(s), Registry!OneSession, Registry!NamesApart
  PROVE  Registry!IInv'
<1> DEFINE old == session[s]
           tool == Head(old.todo)
           name == Registry!RegisteredName(old.server, tool.name)
           risk == IF tool.readOnly THEN "read_only" ELSE "mutating"
           entry == [risk |-> risk, server |-> old.server, tool |-> tool.name]
           new == [old EXCEPT !.todo = Tail(@), !.specs = Append(@, name),
                              !.tools = Registry!Put(@, name, entry)]
<1>1. old \in Registry!Registries /\ old.at = "building" /\ old.todo # <<>> /\ old.server \in Servers
  BY DEF Registry!RegisterNext, Registry!IInv, Registry!TypeOK
<1>2. /\ old.todo \in Seq(Registry!Items) /\ old.specs \in Seq(Registry!AllNames) /\ old.tools \in Registry!Tables(Registry!Entries)
      /\ tool \in Registry!Items /\ Tail(old.todo) \in Seq(Registry!Items)
  <2>1. old.todo \in Seq(Registry!Items) /\ old.specs \in Seq(Registry!AllNames) /\ old.tools \in Registry!Tables(Registry!Entries)
    BY <1>1 DEF Registry!Registries
  <2> QED BY <1>1, <2>1
<1>3. tool.name \in ToolNames /\ risk \in Registry!Risks /\ name \in Registry!AllNames /\ name \notin DOMAIN Builtins
  BY <1>1, <1>2 DEF Registry!Items, Registry!AllNames, Registry!NamesApart, Registry!Risks
<1>4. entry \in Registry!Entries /\ entry.risk = risk
  BY <1>1, <1>3 DEF Registry!Entries
<1>5. /\ allowed' = Registry!Put(allowed, name, risk) /\ session' = [session EXCEPT ![s] = new]
      /\ call' = call
  BY <1>1 DEF Registry!RegisterNext, Registry!Allow
<1> HIDE DEF old, tool, name, risk, entry
<1>6. /\ allowed' \in Registry!Tables(Registry!Risks)
      /\ DOMAIN allowed' = DOMAIN allowed \cup {name} /\ allowed'[name] = risk
      /\ \A n \in DOMAIN allowed : n # name => allowed'[n] = allowed[n]
  <2>1. allowed \in Registry!Tables(Registry!Risks)
    BY DEF Registry!IInv, Registry!TypeOK
  <2>2. /\ DOMAIN Registry!Put(allowed, name, risk) = DOMAIN allowed \cup {name}
        /\ Registry!Put(allowed, name, risk)[name] = risk
        /\ \A n \in DOMAIN allowed : n # name => Registry!Put(allowed, name, risk)[n] = allowed[n]
    BY DEF Registry!Put
  <2>3. Registry!Put(allowed, name, risk) \in Registry!Tables(Registry!Risks)
    BY <1>3, <2>1, RegistryPutTable
  <2> QED BY <1>5, <2>2, <2>3
<1> DEFINE tools == Registry!Put(old.tools, name, entry)
<1>7. /\ tools \in Registry!Tables(Registry!Entries) /\ DOMAIN tools = DOMAIN old.tools \cup {name} /\ tools[name] = entry
      /\ \A n \in DOMAIN old.tools : n # name => tools[n] = old.tools[n]
  <2>1. old.tools \in Registry!Tables(Registry!Entries) /\ name \in Registry!AllNames /\ entry \in Registry!Entries
    BY <1>2, <1>3, <1>4
  <2>2. tools \in Registry!Tables(Registry!Entries)
    BY <2>1, RegistryPutTable
  <2>3. /\ DOMAIN tools = DOMAIN old.tools \cup {name} /\ tools[name] = entry
        /\ \A n \in DOMAIN old.tools : n # name => tools[n] = old.tools[n]
    BY DEF Registry!Put
  <2> QED BY <2>2, <2>3
<1>8. /\ new \in Registry!Registries /\ new.tools = tools /\ new.specs = Append(old.specs, name)
      /\ new.server = old.server
  <2>1. Append(old.specs, name) \in Seq(Registry!AllNames)
    BY <1>2, <1>3
  <2> HIDE DEF tools
  <2>2. new = [old EXCEPT !.todo = Tail(old.todo), !.specs = Append(old.specs, name), !.tools = tools]
    BY DEF tools
  <2> QED BY <1>1, <1>2, <1>7, <2>1, <2>2 DEF Registry!Registries
<1> HIDE DEF tools, new
<1>9. session' \in [Sessions -> Registry!Registries] /\ session'[s] = new
  BY <1>5, <1>8 DEF Registry!IInv, Registry!TypeOK
<1>10. Registry!TypeOK'
  BY <1>1, <1>5, <1>6, <1>8, <1>9 DEF Registry!IInv, Registry!TypeOK, Registry!OneSession
<1>11. call'[s].at = "none"
  BY <1>1, <1>5 DEF Registry!IInv, Registry!Agrees, old
<1>12. \A n : Registry!IsModelTool(n) => Registry!IsModelTool(n)'
  BY <1>6 DEF Registry!IsModelTool
<1>13. \A n : Registry!IsModelTool(n) /\ n # name => Registry!ModelToolRisk(n)' = Registry!ModelToolRisk(n)
  BY <1>6 DEF Registry!IsModelTool, Registry!ModelToolRisk
<1>14. \A n : n = name => Registry!IsModelTool(n)' /\ Registry!ModelToolRisk(n)' = risk
  BY <1>3, <1>6 DEF Registry!IsModelTool, Registry!ModelToolRisk
<1>15. \A n \in DOMAIN old.tools : Registry!IsModelTool(n) /\ old.tools[n].risk = Registry!ModelToolRisk(n)
  BY DEF Registry!IInv, Registry!Agrees, old
<1>16. \A n \in DOMAIN tools : Registry!IsModelTool(n)' /\ tools[n].risk = Registry!ModelToolRisk(n)'
  BY <1>4, <1>7, <1>12, <1>13, <1>14, <1>15
<1>17. \A i \in DOMAIN new.specs : new.specs[i] \in DOMAIN tools
  <2>1. \A i \in DOMAIN new.specs : new.specs[i] = name \/ (i \in DOMAIN old.specs /\ new.specs[i] = old.specs[i])
    BY <1>2, <1>8
  <2>2. \A i \in DOMAIN old.specs : old.specs[i] \in DOMAIN old.tools
    BY DEF Registry!IInv, Registry!Agrees, old
  <2> QED BY <1>7, <2>1, <2>2
<1>18. Registry!Agrees(s)'
  BY <1>8, <1>9, <1>11, <1>16, <1>17 DEF Registry!Agrees
<1> QED BY <1>10, <1>18 DEF Registry!IInv, Registry!OneSession

\* What neither table sees: a server is listed, a session is ready.
LEMMA RegistryConnectStep ==
  ASSUME Registry!IInv, NEW s \in Sessions, NEW server \in Servers, NEW listed \in Registry!Listings,
         Registry!Connect(s, server, listed), Registry!OneSession
  PROVE  Registry!IInv'
<1> DEFINE old == session[s]
           new == [old EXCEPT !.tried = @ \cup {server}, !.server = server, !.todo = listed]
<1>1. old \in Registry!Registries /\ old.at = "building"
  BY DEF Registry!Connect, Registry!IInv, Registry!TypeOK
<1>2. listed \in Seq(Registry!Items)
  <2>1. PICK k \in 0..MaxListed : listed \in [1..k -> Registry!Items]
    BY DEF Registry!Listings, Registry!Items
  <2> QED BY <2>1
<1>3. /\ new \in Registry!Registries /\ new.at = old.at /\ new.tools = old.tools
      /\ new.specs = old.specs /\ new.server \in Servers
  BY <1>1, <1>2 DEF Registry!Registries
<1>4. session' = [session EXCEPT ![s] = new] /\ UNCHANGED <<allowed, call>>
  BY <1>1 DEF Registry!Connect
<1> HIDE DEF old, new
<1>5. session' \in [Sessions -> Registry!Registries] /\ session'[s] = new
  BY <1>3, <1>4 DEF Registry!IInv, Registry!TypeOK
<1>6. Registry!TypeOK'
  BY <1>3, <1>4, <1>5 DEF Registry!IInv, Registry!TypeOK, Registry!OneSession
<1>7. Registry!Agrees(s)
  BY DEF Registry!IInv
<1>8. Registry!Agrees(s)'
  BY <1>3, <1>4, <1>5, <1>7 DEF Registry!Agrees, Registry!IsModelTool, Registry!ModelToolRisk, old
<1> QED BY <1>6, <1>8 DEF Registry!IInv, Registry!OneSession

LEMMA RegistryBuiltStep ==
  ASSUME Registry!IInv, NEW s \in Sessions, Registry!Built(s), Registry!OneSession
  PROVE  Registry!IInv'
<1> DEFINE old == session[s]
           new == [old EXCEPT !.at = "ready"]
<1>1. old \in Registry!Registries /\ old.todo = <<>>
  BY DEF Registry!Built, Registry!IInv, Registry!TypeOK
<1>2. /\ new \in Registry!Registries /\ new.at = "ready" /\ new.tools = old.tools
      /\ new.specs = old.specs /\ new.todo = old.todo
  BY <1>1 DEF Registry!Registries
<1>3. session' = [session EXCEPT ![s] = new] /\ UNCHANGED <<allowed, call>>
  BY DEF Registry!Built
<1> HIDE DEF old, new
<1>4. session' \in [Sessions -> Registry!Registries] /\ session'[s] = new
  BY <1>2, <1>3 DEF Registry!IInv, Registry!TypeOK
<1>5. Registry!TypeOK'
  BY <1>1, <1>2, <1>3, <1>4 DEF Registry!IInv, Registry!TypeOK, Registry!OneSession
<1>6. Registry!Agrees(s)
  BY DEF Registry!IInv
<1>7. Registry!Agrees(s)'
  BY <1>2, <1>3, <1>4, <1>6 DEF Registry!Agrees, Registry!IsModelTool, Registry!ModelToolRisk, old
<1> QED BY <1>5, <1>7 DEF Registry!IInv, Registry!OneSession

LEMMA RegistryOffIsTyped ==
  Registry!Off \in Registry!Registries /\ Registry!Off.tools = Registry!NoFun /\ Registry!Off.specs = <<>> /\ Registry!Off.todo = <<>>
<1>1. Registry!Off = [at |-> "off", tools |-> Registry!NoFun, specs |-> <<>>, tried |-> {},
             server |-> <<>>, todo |-> <<>>]
  BY DEF Registry!Off, Registry!Fresh
<1>2. Registry!NoFun \in Registry!Tables(Registry!Entries)
  <2>1. Registry!NoFun \in [{} -> Registry!Entries] /\ {} \in SUBSET Registry!AllNames
    BY DEF Registry!NoFun
  <2> QED BY <2>1 DEF Registry!Tables
<1>3. <<>> \in Seq(Registry!AllNames) /\ <<>> \in Seq(Registry!Items) /\ {} \in SUBSET Servers
  OBVIOUS
<1>4. Registry!Off \in Registry!Registries
  BY <1>1, <1>2, <1>3 DEF Registry!Registries
<1> QED BY <1>1, <1>4

\* The names a dropped session leaves in the allowlist agree with nothing, and need not.
LEMMA RegistryDropStep ==
  ASSUME Registry!IInv, NEW s \in Sessions, Registry!DropSession(s), Registry!OneSession
  PROVE  Registry!IInv'
<1>1. session' = [session EXCEPT ![s] = Registry!Off] /\ UNCHANGED <<allowed, call>> /\ call[s].at = "none"
  BY DEF Registry!DropSession
<1>2. session' \in [Sessions -> Registry!Registries] /\ session'[s] = Registry!Off
  BY <1>1, RegistryOffIsTyped DEF Registry!IInv, Registry!TypeOK
<1>3. Registry!TypeOK'
  BY <1>1, <1>2, RegistryOffIsTyped DEF Registry!IInv, Registry!TypeOK, Registry!OneSession
<1>4. DOMAIN Registry!Off.tools = {} /\ DOMAIN Registry!Off.specs = {}
  BY RegistryOffIsTyped DEF Registry!NoFun
<1>5. Registry!Agrees(s)'
  BY <1>1, <1>2, <1>4 DEF Registry!Agrees
<1> QED BY <1>3, <1>5 DEF Registry!IInv, Registry!OneSession

\* The steps of a call leave both tables alone.
LEMMA RegistryCallStep ==
  ASSUME Registry!IInv, NEW s \in Sessions, Registry!OneSession, NEW new \in Registry!Calls,
         call' = [call EXCEPT ![s] = new], UNCHANGED <<allowed, session>>,
         new.at # "none" => session[s].at = "ready",
         new.at = "running" => new.name \in DOMAIN session[s].tools,
         new.at \in {"gated", "running"} => new.gate = Registry!ModelToolRisk(new.name)
  PROVE  Registry!IInv'
<1>1. call' \in [Sessions -> Registry!Calls] /\ call'[s] = new
  BY DEF Registry!IInv, Registry!TypeOK
<1>2. Registry!TypeOK'
  BY <1>1 DEF Registry!IInv, Registry!TypeOK
<1>3. Registry!Agrees(s)
  BY DEF Registry!IInv
<1>4. Registry!Agrees(s)'
  BY <1>1, <1>3 DEF Registry!Agrees, Registry!IsModelTool, Registry!ModelToolRisk
<1> QED BY <1>2, <1>4 DEF Registry!IInv, Registry!OneSession

LEMMA RegistryGateStep ==
  ASSUME Registry!IInv, NEW s \in Sessions, NEW name \in Registry!Names, Registry!Gate(s, name), Registry!OneSession, Registry!StaticTable
  PROVE  Registry!IInv'
<1> DEFINE new == [at |-> "gated", name |-> name, gate |-> Registry!ModelToolRisk(name)]
<1>1. name \in Registry!AllNames \cup {<<"unknown">>}
  <2>1. PICK D \in SUBSET Registry!AllNames : allowed \in [D -> Registry!Risks]
    BY DEF Registry!IInv, Registry!TypeOK, Registry!Tables
  <2> QED BY <2>1 DEF Registry!Names, Registry!AllNames
<1>2. Registry!ModelToolRisk(name) \in Registry!Risks \cup {"hidden"}
  <2>1. PICK D \in SUBSET Registry!AllNames : allowed \in [D -> Registry!Risks]
    BY DEF Registry!IInv, Registry!TypeOK, Registry!Tables
  <2> QED BY <2>1 DEF Registry!ModelToolRisk, Registry!StaticTable
<1>3. new \in Registry!Calls
  BY <1>1, <1>2 DEF Registry!Calls
<1>4. call' = [call EXCEPT ![s] = new] /\ session[s].at = "ready" /\ UNCHANGED <<allowed, session>>
  BY DEF Registry!Gate
<1>5. new.at = "gated" /\ new.gate = Registry!ModelToolRisk(new.name)
  OBVIOUS
<1> HIDE DEF new
<1> QED BY <1>3, <1>4, <1>5, RegistryCallStep

LEMMA RegistryDispatchStep ==
  ASSUME Registry!IInv, NEW s \in Sessions, Registry!Dispatch(s), Registry!OneSession
  PROVE  Registry!IInv'
<1> DEFINE old == call[s]
           at == IF ~Registry!IsModelTool(old.name) \/ old.name \notin DOMAIN session[s].tools
                 THEN "refused" ELSE "running"
           new == [old EXCEPT !.at = at]
<1>1. old \in Registry!Calls /\ old.at = "gated"
  BY DEF Registry!Dispatch, Registry!IInv, Registry!TypeOK
<1>2. session[s].at = "ready" /\ old.gate = Registry!ModelToolRisk(old.name)
  BY <1>1 DEF Registry!IInv, Registry!Agrees
<1>3. /\ at \in {"refused", "running"}
      /\ at = "running" => old.name \in DOMAIN session[s].tools
  OBVIOUS
<1>4. call' = [call EXCEPT ![s] = new] /\ UNCHANGED <<allowed, session>>
  BY DEF Registry!Dispatch
<1> HIDE DEF at
<1>5. new \in Registry!Calls /\ new.at = at /\ new.name = old.name /\ new.gate = old.gate
  BY <1>1, <1>3 DEF Registry!Calls
<1> HIDE DEF old, new
<1> QED BY <1>2, <1>3, <1>4, <1>5, RegistryCallStep

LEMMA RegistryFinishStep ==
  ASSUME Registry!IInv, NEW s \in Sessions, Registry!Finish(s), Registry!OneSession
  PROVE  Registry!IInv'
<1>1. Registry!NoCall \in Registry!Calls /\ Registry!NoCall.at = "none"
  BY DEF Registry!NoCall, Registry!Calls
<1>2. call' = [call EXCEPT ![s] = Registry!NoCall] /\ UNCHANGED <<allowed, session>>
  BY DEF Registry!Finish
<1> QED BY <1>1, <1>2, RegistryCallStep

LEMMA RegistryStartsAgreed == ASSUME Registry!Init PROVE Registry!IInv
<1>1. allowed \in Registry!Tables(Registry!Risks)
  <2>1. Registry!NoFun \in [{} -> Registry!Risks] /\ {} \in SUBSET Registry!AllNames
    BY DEF Registry!NoFun
  <2> QED BY <2>1 DEF Registry!Tables, Registry!Init
<1>2. Registry!NoCall \in Registry!Calls /\ Registry!NoCall.at = "none"
  BY DEF Registry!NoCall, Registry!Calls
<1>3. Registry!TypeOK
  BY <1>1, <1>2, RegistryOffIsTyped DEF Registry!Init, Registry!TypeOK
<1>4. DOMAIN Registry!Off.tools = {} /\ DOMAIN Registry!Off.specs = {}
  BY RegistryOffIsTyped DEF Registry!NoFun
<1>5. \A s \in Sessions : Registry!Agrees(s)
  BY <1>2, <1>4 DEF Registry!Init, Registry!Agrees
<1> QED BY <1>3, <1>5 DEF Registry!IInv

LEMMA RegistryStaysAgreed ==
  ASSUME Registry!IInv, [Registry!Next]_(Registry!vars), Registry!OneSession, Registry!NamesApart, Registry!StaticTable
  PROVE  Registry!IInv'
<1>1. ASSUME NEW s \in Sessions,
             Registry!Build(s) \/ Registry!RegisterNext(s) \/ Registry!Built(s) \/ Registry!DropSession(s) \/ Registry!Dispatch(s) \/ Registry!Finish(s)
      PROVE  Registry!IInv'
  BY <1>1, RegistryBuildStep, RegistryRegisterStep, RegistryBuiltStep, RegistryDropStep, RegistryDispatchStep, RegistryFinishStep
<1>2. ASSUME NEW s \in Sessions, NEW server \in Servers, NEW listed \in Registry!Listings,
             Registry!Connect(s, server, listed)
      PROVE  Registry!IInv'
  BY <1>2, RegistryConnectStep
<1>3. ASSUME NEW s \in Sessions, NEW name \in Registry!Names, Registry!Gate(s, name)
      PROVE  Registry!IInv'
  BY <1>3, RegistryGateStep
<1>4. CASE UNCHANGED Registry!vars
  BY <1>4 DEF Registry!vars, Registry!IInv, Registry!TypeOK, Registry!Agrees, Registry!IsModelTool, Registry!ModelToolRisk
<1> QED BY <1>1, <1>2, <1>3, <1>4 DEF Registry!Next

LEMMA RegistryAgreedIsOwn == ASSUME Registry!IInv PROVE Registry!RiskIsOwn
<1>1. ASSUME NEW s \in Sessions, call[s].at = "running"
      PROVE  call[s].gate = session[s].tools[call[s].name].risk
  BY <1>1 DEF Registry!IInv, Registry!Agrees
<1>2. ASSUME NEW s \in Sessions, NEW i \in DOMAIN session[s].specs
      PROVE  session[s].specs[i] \in DOMAIN session[s].tools /\ Registry!IsModelTool(session[s].specs[i])
  BY DEF Registry!IInv, Registry!Agrees
<1> QED BY <1>1, <1>2 DEF Registry!RiskIsOwn

\* One session at a time, whatever its servers list and however their names
\* collide with each other's, a call runs under the risk it was gated by.
THEOREM RiskOwn ==
  ASSUME Registry!OneSession
  PROVE  Spec => []RiskIsOwn
<1>1. Init => Registry!IInv
  BY RegistryStartsAgreed DEF Init
<1>2. Registry!IInv /\ [Next]_vars => Registry!IInv'
  <2>1. [Next]_vars => [Registry!Next]_(Registry!vars)
    BY DEF Next, OneOf, vars, registryVars, Registry!vars
  <2> QED BY <2>1, RegistryStaysAgreed, TableAssumption
<1>3. Registry!IInv => RiskIsOwn
  BY RegistryAgreedIsOwn DEF RiskIsOwn
<1> QED BY <1>1, <1>2, <1>3, PTL DEF Spec

-------------------------------------------------------------------------------
(* The shell.                                                                 *)

\* What is not the call's own leaves it as it was, but for processes that come and go
\* in a group that has one, and for tokens and deadlines, which stay.
LEMMA ShellOthers ==
  ASSUME Shell!IInv, Shell!TypeOK', NEW r \in Runs, run'[r] = run[r],
         \A t \in Tokens : token[t] => token'[t], expired[r] => expired'[r],
         group[r] = {} => group'[r] = {}
  PROVE  Shell!Clean(r)'
<1>1. Shell!Clean(r)
  BY DEF Shell!IInv
<1>2. run[r].token \in Tokens /\ Shell!Cancelled(r) => Shell!Cancelled(r)'
  BY DEF Shell!Cancelled
<1> QED BY <1>1, <1>2 DEF Shell!Clean, Shell!MustStop

\* What is known of a call.
ShellCalls ==
  [at : {"idle", "polling", "pending", "exited", "stopping", "failing",
         "reporting", "choosing", "erring", "done"},
   token : Tokens \cup {"none"}, code : Shell!Codes \cup {"none"},
   refused : BOOLEAN, sawCancel : BOOLEAN,
   end : {"none", "ok", "error", "interrupted", "timed_out"},
   spilled : BOOLEAN]

\* A call of a type goes on to one of the type: spawned, or read its end.
LEMMA ShellCallGoesOn ==
  ASSUME NEW x \in ShellCalls
  PROVE  /\ \A t \in Tokens : [x EXCEPT !.at = "polling", !.token = t] \in ShellCalls
         /\ \A at \in {"reporting", "choosing", "erring"} : \A code \in Shell!Codes \cup {"none"} :
              [x EXCEPT !.at = at, !.code = code] \in ShellCalls
BY DEF ShellCalls

\* The type invariant in its parts, now and after a step.
LEMMA ShellTypes ==
  /\ Shell!TypeOK <=>
       /\ token \in [Tokens -> BOOLEAN] /\ expired \in [Runs -> BOOLEAN]
       /\ group \in [Runs -> SUBSET (Kids \cup {Shell!Sh})] /\ run \in [Runs -> ShellCalls]
  /\ Shell!TypeOK' <=>
       /\ token' \in [Tokens -> BOOLEAN] /\ expired' \in [Runs -> BOOLEAN]
       /\ group' \in [Runs -> SUBSET (Kids \cup {Shell!Sh})] /\ run' \in [Runs -> ShellCalls]
BY DEF Shell!TypeOK, ShellCalls

\* The poll of one call moves it on.
LEMMA ShellMoves ==
  ASSUME Shell!IInv, NEW r \in Runs, Shell!Progress(r) \/ Shell!Refuse(r)
  PROVE  Shell!IInv'
<1>0. Shell!TypeOK /\ Shell!Clean(r) /\ r \in DOMAIN run
  BY DEF Shell!IInv, Shell!TypeOK
<1>1. Shell!Cancelled(r) \in BOOLEAN \/ run[r].token \notin Tokens
  BY <1>0 DEF Shell!TypeOK, Shell!Cancelled
<1> USE DEF Shell!TypeOK, Shell!End
<1>2. /\ Shell!TypeOK' /\ UNCHANGED <<token, expired>>
      /\ \A q \in Runs : q # r => run'[q] = run[q] /\ group'[q] = group[q]
  <2>1. CASE Shell!Refuse(r)
    BY <1>0, <2>1 DEF Shell!Refuse
  <2>2. CASE Shell!PollExit(r) \/ Shell!PollPending(r)
    <3>1. PICK place \in {"exited", "failing", "pending"} :
            run' = [run EXCEPT ![r].at = place] /\ UNCHANGED <<token, expired, group>>
      BY <2>2 DEF Shell!PollExit, Shell!PollPending
    <3> QED BY <1>0, <3>1
  <2>3. CASE Shell!LookAtContext(r)
    BY <1>0, <1>1, <2>3 DEF Shell!LookAtContext, Shell!Clean
  <2>4. CASE Shell!Terminate(r)
    <3> DEFINE at == CASE run[r].at = "exited" -> "reporting"
                       [] run[r].at = "stopping" -> "choosing"
                       [] run[r].at = "failing" -> "erring"
               code == IF run[r].code = "none" THEN "signal" ELSE run[r].code
    <3>1. at \in {"reporting", "choosing", "erring"} /\ code \in Shell!Codes \cup {"none"}
      BY <1>0, <2>4 DEF Shell!Terminate, Shell!Codes
    <3>2. /\ group' = [group EXCEPT ![r] = {}] /\ UNCHANGED <<token, expired>>
          /\ run' = [run EXCEPT ![r] = [run[r] EXCEPT !.at = at, !.code = code]]
      BY <1>0, <2>4 DEF Shell!Terminate, Shell!Survivors
    <3> HIDE DEF at, code
    <3> HIDE DEF Shell!TypeOK
    <3>3. PICK x : x = run[r] /\ x \in ShellCalls
      BY <1>0, ShellTypes
    <3>4. [x EXCEPT !.at = at, !.code = code] \in ShellCalls
      BY <3>1, <3>3, ShellCallGoesOn
    <3>5. run' \in [Runs -> ShellCalls]
      BY <1>0, <3>2, <3>3, <3>4, ShellTypes
    <3>6. group' \in [Runs -> SUBSET (Kids \cup {Shell!Sh})]
      BY <1>0, <3>2, ShellTypes
    <3>7. Shell!TypeOK'
      BY <1>0, <3>2, <3>5, <3>6, ShellTypes
    <3>8. \A q \in Runs : q # r => run'[q] = run[q] /\ group'[q] = group[q]
      BY <1>0, <3>2, ShellTypes
    <3> QED BY <3>2, <3>7, <3>8
  <2>5. CASE Shell!TerminateRefused(r)
    BY <1>0, <2>5 DEF Shell!TerminateRefused
  <2>6. CASE Shell!Choose(r) \/ Shell!Err(r)
    BY <1>0, <2>6 DEF Shell!Choose, Shell!Err, Shell!StopReason
  <2>7. ASSUME NEW long \in BOOLEAN, Shell!Report(r, long)
        PROVE  /\ Shell!TypeOK' /\ UNCHANGED <<token, expired>>
               /\ \A q \in Runs : q # r => run'[q] = run[q] /\ group'[q] = group[q]
    BY <1>0, <2>7 DEF Shell!Report
  <2> QED BY <2>1, <2>2, <2>3, <2>4, <2>5, <2>6, <2>7 DEF Shell!Progress
<1>3. Shell!Clean(r)'
  <2> USE DEF Shell!Clean, Shell!Cancelled, Shell!MustStop
  <2>1. CASE Shell!Refuse(r)
    BY <1>0, <2>1 DEF Shell!Refuse
  <2>2. CASE Shell!PollExit(r) \/ Shell!PollPending(r)
    <3>1. PICK place \in {"exited", "failing", "pending"} :
            run' = [run EXCEPT ![r].at = place] /\ UNCHANGED <<token, expired, group>>
      BY <2>2 DEF Shell!PollExit, Shell!PollPending
    <3> QED BY <1>0, <2>2, <3>1 DEF Shell!PollExit, Shell!PollPending
  <2>3. CASE Shell!LookAtContext(r)
    BY <1>0, <2>3 DEF Shell!LookAtContext
  <2>4. CASE Shell!Terminate(r)
    <3>1. run[r].at \in {"exited", "stopping", "failing"} /\ group'[r] = {} /\ UNCHANGED <<token, expired>>
      BY <1>0, <2>4 DEF Shell!Terminate, Shell!Survivors
    <3>2. /\ run'[r].at = CASE run[r].at = "exited" -> "reporting"
                             [] run[r].at = "stopping" -> "choosing"
                             [] run[r].at = "failing" -> "erring"
          /\ run'[r].token = run[r].token /\ run'[r].sawCancel = run[r].sawCancel /\ run'[r].end = run[r].end
      BY <1>0, <2>4 DEF Shell!Terminate
    <3>3. run'[r].at \in {"reporting", "choosing", "erring"} /\ (run'[r].at = "choosing" => run[r].at = "stopping")
      BY <3>1, <3>2
    <3>4. run[r].token \in Tokens
      BY <1>0, <3>1
    <3>5. run[r].at = "stopping" => Shell!MustStop(r)' /\ (run[r].sawCancel => Shell!Cancelled(r)')
      BY <1>0, <3>1, <3>2
    <3>6. run'[r].end = "none"
      BY <1>0, <3>1, <3>2
    <3> HIDE DEF Shell!MustStop, Shell!Cancelled, Shell!TypeOK
    <3> QED BY <3>1, <3>2, <3>3, <3>4, <3>5, <3>6
  <2>5. CASE Shell!TerminateRefused(r)
    BY <1>0, <2>5 DEF Shell!TerminateRefused
  <2>6. CASE Shell!Choose(r) \/ Shell!Err(r)
    BY <1>0, <2>6 DEF Shell!Choose, Shell!Err, Shell!StopReason
  <2>7. ASSUME NEW long \in BOOLEAN, Shell!Report(r, long) PROVE Shell!Clean(r)'
    BY <1>0, <2>7 DEF Shell!Report
  <2> QED BY <2>1, <2>2, <2>3, <2>4, <2>5, <2>6, <2>7 DEF Shell!Progress
<1>4. ASSUME NEW q \in Runs PROVE Shell!Clean(q)'
  BY <1>2, <1>3, ShellOthers
<1> QED BY <1>2, <1>4 DEF Shell!IInv

LEMMA ShellStays == Shell!IInv /\ [Shell!Next]_(Shell!vars) => Shell!IInv'
<1> SUFFICES ASSUME Shell!IInv, [Shell!Next]_(Shell!vars) PROVE Shell!IInv'
  OBVIOUS
<1>0. Shell!TypeOK /\ \A r \in Runs : Shell!Clean(r)
  BY DEF Shell!IInv
<1>1. ASSUME NEW r \in Runs, Shell!Refuse(r) \/ Shell!Progress(r) PROVE Shell!IInv'
  BY <1>1, ShellMoves
<1>2. ASSUME NEW r \in Runs, NEW t \in Tokens, Shell!Spawn(r, t) PROVE Shell!IInv'
  <2>1. Shell!TypeOK' /\ \A q \in Runs : q # r => run'[q] = run[q] /\ group'[q] = group[q]
    <3>1. /\ group' = [group EXCEPT ![r] = {Shell!Sh}] /\ UNCHANGED <<token, expired>>
          /\ run' = [run EXCEPT ![r] = [run[r] EXCEPT !.at = "polling", !.token = t]]
      BY <1>0, <1>2 DEF Shell!Spawn, Shell!TypeOK
    <3>2. {Shell!Sh} \in SUBSET (Kids \cup {Shell!Sh})
      OBVIOUS
    <3>3. group' \in [Runs -> SUBSET (Kids \cup {Shell!Sh})]
      BY <1>0, <3>1, <3>2 DEF Shell!TypeOK
    <3>4. Shell!TypeOK'
      <4>1. PICK x : x = run[r] /\ x \in ShellCalls
        BY <1>0, ShellTypes
      <4>2. [x EXCEPT !.at = "polling", !.token = t] \in ShellCalls
        BY <4>1, ShellCallGoesOn
      <4>3. run' \in [Runs -> ShellCalls]
        BY <1>0, <3>1, <4>1, <4>2, ShellTypes
      <4>4. token' \in [Tokens -> BOOLEAN] /\ expired' \in [Runs -> BOOLEAN]
        BY <1>0, <3>1, ShellTypes
      <4> QED BY <3>3, <4>3, <4>4, ShellTypes
    <3>5. \A q \in Runs : q # r => run'[q] = run[q] /\ group'[q] = group[q]
      BY <1>0, <3>1 DEF Shell!TypeOK
    <3> QED BY <3>4, <3>5
  <2>2. Shell!Clean(r)'
    BY <1>0, <1>2 DEF Shell!Spawn, Shell!TypeOK, Shell!Clean
  <2>3. ASSUME NEW q \in Runs PROVE Shell!Clean(q)'
    BY <1>2, <2>1, <2>2, ShellOthers DEF Shell!Spawn
  <2> QED BY <2>1, <2>3 DEF Shell!IInv
<1>3. ASSUME NEW r \in Runs, NEW code \in Shell!Codes, Shell!ShellExits(r, code) PROVE Shell!IInv'
  <2>1. Shell!TypeOK' /\ \A q \in Runs : q # r => run'[q] = run[q] /\ group'[q] = group[q]
    BY <1>0, <1>3 DEF Shell!ShellExits, Shell!TypeOK
  <2>2. Shell!Clean(r)'
    BY <1>0, <1>3 DEF Shell!ShellExits, Shell!TypeOK, Shell!Clean, Shell!MustStop, Shell!Cancelled
  <2>3. ASSUME NEW q \in Runs PROVE Shell!Clean(q)'
    BY <1>3, <2>1, <2>2, ShellOthers DEF Shell!ShellExits
  <2> QED BY <2>1, <2>3 DEF Shell!IInv
<1>4. ASSUME NEW r \in Runs, NEW k \in Kids, Shell!Forks(r, k) \/ Shell!KidExits(r, k)
      PROVE  Shell!IInv'
  <2>1. Shell!TypeOK' /\ \A q \in Runs : run'[q] = run[q] /\ (group[q] = {} => group'[q] = {})
    BY <1>0, <1>4 DEF Shell!Forks, Shell!KidExits, Shell!TypeOK
  <2>2. ASSUME NEW q \in Runs PROVE Shell!Clean(q)'
    BY <1>4, <2>1, ShellOthers DEF Shell!Forks, Shell!KidExits
  <2> QED BY <2>1, <2>2 DEF Shell!IInv
<1>5. ASSUME NEW t \in Tokens, Shell!CancelToken(t) PROVE Shell!IInv'
  <2>1. Shell!TypeOK' /\ \A u \in Tokens : token[u] => token'[u]
    BY <1>0, <1>5 DEF Shell!CancelToken, Shell!TypeOK
  <2>2. ASSUME NEW q \in Runs PROVE Shell!Clean(q)'
    BY <1>5, <2>1, ShellOthers DEF Shell!CancelToken
  <2> QED BY <2>1, <2>2 DEF Shell!IInv
<1>6. ASSUME NEW r \in Runs, Shell!DeadlinePasses(r) PROVE Shell!IInv'
  <2>1. Shell!TypeOK' /\ \A q \in Runs : expired[q] => expired'[q]
    BY <1>0, <1>6 DEF Shell!DeadlinePasses, Shell!TypeOK
  <2>2. ASSUME NEW q \in Runs PROVE Shell!Clean(q)'
    BY <1>6, <2>1, ShellOthers DEF Shell!DeadlinePasses
  <2> QED BY <2>1, <2>2 DEF Shell!IInv
<1>7. CASE UNCHANGED Shell!vars
  <2>1. Shell!TypeOK'
    BY <1>0, <1>7 DEF Shell!vars, Shell!TypeOK
  <2>2. ASSUME NEW q \in Runs PROVE Shell!Clean(q)'
    BY <1>7, <2>1, ShellOthers DEF Shell!vars
  <2> QED BY <2>1, <2>2 DEF Shell!IInv
<1> QED BY <1>1, <1>2, <1>3, <1>4, <1>5, <1>6, <1>7 DEF Shell!Next

\* However exit, cancellation, deadline and failures race between two polls, no process
\* outlives its call unless the kernel refused the kill, a cancelled call reports no
\* timeout, and success is the shell's own doing; for any calls, tokens and processes.
THEOREM ShellEnds == Spec => []ShellEndsClean
<1>1. Init => Shell!IInv
  BY DEF Init, Shell!Init, Shell!IInv, Shell!TypeOK, Shell!Clean, Shell!NoRun
<1>2. Shell!IInv /\ [Next]_vars => Shell!IInv'
  <2>1. [Next]_vars => [Shell!Next]_(Shell!vars)
    BY DEF Next, OneOf, vars, shellVars, Shell!vars
  <2> QED BY <2>1, ShellStays
<1>3. Shell!IInv => ShellEndsClean
  BY DEF Shell!IInv, Shell!Clean, ShellEndsClean, Shell!ShellEndsClean
<1> QED BY <1>1, <1>2, <1>3, PTL DEF Spec

-------------------------------------------------------------------------------
(* The kernels and the debugger.                                             *)

\* The step of SessionsAreKept, as CodeSessions states it.
CodeIsKept ==
  /\ Code!BreakpointsAreKept'
  /\ kernel = "killed" => kernel' = "killed"
  /\ \A h \in Handles : handle[h] = "killed" => handle'[h] = "killed"
  /\ \A h \in registry \ registry' : handle[h] \notin Code!Live

CodePlaces == [at : {"idle", "inserting", "counting"}, id : Nat, given : SUBSET Nat]

\* A thread that goes elsewhere moves no other.
LEMMA CodeThreadMoves ==
  ASSUME Code!TypeOK, NEW t \in Threads, NEW new \in CodePlaces, setting' = [setting EXCEPT ![t] = new]
  PROVE  /\ setting' \in [Threads -> CodePlaces] /\ setting'[t] = new
         /\ \A u \in Threads : u # t => setting'[u] = setting[u]
BY DEF Code!TypeOK, CodePlaces

\* The inductive invariant: at the start.
LEMMA CodeStarts == Code!Init => Code!IInv
BY DEF Code!Init, Code!IInv, Code!TypeOK, Code!IdsAreFresh, Code!BreakpointsAreKept

\* The kernel and its turns leave the breakpoints alone.
LEMMA CodeTurnsMove ==
  ASSUME Code!IInv,
         \/ Code!Start \/ Code!Stop \/ Code!Kill \/ Code!Compact
         \/ \E h \in Handles : Code!Spawn(h) \/ Code!Register(h) \/ Code!KillTurn(h)
  PROVE  Code!IInv' /\ CodeIsKept
<1>1. handle \in [Handles -> {"none", "running", "killed"}] /\ registry \subseteq Handles
  BY DEF Code!IInv, Code!TypeOK
<1>2. UNCHANGED <<points, pointId, idLock, setting>>
  BY DEF Code!Start, Code!Stop, Code!Kill, Code!Compact, Code!Spawn, Code!Register, Code!KillTurn, Code!breakpoints
<1>3. Code!IdsAreFresh' /\ Code!BreakpointsAreKept'
  BY <1>2 DEF Code!IInv, Code!IdsAreFresh, Code!BreakpointsAreKept
<1>4. /\ handle' \in [Handles -> {"none", "running", "killed"}]
      /\ \A g \in Handles : handle[g] = "killed" => handle'[g] = "killed"
  BY <1>1 DEF Code!Start, Code!Stop, Code!Kill, Code!Compact, Code!Spawn, Code!Register, Code!KillTurn
<1>5. registry' \subseteq Handles /\ \A g \in registry \ registry' : handle[g] \notin Code!Live
  BY <1>1 DEF Code!Start, Code!Stop, Code!Kill, Code!Compact, Code!Spawn, Code!Register, Code!KillTurn
<1>6. kernel = "killed" => kernel' = "killed"
  BY DEF Code!Start, Code!Stop, Code!Kill, Code!Compact, Code!Spawn, Code!Register, Code!KillTurn, Code!Startable
<1>7. Code!TypeOK'
  BY <1>2, <1>4, <1>5 DEF Code!IInv, Code!TypeOK
<1> QED BY <1>3, <1>4, <1>5, <1>6, <1>7 DEF Code!IInv, CodeIsKept

\* The debugger leaves the kernel and its turns alone.
LEMMA CodeDebugs ==
  ASSUME Code!IInv, UNCHANGED Code!turns,
         pointId' \in Nat, setting' \in [Threads -> CodePlaces], Code!IdsAreFresh', Code!BreakpointsAreKept'
  PROVE  Code!IInv' /\ CodeIsKept
BY DEF Code!IInv, Code!TypeOK, Code!turns, CodePlaces, CodeIsKept

\* Setting a breakpoint: the id,
LEMMA CodeTakesId ==
  ASSUME Code!IInv, NEW t \in Threads, Code!TakeId(t)
  PROVE  Code!IInv' /\ CodeIsKept
<1> DEFINE new == [setting[t] EXCEPT !.at = "inserting", !.id = pointId]
<1>0. setting \in [Threads -> CodePlaces] /\ pointId \in Nat /\ Code!TypeOK /\ Code!IdsAreFresh
  BY DEF Code!IInv, Code!TypeOK, CodePlaces
<1>1. setting' = [setting EXCEPT ![t] = new]
  BY DEF Code!TakeId
<1>2. new \in CodePlaces /\ new.at = "inserting" /\ new.id = pointId /\ new.given = setting[t].given
  BY <1>0 DEF CodePlaces
<1> HIDE DEF new
<1>3. /\ setting' \in [Threads -> CodePlaces] /\ setting'[t] = new
      /\ \A u \in Threads : u # t => setting'[u] = setting[u]
  BY <1>0, <1>1, <1>2, CodeThreadMoves
<1>4. /\ idLock = Code!Nobody /\ idLock' = t /\ points' = points /\ pointId' = pointId /\ UNCHANGED Code!turns
  BY DEF Code!TakeId, Code!MayTakeId
<1>5. \A u \in Threads : setting[u].at = "idle"
  BY <1>0, <1>4, CallersAssumption DEF Code!IdsAreFresh
<1>6. Code!IdsAreFresh'
  BY <1>0, <1>2, <1>3, <1>4, <1>5 DEF Code!IdsAreFresh
<1>7. Code!BreakpointsAreKept'
  BY <1>2, <1>3, <1>4 DEF Code!IInv, Code!BreakpointsAreKept
<1> QED BY <1>0, <1>3, <1>4, <1>6, <1>7, CodeDebugs

\* its entry,
LEMMA CodeInserts ==
  ASSUME Code!IInv, NEW t \in Threads, Code!Insert(t)
  PROVE  Code!IInv' /\ CodeIsKept
<1> DEFINE new == [setting[t] EXCEPT !.at = "counting"]
<1>0. setting \in [Threads -> CodePlaces] /\ pointId \in Nat /\ Code!TypeOK /\ Code!IdsAreFresh
  BY DEF Code!IInv, Code!TypeOK, CodePlaces
<1>1. setting' = [setting EXCEPT ![t] = new]
  BY DEF Code!Insert
<1>2. new \in CodePlaces /\ new.at = "counting" /\ new.id = setting[t].id /\ new.given = setting[t].given
  BY <1>0 DEF CodePlaces
<1> HIDE DEF new
<1>3. /\ setting' \in [Threads -> CodePlaces] /\ setting'[t] = new
      /\ \A u \in Threads : u # t => setting'[u] = setting[u]
  BY <1>0, <1>1, <1>2, CodeThreadMoves
<1>4. setting[t].at = "inserting" /\ idLock' = idLock /\ pointId' = pointId /\ UNCHANGED Code!turns
  BY DEF Code!Insert
<1>5. idLock = t /\ setting[t].id = pointId /\ \A u \in Threads : u # t => setting[u].at = "idle"
  BY <1>0, <1>4 DEF Code!IdsAreFresh
<1>6. /\ pointId \in DOMAIN points' /\ points'[pointId] = t
      /\ \A i \in DOMAIN points : i # pointId => i \in DOMAIN points' /\ points'[i] = points[i]
  BY <1>5 DEF Code!Insert
<1>7. Code!IdsAreFresh'
  BY <1>0, <1>2, <1>3, <1>4, <1>5, <1>6 DEF Code!IdsAreFresh
<1>8. Code!BreakpointsAreKept'
  <2> SUFFICES ASSUME NEW u \in Threads, NEW i \in setting[u].given
               PROVE  i \in DOMAIN points' /\ points'[i] = u
    BY <1>2, <1>3 DEF Code!BreakpointsAreKept
  <2>1. i \in DOMAIN points /\ points[i] = u
    BY DEF Code!IInv, Code!BreakpointsAreKept
  <2>2. i < pointId /\ i \in Nat
    BY <1>0 DEF Code!IdsAreFresh, CodePlaces
  <2> QED BY <1>0, <1>6, <2>1, <2>2
<1> QED BY <1>0, <1>3, <1>4, <1>7, <1>8, CodeDebugs

\* and the count.
LEMMA CodeCounts ==
  ASSUME Code!IInv, NEW t \in Threads, Code!Count(t)
  PROVE  Code!IInv' /\ CodeIsKept
<1> DEFINE new == [at |-> "idle", id |-> setting[t].id, given |-> setting[t].given \cup {setting[t].id}]
<1>0. setting \in [Threads -> CodePlaces] /\ pointId \in Nat /\ Code!TypeOK /\ Code!IdsAreFresh
  BY DEF Code!IInv, Code!TypeOK, CodePlaces
<1>1. setting' = [setting EXCEPT ![t] = new]
  <2>1. setting' = [setting EXCEPT ![t] = [setting[t] EXCEPT !.at = "idle", !.given = setting[t].given \cup {setting[t].id}]]
    BY DEF Code!Count
  <2>2. PICK x \in CodePlaces : x = setting[t]
    BY <1>0
  <2>3. PICK g : g = setting[t].given \cup {setting[t].id}
    OBVIOUS
  <2>4. new = [at |-> "idle", id |-> x.id, given |-> g]
    BY <2>2, <2>3
  <2> HIDE DEF new
  <2>5. [x EXCEPT !.at = "idle"] = [at |-> "idle", id |-> x.id, given |-> x.given]
    BY <2>2 DEF CodePlaces
  <2>6. [[at |-> "idle", id |-> x.id, given |-> x.given] EXCEPT !.given = g] = [at |-> "idle", id |-> x.id, given |-> g]
    OBVIOUS
  <2>7. [x EXCEPT !.at = "idle", !.given = g] = new
    BY <2>4, <2>5, <2>6
  <2> QED BY <2>1, <2>2, <2>3, <2>7
<1>2. new \in CodePlaces /\ new.at = "idle" /\ new.given = setting[t].given \cup {setting[t].id}
  BY <1>0 DEF CodePlaces
<1> HIDE DEF new
<1>3. /\ setting' \in [Threads -> CodePlaces] /\ setting'[t] = new
      /\ \A u \in Threads : u # t => setting'[u] = setting[u]
  BY <1>0, <1>1, <1>2, CodeThreadMoves
<1>4. setting[t].at = "counting" /\ points' = points /\ pointId' = pointId + 1 /\ UNCHANGED Code!turns
  BY DEF Code!Count
<1>5. idLock = t /\ setting[t].id = pointId /\ \A u \in Threads : u # t => setting[u].at = "idle"
  BY <1>0, <1>4 DEF Code!IdsAreFresh
<1>6. pointId \in DOMAIN points /\ points[pointId] = t
  BY <1>0, <1>4 DEF Code!IdsAreFresh
<1>7. \A u \in Threads : setting'[u].at = "idle"
  BY <1>2, <1>3, <1>5
<1>8. ASSUME NEW u \in Threads, NEW i \in setting'[u].given
      PROVE  i < pointId + 1 /\ i \in DOMAIN points /\ points[i] = u
  <2>1. CASE i \in setting[u].given
    <3>1. i \in Nat /\ i < pointId
      BY <1>0, <2>1 DEF Code!IdsAreFresh, CodePlaces
    <3>2. i \in DOMAIN points /\ points[i] = u
      BY <2>1 DEF Code!IInv, Code!BreakpointsAreKept
    <3> QED BY <1>0, <3>1, <3>2
  <2>2. CASE i \notin setting[u].given
    <3>1. u = t /\ i = pointId
      BY <1>2, <1>3, <1>5, <1>8, <2>2
    <3> QED BY <1>0, <1>6, <3>1
  <2> QED BY <2>1, <2>2
<1>9. Code!IdsAreFresh' /\ Code!BreakpointsAreKept'
  BY <1>4, <1>7, <1>8 DEF Code!IdsAreFresh, Code!BreakpointsAreKept
<1>10. pointId' \in Nat
  BY <1>0, <1>4
<1> QED BY <1>3, <1>4, <1>9, <1>10, CodeDebugs

\* What is removed was given to who removes it, and to nobody else.
LEMMA CodeRemoves ==
  ASSUME Code!IInv, NEW t \in Threads, NEW id, Code!RemoveBreakpoint(t, id)
  PROVE  Code!IInv' /\ CodeIsKept
<1> DEFINE new == [at |-> setting[t].at, id |-> setting[t].id, given |-> setting[t].given \ {id}]
<1>0. setting \in [Threads -> CodePlaces] /\ pointId \in Nat /\ Code!TypeOK /\ Code!IdsAreFresh
  BY DEF Code!IInv, Code!TypeOK, CodePlaces
<1>1. setting' = [setting EXCEPT ![t] = new]
  <2>1. setting' = [setting EXCEPT ![t] = [setting[t] EXCEPT !.given = setting[t].given \ {id}]]
    BY DEF Code!RemoveBreakpoint
  <2>2. [setting[t] EXCEPT !.given = setting[t].given \ {id}] = new
    <3>1. setting[t] \in CodePlaces
      BY <1>0
    <3> QED BY <3>1 DEF CodePlaces
  <2> QED BY <2>1, <2>2
<1>2. new \in CodePlaces /\ new.at = setting[t].at /\ new.id = setting[t].id /\ new.given = setting[t].given \ {id}
  BY <1>0 DEF CodePlaces
<1> HIDE DEF new
<1>3. /\ setting' \in [Threads -> CodePlaces] /\ setting'[t] = new
      /\ \A u \in Threads : u # t => setting'[u] = setting[u]
  BY <1>0, <1>1, <1>2, CodeThreadMoves
<1>4. id \in setting[t].given /\ idLock' = idLock /\ pointId' = pointId /\ UNCHANGED Code!turns
  BY DEF Code!RemoveBreakpoint
<1>5. id < pointId /\ id \in Nat /\ points[id] = t
  BY <1>0, <1>4 DEF Code!IdsAreFresh, Code!IInv, Code!BreakpointsAreKept, CodePlaces
<1>6. \A i \in DOMAIN points : i # id => i \in DOMAIN points' /\ points'[i] = points[i]
  BY DEF Code!RemoveBreakpoint
<1>7. \A u \in Threads : setting'[u].at = setting[u].at /\ setting'[u].id = setting[u].id
                         /\ setting'[u].given = setting[u].given \ {id}
  <2>1. ASSUME NEW u \in Threads, u # t PROVE id \notin setting[u].given
    BY <1>5, <2>1 DEF Code!IInv, Code!BreakpointsAreKept
  <2> QED BY <1>2, <1>3, <2>1
<1>8. id # pointId
  BY <1>0, <1>5
<1>9. Code!IdsAreFresh'
  BY <1>0, <1>4, <1>6, <1>7, <1>8 DEF Code!IdsAreFresh
<1>10. Code!BreakpointsAreKept'
  BY <1>6, <1>7 DEF Code!IInv, Code!BreakpointsAreKept
<1> QED BY <1>0, <1>3, <1>4, <1>9, <1>10, CodeDebugs

\* The invariant in every step, and what the step may not do.
LEMMA CodeStays == Code!IInv /\ [Code!Next]_(Code!vars) => Code!IInv' /\ CodeIsKept
<1> SUFFICES ASSUME Code!IInv, [Code!Next]_(Code!vars) PROVE Code!IInv' /\ CodeIsKept
  OBVIOUS
<1>1. CASE UNCHANGED Code!vars
  <2>1. UNCHANGED <<kernel, handle, registry, points, pointId, idLock, setting>>
    BY <1>1 DEF Code!vars
  <2>2. Code!TypeOK' /\ Code!IdsAreFresh' /\ Code!BreakpointsAreKept'
    BY <2>1 DEF Code!IInv, Code!TypeOK, Code!IdsAreFresh, Code!BreakpointsAreKept
  <2> QED BY <2>1, <2>2 DEF Code!IInv, CodeIsKept
<1>2. ASSUME NEW t \in Threads, Code!TakeId(t) \/ Code!Insert(t) \/ Code!Count(t) PROVE Code!IInv' /\ CodeIsKept
  BY <1>2, CodeTakesId, CodeInserts, CodeCounts
<1>3. ASSUME NEW t \in Threads, NEW id, Code!RemoveBreakpoint(t, id) PROVE Code!IInv' /\ CodeIsKept
  BY <1>3, CodeRemoves
<1>4. CASE \/ Code!Start \/ Code!Stop \/ Code!Kill \/ Code!Compact
           \/ \E h \in Handles : Code!Spawn(h) \/ Code!Register(h) \/ Code!KillTurn(h)
  BY <1>4, CodeTurnsMove
<1>5. CASE Code!Step \/ \E on \in BOOLEAN : Code!Pause(on)
  <2>1. UNCHANGED <<points, pointId, idLock, setting>> /\ UNCHANGED Code!turns
    BY <1>5 DEF Code!Step, Code!Pause, Code!breakpoints
  <2>2. pointId' \in Nat /\ setting' \in [Threads -> CodePlaces]
    BY <2>1 DEF Code!IInv, Code!TypeOK, CodePlaces
  <2>3. Code!IdsAreFresh' /\ Code!BreakpointsAreKept'
    BY <2>1 DEF Code!IInv, Code!IdsAreFresh, Code!BreakpointsAreKept
  <2> QED BY <2>1, <2>2, <2>3, CodeDebugs
<1>6. CASE Code!Next
  BY <1>2, <1>3, <1>4, <1>5, <1>6 DEF Code!Next
<1> QED BY <1>1, <1>6

\* A breakpoint somebody set and did not remove stays theirs, whoever sets others at the
\* same time (darius-lsp lib.rs); and a kill is final, and compaction forgets no running
\* turn (darius-rlm lib.rs).
THEOREM SessionsKept == Spec => SessionsAreKept
<1>1. Init => Code!IInv
  BY CodeStarts DEF Init
<1>2. Code!IInv /\ [Next]_vars => Code!IInv' /\ CodeIsKept
  <2>1. [Next]_vars => [Code!Next]_(Code!vars)
    BY DEF Next, OneOf, vars, codeVars, Code!vars
  <2> QED BY <2>1, CodeStays
<1>3. Code!SessionsAreKept <=> [][CodeIsKept]_(Code!vars)
  BY DEF Code!SessionsAreKept, CodeIsKept
<1> QED BY <1>1, <1>2, <1>3, PTL DEF Spec, SessionsAreKept

-------------------------------------------------------------------------------
(* Numbers.                                                                    *)

\* Any set of naturals has a least element, so induction needs no more than a set.
LEMMA LeastOf ==
  ASSUME NEW T, T \subseteq Nat, T # {}
  PROVE  \E x \in T : \A y \in T : x <= y
<1> DEFINE R == OpToRel(<, Nat)
<1>1. IsWellFoundedOn(R, Nat)
  BY NatLessThanWellFounded
<1>2. \A x, y \in Nat : x < y => <<x, y>> \in R
  BY DEF OpToRel
<1> HIDE DEF R
<1>3. PICK x \in T : \A y \in T : ~ (<<y, x>> \in R)
  BY <1>1, WFMin
<1>4. \A y \in T : x <= y
  <2> SUFFICES ASSUME NEW y \in T PROVE x <= y
    OBVIOUS
  <2>1. x \in Nat /\ y \in Nat
    OBVIOUS
  <2>2. ~ (y < x)
    BY <1>2, <1>3, <2>1
  <2> QED BY <2>1, <2>2
<1> QED BY <1>4

\* A set of numbers up to a bound has a greatest one.
LEMMA GreatestOf ==
  ASSUME NEW n \in Nat, NEW T, T \subseteq 0..n, T # {}
  PROVE  \E x \in T : \A y \in x + 1..n : y \notin T
<1> DEFINE U == {n - x : x \in T}
<1>1. \A x \in T : x \in Nat /\ n - x \in Nat
  OBVIOUS
<1>2. U \subseteq Nat /\ U # {}
  BY <1>1
<1>3. PICK u \in U : \A v \in U : u <= v
  BY <1>2, LeastOf
<1>4. PICK x \in T : u = n - x
  OBVIOUS
<1>5. ASSUME NEW y \in x + 1..n, y \in T PROVE FALSE
  <2>1. u <= n - y
    BY <1>3, <1>5
  <2> QED BY <1>1, <1>4, <2>1
<1> QED BY <1>5

-------------------------------------------------------------------------------
(* The file tools: paths.                                                     *)

\* A path that leads anywhere has a name in it.
Places == Seq(STRING) \ {<<>>}

\* What lies above a path is a directory, and so is the root of the workspace.
Closed(t) ==
  /\ DOMAIN t \subseteq Places
  /\ \A p \in DOMAIN t : \A n \in 1..Len(p) - 1 : Files!IsDir(t, SubSeq(p, 1, n))
  /\ Files!IsDir(t, Root)

\* What is appended comes last.
LEMMA AppendedTo ==
  ASSUME NEW S, NEW s \in Seq(S), NEW x \in S
  PROVE  /\ Append(s, x) \in Seq(S) /\ Len(Append(s, x)) = Len(s) + 1 /\ Len(s) \in Nat
         /\ Append(s, x)[Len(s) + 1] = x /\ \A i \in 1..Len(s) : Append(s, x)[i] = s[i]
BY AppendProperties, LenProperties

\* A place in a directory: what is above it, its name, its beginnings.
LEMMA PlacesIn ==
  ASSUME NEW d \in Seq(STRING), NEW x \in STRING
  PROVE  /\ Append(d, x) \in Places /\ Len(Append(d, x)) = Len(d) + 1
         /\ Files!Parent(Append(d, x)) = d /\ Files!Last(Append(d, x)) = x
         /\ \A n \in 1..Len(d) : SubSeq(Append(d, x), 1, n) = SubSeq(d, 1, n)
         /\ SubSeq(Append(d, x), 1, Len(d)) = d
<1>0. PICK p : p = Append(d, x)
  OBVIOUS
<1>1. /\ p \in Seq(STRING) /\ Len(p) = Len(d) + 1 /\ Len(d) \in Nat /\ p[Len(d) + 1] = x
      /\ \A i \in 1..Len(d) : p[i] = d[i]
  <2>1. Append(d, x) \in Seq(STRING) /\ Len(Append(d, x)) = Len(d) + 1 /\ Len(d) \in Nat
    BY AppendedTo
  <2>2. Append(d, x)[Len(d) + 1] = x
    BY AppendedTo
  <2>3. \A i \in 1..Len(d) : Append(d, x)[i] = d[i]
    BY AppendedTo
  <2> QED BY <1>0, <2>1, <2>2, <2>3, Zenon
<1>2. p # <<>> /\ Files!Last(p) = x
  BY <1>1 DEF Files!Last
<1>3. ASSUME NEW n \in 0..Len(d) PROVE SubSeq(p, 1, n) = SubSeq(d, 1, n)
  <2>1. n \in Nat /\ n <= Len(d) /\ n <= Len(p)
    BY <1>1
  <2>2. /\ SubSeq(p, 1, n) \in Seq(STRING) /\ Len(SubSeq(p, 1, n)) = n
        /\ \A i \in 1..n : SubSeq(p, 1, n)[i] = p[i]
    BY <1>1, <2>1
  <2>3. /\ SubSeq(d, 1, n) \in Seq(STRING) /\ Len(SubSeq(d, 1, n)) = n
        /\ \A i \in 1..n : SubSeq(d, 1, n)[i] = d[i]
    BY <1>1, <2>1
  <2>4. \A i \in 1..n : SubSeq(p, 1, n)[i] = SubSeq(d, 1, n)[i]
    BY <1>1, <2>1, <2>2, <2>3
  <2> QED BY <2>2, <2>3, <2>4, SeqEqual
<1>4. SubSeq(d, 1, Len(d)) = d
  <2>1. /\ SubSeq(d, 1, Len(d)) \in Seq(STRING) /\ Len(SubSeq(d, 1, Len(d))) = Len(d)
        /\ \A i \in 1..Len(d) : SubSeq(d, 1, Len(d))[i] = d[i]
    BY <1>1
  <2> QED BY <2>1, SeqEqual
<1>5. SubSeq(p, 1, Len(d)) = d
  BY <1>1, <1>3, <1>4
<1>6. Files!Parent(p) = d
  <2>1. Len(p) - 1 = Len(d)
    BY <1>1
  <2> QED BY <1>5, <2>1 DEF Files!Parent
<1>7. \A n \in 1..Len(d) : SubSeq(p, 1, n) = SubSeq(d, 1, n)
  BY <1>1, <1>3
<1> QED BY <1>0, <1>1, <1>2, <1>5, <1>6, <1>7, Zenon DEF Places

\* A beginning of a path, and a beginning of that.
LEMMA Beginnings ==
  ASSUME NEW p \in Seq(STRING), NEW n \in 0..Len(p)
  PROVE  /\ SubSeq(p, 1, n) \in Seq(STRING) /\ Len(SubSeq(p, 1, n)) = n
         /\ \A i \in 1..n : SubSeq(p, 1, n)[i] = p[i]
         /\ \A m \in 0..n : SubSeq(SubSeq(p, 1, n), 1, m) = SubSeq(p, 1, m)
         /\ n = Len(p) => SubSeq(p, 1, n) = p
<1>1. n \in Nat /\ Len(p) \in Nat
  BY LenProperties
<1>2. /\ SubSeq(p, 1, n) \in Seq(STRING) /\ Len(SubSeq(p, 1, n)) = n
      /\ \A i \in 1..n : SubSeq(p, 1, n)[i] = p[i]
  BY <1>1
<1> DEFINE q == SubSeq(p, 1, n)
<1> HIDE DEF q
<1>3. ASSUME NEW m \in 0..n PROVE SubSeq(q, 1, m) = SubSeq(p, 1, m)
  <2>1. /\ SubSeq(q, 1, m) \in Seq(STRING) /\ Len(SubSeq(q, 1, m)) = m
        /\ \A i \in 1..m : SubSeq(q, 1, m)[i] = q[i]
    BY <1>1, <1>2 DEF q
  <2>2. /\ SubSeq(p, 1, m) \in Seq(STRING) /\ Len(SubSeq(p, 1, m)) = m
        /\ \A i \in 1..m : SubSeq(p, 1, m)[i] = p[i]
    BY <1>1
  <2>3. \A i \in 1..m : SubSeq(q, 1, m)[i] = SubSeq(p, 1, m)[i]
    <3> SUFFICES ASSUME NEW i \in 1..m PROVE SubSeq(q, 1, m)[i] = SubSeq(p, 1, m)[i]
      OBVIOUS
    <3>1. i \in 1..n
      BY <1>1
    <3>2. q[i] = p[i]
      BY <1>2, <3>1 DEF q
    <3> QED BY <2>1, <2>2, <3>2
  <2> QED BY <2>1, <2>2, <2>3, SeqEqual
<1>4. ASSUME n = Len(p) PROVE q = p
  BY <1>1, <1>2, <1>4, SeqEqual DEF q
<1> QED BY <1>2, <1>3, <1>4 DEF q

\* Being below: of what is below it too, and of every beginning that is long enough.
LEMMA BelowBelow ==
  ASSUME NEW a \in Seq(STRING), NEW b \in Seq(STRING), NEW c \in Seq(STRING)
  PROVE  /\ Files!Below(a, a)
         /\ Files!Below(a, b) /\ Files!Below(b, c) => Files!Below(a, c)
         /\ Files!Below(a, c) /\ Files!Below(b, c) /\ Len(a) <= Len(b) => Files!Below(a, b)
         /\ Files!Below(a, b) /\ Len(a) = Len(b) => a = b
<1>1. Len(a) \in Nat /\ Len(b) \in Nat /\ Len(c) \in Nat
  BY LenProperties
<1>2. Files!Below(a, a) /\ (Files!Below(a, b) /\ Len(a) = Len(b) => a = b)
  <2>1. Len(a) \in 0..Len(a) /\ Len(b) \in 0..Len(b)
    BY <1>1
  <2>2. SubSeq(a, 1, Len(a)) = a /\ SubSeq(b, 1, Len(b)) = b
    BY <2>1, Beginnings
  <2>3. ASSUME Files!Below(a, b), Len(a) = Len(b) PROVE a = b
    <3>1. SubSeq(b, 1, Len(b)) = a
      BY <2>3 DEF Files!Below
    <3> QED BY <2>2, <3>1
  <2>4. Files!Below(a, a)
    <3>1. Len(a) <= Len(a)
      BY <1>1
    <3> QED BY <2>2, <3>1 DEF Files!Below
  <2> QED BY <2>3, <2>4
<1>3. ASSUME Files!Below(b, c), Len(a) <= Len(b)
      PROVE  Files!Below(a, b) <=> Files!Below(a, c)
  <2>1. Len(b) \in 0..Len(c) /\ Len(a) \in 0..Len(b) /\ Len(a) <= Len(c)
    BY <1>1, <1>3 DEF Files!Below
  <2>2. SubSeq(SubSeq(c, 1, Len(b)), 1, Len(a)) = SubSeq(c, 1, Len(a))
    BY <2>1, Beginnings
  <2>3. SubSeq(b, 1, Len(a)) = SubSeq(c, 1, Len(a))
    BY <1>3, <2>2 DEF Files!Below
  <2> QED BY <1>3, <2>1, <2>3 DEF Files!Below
<1>4. Files!Below(a, b) => Len(a) <= Len(b)
  BY DEF Files!Below
<1>5. ASSUME Files!Below(a, b), Files!Below(b, c) PROVE Files!Below(a, c)
  BY <1>3, <1>4, <1>5
<1>6. ASSUME Files!Below(a, c), Files!Below(b, c), Len(a) <= Len(b) PROVE Files!Below(a, b)
  BY <1>3, <1>6
<1> QED BY <1>2, <1>5, <1>6

\* A place in a directory is below it.
LEMMA PlaceIsBelow ==
  ASSUME NEW d \in Seq(STRING), NEW x \in STRING
  PROVE  Files!Below(d, Append(d, x))
<1>1. Len(d) \in Nat /\ Len(Append(d, x)) = Len(d) + 1 /\ SubSeq(Append(d, x), 1, Len(d)) = d
  BY PlacesIn, LenProperties
<1> QED BY <1>1 DEF Files!Below

\* A path continued by others is below it, and begins as they do.
LEMMA Continued ==
  ASSUME NEW d \in Seq(STRING), NEW e \in Seq(STRING)
  PROVE  /\ d \o e \in Seq(STRING) /\ Len(d \o e) = Len(d) + Len(e)
         /\ Files!Below(d, d \o e)
         /\ \A k \in 0..Len(d) : SubSeq(d \o e, 1, k) = SubSeq(d, 1, k)
         /\ \A k \in 0..Len(e) : SubSeq(d \o e, 1, Len(d) + k) = d \o SubSeq(e, 1, k)
         /\ e # <<>> => Files!Last(d \o e) = e[Len(e)]
<1>1. Len(d) \in Nat /\ Len(e) \in Nat
  BY LenProperties
<1>0. PICK p : p = d \o e
  OBVIOUS
<1>2. p \in Seq(STRING) /\ Len(p) = Len(d) + Len(e)
  <2>1. d \o e \in Seq(STRING)
    BY ConcatProperties
  <2>2. Len(d \o e) = Len(d) + Len(e)
    BY ConcatProperties
  <2> QED BY <1>0, <2>1, <2>2
<1>3. \A i \in 1..Len(p) : p[i] = IF i <= Len(d) THEN d[i] ELSE e[i - Len(d)]
  <2>1. \A i \in 1..Len(d) + Len(e) : (d \o e)[i] = IF i <= Len(d) THEN d[i] ELSE e[i - Len(d)]
    BY ConcatProperties
  <2> QED BY <1>0, <1>2, <2>1
<1>4. ASSUME NEW k \in 0..Len(d) PROVE SubSeq(p, 1, k) = SubSeq(d, 1, k)
  <2>1. k \in 0..Len(p) /\ k \in Nat
    BY <1>1, <1>2
  <2>2. /\ SubSeq(p, 1, k) \in Seq(STRING) /\ Len(SubSeq(p, 1, k)) = k
        /\ \A i \in 1..k : SubSeq(p, 1, k)[i] = p[i]
    BY <1>2, <2>1, Beginnings
  <2>3. /\ SubSeq(d, 1, k) \in Seq(STRING) /\ Len(SubSeq(d, 1, k)) = k
        /\ \A i \in 1..k : SubSeq(d, 1, k)[i] = d[i]
    BY Beginnings
  <2>4. \A i \in 1..k : SubSeq(p, 1, k)[i] = SubSeq(d, 1, k)[i]
    BY <1>1, <1>2, <1>3, <2>1, <2>2, <2>3
  <2> QED BY <2>2, <2>3, <2>4, SeqEqual
<1>5. Files!Below(d, p)
  <2>1. Len(d) \in 0..Len(d) /\ Len(d) <= Len(p)
    BY <1>1, <1>2
  <2>2. SubSeq(p, 1, Len(d)) = d
    BY <1>4, <2>1, Beginnings
  <2> QED BY <2>1, <2>2 DEF Files!Below
<1>6. ASSUME NEW k \in 0..Len(e) PROVE SubSeq(p, 1, Len(d) + k) = d \o SubSeq(e, 1, k)
  <2>0. PICK b : b = SubSeq(e, 1, k)
    OBVIOUS
  <2>1. b \in Seq(STRING) /\ Len(b) = k /\ \A i \in 1..k : b[i] = e[i]
    BY <2>0, Beginnings
  <2>2. Len(d) + k \in 0..Len(p) /\ k \in Nat
    BY <1>1, <1>2
  <2>3. PICK s : s = SubSeq(p, 1, Len(d) + k)
    OBVIOUS
  <2>4. s \in Seq(STRING) /\ Len(s) = Len(d) + k /\ \A i \in 1..Len(d) + k : s[i] = p[i]
    BY <1>2, <2>2, <2>3, Beginnings
  <2>5. PICK c : c = d \o b
    OBVIOUS
  <2>6. c \in Seq(STRING) /\ Len(c) = Len(d) + k
    <3>1. d \o b \in Seq(STRING)
      BY <2>1, ConcatProperties
    <3>2. Len(d \o b) = Len(d) + Len(b)
      BY <2>1, ConcatProperties
    <3> QED BY <2>1, <2>5, <3>1, <3>2
  <2>7. \A i \in 1..Len(d) + k : c[i] = IF i <= Len(d) THEN d[i] ELSE b[i - Len(d)]
    <3>1. \A i \in 1..Len(d) + Len(b) : (d \o b)[i] = IF i <= Len(d) THEN d[i] ELSE b[i - Len(d)]
      BY <2>1, ConcatProperties
    <3> QED BY <2>1, <2>5, <3>1
  <2>8. ASSUME NEW i \in 1..Len(d) + k PROVE s[i] = c[i]
    <3>1. i \in 1..Len(p) /\ (~ (i <= Len(d)) => i - Len(d) \in 1..k)
      BY <1>1, <1>2, <2>2
    <3> QED BY <1>3, <2>1, <2>4, <2>7, <3>1
  <2>9. s = c
    BY <2>4, <2>6, <2>8, SeqEqual
  <2> QED BY <2>0, <2>3, <2>5, <2>9
<1>7. ASSUME e # <<>> PROVE Files!Last(p) = e[Len(e)]
  <2>1. Len(e) # 0
    BY <1>7, EmptySeq
  <2>2. Len(p) \in 1..Len(p) /\ ~ (Len(p) <= Len(d)) /\ Len(p) - Len(d) = Len(e)
    BY <1>1, <1>2, <2>1
  <2> QED BY <1>3, <2>2 DEF Files!Last
<1> QED BY <1>0, <1>2, <1>4, <1>5, <1>6, <1>7, Zenon

\* The middle of a path, and the beginning of that.
LEMMA Middles ==
  ASSUME NEW p \in Seq(STRING), NEW n \in 0..Len(p), NEW m \in n..Len(p)
  PROVE  /\ SubSeq(p, n + 1, m) \in Seq(STRING) /\ Len(SubSeq(p, n + 1, m)) = m - n
         /\ \A i \in 1..m - n : SubSeq(p, n + 1, m)[i] = p[n + i]
         /\ \A k \in 0..m - n : SubSeq(SubSeq(p, n + 1, m), 1, k) = SubSeq(p, n + 1, n + k)
<1>1. n \in Nat /\ m \in Nat /\ Len(p) \in Nat /\ n <= m
  BY LenProperties
<1>2. ASSUME NEW u \in n..Len(p)
      PROVE /\ SubSeq(p, n + 1, u) \in Seq(STRING) /\ Len(SubSeq(p, n + 1, u)) = u - n
            /\ \A i \in 1..u - n : SubSeq(p, n + 1, u)[i] = p[n + i]
  <2>1. u \in Nat /\ n <= u /\ u <= Len(p) /\ n + 1 \in 1..Len(p) + 1 /\ u \in n..Len(p)
    BY <1>1
  <2>2. SubSeq(p, n + 1, u) \in Seq(STRING) /\ Len(SubSeq(p, n + 1, u)) = u - n
    BY <1>1, <2>1
  <2>3. \A i \in 1..u - n : SubSeq(p, n + 1, u)[i] = p[n + i]
    BY <1>1, <2>1
  <2> QED BY <2>2, <2>3
<1>0. PICK q : q = SubSeq(p, n + 1, m)
  OBVIOUS
<1>3. q \in Seq(STRING) /\ Len(q) = m - n /\ \A i \in 1..m - n : q[i] = p[n + i]
  BY <1>0, <1>2
<1>4. ASSUME NEW k \in 0..m - n PROVE SubSeq(q, 1, k) = SubSeq(p, n + 1, n + k)
  <2>0. PICK r : r = SubSeq(p, n + 1, n + k)
    OBVIOUS
  <2>1. n + k \in n..Len(p) /\ n + k - n = k /\ k \in 0..Len(q)
    BY <1>1, <1>3
  <2>2. r \in Seq(STRING) /\ Len(r) = k /\ \A i \in 1..k : r[i] = p[n + i]
    BY <1>2, <2>0, <2>1
  <2>3. PICK s : s = SubSeq(q, 1, k)
    OBVIOUS
  <2>4. s \in Seq(STRING) /\ Len(s) = k /\ \A i \in 1..k : s[i] = q[i]
    BY <1>3, <2>1, <2>3, Beginnings
  <2>5. ASSUME NEW i \in 1..k PROVE s[i] = r[i]
    <3>1. i \in 1..m - n
      BY <1>1
    <3>2. q[i] = p[n + i]
      BY <1>3, <3>1
    <3> QED BY <2>2, <2>4, <3>2
  <2> QED BY <2>0, <2>2, <2>3, <2>4, <2>5, SeqEqual
<1> QED BY <1>0, <1>3, <1>4, Zenon

-------------------------------------------------------------------------------
(* The tree and the writes that change it.                                    *)

\* What FilesAreWhole says, of a tree.
Whole(t) ==
  /\ \A p \in DOMAIN Tree0 : Files!Apart(p) => Files!Exists(t, p) /\ t[p] = Tree0[p]
  /\ \A p \in DOMAIN t \ DOMAIN Tree0 : Files!Apart(p) => Files!Below(Root, p) /\ t[p] = Files!Dir
  /\ \A p \in DOMAIN t :
       t[p].kind = "file" /\ Files!Last(p) \notin Writers =>
         t[p].data \in Contents \/ (p \in DOMAIN Tree0 /\ t[p] = Tree0[p])

\* Directories stay.
Keeps(t, u) == \A p \in DOMAIN t : t[p].kind = "dir" => Files!Exists(u, p) /\ u[p] = t[p]

\* The target of a write: in a directory of the workspace, under a name of its own.
Target(t, p) ==
  \E d \in Places, x \in STRING :
    /\ p = Append(d, x) /\ Files!IsDir(t, d) /\ Files!Below(Root, d)
    /\ x # "AGENTS" /\ x \notin Writers

\* An unfinished content lies under the name of its call, which is on its way or dead.
Temps(t, ws) ==
  \A p \in DOMAIN t :
    Files!Last(p) \in Writers =>
      /\ t[p].kind = "file"
      /\ \/ ws[Files!Last(p)].at = "killed"
         \/ /\ ws[Files!Last(p)].at = "flushing"
            /\ p = Append(Files!Parent(ws[Files!Last(p)].path), Files!Last(p))

\* The root and what is in it.
LEMMA RootIsAPlace ==
  ASSUME NEW t, Closed(t)
  PROVE  Root \in Places /\ Root \in DOMAIN t /\ t[Root].kind = "dir"
BY DEF Closed, Files!IsDir, Files!Exists

\* A tree that keeps its directories and grows in them stays closed.
LEMMA StaysClosed ==
  ASSUME NEW t, Closed(t), NEW u, Keeps(t, u),
         \A p \in DOMAIN u \ DOMAIN t :
           p \in Places /\ \A n \in 1..Len(p) - 1 : Files!IsDir(u, SubSeq(p, 1, n))
  PROVE  Closed(u)
<1>1. \A p : Files!IsDir(t, p) => Files!IsDir(u, p)
  BY DEF Keeps, Files!IsDir, Files!Exists
<1>2. ASSUME NEW p \in DOMAIN u, NEW n \in 1..Len(p) - 1 PROVE Files!IsDir(u, SubSeq(p, 1, n))
  <2>1. CASE p \notin DOMAIN t
    BY <2>1
  <2>2. CASE p \in DOMAIN t
    BY <1>1, <2>2 DEF Closed
  <2> QED BY <2>1, <2>2
<1> QED BY <1>1, <1>2 DEF Closed

\* What lies above a new place of a directory are directories.
LEMMA AboveAreDirs ==
  ASSUME NEW t, Closed(t), NEW d \in Places, NEW x \in STRING, Files!IsDir(t, d)
  PROVE  \A n \in 1..Len(Append(d, x)) - 1 : Files!IsDir(t, SubSeq(Append(d, x), 1, n))
<1>1. d \in Seq(STRING) /\ d \in DOMAIN t
  BY DEF Places, Files!IsDir, Files!Exists
<1>2. Len(Append(d, x)) = Len(d) + 1 /\ Len(d) \in Nat /\ SubSeq(Append(d, x), 1, Len(d)) = d
      /\ \A n \in 1..Len(d) : SubSeq(Append(d, x), 1, n) = SubSeq(d, 1, n)
  BY <1>1, PlacesIn, LenProperties
<1>0. PICK p : p = Append(d, x)
  OBVIOUS
<1>5. Len(p) = Len(d) + 1 /\ Len(d) \in Nat /\ SubSeq(p, 1, Len(d)) = d
      /\ \A n \in 1..Len(d) : SubSeq(p, 1, n) = SubSeq(d, 1, n)
  BY <1>0, <1>2, Zenon
<1> SUFFICES ASSUME NEW n \in 1..Len(p) - 1 PROVE Files!IsDir(t, SubSeq(p, 1, n))
  BY <1>0
<1>3. CASE n = Len(d)
  BY <1>5, <1>3
<1>4. CASE n # Len(d)
  <2>1. n \in 1..Len(d) - 1 /\ n \in 1..Len(d)
    <3>1. Len(p) - 1 = Len(d)
      BY <1>5
    <3>2. n \in 1..Len(d)
      BY <3>1
    <3>3. n \in Nat /\ 1 <= n /\ n <= Len(d) /\ Len(d) \in Nat
      BY <1>5, <3>2
    <3> QED BY <1>4, <3>2, <3>3
  <2>2. Files!IsDir(t, SubSeq(d, 1, n))
    BY <1>1, <2>1 DEF Closed
  <2> QED BY <1>5, <2>1, <2>2
<1> QED BY <1>3, <1>4

\* A file put at a target, or a temporary one beside it: x is the name.
LEMMA FileIsPut ==
  ASSUME NEW t, Closed(t), Whole(t), NEW d \in Places, NEW x \in STRING,
         Files!IsDir(t, d), Files!Below(Root, d), x # "AGENTS",
         NEW u, NEW c, DOMAIN u = DOMAIN t \cup {Append(d, x)}, u[Append(d, x)] = Files!File(c),
         \A p \in DOMAIN t : p # Append(d, x) => u[p] = t[p],
         ~ Files!IsDir(t, Append(d, x)), x \notin Writers => c \in Contents
  PROVE  Closed(u) /\ Whole(u) /\ Keeps(t, u)
<1> DEFINE p == Append(d, x)
<1>1. d \in Seq(STRING) /\ Root \in Seq(STRING)
  BY RootIsAPlace DEF Places
<1>2. p \in Places /\ Files!Last(p) = x
  BY <1>1, PlacesIn
<1>3. Files!Below(Root, p)
  <2>1. Files!Below(d, p)
    BY <1>1, PlaceIsBelow
  <2> QED BY <1>1, <1>2, <2>1, BelowBelow DEF Places
<1>4. \A n \in 1..Len(p) - 1 : Files!IsDir(t, SubSeq(p, 1, n))
  BY AboveAreDirs
<1>5. /\ DOMAIN u = DOMAIN t \cup {p} /\ u[p] = Files!File(c) /\ ~ Files!IsDir(t, p)
      /\ \A q \in DOMAIN t : q # p => u[q] = t[q]
  OBVIOUS
<1> HIDE DEF p
<1>6. Keeps(t, u)
  BY <1>5 DEF Keeps, Files!IsDir, Files!Exists
<1>7. \A n \in 1..Len(p) - 1 : Files!IsDir(u, SubSeq(p, 1, n))
  BY <1>4, <1>6 DEF Keeps, Files!IsDir, Files!Exists
<1>8. Closed(u)
  BY <1>2, <1>5, <1>6, <1>7, StaysClosed
<1>9. ~ Files!Apart(p)
  BY <1>2, <1>3 DEF Files!Apart
<1>10. u[p].kind = "file" /\ u[p].data = c
  BY <1>5 DEF Files!File
<1>11. \A q \in DOMAIN Tree0 : Files!Apart(q) => Files!Exists(u, q) /\ u[q] = Tree0[q]
  BY <1>5, <1>9 DEF Whole, Files!Exists
<1>12. \A q \in DOMAIN u \ DOMAIN Tree0 : Files!Apart(q) => Files!Below(Root, q) /\ u[q] = Files!Dir
  BY <1>5, <1>9 DEF Whole
<1>13. ASSUME NEW q \in DOMAIN u, u[q].kind = "file", Files!Last(q) \notin Writers
       PROVE  u[q].data \in Contents \/ (q \in DOMAIN Tree0 /\ u[q] = Tree0[q])
  <2>1. CASE q = p
    BY <1>2, <1>10, <1>13, <2>1
  <2>2. CASE q # p
    BY <1>5, <1>13, <2>2 DEF Whole
  <2> QED BY <2>1, <2>2
<1>14. Whole(u)
  BY <1>11, <1>12, <1>13 DEF Whole
<1> QED BY <1>6, <1>8, <1>14

\* A temporary file taken away.
LEMMA FileIsTaken ==
  ASSUME NEW t, Closed(t), Whole(t), NEW d \in Places, NEW x \in Writers,
         Files!Below(Root, d), NEW ws, Temps(t, ws), NEW u,
         DOMAIN u = DOMAIN t \ {Append(d, x)}, \A p \in DOMAIN u : u[p] = t[p]
  PROVE  Closed(u) /\ Whole(u) /\ Keeps(t, u) /\ Temps(u, ws)
<1> DEFINE p == Append(d, x)
<1>1. d \in Seq(STRING) /\ Root \in Seq(STRING) /\ x \in STRING /\ x # "AGENTS"
  BY RootIsAPlace, FilesAssumption DEF Places
<1>2. p \in Places /\ Files!Last(p) = x
  BY <1>1, PlacesIn
<1>3. Files!Below(Root, p)
  <2>1. Files!Below(d, p)
    BY <1>1, PlaceIsBelow
  <2> QED BY <1>1, <1>2, <2>1, BelowBelow DEF Places
<1>4. DOMAIN u = DOMAIN t \ {p} /\ \A q \in DOMAIN u : u[q] = t[q]
  OBVIOUS
<1> HIDE DEF p
<1>5. p \in DOMAIN t => t[p].kind = "file"
  BY <1>2 DEF Temps
<1>6. Keeps(t, u)
  BY <1>4, <1>5 DEF Keeps, Files!Exists
<1>7. Closed(u)
  <2>1. DOMAIN u \ DOMAIN t = {}
    BY <1>4
  <2> QED BY <1>6, <2>1, StaysClosed
<1>8. ~ Files!Apart(p)
  BY <1>1, <1>2, <1>3 DEF Files!Apart
<1>9. Whole(u)
  BY <1>4, <1>8 DEF Whole, Files!Exists
<1>10. Temps(u, ws)
  BY <1>4 DEF Temps
<1> QED BY <1>6, <1>7, <1>9, <1>10

\* There is a nearest existing ancestor.
LEMMA NearestIs ==
  ASSUME NEW t, NEW path \in Seq(STRING)
  PROVE  Files!NearestExisting(t, path) \in 0..Len(path)
<1> DEFINE T == {n \in 0..Len(path) : n = 0 \/ Files!Resolves(t, SubSeq(path, 1, n))}
<1>1. Len(path) \in Nat
  BY LenProperties
<1>2. T \subseteq 0..Len(path) /\ T # {}
  <2>1. 0 \in T
    BY <1>1
  <2> QED BY <2>1
<1>3. PICK n \in T : \A m \in n + 1..Len(path) : m \notin T
  BY <1>1, <1>2, GreatestOf
<1>4. n \in 0..Len(path) /\ (n = 0 \/ Files!Resolves(t, SubSeq(path, 1, n)))
  OBVIOUS
<1>5. ASSUME NEW m \in n + 1..Len(path) PROVE ~ Files!Resolves(t, SubSeq(path, 1, m))
  <2>1. m \in 0..Len(path)
    BY <1>1, <1>4
  <2> QED BY <1>3, <2>1
<1> HIDE DEF T
<1>6. \E k \in 0..Len(path) :
        /\ k = 0 \/ Files!Resolves(t, SubSeq(path, 1, k))
        /\ \A m \in k + 1..Len(path) : ~ Files!Resolves(t, SubSeq(path, 1, m))
  BY <1>4, <1>5
<1> QED BY <1>6 DEF Files!NearestExisting

\* What is asked for, under the root.
LEMMA JoinedIs ==
  ASSUME NEW t, Closed(t), NEW raw \in Raws
  PROVE  /\ Files!Joined(raw) \in Seq(STRING) /\ Len(Files!Joined(raw)) \in Nat
         /\ Len(Files!Joined(raw)) > 1
         /\ \A i \in 1..Len(Files!Joined(raw)) : Files!Joined(raw)[i] \notin Writers
         /\ Files!Parent(Files!Joined(raw)) \in Seq(STRING)
         /\ Len(Files!Parent(Files!Joined(raw))) = Len(Files!Joined(raw)) - 1
<1>1. Root \in Seq(STRING) /\ Root # <<>> /\ raw \in Seq(STRING) /\ raw # <<>> /\ Root \in DOMAIN Tree0
  BY RootIsAPlace, FilesAssumption DEF Places, Files!IsDir, Files!Exists
<1>2. Len(Root) \in Nat /\ Len(raw) \in Nat /\ Len(Root) # 0 /\ Len(raw) # 0
  BY <1>1, LenProperties, EmptySeq
<1>3. /\ \A i \in 1..Len(Root) : Root[i] \notin Writers
      /\ \A i \in 1..Len(raw) : raw[i] \notin Writers
  <2>1. DOMAIN Root = 1..Len(Root) /\ DOMAIN raw = 1..Len(raw)
    BY <1>1, LenProperties
  <2>2. \A p \in DOMAIN Tree0 \cup Raws : \A n \in DOMAIN p : p[n] \notin Writers
    BY FilesAssumption
  <2> QED BY <1>1, <2>1, <2>2
<1>0. PICK j : j = Root \o raw
  OBVIOUS
<1>4. j \in Seq(STRING) /\ Len(j) = Len(Root) + Len(raw)
  <2>1. Root \o raw \in Seq(STRING) /\ Len(Root \o raw) = Len(Root) + Len(raw)
    BY <1>1, Continued
  <2> QED BY <1>0, <2>1
<1>5. \A i \in 1..Len(Root) + Len(raw) : j[i] = IF i <= Len(Root) THEN Root[i] ELSE raw[i - Len(Root)]
  <2>1. \A i \in 1..Len(Root) + Len(raw) : (Root \o raw)[i] = IF i <= Len(Root) THEN Root[i] ELSE raw[i - Len(Root)]
    BY <1>1, ConcatProperties
  <2> QED BY <1>0, <2>1
<1>6. ASSUME NEW i \in 1..Len(j) PROVE j[i] \notin Writers
  <2>1. i \in 1..Len(Root) + Len(raw)
    BY <1>4
  <2>2. CASE i <= Len(Root)
    <3>1. i \in 1..Len(Root)
      BY <1>2, <2>2
    <3> QED BY <1>3, <1>5, <2>1, <2>2, <3>1
  <2>3. CASE ~ (i <= Len(Root))
    <3>1. i - Len(Root) \in 1..Len(raw)
      BY <1>2, <2>1, <2>3
    <3> QED BY <1>3, <1>5, <2>1, <2>3, <3>1
  <2> QED BY <2>2, <2>3
<1>7. Len(j) \in Nat /\ Len(j) > 1 /\ Len(j) - 1 \in 0..Len(j)
  BY <1>2, <1>4
<1>8. Files!Parent(j) \in Seq(STRING) /\ Len(Files!Parent(j)) = Len(j) - 1
  BY <1>4, <1>7, Beginnings DEF Files!Parent
<1>9. Files!Joined(raw) = j
  BY <1>0 DEF Files!Joined
<1> QED BY <1>4, <1>6, <1>7, <1>8, <1>9, Zenon

\* The directories a write makes are inside, new, and one in the other.
LEMMA DirsAreMade ==
  ASSUME NEW t, Closed(t), Whole(t), NEW ws, Temps(t, ws), NEW raw \in Raws,
         Files!ParentDirsOk(t, raw), NEW u, u = Files!WithParentDirs(t, raw)
  PROVE  Closed(u) /\ Whole(u) /\ Keeps(t, u) /\ Temps(u, ws)
<1>0. PICK parent : parent = Files!Parent(Files!Joined(raw))
  OBVIOUS
<1>1. PICK n : n = Files!NearestExisting(t, parent)
  OBVIOUS
<1>2. PICK b : b = Files!Base(t, raw)
  OBVIOUS
<1>3. PICK j : j = Files!Joined(raw)
  OBVIOUS
<1>4. /\ j \in Seq(STRING) /\ Len(j) \in Nat /\ Len(j) > 1 /\ (\A i \in 1..Len(j) : j[i] \notin Writers)
      /\ parent \in Seq(STRING) /\ Len(parent) = Len(j) - 1 /\ parent = SubSeq(j, 1, Len(j) - 1)
  BY <1>0, <1>3, JoinedIs DEF Files!Parent
<1>5. n \in 0..Len(parent)
  BY <1>1, <1>4, NearestIs
<1>6. Files!IsDir(t, b) /\ Files!Below(Root, b) /\ b \in Places
  <2>1. SubSeq(parent, 1, n) = SubSeq(j, 1, n)
    <3>1. Len(j) - 1 \in 0..Len(j) /\ n \in 0..Len(j) - 1
      BY <1>4, <1>5
    <3> QED BY <1>4, <3>1, Beginnings
  <2>2. b = Files!Canonical(t, SubSeq(j, 1, n))
    BY <1>0, <1>1, <1>2, <2>1 DEF Files!Base
  <2>3. Files!Inside(t, SubSeq(j, 1, n))
    BY <1>0, <1>1, <1>3 DEF Files!ParentDirsOk
  <2>4. Files!Below(Root, b)
    BY <2>2, <2>3 DEF Files!Inside
  <2>5. Files!IsDir(t, b)
    BY <1>2 DEF Files!ParentDirsOk
  <2> QED BY <2>4, <2>5 DEF Closed, Files!IsDir, Files!Exists
<1>7. PICK made : made = Files!Made(t, raw)
  OBVIOUS
<1>8. made = {b \o SubSeq(parent, n + 1, m) : m \in n + 1..Len(parent)}
  BY <1>0, <1>1, <1>2, <1>7 DEF Files!Made
<1>9. /\ DOMAIN u = DOMAIN t \cup made /\ \A p \in DOMAIN t : u[p] = t[p]
      /\ \A p \in made : u[p] = Files!Dir /\ p \notin DOMAIN t
  <2>1. u = [p \in DOMAIN t \cup made |-> IF p \in DOMAIN t THEN t[p] ELSE Files!Dir]
    BY <1>7 DEF Files!WithParentDirs
  <2>2. \A p \in made : p \notin DOMAIN t
    BY <1>7 DEF Files!ParentDirsOk, Files!Exists
  <2> QED BY <2>1, <2>2
<1>10. Len(b) \in Nat /\ Len(b) # 0 /\ b \in Seq(STRING) /\ Root \in Seq(STRING) /\ Len(parent) \in Nat /\ n \in Nat
  BY <1>4, <1>5, <1>6, RootIsAPlace, LenProperties, EmptySeq DEF Places
<1>11. Keeps(t, u)
  BY <1>9 DEF Keeps, Files!Exists
<1>12. \A p \in made : Files!IsDir(u, p)
  BY <1>9 DEF Files!IsDir, Files!Exists, Files!Dir
<1>13. ASSUME NEW m \in n + 1..Len(parent), NEW p, p = b \o SubSeq(parent, n + 1, m)
       PROVE  /\ p \in Places /\ Files!Below(Root, p) /\ Files!Last(p) \notin Writers
              /\ \A k \in 1..Len(p) - 1 : Files!IsDir(u, SubSeq(p, 1, k))
  <2>0. PICK e : e = SubSeq(parent, n + 1, m)
    OBVIOUS
  <2>1. m \in n..Len(parent) /\ m - n \in Nat /\ m - n # 0 /\ m - n \in 1..m - n /\ n + (m - n) = m /\ m \in 1..Len(j)
    BY <1>4, <1>10
  <2>2. /\ e \in Seq(STRING) /\ Len(e) = m - n /\ (\A i \in 1..m - n : e[i] = parent[n + i])
        /\ \A k \in 0..m - n : SubSeq(e, 1, k) = SubSeq(parent, n + 1, n + k)
    BY <1>4, <1>5, <2>0, <2>1, Middles
  <2>3. e # <<>> /\ e[Len(e)] = parent[m]
    <3>1. e # <<>>
      BY <2>1, <2>2, EmptySeq
    <3>2. e[m - n] = parent[n + (m - n)]
      BY <2>1, <2>2
    <3> QED BY <2>1, <2>2, <3>1, <3>2
  <2>4. /\ p \in Seq(STRING) /\ Len(p) = Len(b) + Len(e) /\ Files!Below(b, p)
        /\ (\A k \in 0..Len(b) : SubSeq(p, 1, k) = SubSeq(b, 1, k))
        /\ (\A k \in 0..Len(e) : SubSeq(p, 1, Len(b) + k) = b \o SubSeq(e, 1, k))
        /\ Files!Last(p) = e[Len(e)]
    <3>1. p = b \o e
      BY <1>13, <2>0
    <3> QED BY <1>10, <2>2, <2>3, <3>1, Continued
  <2>5. p \in Places
    <3>1. Len(p) # 0
      BY <1>10, <2>1, <2>2, <2>4
    <3> QED BY <2>4, <3>1, EmptySeq DEF Places
  <2>6. Files!Below(Root, p)
    BY <1>6, <1>10, <2>4, BelowBelow
  <2>7. Files!Last(p) \notin Writers
    <3>1. parent[m] = j[m]
      <4>1. Len(j) - 1 \in 0..Len(j) /\ m \in 1..Len(j) - 1
        BY <1>4, <2>1
      <4> QED BY <1>4, <4>1, Beginnings
    <3> QED BY <1>4, <2>1, <2>3, <2>4, <3>1
  <2>8. ASSUME NEW k \in 1..Len(p) - 1 PROVE Files!IsDir(u, SubSeq(p, 1, k))
    <3>1. k \in Nat /\ k >= 1 /\ k < Len(b) + (m - n)
      BY <1>10, <2>1, <2>2, <2>4
    <3>2. CASE k <= Len(b)
      <4>1. k \in 0..Len(b)
        BY <3>1, <3>2
      <4>2. SubSeq(p, 1, k) = SubSeq(b, 1, k)
        BY <2>4, <4>1
      <4>3. Files!IsDir(t, SubSeq(b, 1, k))
        <5>1. CASE k = Len(b)
          BY <1>6, <1>10, <4>1, <5>1, Beginnings
        <5>2. CASE k # Len(b)
          <6>1. k \in 1..Len(b) - 1
            BY <1>10, <3>1, <3>2, <5>2
          <6>2. b \in DOMAIN t
            BY <1>6 DEF Files!IsDir, Files!Exists
          <6> QED BY <6>1, <6>2 DEF Closed
        <5> QED BY <5>1, <5>2
      <4> QED BY <1>11, <4>2, <4>3 DEF Keeps, Files!IsDir, Files!Exists
    <3>3. CASE ~ (k <= Len(b))
      <4>0. PICK i : i = k - Len(b)
        OBVIOUS
      <4>1. i \in 1..m - n /\ i \in 0..m - n /\ k = Len(b) + i /\ n + i \in n + 1..Len(parent)
        BY <1>10, <2>1, <3>1, <3>3, <4>0
      <4>2. SubSeq(p, 1, k) = b \o SubSeq(e, 1, i)
        BY <2>2, <2>4, <4>1
      <4>3. SubSeq(p, 1, k) = b \o SubSeq(parent, n + 1, n + i)
        BY <2>2, <4>1, <4>2
      <4>4. SubSeq(p, 1, k) \in made
        BY <1>8, <4>1, <4>3
      <4> QED BY <1>12, <4>4
    <3> QED BY <3>2, <3>3
  <2> QED BY <2>5, <2>6, <2>7, <2>8
<1>14. ASSUME NEW p \in made
       PROVE  /\ p \in Places /\ Files!Below(Root, p) /\ Files!Last(p) \notin Writers
              /\ \A k \in 1..Len(p) - 1 : Files!IsDir(u, SubSeq(p, 1, k))
  <2>1. PICK m \in n + 1..Len(parent) : p = b \o SubSeq(parent, n + 1, m)
    BY <1>8
  <2> QED BY <1>13, <2>1
<1>15. Closed(u)
  BY <1>9, <1>11, <1>14, StaysClosed
<1>16. Whole(u)
  <2>1. \A p \in DOMAIN Tree0 : Files!Apart(p) => Files!Exists(u, p) /\ u[p] = Tree0[p]
    BY <1>9 DEF Whole, Files!Exists
  <2>2. \A p \in DOMAIN u \ DOMAIN Tree0 : Files!Apart(p) => Files!Below(Root, p) /\ u[p] = Files!Dir
    BY <1>9, <1>14 DEF Whole
  <2>3. ASSUME NEW p \in DOMAIN u, u[p].kind = "file", Files!Last(p) \notin Writers
        PROVE  u[p].data \in Contents \/ (p \in DOMAIN Tree0 /\ u[p] = Tree0[p])
    <3>1. p \notin made
      BY <1>9, <2>3 DEF Files!Dir
    <3> QED BY <1>9, <2>3, <3>1 DEF Whole
  <2> QED BY <2>1, <2>2, <2>3 DEF Whole
<1>17. Temps(u, ws)
  BY <1>9, <1>14 DEF Temps
<1> QED BY <1>11, <1>15, <1>16, <1>17

\* A call on its way knows what it writes, and where once that is checked.
WriteFits(t, r) ==
  /\ r = [at |-> r.at, raw |-> r.raw, content |-> r.content, path |-> r.path, old |-> r.old]
  /\ r.at \in {"checking", "reading", "writing", "flushing"} => r.raw \in Raws /\ r.content \in Contents
  /\ r.at \in {"reading", "writing", "flushing"} => Target(t, r.path)

\* What is kept of the tree and of the writes: the tree is closed and whole, unfinished contents lie
\* under names of their own, and each call fits it.
FilesInv ==
  /\ Closed(tree) /\ Whole(tree) /\ Temps(tree, write)
  /\ write = [w \in Writers |-> write[w]] /\ \A w \in Writers : WriteFits(tree, write[w])

\* One call moves, over a tree that keeps its directories.
LEMMA WriterMoves ==
  ASSUME FilesInv, NEW w \in Writers, NEW r, write' = [write EXCEPT ![w] = r],
         Closed(tree'), Whole(tree'), Keeps(tree, tree'), Temps(tree', write'), WriteFits(tree', r)
  PROVE  FilesInv'
<1>1. write' = [v \in Writers |-> IF v = w THEN r ELSE write[v]]
  BY DEF FilesInv
<1>2. ASSUME NEW p, Target(tree, p) PROVE Target(tree', p)
  BY <1>2 DEF Target, Keeps, Files!IsDir, Files!Exists
<1>3. ASSUME NEW v \in Writers PROVE WriteFits(tree', write'[v])
  <2>1. CASE v = w
    BY <1>1, <2>1
  <2>2. CASE v # w
    <3>1. write'[v] = write[v] /\ WriteFits(tree, write[v])
      BY <1>1, <2>2 DEF FilesInv
    <3> QED BY <1>2, <3>1 DEF WriteFits
  <2> QED BY <2>1, <2>2
<1>4. write' = [v \in Writers |-> write'[v]]
  BY <1>1
<1>5. \A v \in Writers : WriteFits(tree, write[v])'
  BY <1>3 DEF WriteFits, Target, Files!IsDir, Files!Exists
<1>6. Closed(tree)' /\ Whole(tree)' /\ Temps(tree, write)'
  BY DEF Closed, Whole, Temps, Files!IsDir, Files!Exists
<1> QED BY <1>4, <1>5, <1>6 DEF FilesInv

\* Nothing of a call that has not begun to write, or is over, lies about.
LEMMA NothingLies ==
  ASSUME FilesInv, NEW w \in Writers, write[w].at \notin {"flushing", "killed"}
  PROVE  \A p \in DOMAIN tree : Files!Last(p) # w
BY DEF FilesInv, Temps

\* What lies about stays accounted for when a call moves that has nothing.
LEMMA TempsStay ==
  ASSUME NEW t, NEW ws, Temps(t, ws), ws = [v \in Writers |-> ws[v]], NEW w \in Writers,
         NEW r, \A p \in DOMAIN t : Files!Last(p) # w
  PROVE  Temps(t, [ws EXCEPT ![w] = r])
<1>1. \A v \in Writers : v # w => [ws EXCEPT ![w] = r][v] = ws[v]
  OBVIOUS
<1> QED BY <1>1 DEF Temps

\* A tree keeps itself.
LEMMA KeepsItself ==
  ASSUME NEW t
  PROVE  Keeps(t, t)
BY DEF Keeps, Files!Exists

\* A write begins: the directories of its path are made.
LEMMA FilesBegin ==
  ASSUME FilesInv, NEW w \in Writers, NEW raw \in Raws, NEW content \in Contents, Files!BeginWrite(w, raw, content)
  PROVE  FilesInv'
<1>0. write[w].at = "idle" /\ \A p \in DOMAIN tree : Files!Last(p) # w
  <2>1. write[w].at = "idle"
    BY DEF Files!BeginWrite
  <2> QED BY <2>1, NothingLies
<1>1. CASE Files!ParentDirsOk(tree, raw)
  <2>0. PICK u : u = Files!WithParentDirs(tree, raw)
    OBVIOUS
  <2>1. PICK r : r = [at |-> "checking", raw |-> raw, content |-> content, path |-> <<>>, old |-> "none"]
    OBVIOUS
  <2>2. tree' = u /\ write' = [write EXCEPT ![w] = r]
    BY <1>1, <2>0, <2>1 DEF Files!BeginWrite, Files!Change, Files!NoWrite
  <2>3. Closed(u) /\ Whole(u) /\ Keeps(tree, u) /\ Temps(u, write)
    BY <1>1, <2>0, DirsAreMade DEF FilesInv
  <2>4. \A p \in DOMAIN u : Files!Last(p) # w
    <3>1. \A p \in DOMAIN u : Files!Last(p) \in Writers => write[Files!Last(p)].at \in {"flushing", "killed"}
      BY <2>3 DEF Temps
    <3> QED BY <1>0, <3>1
  <2>5. Temps(u, [write EXCEPT ![w] = r])
    BY <2>3, <2>4, TempsStay DEF FilesInv
  <2>6. WriteFits(u, r)
    BY <2>1 DEF WriteFits
  <2> QED BY <2>2, <2>3, <2>5, <2>6, WriterMoves
<1>2. CASE ~ Files!ParentDirsOk(tree, raw)
  <2>1. PICK r : r = [at |-> "failed", raw |-> <<>>, content |-> "none", path |-> <<>>, old |-> "none"]
    OBVIOUS
  <2>2. tree' = tree /\ write' = [write EXCEPT ![w] = r]
    BY <1>2, <2>1 DEF Files!BeginWrite, Files!Fail, Files!NoWrite
  <2>3. Temps(tree, [write EXCEPT ![w] = r]) /\ Keeps(tree, tree)
    BY <1>0, TempsStay, KeepsItself DEF FilesInv
  <2>4. WriteFits(tree, r)
    BY <2>1 DEF WriteFits
  <2> QED BY <2>2, <2>3, <2>4, WriterMoves DEF FilesInv
<1> QED BY <1>1, <1>2

\* What is checked is inside, in a directory, and under a name of its own.
LEMMA CheckedIsTarget ==
  ASSUME FilesInv, NEW raw \in Raws, NEW path, path = Files!ResolveCreate(tree, raw), path # Files!Missing,
         ~ Files!Protected(path), Files!IsDir(tree, Files!Parent(path))
  PROVE  Target(tree, path)
<1>0. PICK c : c = Files!Canonical(tree, Files!Parent(Files!Joined(raw)))
  OBVIOUS
<1>1. PICK x : x = Files!Last(raw)
  OBVIOUS
<1>2. path = Append(c, x) /\ Files!Inside(tree, Files!Parent(Files!Joined(raw)))
  BY <1>0, <1>1 DEF Files!ResolveCreate
<1>3. Files!Exists(tree, c) /\ Files!Below(Root, c)
  BY <1>0, <1>2 DEF Files!Inside, Files!Resolves
<1>4. c \in Places /\ c \in Seq(STRING)
  BY <1>3 DEF FilesInv, Closed, Files!Exists, Places
<1>5. x \in STRING /\ x \notin Writers
  <2>1. raw \in Seq(STRING) /\ raw # <<>>
    BY FilesAssumption
  <2>2. Len(raw) \in 1..Len(raw) /\ DOMAIN raw = 1..Len(raw)
    BY <2>1, LenProperties, EmptySeq
  <2>3. x = raw[Len(raw)]
    BY <1>1 DEF Files!Last
  <2>4. raw[Len(raw)] \in STRING
    BY <2>1, <2>2, ElementOfSeq
  <2>5. \A p \in DOMAIN Tree0 \cup Raws : \A n \in DOMAIN p : p[n] \notin Writers
    BY FilesAssumption
  <2> QED BY <2>2, <2>3, <2>4, <2>5
<1>6. Files!Parent(path) = c /\ Files!Last(path) = x
  BY <1>2, <1>4, <1>5, PlacesIn
<1>7. x # "AGENTS"
  BY <1>6 DEF Files!Protected
<1> QED BY <1>2, <1>3, <1>4, <1>5, <1>6, <1>7 DEF Target

\* A call that leaves the tree alone, and has nothing lying about or is killed.
LEMMA CallMoves ==
  ASSUME FilesInv, NEW w \in Writers, NEW r, write' = [write EXCEPT ![w] = r], tree' = tree, WriteFits(tree, r),
         write[w].at \notin {"flushing", "killed"} \/ r.at = "killed"
  PROVE  FilesInv'
<1>1. write = [v \in Writers |-> write[v]] /\ Temps(tree, write)
  BY DEF FilesInv
<1>2. Temps(tree, write')
  <2>1. CASE write[w].at \notin {"flushing", "killed"}
    BY <1>1, <2>1, NothingLies, TempsStay
  <2>2. CASE r.at = "killed"
    <3>1. write'[w] = r /\ \A v \in Writers : v # w => write'[v] = write[v]
      BY <1>1
    <3> QED BY <1>1, <2>2, <3>1 DEF Temps
  <2> QED BY <2>1, <2>2
<1> QED BY <1>2, KeepsItself, WriterMoves DEF FilesInv

\* A write checks its path, reads what is there, or is killed: the tree stays.
LEMMA FilesCheck ==
  ASSUME FilesInv, NEW w \in Writers, Files!CheckWrite(w) \/ Files!ReadOld(w) \/ Files!Kill(w)
  PROVE  FilesInv'
<1>0. write = [v \in Writers |-> write[v]] /\ WriteFits(tree, write[w])
  BY DEF FilesInv
<1>1. CASE Files!CheckWrite(w)
  <2>0. PICK path : path = Files!ResolveCreate(tree, write[w].raw)
    OBVIOUS
  <2>1. write[w].at = "checking" /\ tree' = tree
    BY <1>1 DEF Files!CheckWrite
  <2>2. CASE path = Files!Missing \/ Files!Protected(path) \/ ~ Files!IsDir(tree, Files!Parent(path))
    <3>1. PICK r : r = [at |-> "failed", raw |-> <<>>, content |-> "none", path |-> <<>>, old |-> "none"]
      OBVIOUS
    <3>2. write' = [write EXCEPT ![w] = r]
      BY <1>1, <2>0, <2>2, <3>1 DEF Files!CheckWrite, Files!Fail, Files!NoWrite
    <3>3. WriteFits(tree, r)
      BY <3>1 DEF WriteFits
    <3> QED BY <2>1, <3>2, <3>3, CallMoves
  <2>3. CASE ~ (path = Files!Missing \/ Files!Protected(path) \/ ~ Files!IsDir(tree, Files!Parent(path)))
    <3>1. PICK r : r = [write[w] EXCEPT !.at = "reading", !.path = path]
      OBVIOUS
    <3>2. write' = [write EXCEPT ![w] = r]
      BY <1>1, <2>0, <2>3, <3>1 DEF Files!CheckWrite
    <3>3. write[w].raw \in Raws /\ write[w].content \in Contents
      BY <1>0, <2>1 DEF WriteFits
    <3>4. Target(tree, path)
      BY <2>0, <2>3, <3>3, CheckedIsTarget
    <3>5. r = [at |-> "reading", raw |-> write[w].raw, content |-> write[w].content, path |-> path, old |-> write[w].old]
      BY <1>0, <3>1 DEF WriteFits
    <3>6. WriteFits(tree, r)
      BY <3>3, <3>4, <3>5 DEF WriteFits
    <3> QED BY <2>1, <3>2, <3>6, CallMoves
  <2> QED BY <2>2, <2>3
<1>2. CASE Files!ReadOld(w)
  <2>0. PICK old : old = IF Files!Exists(tree, write[w].path) /\ tree[write[w].path].kind = "file"
                         THEN tree[write[w].path].data ELSE "none"
    OBVIOUS
  <2>1. write[w].at = "reading" /\ tree' = tree
    BY <1>2 DEF Files!ReadOld
  <2>2. PICK r : r = [write[w] EXCEPT !.at = "writing", !.old = old]
    OBVIOUS
  <2>3. write' = [write EXCEPT ![w] = r]
    BY <1>2, <2>0, <2>2 DEF Files!ReadOld
  <2>4. r = [at |-> "writing", raw |-> write[w].raw, content |-> write[w].content, path |-> write[w].path, old |-> old]
    BY <1>0, <2>2 DEF WriteFits
  <2>5. WriteFits(tree, r)
    BY <1>0, <2>1, <2>4 DEF WriteFits
  <2> QED BY <2>1, <2>3, <2>5, CallMoves
<1>3. CASE Files!Kill(w)
  <2>1. PICK r : r = [at |-> "killed", raw |-> <<>>, content |-> "none", path |-> <<>>, old |-> "none"]
    OBVIOUS
  <2>2. write' = [write EXCEPT ![w] = r] /\ tree' = tree
    <3>1. write' = [write EXCEPT ![w] = [Files!NoWrite EXCEPT !.at = "killed"]] /\ tree' = tree
      BY <1>3 DEF Files!Kill
    <3>2. [Files!NoWrite EXCEPT !.at = "killed"] = r
      BY <2>1 DEF Files!NoWrite
    <3> QED BY <3>1, <3>2
  <2>3. WriteFits(tree, r) /\ r.at = "killed"
    BY <2>1 DEF WriteFits
  <2> QED BY <2>2, <2>3, CallMoves
<1> QED BY <1>1, <1>2, <1>3

\* A write puts its content under a name of its own.
LEMMA FilesTemp ==
  ASSUME FilesInv, NEW w \in Writers, Files!WriteTemp(w)
  PROVE  FilesInv'
<1>0. /\ write = [v \in Writers |-> write[v]] /\ WriteFits(tree, write[w]) /\ write[w].at = "writing"
      /\ Closed(tree) /\ Whole(tree) /\ Temps(tree, write) /\ w \in STRING /\ w # "AGENTS"
  BY FilesAssumption DEF FilesInv, Files!WriteTemp
<1>1. PICK d \in Places, x \in STRING :
        /\ write[w].path = Append(d, x) /\ Files!IsDir(tree, d) /\ Files!Below(Root, d)
        /\ x # "AGENTS" /\ x \notin Writers
  BY <1>0 DEF WriteFits, Target
<1>2. d \in Seq(STRING) /\ Files!Parent(write[w].path) = d
  BY <1>1, PlacesIn DEF Places
<1>3. PICK p : p = Append(d, w)
  OBVIOUS
<1>4. Files!TempPath(w) = p
  BY <1>2, <1>3 DEF Files!TempPath
<1>5. p \in Places /\ Files!Last(p) = w
  BY <1>0, <1>2, <1>3, PlacesIn
<1>6. \A q \in DOMAIN tree : Files!Last(q) # w
  BY <1>0, NothingLies
<1>7. p \notin DOMAIN tree
  BY <1>5, <1>6
<1>8. PICK r : r = [write[w] EXCEPT !.at = "flushing"]
  OBVIOUS
<1>9. PICK u : u = [q \in DOMAIN tree \cup {p} |-> IF q = p THEN Files!File("partial") ELSE tree[q]]
  OBVIOUS
<1>10. tree' = u /\ write' = [write EXCEPT ![w] = r]
  BY <1>4, <1>8, <1>9 DEF Files!WriteTemp, Files!Change
<1>11. /\ DOMAIN u = DOMAIN tree \cup {p} /\ u[p] = Files!File("partial")
       /\ \A q \in DOMAIN tree : q # p => u[q] = tree[q]
  BY <1>9
<1>12. ~ Files!IsDir(tree, p)
  BY <1>7 DEF Files!IsDir, Files!Exists
<1>13. Closed(u) /\ Whole(u) /\ Keeps(tree, u)
  <2>1. /\ DOMAIN u = DOMAIN tree \cup {Append(d, w)} /\ u[Append(d, w)] = Files!File("partial")
        /\ (\A q \in DOMAIN tree : q # Append(d, w) => u[q] = tree[q]) /\ ~ Files!IsDir(tree, Append(d, w))
    BY <1>3, <1>11, <1>12
  <2> QED BY <1>0, <1>1, <2>1, FileIsPut
<1>14. r = [at |-> "flushing", raw |-> write[w].raw, content |-> write[w].content, path |-> write[w].path, old |-> write[w].old]
  BY <1>0, <1>8 DEF WriteFits
<1>15. WriteFits(u, r)
  <2>1. Target(u, write[w].path)
    BY <1>1, <1>13 DEF Target, Keeps, Files!IsDir, Files!Exists
  <2> QED BY <1>0, <1>14, <2>1 DEF WriteFits
<1>16. Temps(u, write')
  <2>1. write'[w] = r /\ \A v \in Writers : v # w => write'[v] = write[v]
    BY <1>0, <1>10
  <2>2. r.at = "flushing" /\ r.path = write[w].path
    BY <1>14
  <2>3. u[p].kind = "file"
    BY <1>11 DEF Files!File
  <2>4. p = Append(Files!Parent(write'[w].path), w)
    BY <1>2, <1>3, <2>1, <2>2
  <2> SUFFICES ASSUME NEW q \in DOMAIN u, Files!Last(q) \in Writers
               PROVE  /\ u[q].kind = "file"
                      /\ \/ write'[Files!Last(q)].at = "killed"
                         \/ /\ write'[Files!Last(q)].at = "flushing"
                            /\ q = Append(Files!Parent(write'[Files!Last(q)].path), Files!Last(q))
    BY DEF Temps
  <2>5. CASE q = p
    BY <1>5, <2>1, <2>2, <2>3, <2>4, <2>5
  <2>6. CASE q # p
    <3>1. q \in DOMAIN tree /\ Files!Last(q) # w
      BY <1>6, <1>11, <2>6
    <3>2. u[q] = tree[q] /\ write'[Files!Last(q)] = write[Files!Last(q)]
      BY <1>11, <2>1, <2>6, <3>1
    <3> QED BY <1>0, <3>1, <3>2 DEF Temps
  <2> QED BY <2>5, <2>6
<1> QED BY <1>10, <1>13, <1>15, <1>16, WriterMoves

\* A write renames what it put, or takes it away where a directory is.
LEMMA FilesPersist ==
  ASSUME FilesInv, NEW w \in Writers, Files!Persist(w)
  PROVE  FilesInv'
<1>0. /\ write = [v \in Writers |-> write[v]] /\ WriteFits(tree, write[w]) /\ write[w].at = "flushing"
      /\ Closed(tree) /\ Whole(tree) /\ Temps(tree, write) /\ w \in STRING /\ w # "AGENTS"
  BY FilesAssumption DEF FilesInv, Files!Persist
<1>1. PICK d \in Places, x \in STRING :
        /\ write[w].path = Append(d, x) /\ Files!IsDir(tree, d) /\ Files!Below(Root, d)
        /\ x # "AGENTS" /\ x \notin Writers
  BY <1>0 DEF WriteFits, Target
<1>2. d \in Seq(STRING) /\ Files!Parent(write[w].path) = d /\ Files!Last(write[w].path) = x
  BY <1>1, PlacesIn DEF Places
<1>3. PICK p : p = Append(d, w)
  OBVIOUS
<1>4. Files!TempPath(w) = p
  BY <1>2, <1>3 DEF Files!TempPath
<1>5. PICK rest : rest = [q \in DOMAIN tree \ {p} |-> tree[q]]
  OBVIOUS
<1>6. DOMAIN rest = DOMAIN tree \ {p} /\ \A q \in DOMAIN rest : rest[q] = tree[q]
  BY <1>5
<1>7. Closed(rest) /\ Whole(rest) /\ Keeps(tree, rest) /\ Temps(rest, write)
  <2>1. DOMAIN rest = DOMAIN tree \ {Append(d, w)}
    BY <1>3, <1>6
  <2> QED BY <1>0, <1>1, <1>6, <2>1, FileIsTaken
<1>8. \A q \in DOMAIN rest : Files!Last(q) # w
  <2> SUFFICES ASSUME NEW q \in DOMAIN rest, Files!Last(q) = w PROVE FALSE
    OBVIOUS
  <2>1. q = Append(Files!Parent(write[w].path), w)
    BY <1>0, <1>7 DEF Temps
  <2> QED BY <1>2, <1>3, <1>6, <2>1
<1>9. CASE Files!IsDir(tree, write[w].path)
  <2>1. PICK r : r = [at |-> "failed", raw |-> <<>>, content |-> "none", path |-> <<>>, old |-> "none"]
    OBVIOUS
  <2>2. tree' = rest /\ write' = [write EXCEPT ![w] = r]
    BY <1>4, <1>5, <1>9, <2>1 DEF Files!Persist, Files!Change, Files!Fail, Files!NoWrite
  <2>3. Temps(rest, write')
    BY <1>0, <1>7, <1>8, <2>2, TempsStay
  <2>4. WriteFits(rest, r)
    BY <2>1 DEF WriteFits
  <2> QED BY <1>7, <2>2, <2>3, <2>4, WriterMoves
<1>10. CASE ~ Files!IsDir(tree, write[w].path)
  <2>0. PICK path : path = Append(d, x)
    OBVIOUS
  <2>1. PICK r : r = [write[w] EXCEPT !.at = "done"]
    OBVIOUS
  <2>2. PICK u : u = [q \in DOMAIN rest \cup {path} |-> IF q = path THEN Files!File(write[w].content) ELSE rest[q]]
    OBVIOUS
  <2>3. tree' = u /\ write' = [write EXCEPT ![w] = r]
    <3>1. /\ tree' = [q \in DOMAIN rest \cup {write[w].path} |->
                        IF q = write[w].path THEN Files!File(write[w].content) ELSE rest[q]]
          /\ write' = [write EXCEPT ![w].at = "done"]
      BY <1>4, <1>5, <1>10 DEF Files!Persist, Files!Change
    <3>2. write[w].path = path
      BY <1>1, <2>0
    <3>3. tree' = u
      BY <2>2, <3>1, <3>2
    <3> QED BY <2>1, <3>1, <3>3
  <2>4. /\ DOMAIN u = DOMAIN rest \cup {path} /\ u[path] = Files!File(write[w].content)
        /\ \A q \in DOMAIN rest : q # path => u[q] = rest[q]
    BY <2>2
  <2>5. Files!IsDir(rest, d) /\ ~ Files!IsDir(rest, path) /\ write[w].content \in Contents
    BY <1>0, <1>1, <1>6, <1>7, <1>10, <2>0 DEF Keeps, Files!IsDir, Files!Exists, WriteFits
  <2>6. Closed(u) /\ Whole(u) /\ Keeps(rest, u)
    <3>1. /\ DOMAIN u = DOMAIN rest \cup {Append(d, x)} /\ u[Append(d, x)] = Files!File(write[w].content)
          /\ (\A q \in DOMAIN rest : q # Append(d, x) => u[q] = rest[q]) /\ ~ Files!IsDir(rest, Append(d, x))
      BY <2>0, <2>4, <2>5
    <3> QED BY <1>1, <1>7, <2>5, <3>1, FileIsPut
  <2>7. Keeps(tree, u)
    BY <1>7, <2>6 DEF Keeps, Files!Exists
  <2>8. r.at = "done" /\ r = [at |-> r.at, raw |-> r.raw, content |-> r.content, path |-> r.path, old |-> r.old]
    BY <1>0, <2>1 DEF WriteFits
  <2>9. WriteFits(u, r)
    BY <2>8 DEF WriteFits
  <2>10. Temps(rest, write')
    BY <1>0, <1>7, <1>8, <2>3, TempsStay
  <2>11. Files!Last(path) = x
    BY <1>2, <2>0, PlacesIn
  <2>12. Temps(u, write')
    BY <1>1, <2>4, <2>10, <2>11 DEF Temps
  <2> QED BY <2>3, <2>6, <2>7, <2>9, <2>12, WriterMoves
<1> QED BY <1>9, <1>10

\* The tree at the start, and no write.
LEMMA FilesStart == Files!Init => FilesInv
<1> SUFFICES ASSUME Files!Init PROVE FilesInv
  OBVIOUS
<1>1. tree = Tree0 /\ write = [w \in Writers |-> Files!NoWrite]
  BY DEF Files!Init
<1>2. Closed(Tree0)
  BY FilesAssumption DEF Closed, Places
<1>3. Whole(Tree0)
  BY DEF Whole, Files!Exists
<1>4. Temps(Tree0, write)
  <2> SUFFICES ASSUME NEW p \in DOMAIN Tree0, Files!Last(p) \in Writers PROVE FALSE
    BY DEF Temps
  <2>1. p \in Seq(STRING) /\ p # <<>>
    BY FilesAssumption
  <2>2. Len(p) \in 1..Len(p) /\ DOMAIN p = 1..Len(p)
    BY <2>1, LenProperties, EmptySeq
  <2>3. \A q \in DOMAIN Tree0 \cup Raws : \A n \in DOMAIN q : q[n] \notin Writers
    BY FilesAssumption
  <2> QED BY <2>2, <2>3 DEF Files!Last
<1>5. \A w \in Writers : WriteFits(tree, write[w])
  BY <1>1 DEF WriteFits, Files!NoWrite
<1> QED BY <1>1, <1>2, <1>3, <1>4, <1>5 DEF FilesInv

\* Every step of the file tools keeps the tree closed and whole.
LEMMA FilesStay == FilesInv /\ [Files!Next]_(Files!vars) => FilesInv'
<1> SUFFICES ASSUME FilesInv, [Files!Next]_(Files!vars) PROVE FilesInv'
  OBVIOUS
<1>1. ASSUME tree' = tree /\ write' = write PROVE FilesInv'
  BY <1>1 DEF FilesInv, Closed, Whole, Temps, WriteFits, Target, Files!IsDir, Files!Exists
<1>2. ASSUME NEW w \in Writers, NEW raw \in Raws, NEW content \in Contents, Files!BeginWrite(w, raw, content) PROVE FilesInv'
  BY <1>2, FilesBegin
<1>3. ASSUME NEW w \in Writers,
             Files!CheckWrite(w) \/ Files!ReadOld(w) \/ Files!WriteTemp(w) \/ Files!Persist(w) \/ Files!Kill(w)
      PROVE  FilesInv'
  BY <1>3, FilesCheck, FilesTemp, FilesPersist
<1>4. ASSUME NEW raw, Files!BeginSearch(raw) PROVE FilesInv'
  BY <1>1, <1>4 DEF Files!BeginSearch
<1>5. ASSUME Files!OpenDir \/ Files!EndSearch PROVE FilesInv'
  BY <1>1, <1>5 DEF Files!OpenDir, Files!EndSearch
<1>6. ASSUME NEW p, Files!Visit(p) PROVE FilesInv'
  BY <1>1, <1>6 DEF Files!Visit
<1>7. ASSUME UNCHANGED Files!vars PROVE FilesInv'
  BY <1>1, <1>7 DEF Files!vars
<1> QED BY <1>2, <1>3, <1>4, <1>5, <1>6, <1>7 DEF Files!Next

-------------------------------------------------------------------------------
(* A search.                                                                  *)

\* What a search is made of.
Levels == [dir : Places, depth : Nat]
Stages == {"idle", "walking", "complete", "exhausted", "capped"}
Scans ==
  [at : Stages, from : Seq(STRING), stack : Seq(Levels), left : SUBSET Places, depth : Nat,
   out : Seq(Places), visited : Nat, steady : BOOLEAN]

\* What a search keeps, whatever changes under it.
ScanFits(s) ==
  /\ s \in Scans /\ Len(s.out) <= Cap /\ s.visited <= MaxVisited
  /\ s.at \in {"idle", "walking"} => Len(s.out) < Cap
  /\ \A k \in DOMAIN s.out : Files!Below(Root, s.out[k])
  /\ Files!IsInjective(s.out)

\* Where it stands: below where it began, each directory on its level ...
Stands(s) ==
  /\ s.from \in Places /\ Files!Below(Root, s.from) /\ s.depth <= MaxDepth
  /\ \A i \in DOMAIN s.stack :
       /\ Files!Below(s.from, s.stack[i].dir) /\ s.stack[i].depth <= MaxDepth
       /\ Len(s.stack[i].dir) = Len(s.from) + s.stack[i].depth
  /\ \A p \in s.left : Files!Below(s.from, p) /\ Len(p) = Len(s.from) + s.depth + 1

\* ... and what is still to be looked at lies apart, and apart from what is found.
StandsApart(s) ==
  /\ \A i, j \in DOMAIN s.stack : i # j => ~ Files!Below(s.stack[i].dir, s.stack[j].dir)
  /\ \A i \in DOMAIN s.stack : \A p \in s.left :
       ~ Files!Below(s.stack[i].dir, p) /\ ~ Files!Below(p, s.stack[i].dir)
  /\ \A k \in DOMAIN s.out :
       /\ \A i \in DOMAIN s.stack : ~ Files!Below(s.stack[i].dir, s.out[k])
       /\ \A p \in s.left : ~ Files!Below(p, s.out[k])

\* What it is to find.
Wanted(t, from) == {p \in DOMAIN t : Files!Accepts(t, p) /\ Files!Within(from, p)}

\* Over a tree nobody changes: what is found is wanted, and what is wanted is found
\* or still lies ahead.
Finds(t, s) ==
  /\ \A k \in DOMAIN s.out : s.out[k] \in Wanted(t, s.from)
  /\ \A i \in DOMAIN s.stack : s.stack[i].dir = s.from \/ Files!IsDir(t, s.stack[i].dir)
  /\ \A p \in Wanted(t, s.from) :
       \/ \E k \in DOMAIN s.out : s.out[k] = p
       \/ \E q \in s.left : Files!Below(q, p)
       \/ \E i \in DOMAIN s.stack : Files!Below(s.stack[i].dir, p)

\* What is kept of a search.
ScanInv(t, s) ==
  /\ ScanFits(s)
  /\ s.at = "walking" => Stands(s) /\ StandsApart(s) /\ (s.steady => Finds(t, s))
  /\ s.at = "complete" /\ s.steady => Files!ToSet(s.out) = Wanted(t, s.from)

\* The top of a stack, and what is under it.
LEMMA TopOf ==
  ASSUME NEW S, NEW s \in Seq(S), s # <<>>
  PROVE  /\ Len(s) \in Nat /\ Len(s) \in DOMAIN s /\ DOMAIN s = 1..Len(s)
         /\ Files!Last(s) = s[Len(s)] /\ Files!Last(s) \in S
         /\ Files!Front(s) \in Seq(S) /\ DOMAIN Files!Front(s) = 1..Len(s) - 1
         /\ \A i \in 1..Len(s) - 1 : Files!Front(s)[i] = s[i]
<1>1. Len(s) \in Nat /\ Len(s) # 0 /\ DOMAIN s = 1..Len(s)
  BY LenProperties, EmptySeq
<1>2. Len(s) \in 1..Len(s) /\ Len(s) - 1 \in Nat /\ Len(s) - 1 <= Len(s)
  BY <1>1
<1>3. Files!Last(s) = s[Len(s)] /\ s[Len(s)] \in S
  BY <1>2, ElementOfSeq DEF Files!Last
<1>0. PICK m : m = Len(s) - 1
  OBVIOUS
<1>4. m \in Nat /\ m <= Len(s)
  BY <1>0, <1>2
<1>5. SubSeq(s, 1, m) \in Seq(S) /\ Len(SubSeq(s, 1, m)) = m
  BY <1>1, <1>4
<1>6. \A i \in 1..m : SubSeq(s, 1, m)[i] = s[i]
  BY <1>1, <1>4
<1>7. DOMAIN SubSeq(s, 1, m) = 1..m
  BY <1>5, LenProperties
<1>8. Files!Front(s) = SubSeq(s, 1, m)
  BY <1>0 DEF Files!Front
<1> QED BY <1>0, <1>1, <1>2, <1>3, <1>5, <1>6, <1>7, <1>8

\* What is pushed comes on top.
LEMMA PushedOn ==
  ASSUME NEW S, NEW s \in Seq(S), NEW e \in S
  PROVE  /\ Append(s, e) \in Seq(S) /\ DOMAIN s = 1..Len(s) /\ Len(s) \in Nat
         /\ Len(Append(s, e)) = Len(s) + 1
         /\ DOMAIN Append(s, e) = 1..Len(s) + 1 /\ Append(s, e)[Len(s) + 1] = e
         /\ \A i \in 1..Len(s) : Append(s, e)[i] = s[i]
<1>1. Append(s, e) \in Seq(S) /\ Len(Append(s, e)) = Len(s) + 1 /\ Len(s) \in Nat
  BY AppendedTo
<1>2. Append(s, e)[Len(s) + 1] = e
  BY AppendedTo
<1>3. \A i \in 1..Len(s) : Append(s, e)[i] = s[i]
  BY AppendedTo
<1>4. DOMAIN Append(s, e) = 1..Len(Append(s, e)) /\ DOMAIN s = 1..Len(s)
  BY <1>1, LenProperties
<1> QED BY <1>1, <1>2, <1>3, <1>4, Zenon

\* The path of a directory and one below it: they are the same, or there is an entry
\* of the directory on the way.
LEMMA EntryOnTheWay ==
  ASSUME NEW t, Closed(t), NEW d \in Places, NEW p \in DOMAIN t, Files!Below(d, p), d # p
  PROVE  \E q \in Files!Children(t, d) : Files!Below(q, p)
<1>1. d \in Seq(STRING) /\ p \in Seq(STRING) /\ p \in Places
  BY DEF Closed, Places
<1>2. Len(d) \in Nat /\ Len(p) \in Nat /\ Len(d) <= Len(p) /\ Len(d) # Len(p)
  BY <1>1, BelowBelow, LenProperties DEF Files!Below
<1>3. PICK n : n = Len(d) + 1
  OBVIOUS
<1>4. n \in 0..Len(p) /\ n \in Nat
  BY <1>2, <1>3
<1>5. PICK q : q = SubSeq(p, 1, n)
  OBVIOUS
<1>6. q \in Seq(STRING) /\ Len(q) = n /\ (n = Len(p) => q = p)
      /\ \A m \in 0..n : SubSeq(q, 1, m) = SubSeq(p, 1, m)
  BY <1>1, <1>4, <1>5, Beginnings
<1>7. q \in DOMAIN t
  <2>1. CASE n = Len(p)
    BY <1>6, <2>1
  <2>2. CASE n # Len(p)
    <3>1. n \in 1..Len(p) - 1
      BY <1>2, <1>3, <1>4, <2>2
    <3> QED BY <1>5, <3>1 DEF Closed, Files!IsDir, Files!Exists
  <2> QED BY <2>1, <2>2
<1>8. Files!Below(d, q)
  <2>1. Len(d) \in 0..n /\ Len(d) <= Len(q)
    BY <1>2, <1>3, <1>6
  <2>2. SubSeq(q, 1, Len(d)) = d
    BY <1>6, <2>1 DEF Files!Below
  <2> QED BY <2>1, <2>2 DEF Files!Below
<1>9. Files!Below(q, p)
  <2>1. Len(q) <= Len(p)
    BY <1>4, <1>6
  <2> QED BY <1>5, <1>6, <2>1 DEF Files!Below
<1> QED BY <1>3, <1>6, <1>7, <1>8, <1>9 DEF Files!Children

\* Nothing lies below a file but itself.
LEMMA NothingBelowFiles ==
  ASSUME NEW t, Closed(t), NEW q \in Places, NEW p \in DOMAIN t, Files!Below(q, p), q # p
  PROVE  Files!IsDir(t, q)
<1>1. q \in Seq(STRING) /\ p \in Seq(STRING)
  BY DEF Closed, Places
<1>2. Len(q) \in Nat /\ Len(p) \in Nat /\ Len(q) <= Len(p) /\ Len(q) # Len(p) /\ Len(q) # 0
  BY <1>1, BelowBelow, LenProperties, EmptySeq DEF Files!Below, Places
<1>3. Len(q) \in 1..Len(p) - 1
  BY <1>2
<1> QED BY <1>3 DEF Files!Below, Closed

\* A search of such parts is one.
LEMMA ScanIs ==
  ASSUME NEW at \in Stages, NEW from \in Seq(STRING), NEW stack \in Seq(Levels), NEW left \in SUBSET Places,
         NEW depth \in Nat, NEW out \in Seq(Places), NEW visited \in Nat, NEW steady \in BOOLEAN
  PROVE  [at |-> at, from |-> from, stack |-> stack, left |-> left, depth |-> depth, out |-> out,
          visited |-> visited, steady |-> steady] \in Scans
BY DEF Scans

\* A search begins with the one directory it is asked for.
LEMMA SearchBegins ==
  ASSUME NEW t, Closed(t), NEW c, c \in DOMAIN t, Files!Below(Root, c), NEW s,
         s = [at |-> "walking", from |-> c, stack |-> Append(<<>>, [dir |-> c, depth |-> 0]), left |-> {},
              depth |-> 0, out |-> <<>>, visited |-> 0, steady |-> TRUE]
  PROVE  ScanInv(t, s)
<1>1. c \in Places /\ c \in Seq(STRING)
  BY DEF Closed, Places
<1>2. PICK e : e = [dir |-> c, depth |-> 0]
  OBVIOUS
<1>3. e \in Levels /\ e.dir = c /\ e.depth = 0
  BY <1>1, <1>2 DEF Levels
<1>4. PICK stack : stack = Append(<<>>, e)
  OBVIOUS
<1>5. stack \in Seq(Levels) /\ DOMAIN stack = 1..1 /\ stack[1] = e
  <2>1. <<>> \in Seq(Levels) /\ Len(<<>>) = 0
    BY EmptySeq
  <2> QED BY <1>3, <1>4, <2>1, PushedOn
<1>6. /\ s.at = "walking" /\ s.from = c /\ s.stack = stack /\ s.left = {} /\ s.depth = 0 /\ s.out = <<>>
      /\ s.visited = 0 /\ s.steady = TRUE
  BY <1>2, <1>4
<1>7. s \in Scans
  <2>1. s = [at |-> "walking", from |-> c, stack |-> stack, left |-> {},
              depth |-> 0, out |-> <<>>, visited |-> 0, steady |-> TRUE]
    BY <1>2, <1>4
  <2>2. <<>> \in Seq(Places)
    BY EmptySeq
  <2>3. {} \in SUBSET Places /\ 0 \in Nat /\ TRUE \in BOOLEAN
    OBVIOUS
  <2>4. "walking" \in Stages
    BY DEF Stages
  <2>5. PICK none : none = <<>> /\ none \in Seq(Places)
    BY <2>2
  <2>6. PICK left : left = {} /\ left \in SUBSET Places
    BY <2>3
  <2>7. s = [at |-> "walking", from |-> c, stack |-> stack, left |-> left,
              depth |-> 0, out |-> none, visited |-> 0, steady |-> TRUE]
    BY <2>1, <2>5, <2>6
  <2> QED BY <1>1, <1>5, <2>3, <2>4, <2>5, <2>6, <2>7 DEF Scans
<1>8. DOMAIN s.out = {} /\ Len(s.out) = 0
  BY <1>6
<1>9. ScanFits(s)
  <2>1. Cap \in Nat /\ Cap # 0 /\ MaxVisited \in Nat
    BY FilesAssumption
  <2>2. Len(s.out) <= Cap /\ Len(s.out) < Cap /\ s.visited <= MaxVisited
    BY <1>6, <1>8, <2>1
  <2>3. Files!IsInjective(s.out)
    BY <1>8 DEF Files!IsInjective
  <2> QED BY <1>7, <1>8, <2>2, <2>3 DEF ScanFits
<1>10. Files!Below(c, c) /\ Len(c) = Len(c) + 0 /\ MaxDepth \in Nat /\ 0 <= MaxDepth
  BY <1>1, BelowBelow, LenProperties, FilesAssumption
<1>11. \A i \in DOMAIN s.stack : i = 1 /\ s.stack[i] = e
  BY <1>5, <1>6
<1>12. Stands(s)
  BY <1>1, <1>3, <1>6, <1>10, <1>11 DEF Stands
<1>13. StandsApart(s)
  BY <1>6, <1>8, <1>11 DEF StandsApart
<1>14. Finds(t, s)
  <2>1. \A p \in Wanted(t, c) : \E i \in DOMAIN s.stack : Files!Below(s.stack[i].dir, p)
    <3>1. 1 \in DOMAIN s.stack
      BY <1>5, <1>6
    <3> QED BY <1>3, <1>11, <3>1 DEF Wanted, Files!Within
  <2> QED BY <1>3, <1>6, <1>8, <1>11, <2>1 DEF Finds
<1> QED BY <1>6, <1>9, <1>12, <1>13, <1>14 DEF ScanInv

\* The directory on top is read: its entries are left, those under it stay.
LEMMA SearchOpens ==
  ASSUME NEW t, Closed(t), NEW s, ScanInv(t, s), s.at = "walking", s.left = {}, s.stack # <<>>,
         NEW n \in Scans, n.at = s.at, n.from = s.from, n.out = s.out, n.visited = s.visited, n.steady = s.steady,
         n.stack = Files!Front(s.stack), n.depth = Files!Last(s.stack).depth,
         n.left = Files!Children(t, Files!Last(s.stack).dir)
  PROVE  ScanInv(t, n)
<1>0. s \in Scans /\ s.stack \in Seq(Levels)
  BY DEF ScanInv, ScanFits, Scans
<1>1. PICK top : top = Files!Last(s.stack)
  OBVIOUS
<1>2. PICK d : d = top.dir
  OBVIOUS
<1>3. PICK m : m = Len(s.stack)
  OBVIOUS
<1>4. PICK rest : rest = Files!Front(s.stack)
  OBVIOUS
<1>5. /\ m \in Nat /\ m \in DOMAIN s.stack /\ DOMAIN s.stack = 1..m /\ top = s.stack[m] /\ top \in Levels
      /\ rest \in Seq(Levels) /\ DOMAIN rest = 1..m - 1 /\ \A i \in 1..m - 1 : rest[i] = s.stack[i]
  BY <1>0, <1>1, <1>3, <1>4, TopOf
<1>6. d \in Places /\ top.depth \in Nat /\ d \in Seq(STRING)
  BY <1>2, <1>5 DEF Levels, Places
<1>7. PICK ps : ps = Files!Children(t, d)
  OBVIOUS
<1>8. /\ ps \subseteq Places /\ ps \subseteq DOMAIN t
      /\ \A p \in ps : Len(p) = Len(d) + 1 /\ Files!Below(d, p) /\ p \in Seq(STRING)
  BY <1>7 DEF Files!Children, Closed, Places
<1>9. /\ n.at = s.at /\ n.from = s.from /\ n.stack = rest /\ n.left = ps /\ n.depth = top.depth /\ n.out = s.out
      /\ n.visited = s.visited /\ n.steady = s.steady /\ n \in Scans
  BY <1>1, <1>2, <1>4, <1>7
<1>10. ScanFits(n)
  BY <1>9 DEF ScanInv, ScanFits
<1>11. Stands(s) /\ StandsApart(s) /\ s.from \in Seq(STRING) /\ s.from \in Places
  BY DEF ScanInv, Stands, Places
<1>12. /\ Files!Below(s.from, d) /\ top.depth <= MaxDepth /\ Len(d) = Len(s.from) + top.depth
  BY <1>2, <1>5, <1>11 DEF Stands
<1>13. \A i \in DOMAIN rest : i \in DOMAIN s.stack /\ i # m /\ rest[i] = s.stack[i]
  BY <1>5
<1>14. \A p \in ps : Files!Below(s.from, p) /\ Len(p) = Len(s.from) + top.depth + 1
  BY <1>6, <1>8, <1>11, <1>12, BelowBelow
<1>15. Stands(n)
  <2>1. \A i \in DOMAIN rest :
          /\ Files!Below(s.from, rest[i].dir) /\ rest[i].depth <= MaxDepth
          /\ Len(rest[i].dir) = Len(s.from) + rest[i].depth
    BY <1>11, <1>13 DEF Stands
  <2>2. Files!Below(Root, s.from)
    BY <1>11 DEF Stands
  <2> QED BY <1>9, <1>11, <1>12, <1>14, <2>1, <2>2 DEF Stands
<1>16. \A i \in DOMAIN s.stack : s.stack[i].dir \in Seq(STRING)
  <2>1. \A i \in 1..m : s.stack[i] \in Levels
    BY <1>0, <1>3, ElementOfSeq
  <2> QED BY <1>5, <2>1 DEF Levels, Places
<1>17. ASSUME NEW i \in DOMAIN rest, NEW p \in ps
       PROVE  ~ Files!Below(rest[i].dir, p) /\ ~ Files!Below(p, rest[i].dir)
  <2>0. PICK e : e = rest[i].dir
    OBVIOUS
  <2>1. e \in Seq(STRING) /\ ~ Files!Below(e, d) /\ ~ Files!Below(d, e)
    BY <1>2, <1>5, <1>11, <1>13, <1>16, <2>0 DEF StandsApart
  <2>2. p \in Seq(STRING) /\ Files!Below(d, p) /\ Len(p) = Len(d) + 1
    BY <1>8
  <2>3. ~ Files!Below(p, e)
    BY <1>6, <2>1, <2>2, BelowBelow
  <2>4. ASSUME Files!Below(e, p) PROVE FALSE
    <3>1. Len(e) \in Nat /\ Len(d) \in Nat
      BY <1>6, <2>1, LenProperties
    <3>2. CASE Len(e) <= Len(d)
      BY <1>6, <2>1, <2>2, <2>4, <3>2, BelowBelow
    <3>3. CASE Len(d) <= Len(e)
      BY <1>6, <2>1, <2>2, <2>4, <3>3, BelowBelow
    <3> QED BY <3>1, <3>2, <3>3
  <2> QED BY <2>0, <2>3, <2>4
<1>18. \A k \in DOMAIN s.out : s.out[k] \in Seq(STRING)
  <2>1. s.out \in Seq(Places)
    BY <1>0 DEF Scans
  <2>2. DOMAIN s.out = 1..Len(s.out)
    BY <2>1, LenProperties
  <2>3. \A k \in 1..Len(s.out) : s.out[k] \in Places
    BY <2>1, ElementOfSeq
  <2> QED BY <2>2, <2>3 DEF Places
<1>19. ASSUME NEW k \in DOMAIN s.out, NEW p \in ps PROVE ~ Files!Below(p, s.out[k])
  <2>1. ~ Files!Below(d, s.out[k]) /\ s.out[k] \in Seq(STRING)
    BY <1>2, <1>5, <1>11, <1>18 DEF StandsApart
  <2>2. p \in Seq(STRING) /\ Files!Below(d, p)
    BY <1>8
  <2> QED BY <1>6, <2>1, <2>2, BelowBelow
<1>20. StandsApart(n)
  <2>1. \A i, j \in DOMAIN rest : i # j => ~ Files!Below(rest[i].dir, rest[j].dir)
    BY <1>11, <1>13 DEF StandsApart
  <2>2. \A k \in DOMAIN s.out : \A i \in DOMAIN rest : ~ Files!Below(rest[i].dir, s.out[k])
    BY <1>11, <1>13 DEF StandsApart
  <2> QED BY <1>9, <1>17, <1>19, <2>1, <2>2 DEF StandsApart
<1>21. ASSUME s.steady PROVE Finds(t, n)
  <2>0. Finds(t, s)
    BY <1>21 DEF ScanInv
  <2>1. \A i \in DOMAIN rest : rest[i].dir = s.from \/ Files!IsDir(t, rest[i].dir)
    BY <1>13, <2>0 DEF Finds
  <2>2. ASSUME NEW p \in Wanted(t, s.from)
        PROVE  \/ \E k \in DOMAIN s.out : s.out[k] = p
               \/ \E q \in ps : Files!Below(q, p)
               \/ \E i \in DOMAIN rest : Files!Below(rest[i].dir, p)
    <3>1. CASE \E k \in DOMAIN s.out : s.out[k] = p
      BY <3>1
    <3>2. ASSUME NEW i \in DOMAIN s.stack, Files!Below(s.stack[i].dir, p), i # m
          PROVE  \E j \in DOMAIN rest : Files!Below(rest[j].dir, p)
      <4>1. i \in DOMAIN rest
        BY <1>5, <3>2
      <4> QED BY <1>13, <3>2, <4>1
    <3>3. CASE Files!Below(d, p)
      <4>1. p \in DOMAIN t /\ t[p].kind = "file" /\ Files!Within(s.from, p)
        BY DEF Wanted, Files!Accepts
      <4>2. d # p
        <5>1. CASE d = s.from
          <6>1. Len(p) - Len(s.from) \in 1..MaxDepth + 1
            BY <4>1 DEF Files!Within
          <6>2. Len(d) \in Nat
            BY <1>6, LenProperties
          <6> QED BY <5>1, <6>1, <6>2
        <5>2. CASE Files!IsDir(t, d)
          BY <4>1, <5>2 DEF Files!IsDir
        <5> QED BY <1>2, <1>5, <2>0, <5>1, <5>2 DEF Finds
      <4> QED BY <1>6, <1>7, <3>3, <4>1, <4>2, EntryOnTheWay
    <3>4. \/ \E k \in DOMAIN s.out : s.out[k] = p
          \/ \E i \in DOMAIN s.stack : Files!Below(s.stack[i].dir, p)
      BY <2>0 DEF Finds
    <3> QED BY <1>2, <1>5, <3>1, <3>2, <3>3, <3>4
  <2>3. \A k \in DOMAIN s.out : s.out[k] \in Wanted(t, s.from)
    BY <2>0 DEF Finds
  <2> QED BY <1>9, <2>1, <2>2, <2>3 DEF Finds
<1> QED BY <1>9, <1>10, <1>15, <1>20, <1>21 DEF ScanInv

\* An entry that is left: where it is, and that the others lie apart from it.
LEMMA EntryIs ==
  ASSUME NEW t, NEW s, ScanInv(t, s), s.at = "walking", NEW p \in s.left
  PROVE  /\ p \in Places /\ p \in Seq(STRING) /\ Len(p) \in Nat /\ s.from \in Seq(STRING) /\ Len(s.from) \in Nat
         /\ s.depth \in Nat /\ Files!Below(s.from, p) /\ Len(p) = Len(s.from) + s.depth + 1 /\ Files!Below(Root, p)
         /\ \A q \in s.left : q # p => ~ Files!Below(p, q) /\ ~ Files!Below(q, p)
         /\ Files!Below(p, p) /\ \A q \in s.left : q \in Places /\ q \in Seq(STRING)
<1>1. s \in Scans /\ Stands(s)
  BY DEF ScanInv, ScanFits
<1>2. s.left \subseteq Places /\ s.depth \in Nat /\ s.from \in Seq(STRING)
  BY <1>1 DEF Scans
<1>3. \A q \in s.left : q \in Seq(STRING) /\ q \in Places /\ Len(q) = Len(s.from) + s.depth + 1 /\ Files!Below(s.from, q)
  BY <1>1, <1>2 DEF Stands, Places
<1>4. Len(p) \in Nat /\ Len(s.from) \in Nat
  BY <1>2, <1>3, LenProperties
<1>5. \A q \in s.left : q # p => ~ Files!Below(p, q) /\ ~ Files!Below(q, p)
  BY <1>3, BelowBelow
<1>6. Files!Below(p, p)
  BY <1>3, BelowBelow
<1>7. Files!Below(Root, p)
  <2>1. Root \in Seq(STRING)
    BY FilesAssumption DEF Files!IsDir, Files!Exists
  <2>2. Files!Below(Root, s.from)
    BY <1>1 DEF Stands
  <2> QED BY <1>2, <1>3, <2>1, <2>2, BelowBelow
<1> QED BY <1>2, <1>3, <1>4, <1>5, <1>6, <1>7

\* An entry that is passed over: too deep, or nothing that is looked for.
LEMMA SearchPasses ==
  ASSUME NEW t, Closed(t), NEW s, ScanInv(t, s), s.at = "walking", NEW p \in s.left, s.visited < MaxVisited,
         NEW n \in Scans, n.at = s.at, n.from = s.from, n.out = s.out, n.visited = s.visited + 1, n.steady = s.steady,
         n.stack = s.stack, n.depth = s.depth, n.left = s.left \ {p},
         Files!IsDir(t, p) => s.depth >= MaxDepth, ~ Files!IsDir(t, p) => ~ Files!Accepts(t, p)
  PROVE  ScanInv(t, n)
<1>1. /\ p \in Places /\ p \in Seq(STRING) /\ Len(p) \in Nat /\ Len(s.from) \in Nat
      /\ s.depth \in Nat /\ Len(p) = Len(s.from) + s.depth + 1
  BY EntryIs
<1>2. ScanFits(n)
  <2>1. s.visited \in Nat /\ MaxVisited \in Nat
    BY FilesAssumption DEF ScanInv, ScanFits, Scans
  <2>2. n.visited <= MaxVisited
    BY <2>1
  <2> QED BY <2>2 DEF ScanInv, ScanFits
<1>3. Stands(n) /\ StandsApart(n)
  BY DEF ScanInv, Stands, StandsApart
<1>4. ASSUME s.steady PROVE Finds(t, n)
  <2>0. Finds(t, s)
    BY <1>4 DEF ScanInv
  <2>1. ASSUME NEW w \in Wanted(t, s.from), Files!Below(p, w) PROVE FALSE
    <3>1. w \in DOMAIN t /\ Files!Accepts(t, w) /\ Files!Within(s.from, w) /\ t[w].kind = "file"
      BY DEF Wanted, Files!Accepts
    <3>2. p # w
      BY <3>1 DEF Files!IsDir
    <3>3. Files!IsDir(t, p)
      BY <1>1, <2>1, <3>1, <3>2, NothingBelowFiles
    <3>4. w \in Seq(STRING)
      BY <3>1 DEF Closed, Places
    <3>5. Len(w) \in Nat /\ Len(p) <= Len(w) /\ Len(p) # Len(w)
      BY <1>1, <2>1, <3>2, <3>4, BelowBelow, LenProperties DEF Files!Below
    <3>6. MaxDepth \in Nat
      BY FilesAssumption
    <3>7. Len(w) - Len(s.from) \in 1..MaxDepth + 1
      BY <3>1 DEF Files!Within
    <3>8. Len(w) - Len(s.from) <= MaxDepth + 1
      BY <3>6, <3>7
    <3>9. s.depth >= MaxDepth
      BY <3>3
    <3>10. ASSUME NEW a \in Nat, NEW b \in Nat, NEW c \in Nat, NEW e \in Nat, NEW m \in Nat,
                  a = b + c + 1, a <= e, a # e, e - b <= m + 1, c >= m
           PROVE  FALSE
      BY <3>10
    <3> QED BY <1>1, <3>5, <3>6, <3>8, <3>9, <3>10
  <2> QED BY <2>0, <2>1 DEF Finds
<1> QED BY <1>2, <1>3, <1>4 DEF ScanInv

\* A directory that is gone into.
LEMMA SearchDescends ==
  ASSUME NEW t, Closed(t), NEW s, ScanInv(t, s), s.at = "walking", NEW p \in s.left, s.visited < MaxVisited,
         NEW n \in Scans, n.at = s.at, n.from = s.from, n.out = s.out, n.visited = s.visited + 1, n.steady = s.steady,
         n.stack = Append(s.stack, [dir |-> p, depth |-> s.depth + 1]), n.depth = s.depth, n.left = s.left \ {p},
         Files!IsDir(t, p), s.depth < MaxDepth
  PROVE  ScanInv(t, n)
<1>1. /\ p \in Places /\ p \in Seq(STRING) /\ Len(p) \in Nat /\ Len(s.from) \in Nat
      /\ s.depth \in Nat /\ Len(p) = Len(s.from) + s.depth + 1 /\ Files!Below(s.from, p)
      /\ \A q \in s.left : q # p => ~ Files!Below(p, q) /\ ~ Files!Below(q, p)
  BY EntryIs
<1>2. ScanFits(n)
  <2>1. s.visited \in Nat /\ MaxVisited \in Nat
    BY FilesAssumption DEF ScanInv, ScanFits, Scans
  <2>2. n.visited <= MaxVisited
    BY <2>1
  <2> QED BY <2>2 DEF ScanInv, ScanFits
<1>3. PICK e : e = [dir |-> p, depth |-> s.depth + 1]
  OBVIOUS
<1>4. e \in Levels /\ e.dir = p /\ e.depth = s.depth + 1
  BY <1>1, <1>3 DEF Levels
<1>5. PICK m : m = Len(s.stack)
  OBVIOUS
<1>6. PICK stack : stack = Append(s.stack, e)
  OBVIOUS
<1>7. /\ DOMAIN s.stack = 1..m /\ m \in Nat /\ DOMAIN stack = 1..m + 1 /\ stack[m + 1] = e
      /\ \A i \in 1..m : stack[i] = s.stack[i]
  <2>1. s.stack \in Seq(Levels)
    BY DEF ScanInv, ScanFits, Scans
  <2> QED BY <1>4, <1>5, <1>6, <2>1, PushedOn
<1>8. \A i \in DOMAIN stack : (i \in DOMAIN s.stack /\ stack[i] = s.stack[i]) \/ (i = m + 1 /\ stack[i] = e)
  BY <1>7
<1>9. n.stack = stack
  BY <1>3, <1>6
<1>10. m + 1 \in DOMAIN stack /\ m + 1 \notin DOMAIN s.stack /\ \A i \in DOMAIN s.stack : i \in DOMAIN stack /\ stack[i] = s.stack[i]
  BY <1>7
<1>11. Stands(s) /\ StandsApart(s)
  BY DEF ScanInv
<1>12. Stands(n)
  <2>0. MaxDepth \in Nat
    BY FilesAssumption
  <2>1. s.depth + 1 <= MaxDepth /\ Len(p) = Len(s.from) + (s.depth + 1)
    BY <1>1, <2>0
  <2>2. \A i \in DOMAIN stack :
          /\ Files!Below(s.from, stack[i].dir) /\ stack[i].depth <= MaxDepth
          /\ Len(stack[i].dir) = Len(s.from) + stack[i].depth
    BY <1>1, <1>4, <1>8, <1>11, <2>1 DEF Stands
  <2> QED BY <1>9, <1>11, <2>2 DEF Stands
<1>13. StandsApart(n)
  <2>1. ASSUME NEW i \in DOMAIN stack, NEW j \in DOMAIN stack, i # j
        PROVE  ~ Files!Below(stack[i].dir, stack[j].dir)
    BY <1>4, <1>8, <1>11, <2>1 DEF StandsApart
  <2>2. ASSUME NEW i \in DOMAIN stack, NEW q \in s.left \ {p}
        PROVE  ~ Files!Below(stack[i].dir, q) /\ ~ Files!Below(q, stack[i].dir)
    BY <1>1, <1>4, <1>8, <1>11 DEF StandsApart
  <2>3. ASSUME NEW k \in DOMAIN s.out
        PROVE  /\ \A i \in DOMAIN stack : ~ Files!Below(stack[i].dir, s.out[k])
               /\ \A q \in s.left \ {p} : ~ Files!Below(q, s.out[k])
    BY <1>4, <1>8, <1>11 DEF StandsApart
  <2> QED BY <1>9, <2>1, <2>2, <2>3 DEF StandsApart
<1>14. ASSUME s.steady PROVE Finds(t, n)
  <2>0. Finds(t, s)
    BY <1>14 DEF ScanInv
  <2>1. \A i \in DOMAIN stack : stack[i].dir = s.from \/ Files!IsDir(t, stack[i].dir)
    BY <1>4, <1>8, <2>0 DEF Finds
  <2>2. ASSUME NEW w \in Wanted(t, s.from)
        PROVE  \/ \E k \in DOMAIN s.out : s.out[k] = w
               \/ \E q \in s.left \ {p} : Files!Below(q, w)
               \/ \E i \in DOMAIN stack : Files!Below(stack[i].dir, w)
    <3>1. CASE Files!Below(p, w)
      BY <1>4, <1>7, <1>10, <3>1
    <3>2. CASE ~ Files!Below(p, w)
      BY <1>10, <2>0, <3>2 DEF Finds
    <3> QED BY <3>1, <3>2
  <2> QED BY <1>9, <2>0, <2>1, <2>2 DEF Finds
<1> QED BY <1>2, <1>12, <1>13, <1>14 DEF ScanInv

\* A file that is found, the last that is given or not.
LEMMA SearchFinds ==
  ASSUME NEW t, Closed(t), NEW s, ScanInv(t, s), s.at = "walking", NEW p \in s.left, s.visited < MaxVisited,
         NEW n \in Scans, n.from = s.from, n.out = Append(s.out, p), n.visited = s.visited + 1, n.steady = s.steady,
         n.stack = s.stack, n.depth = s.depth, n.left = s.left \ {p},
         ~ Files!IsDir(t, p), Files!Accepts(t, p), n.at = IF Len(n.out) >= Cap THEN "capped" ELSE s.at
  PROVE  ScanInv(t, n)
<1>1. /\ p \in Places /\ p \in Seq(STRING) /\ Len(p) \in Nat /\ Len(s.from) \in Nat
      /\ s.depth \in Nat /\ Len(p) = Len(s.from) + s.depth + 1 /\ Files!Below(s.from, p) /\ Files!Below(Root, p)
      /\ (\A q \in s.left : q # p => ~ Files!Below(p, q) /\ ~ Files!Below(q, p)) /\ Files!Below(p, p)
  BY EntryIs
<1>2. PICK m : m = Len(s.out)
  OBVIOUS
<1>3. PICK out : out = Append(s.out, p)
  OBVIOUS
<1>4. /\ DOMAIN s.out = 1..m /\ m \in Nat /\ DOMAIN out = 1..m + 1 /\ out[m + 1] = p /\ Len(out) = m + 1
      /\ \A i \in 1..m : out[i] = s.out[i]
  <2>1. s.out \in Seq(Places)
    BY DEF ScanInv, ScanFits, Scans
  <2> QED BY <1>1, <1>2, <1>3, <2>1, PushedOn
<1>5. \A k \in DOMAIN out : (k \in DOMAIN s.out /\ out[k] = s.out[k]) \/ (k = m + 1 /\ out[k] = p)
  BY <1>4
<1>6. m + 1 \in DOMAIN out /\ \A k \in DOMAIN s.out : k \in DOMAIN out /\ out[k] = s.out[k]
  BY <1>4
<1>7. n.out = out
  BY <1>3
<1>8. Stands(s) /\ StandsApart(s)
  BY DEF ScanInv
<1>9. \A k \in DOMAIN s.out : s.out[k] # p
  BY <1>1, <1>8 DEF StandsApart
<1>10. ScanFits(n)
  <2>1. s.visited \in Nat /\ MaxVisited \in Nat /\ Cap \in Nat
    BY FilesAssumption DEF ScanInv, ScanFits, Scans
  <2>2. n.visited <= MaxVisited
    BY <2>1
  <2>3. m < Cap
    BY <1>2 DEF ScanInv, ScanFits
  <2>4. Len(out) <= Cap /\ (n.at \in {"idle", "walking"} => Len(out) < Cap)
    BY <1>4, <1>7, <2>1, <2>3
  <2>5. \A k \in DOMAIN out : Files!Below(Root, out[k])
    BY <1>1, <1>5 DEF ScanInv, ScanFits
  <2>6. Files!IsInjective(out)
    <3>1. Files!IsInjective(s.out)
      BY DEF ScanInv, ScanFits
    <3> QED BY <1>5, <1>9, <3>1 DEF Files!IsInjective
  <2> QED BY <1>7, <2>2, <2>4, <2>5, <2>6 DEF ScanFits
<1>11. Stands(n)
  BY <1>8 DEF Stands
<1>12. StandsApart(n)
  <2>1. ASSUME NEW k \in DOMAIN out
        PROVE  /\ \A i \in DOMAIN s.stack : ~ Files!Below(s.stack[i].dir, out[k])
               /\ \A q \in s.left \ {p} : ~ Files!Below(q, out[k])
    BY <1>1, <1>5, <1>8 DEF StandsApart
  <2> QED BY <1>7, <1>8, <2>1 DEF StandsApart
<1>13. ASSUME s.steady PROVE Finds(t, n)
  <2>0. Finds(t, s)
    BY <1>13 DEF ScanInv
  <2>1. p \in Wanted(t, s.from)
    <3>1. s.depth <= MaxDepth /\ MaxDepth \in Nat
      BY <1>8, FilesAssumption DEF Stands
    <3>2. Len(p) - Len(s.from) \in 1..MaxDepth + 1
      BY <1>1, <3>1
    <3>3. Files!Exists(t, p)
      BY DEF Files!Accepts
    <3> QED BY <1>1, <3>2, <3>3 DEF Wanted, Files!Within, Files!Exists
  <2>2. \A k \in DOMAIN out : out[k] \in Wanted(t, s.from)
    BY <1>5, <2>0, <2>1 DEF Finds
  <2>3. ASSUME NEW w \in Wanted(t, s.from)
        PROVE  \/ \E k \in DOMAIN out : out[k] = w
               \/ \E q \in s.left \ {p} : Files!Below(q, w)
               \/ \E i \in DOMAIN s.stack : Files!Below(s.stack[i].dir, w)
    <3>1. CASE Files!Below(p, w)
      <4>1. w \in DOMAIN t
        BY DEF Wanted
      <4>2. w = p
        BY <1>1, <3>1, <4>1, NothingBelowFiles
      <4> QED BY <1>4, <1>6, <4>2
    <3>2. CASE ~ Files!Below(p, w)
      BY <1>6, <2>0, <3>2 DEF Finds
    <3> QED BY <3>1, <3>2
  <2> QED BY <1>7, <2>0, <2>2, <2>3 DEF Finds
<1> QED BY <1>10, <1>11, <1>12, <1>13 DEF ScanInv

\* The tree changes, or stays: a search that is under way knows.
LEMMA SearchSees ==
  ASSUME NEW t, NEW u, NEW s, ScanInv(t, s), NEW b \in BOOLEAN, b => s.steady /\ (s.at = "idle" \/ u = t),
         NEW n, n = [s EXCEPT !.steady = b]
  PROVE  ScanInv(u, n)
<1>1. s \in Scans
  BY DEF ScanInv, ScanFits
<1>2. n \in Scans
  BY <1>1 DEF Scans
<1>3. n.at = s.at /\ n.from = s.from /\ n.stack = s.stack /\ n.left = s.left
  BY <1>1 DEF Scans
<1>4. n.depth = s.depth /\ n.out = s.out /\ n.visited = s.visited
  BY <1>1 DEF Scans
<1>5. n.steady = b
  BY <1>1 DEF Scans
<1>6. ScanFits(n)
  BY <1>2, <1>3, <1>4 DEF ScanInv, ScanFits
<1>7. ASSUME n.at = "walking" PROVE Stands(n) /\ StandsApart(n) /\ (n.steady => Finds(u, n))
  <2>1. Stands(s) /\ StandsApart(s) /\ (s.steady => Finds(t, s)) /\ s.at # "idle"
    BY <1>3, <1>7 DEF ScanInv
  <2>2. Stands(n) /\ StandsApart(n)
    BY <1>3, <1>4, <2>1 DEF Stands, StandsApart
  <2>3. ASSUME b PROVE Finds(u, n)
    <3>1. u = t /\ Finds(t, s)
      BY <2>1, <2>3
    <3> QED BY <1>3, <1>4, <3>1 DEF Finds
  <2> QED BY <1>5, <2>2, <2>3
<1>8. n.at = "complete" /\ n.steady => Files!ToSet(n.out) = Wanted(u, n.from)
  BY <1>3, <1>4, <1>5 DEF ScanInv
<1> QED BY <1>6, <1>7, <1>8 DEF ScanInv

\* The parts of a search that opened a directory, and of one that looked at an entry.
Opened(s, a, b, c) == [s EXCEPT !.stack = a, !.depth = b, !.left = c]
Passed(s, a, v) == [s EXCEPT !.left = a, !.visited = v]

\* The parts of a search one of whose directories is opened.
LEMMA OpenedIs ==
  ASSUME NEW s \in Scans, NEW a \in Seq(Levels), NEW b \in Nat, NEW c \in SUBSET Places, NEW n, n = Opened(s, a, b, c)
  PROVE  /\ n \in Scans /\ n.at = s.at /\ n.from = s.from /\ n.out = s.out /\ n.visited = s.visited
         /\ n.steady = s.steady /\ n.stack = a /\ n.depth = b /\ n.left = c
<1>1. n = [s EXCEPT !.stack = a, !.depth = b, !.left = c]
  BY DEF Opened
<1>2. n \in Scans
  BY <1>1 DEF Scans
<1>3. n.at = s.at /\ n.from = s.from /\ n.out = s.out /\ n.visited = s.visited /\ n.steady = s.steady
  BY <1>1 DEF Scans
<1>4. n.stack = a /\ n.depth = b /\ n.left = c
  BY <1>1 DEF Scans
<1> QED BY <1>2, <1>3, <1>4

\* The parts of a search that passed an entry.
LEMMA PassedScan ==
  ASSUME NEW s \in Scans, NEW a \in SUBSET Places, NEW v \in Nat, NEW n, n = Passed(s, a, v)
  PROVE  /\ n \in Scans /\ n.at = s.at /\ n.from = s.from /\ n.out = s.out /\ n.steady = s.steady
         /\ n.stack = s.stack /\ n.depth = s.depth /\ n.left = a /\ n.visited = v
<1>0. n = [s EXCEPT !.left = a, !.visited = v]
  BY DEF Passed
<1>1. n \in Scans
  BY <1>0 DEF Scans
<1>2. n.at = s.at /\ n.from = s.from /\ n.out = s.out /\ n.steady = s.steady /\ n.stack = s.stack /\ n.depth = s.depth
  BY <1>0 DEF Scans
<1>3. n.left = a /\ n.visited = v
  BY <1>0 DEF Scans
<1> QED BY <1>1, <1>2, <1>3

\* The parts of a search that has another directory to go into.
LEMMA StackedScan ==
  ASSUME NEW s \in Scans, NEW a \in Seq(Levels), NEW n, n = [s EXCEPT !.stack = a]
  PROVE  /\ n \in Scans /\ n.at = s.at /\ n.from = s.from /\ n.out = s.out /\ n.steady = s.steady
         /\ n.stack = a /\ n.depth = s.depth /\ n.left = s.left /\ n.visited = s.visited
<1>1. n \in Scans
  BY DEF Scans
<1>2. n.at = s.at /\ n.from = s.from /\ n.out = s.out /\ n.steady = s.steady /\ n.left = s.left /\ n.depth = s.depth
  BY DEF Scans
<1>3. n.stack = a /\ n.visited = s.visited
  BY DEF Scans
<1> QED BY <1>1, <1>2, <1>3

\* The parts of a search that found a file.
LEMMA FoundScan ==
  ASSUME NEW s \in Scans, NEW a \in Seq(Places), NEW n, n = [s EXCEPT !.out = a]
  PROVE  /\ n \in Scans /\ n.at = s.at /\ n.from = s.from /\ n.out = a /\ n.steady = s.steady
         /\ n.stack = s.stack /\ n.depth = s.depth /\ n.left = s.left /\ n.visited = s.visited
<1>1. n \in Scans
  BY DEF Scans
<1>2. n.at = s.at /\ n.from = s.from /\ n.stack = s.stack /\ n.steady = s.steady /\ n.left = s.left /\ n.depth = s.depth
  BY DEF Scans
<1>3. n.out = a /\ n.visited = s.visited
  BY DEF Scans
<1> QED BY <1>1, <1>2, <1>3

\* The parts of a search that went on to another stage.
LEMMA EndedScan ==
  ASSUME NEW s \in Scans, NEW a \in Stages, NEW n, n = [s EXCEPT !.at = a]
  PROVE  /\ n \in Scans /\ n.at = a /\ n.from = s.from /\ n.out = s.out /\ n.steady = s.steady
         /\ n.stack = s.stack /\ n.depth = s.depth /\ n.left = s.left /\ n.visited = s.visited
<1>1. n \in Scans
  BY DEF Scans
<1>2. n.from = s.from /\ n.out = s.out /\ n.steady = s.steady /\ n.stack = s.stack /\ n.depth = s.depth
  BY DEF Scans
<1>3. n.at = a /\ n.left = s.left /\ n.visited = s.visited
  BY DEF Scans
<1> QED BY <1>1, <1>2, <1>3

\* A search ends when nothing is left, or when it has looked at enough.
LEMMA SearchEnds ==
  ASSUME NEW t, NEW s, ScanInv(t, s), s.at = "walking", NEW n, NEW a,
         n = [s EXCEPT !.at = a], a = "exhausted" \/ (a = "complete" /\ s.left = {} /\ s.stack = <<>>)
  PROVE  ScanInv(t, n)
<1>1. s \in Scans /\ a \in Stages
  BY DEF ScanInv, ScanFits, Stages
<1>2. /\ n \in Scans /\ n.at = a /\ n.from = s.from /\ n.out = s.out /\ n.steady = s.steady
      /\ n.stack = s.stack /\ n.depth = s.depth /\ n.left = s.left /\ n.visited = s.visited
  BY <1>1, EndedScan
<1>3. ScanFits(n)
  BY <1>2 DEF ScanInv, ScanFits
<1>4. a # "walking"
  OBVIOUS
<1>5. ASSUME a = "complete", s.steady PROVE Files!ToSet(s.out) = Wanted(t, s.from)
  <2>1. Finds(t, s)
    BY <1>5 DEF ScanInv
  <2>2. s.left = {} /\ DOMAIN s.stack = {}
    BY <1>5
  <2>3. \A p \in Wanted(t, s.from) : \E k \in DOMAIN s.out : s.out[k] = p
    BY <2>1, <2>2 DEF Finds
  <2>4. \A k \in DOMAIN s.out : s.out[k] \in Wanted(t, s.from)
    BY <2>1 DEF Finds
  <2> QED BY <2>3, <2>4 DEF Files!ToSet
<1> QED BY <1>2, <1>3, <1>4, <1>5 DEF ScanInv

\* A search begins at a directory or a file of the workspace.
LEMMA FilesSearch ==
  ASSUME FilesInv, NEW raw, Files!BeginSearch(raw)
  PROVE  ScanInv(tree, scan)'
<1>1. PICK c : c = Files!Canonical(tree, Files!Joined(raw))
  OBVIOUS
<1>2. Files!Inside(tree, Files!Joined(raw)) /\ Files!ResolveRead(tree, raw) = c
  BY <1>1 DEF Files!BeginSearch, Files!ResolveRead
<1>3. c \in DOMAIN tree /\ Files!Below(Root, c)
  BY <1>1, <1>2 DEF Files!Inside, Files!Resolves, Files!Exists
<1>4. tree' = tree /\ Closed(tree)
  BY DEF Files!BeginSearch, FilesInv
<1>5. scan' = [at |-> "walking", from |-> c, stack |-> Append(<<>>, [dir |-> c, depth |-> 0]), left |-> {},
              depth |-> 0, out |-> <<>>, visited |-> 0, steady |-> TRUE]
  BY <1>2 DEF Files!BeginSearch, Files!NoScan, Files!Push
<1>6. ScanInv(tree, scan')
  BY <1>3, <1>4, <1>5, SearchBegins
<1> QED BY <1>4, <1>6

\* A search reads the directory on top of its stack.
LEMMA FilesOpen ==
  ASSUME FilesInv, ScanInv(tree, scan), Files!OpenDir
  PROVE  ScanInv(tree, scan)'
<1>1. tree' = tree /\ Closed(tree)
  BY DEF Files!OpenDir, FilesInv
<1>2. scan \in Scans /\ scan.stack \in Seq(Levels) /\ scan.stack # <<>> /\ scan.at = "walking" /\ scan.left = {}
  BY DEF Files!OpenDir, ScanInv, ScanFits, Scans
<1>3. PICK top : top = Files!Last(scan.stack)
  OBVIOUS
<1>4. PICK rest : rest = Files!Front(scan.stack)
  OBVIOUS
<1>5. PICK ps : ps = Files!Children(tree, top.dir)
  OBVIOUS
<1>6. top \in Levels /\ rest \in Seq(Levels)
  BY <1>2, <1>3, <1>4, TopOf
<1>7. top.depth \in Nat /\ ps \in SUBSET Places
  BY <1>1, <1>5, <1>6 DEF Levels, Closed, Files!Children
<1>8. PICK n : n = scan'
  OBVIOUS
<1>9. n = Opened(scan, rest, top.depth, ps)
  BY <1>3, <1>4, <1>5, <1>8 DEF Files!OpenDir, Opened
<1>10. /\ n \in Scans /\ n.at = scan.at /\ n.from = scan.from /\ n.out = scan.out /\ n.visited = scan.visited
       /\ n.steady = scan.steady /\ n.stack = rest /\ n.depth = top.depth /\ n.left = ps
  BY <1>2, <1>6, <1>7, <1>9, OpenedIs
<1>11. ScanInv(tree, n)
  BY <1>1, <1>2, <1>3, <1>4, <1>5, <1>10, SearchOpens
<1> QED BY <1>1, <1>8, <1>11

\* A search ends.
LEMMA FilesEnd ==
  ASSUME FilesInv, ScanInv(tree, scan), Files!EndSearch
  PROVE  ScanInv(tree, scan)'
<1>1. tree' = tree /\ scan.at = "walking"
  BY DEF Files!EndSearch
<1>2. \/ scan.left = {} /\ scan.stack = <<>> /\ scan' = [scan EXCEPT !.at = "complete"]
      \/ scan' = [scan EXCEPT !.at = "exhausted"]
  BY DEF Files!EndSearch
<1>3. ScanInv(tree, scan')
  BY <1>1, <1>2, SearchEnds
<1> QED BY <1>1, <1>3

\* A search looks at an entry: it goes into it, passes it, or has found it.
LEMMA FilesVisit ==
  ASSUME FilesInv, ScanInv(tree, scan), NEW p, Files!Visit(p)
  PROVE  ScanInv(tree, scan)'
<1>1. tree' = tree /\ Closed(tree)
  BY DEF Files!Visit, FilesInv
<1>2. scan \in Scans /\ scan.at = "walking" /\ p \in scan.left /\ scan.visited < MaxVisited
  BY DEF Files!Visit, ScanInv, ScanFits
<1>3. PICK v : v = scan.visited + 1
  OBVIOUS
<1>4. PICK rest : rest = scan.left \ {p}
  OBVIOUS
<1>5. v \in Nat /\ rest \in SUBSET Places /\ p \in Places /\ scan.depth \in Nat
  BY <1>2, <1>3, <1>4 DEF Scans
<1>6. PICK seen : seen = Passed(scan, rest, v)
  OBVIOUS
<1>7. /\ seen \in Scans /\ seen.at = scan.at /\ seen.from = scan.from /\ seen.out = scan.out
      /\ seen.steady = scan.steady /\ seen.stack = scan.stack /\ seen.depth = scan.depth /\ seen.left = rest
      /\ seen.visited = v
  BY <1>2, <1>5, <1>6, PassedScan
<1>8. PICK n : n = scan'
  OBVIOUS
<1>9. PICK found : found = [seen EXCEPT !.out = Append(seen.out, p)]
  OBVIOUS
<1>10. n = IF Files!Descends(tree, p)
           THEN IF scan.depth < MaxDepth
                THEN [seen EXCEPT !.stack = Append(seen.stack, [dir |-> Files!Landing(tree, p), depth |-> scan.depth + 1])]
                ELSE seen
           ELSE IF ~Files!Accepts(tree, p) THEN seen
           ELSE IF Len(found.out) >= Cap THEN [found EXCEPT !.at = "capped"] ELSE found
  BY <1>3, <1>4, <1>6, <1>8, <1>9 DEF Files!Visit, Files!Push, Passed
<1>11. CASE Files!IsDir(tree, p) /\ scan.depth < MaxDepth
  <2>1. Files!Landing(tree, p) = p
    BY <1>11 DEF Files!IsDir, Files!Landing
  <2>2. PICK e : e = [dir |-> p, depth |-> scan.depth + 1]
    OBVIOUS
  <2>3. e \in Levels
    BY <1>5, <2>2 DEF Levels
  <2>4. PICK stack : stack = Append(scan.stack, e)
    OBVIOUS
  <2>5. stack \in Seq(Levels)
    <3>1. scan.stack \in Seq(Levels)
      BY <1>2 DEF Scans
    <3> QED BY <2>3, <2>4, <3>1, PushedOn
  <2>6. n = [seen EXCEPT !.stack = stack]
    BY <1>7, <1>10, <1>11, <2>1, <2>2, <2>4 DEF Files!Descends
  <2>7. /\ n \in Scans /\ n.at = scan.at /\ n.from = scan.from /\ n.out = scan.out /\ n.steady = scan.steady
        /\ n.stack = stack /\ n.depth = scan.depth /\ n.left = rest /\ n.visited = v
    BY <1>7, <2>5, <2>6, StackedScan
  <2>8. ScanInv(tree, n)
    BY <1>1, <1>2, <1>3, <1>4, <1>11, <2>2, <2>4, <2>7, SearchDescends
  <2> QED BY <1>1, <1>8, <2>8
<1>12. CASE (Files!IsDir(tree, p) /\ ~(scan.depth < MaxDepth)) \/ (~Files!IsDir(tree, p) /\ ~Files!Accepts(tree, p))
  <2>1. n = seen
    BY <1>10, <1>12 DEF Files!Descends
  <2>2. MaxDepth \in Nat
    BY FilesAssumption
  <2>3. Files!IsDir(tree, p) => scan.depth >= MaxDepth
    <3>1. ASSUME ~(scan.depth < MaxDepth) PROVE scan.depth >= MaxDepth
      BY <1>5, <2>2, <3>1
    <3> QED BY <1>12, <3>1
  <2>4. ScanInv(tree, n)
    BY <1>1, <1>2, <1>3, <1>4, <1>7, <1>12, <2>1, <2>3, SearchPasses
  <2> QED BY <1>1, <1>8, <2>4
<1>13. CASE ~Files!IsDir(tree, p) /\ Files!Accepts(tree, p)
  <2>1. PICK out : out = Append(scan.out, p)
    OBVIOUS
  <2>2. out \in Seq(Places)
    <3>1. scan.out \in Seq(Places)
      BY <1>2 DEF Scans
    <3> QED BY <1>5, <2>1, <3>1, PushedOn
  <2>3. found = [seen EXCEPT !.out = out]
    BY <1>7, <1>9, <2>1
  <2>4. /\ found \in Scans /\ found.at = scan.at /\ found.from = scan.from /\ found.out = out
        /\ found.steady = scan.steady /\ found.stack = scan.stack /\ found.depth = scan.depth
        /\ found.left = rest /\ found.visited = v
    BY <1>7, <2>2, <2>3, FoundScan
  <2>5. n = IF Len(out) >= Cap THEN [found EXCEPT !.at = "capped"] ELSE found
    BY <1>10, <1>13, <2>4 DEF Files!Descends
  <2>6. PICK a : a = IF Len(out) >= Cap THEN "capped" ELSE scan.at
    OBVIOUS
  <2>7. /\ n \in Scans /\ n.at = a /\ n.from = scan.from /\ n.out = out /\ n.steady = scan.steady
        /\ n.stack = scan.stack /\ n.depth = scan.depth /\ n.left = rest /\ n.visited = v
    <3>1. CASE Len(out) >= Cap
      <4>1. "capped" \in Stages /\ n = [found EXCEPT !.at = "capped"]
        BY <2>5, <3>1 DEF Stages
      <4> QED BY <2>4, <2>6, <3>1, <4>1, EndedScan
    <3>2. CASE ~(Len(out) >= Cap)
      BY <2>4, <2>5, <2>6, <3>2
    <3> QED BY <3>1, <3>2
  <2>8. ScanInv(tree, n)
    BY <1>1, <1>2, <1>3, <1>4, <1>13, <2>1, <2>6, <2>7, SearchFinds
  <2> QED BY <1>1, <1>8, <2>8
<1> QED BY <1>11, <1>12, <1>13

\* The search is nowhere at first.
LEMMA ScanStarts == Files!Init => ScanInv(tree, scan)
<1> SUFFICES ASSUME Files!Init PROVE ScanInv(tree, scan)
  OBVIOUS
<1>1. /\ scan.at = "idle" /\ scan.out = <<>> /\ scan.visited = 0
      /\ scan = [at |-> "idle", from |-> <<>>, stack |-> <<>>, left |-> {}, depth |-> 0, out |-> <<>>, visited |-> 0,
                 steady |-> TRUE]
  BY DEF Files!Init, Files!NoScan
<1>2. scan \in Scans
  <2>1. <<>> \in Seq(Places) /\ <<>> \in Seq(STRING) /\ <<>> \in Seq(Levels)
    BY EmptySeq
  <2>2. {} \in SUBSET Places /\ 0 \in Nat /\ TRUE \in BOOLEAN
    OBVIOUS
  <2>3. "idle" \in Stages
    BY DEF Stages
  <2>4. [at |-> "idle", from |-> <<>>, stack |-> <<>>, left |-> {}, depth |-> 0, out |-> <<>>, visited |-> 0,
         steady |-> TRUE] \in Scans
    BY <2>1, <2>2, <2>3, ScanIs, Zenon
  <2> QED BY <1>1, <2>4, Zenon
<1>3. Cap \in Nat /\ Cap # 0 /\ MaxVisited \in Nat
  BY FilesAssumption
<1>4. Len(scan.out) <= Cap /\ Len(scan.out) < Cap /\ scan.visited <= MaxVisited /\ DOMAIN scan.out = {}
  BY <1>1, <1>3
<1>5. ScanFits(scan)
  BY <1>2, <1>4 DEF ScanFits, Files!IsInjective
<1> QED BY <1>1, <1>5 DEF ScanInv

\* Every step of the file tools.
LEMMA ScanStays == FilesInv /\ ScanInv(tree, scan) /\ [Files!Next]_(Files!vars) => ScanInv(tree, scan)'
<1> SUFFICES ASSUME FilesInv, ScanInv(tree, scan), [Files!Next]_(Files!vars) PROVE ScanInv(tree, scan)'
  OBVIOUS
<1>1. ASSUME tree' = tree /\ scan' = scan PROVE ScanInv(tree, scan)'
  <2>1. ScanInv(tree', scan')
    BY <1>1
  <2> QED BY <2>1
<1>2. ASSUME NEW u, Files!Change(u) PROVE ScanInv(tree, scan)'
  <2>1. PICK b : b = (scan.steady /\ (scan.at = "idle" \/ u = tree))
    OBVIOUS
  <2>2. scan' = [scan EXCEPT !.steady = b] /\ tree' = u
    BY <1>2, <2>1 DEF Files!Change
  <2>3. ScanInv(u, scan')
    BY <2>1, <2>2, SearchSees
  <2>4. ScanInv(tree', scan')
    BY <2>2, <2>3
  <2> QED BY <2>4
<1>3. ASSUME NEW w \in Writers, NEW raw \in Raws, NEW content \in Contents, Files!BeginWrite(w, raw, content)
      PROVE ScanInv(tree, scan)'
  BY <1>1, <1>2, <1>3 DEF Files!BeginWrite
<1>4. ASSUME NEW w \in Writers, Files!CheckWrite(w) \/ Files!ReadOld(w) \/ Files!Kill(w) PROVE ScanInv(tree, scan)'
  BY <1>1, <1>4 DEF Files!CheckWrite, Files!ReadOld, Files!Kill
<1>5. ASSUME NEW w \in Writers, Files!WriteTemp(w) PROVE ScanInv(tree, scan)'
  BY <1>2, <1>5 DEF Files!WriteTemp
<1>6. ASSUME NEW w \in Writers, Files!Persist(w) PROVE ScanInv(tree, scan)'
  BY <1>2, <1>6 DEF Files!Persist
<1>7. ASSUME UNCHANGED Files!vars PROVE ScanInv(tree, scan)'
  BY <1>1, <1>7 DEF Files!vars
<1> QED BY <1>3, <1>4, <1>5, <1>6, <1>7, FilesSearch, FilesOpen, FilesEnd, FilesVisit DEF Files!Next

\* What is kept of a search is what was promised.
LEMMA ScanIsExact == ScanInv(tree, scan) => Files!SearchIsExact
BY DEF ScanInv, ScanFits, Wanted, Files!SearchIsExact

\* What holds at 0 and is kept by every step up to n holds up to n.
LEMMA UpTo ==
  ASSUME NEW n \in Nat, NEW S, 0 \in S, \A i \in 1..n : i - 1 \in S => i \in S
  PROVE  \A i \in 0..n : i \in S
<1> SUFFICES ASSUME NEW k \in 0..n, k \notin S PROVE FALSE
  OBVIOUS
<1> DEFINE T == (0..n) \ S
<1>1. T \subseteq Nat /\ T # {}
  OBVIOUS
<1>2. PICK x \in T : \A y \in T : x <= y
  BY <1>1, LeastOf
<1>3. x \in 0..n /\ x \notin S /\ x # 0
  OBVIOUS
<1>4. x \in 1..n /\ x - 1 \in 0..n /\ ~ (x <= x - 1)
  BY <1>3
<1>5. x - 1 \notin T
  BY <1>2, <1>4
<1>6. x - 1 \in S
  BY <1>4, <1>5
<1> QED BY <1>3, <1>4, <1>6

\* A recursion along 0..n whose steps stay within a set has a solution.
Solves(g, n, v, h) == g[0] = v /\ \A i \in 1..n : g[i] = h[<<i, g[i - 1]>>]

\* Such a recursion has a solution, which stays in the set.
LEMMA Recursion ==
  ASSUME NEW n \in Nat, NEW V, NEW v \in V, NEW h \in [(1..n) \X V -> V]
  PROVE  \E g \in [0..n -> V] : Solves(g, n, v, h)
<1> DEFINE S == {m \in 0..n : \E g \in [0..m -> V] : Solves(g, m, v, h)}
<1>1. 0 \in S
  <2> DEFINE g == [i \in 0..0 |-> v]
  <2>1. g \in [0..0 -> V] /\ g[0] = v
    OBVIOUS
  <2> HIDE DEF g
  <2>2. Solves(g, 0, v, h)
    BY <2>1 DEF Solves
  <2> QED BY <2>1, <2>2
<1>2. ASSUME NEW m \in 1..n, m - 1 \in S PROVE m \in S
  <2>1. PICK g \in [0..(m - 1) -> V] : Solves(g, m - 1, v, h)
    BY <1>2
  <2> DEFINE new == h[<<m, g[m - 1]>>]
             k == [i \in 0..m |-> IF i = m THEN new ELSE g[i]]
  <2>2. m - 1 \in 0..(m - 1) /\ m # 0 /\ 0 \in 0..m /\ m \in 0..m
    OBVIOUS
  <2>3. g[m - 1] \in V
    BY <2>2
  <2>4. <<m, g[m - 1]>> \in (1..n) \X V
    BY <2>3
  <2>5. new \in V
    BY <2>4
  <2> HIDE DEF new
  <2>6. ASSUME NEW i \in 0..m, i # m PROVE i \in 0..(m - 1)
    BY <2>6
  <2>7. k \in [0..m -> V]
    BY <2>5, <2>6
  <2>8. k[m] = new /\ (\A i \in 0..m : i # m => k[i] = g[i])
    BY <2>2
  <2> HIDE DEF k
  <2>9. k[0] = v
    BY <2>1, <2>2, <2>8 DEF Solves
  <2>10. ASSUME NEW i \in 1..m PROVE k[i] = h[<<i, k[i - 1]>>]
    <3>1. i - 1 \in 0..m /\ i - 1 # m /\ i \in 0..m
      OBVIOUS
    <3>2. k[i - 1] = g[i - 1]
      BY <2>8, <3>1
    <3>3. CASE i = m
      BY <2>8, <3>2, <3>3 DEF new
    <3>4. CASE i # m
      <4>1. i \in 1..(m - 1)
        BY <3>4
      <4>2. g[i] = h[<<i, g[i - 1]>>]
        BY <2>1, <4>1 DEF Solves
      <4> QED BY <2>8, <3>1, <3>2, <3>4, <4>2
    <3> QED BY <3>3, <3>4
  <2>11. Solves(k, m, v, h)
    BY <2>9, <2>10 DEF Solves
  <2>12. m \in 0..n
    OBVIOUS
  <2> QED BY <2>7, <2>11, <2>12
<1> HIDE DEF S
<1>3. n \in S
  <2>1. \A i \in 0..n : i \in S
    BY <1>1, <1>2, UpTo
  <2> QED BY <2>1
<1> QED BY <1>3 DEF S

-------------------------------------------------------------------------------
(* Sums: s has, per place of the numbers w, the sum up to there.              *)

IsSums(s, w) == s = [n \in 0..Len(w) |-> IF n = 0 THEN 0 ELSE s[n - 1] + w[n]]

\* Sums along a sequence of naturals exist ...
LEMMA SumsExist ==
  ASSUME NEW w \in Seq(Nat)
  PROVE  \E s : IsSums(s, w)
<1> DEFINE h == [p \in (1..Len(w)) \X Nat |-> p[2] + w[p[1]]]
<1>1. Len(w) \in Nat /\ (\A i \in 1..Len(w) : w[i] \in Nat)
  BY LenProperties, ElementOfSeq
<1>2. h \in [(1..Len(w)) \X Nat -> Nat]
  <2> SUFFICES ASSUME NEW p \in (1..Len(w)) \X Nat PROVE p[2] + w[p[1]] \in Nat
    OBVIOUS
  <2>1. p[2] \in Nat /\ p[1] \in 1..Len(w)
    OBVIOUS
  <2>2. w[p[1]] \in Nat
    BY <1>1, <2>1
  <2> QED BY <2>1, <2>2
<1>3. \A i \in 1..Len(w), x \in Nat : h[<<i, x>>] = x + w[i]
  OBVIOUS
<1> HIDE DEF h
<1>4. PICK s \in [0..Len(w) -> Nat] : Solves(s, Len(w), 0, h)
  BY <1>1, <1>2, Recursion
<1>5. ASSUME NEW n \in 0..Len(w) PROVE s[n] = IF n = 0 THEN 0 ELSE s[n - 1] + w[n]
  <2>1. CASE n = 0
    BY <1>4, <2>1 DEF Solves
  <2>2. CASE n # 0
    <3>1. n \in 1..Len(w) /\ n - 1 \in 0..Len(w)
      BY <1>1, <2>2
    <3>2. s[n - 1] \in Nat
      BY <3>1
    <3>3. s[n] = h[<<n, s[n - 1]>>]
      BY <1>4, <3>1 DEF Solves
    <3> QED BY <1>3, <2>2, <3>1, <3>2, <3>3
  <2> QED BY <2>1, <2>2
<1>6. s = [n \in 0..Len(w) |-> IF n = 0 THEN 0 ELSE s[n - 1] + w[n]]
  BY <1>5
<1> QED BY <1>6 DEF IsSums

\* ... and are naturals, each the one before and one number more.
LEMMA SumsAreNat ==
  ASSUME NEW w \in Seq(Nat), NEW s, IsSums(s, w)
  PROVE  /\ s \in [0..Len(w) -> Nat] /\ s[0] = 0
         /\ \A i \in 1..Len(w) : s[i] = s[i - 1] + w[i]
<1> DEFINE S == {i \in 0..Len(w) : s[i] \in Nat}
<1>1. Len(w) \in Nat /\ (\A i \in 1..Len(w) : w[i] \in Nat)
  BY LenProperties, ElementOfSeq
<1>2. DOMAIN s = 0..Len(w) /\ (\A i \in 0..Len(w) : s[i] = IF i = 0 THEN 0 ELSE s[i - 1] + w[i])
  BY DEF IsSums
<1>3. s[0] = 0 /\ 0 \in 0..Len(w)
  BY <1>1, <1>2
<1>4. ASSUME NEW i \in 1..Len(w) PROVE s[i] = s[i - 1] + w[i]
  <2>1. i \in 0..Len(w) /\ i # 0
    OBVIOUS
  <2> QED BY <1>2, <2>1
<1>5. 0 \in S
  BY <1>3
<1>6. ASSUME NEW i \in 1..Len(w), i - 1 \in S PROVE i \in S
  <2>1. s[i - 1] \in Nat /\ w[i] \in Nat /\ i \in 0..Len(w)
    BY <1>1, <1>6
  <2>2. s[i] \in Nat
    BY <1>4, <2>1
  <2> QED BY <2>1, <2>2
<1> HIDE DEF S
<1>7. \A i \in 0..Len(w) : i \in S
  BY <1>1, <1>5, <1>6, UpTo
<1>8. \A i \in 0..Len(w) : s[i] \in Nat
  BY <1>7 DEF S
<1>9. s = [i \in 0..Len(w) |-> s[i]]
  BY DEF IsSums
<1>10. s \in [0..Len(w) -> Nat]
  BY <1>8, <1>9
<1> QED BY <1>3, <1>4, <1>10

\* The bytes of the first characters of a text.
Texts == Seq(Nat \ {0})
At(x) == CHOOSE s : IsSums(s, x)

\* These are sums, each the one before and the bytes of one character, and the bytes of the text are the last.
LEMMA AtIs ==
  ASSUME NEW x \in Texts
  PROVE  /\ x \in Seq(Nat) /\ Len(x) \in Nat /\ IsSums(At(x), x)
         /\ At(x) \in [0..Len(x) -> Nat] /\ At(x)[0] = 0
         /\ \A i \in 1..Len(x) : At(x)[i] = At(x)[i - 1] + x[i] /\ x[i] \in Nat \ {0}
         /\ Spill!Bytes(x) = At(x)[Len(x)]
<1>1. Len(x) \in Nat /\ \A i \in 1..Len(x) : x[i] \in Nat \ {0}
  BY LenProperties, ElementOfSeq DEF Texts
<1>2. x \in Seq(Nat)
  <2>1. x = [i \in 1..Len(x) |-> x[i]]
    BY LenProperties DEF Texts
  <2>2. \A i \in 1..Len(x) : x[i] \in Nat
    BY <1>1
  <2>3. [i \in 1..Len(x) |-> x[i]] \in Seq(Nat)
    BY <1>1, <2>2
  <2> QED BY <2>1, <2>3
<1>3. IsSums(At(x), x)
  <2>1. \E s : IsSums(s, x)
    BY <1>2, SumsExist
  <2> QED BY <2>1 DEF At
<1>4. At(x) \in [0..Len(x) -> Nat] /\ At(x)[0] = 0 /\ \A i \in 1..Len(x) : At(x)[i] = At(x)[i - 1] + x[i]
  BY <1>2, <1>3, SumsAreNat
<1>5. Spill!Bytes(x) = (CHOOSE s : IsSums(s, x))[Len(x)]
  BY DEF Spill!Bytes, IsSums
<1> QED BY <1>1, <1>2, <1>3, <1>4, <1>5 DEF At

\* Each character has a byte, so the bytes tell the characters apart.
LEMMA AtRises ==
  ASSUME NEW x \in Texts, NEW i \in 0..Len(x), NEW j \in 0..Len(x)
  PROVE  /\ At(x)[i] \in Nat
         /\ i < j => At(x)[i] < At(x)[j]
         /\ At(x)[i] = At(x)[j] => i = j
         /\ At(x)[i] <= At(x)[j] <=> i <= j
         /\ At(x)[i] < At(x)[j] <=> i < j
<1>0. PICK g : g = At(x)
  OBVIOUS
<1>1. Len(x) \in Nat /\ g \in [0..Len(x) -> Nat] /\ \A k \in 1..Len(x) : g[k] > g[k - 1]
  <2>1. Len(x) \in Nat /\ g \in [0..Len(x) -> Nat]
    BY <1>0, AtIs
  <2>2. ASSUME NEW k \in 1..Len(x) PROVE g[k] > g[k - 1]
    <3>1. k - 1 \in 0..Len(x)
      BY <2>1
    <3>2. g[k] = g[k - 1] + x[k] /\ x[k] \in Nat \ {0} /\ g[k - 1] \in Nat
      BY <1>0, <2>1, <3>1, AtIs
    <3> QED BY <3>2
  <2> QED BY <2>1, <2>2
<1>2. ASSUME NEW a \in 0..Len(x), NEW b \in 0..Len(x), a < b PROVE g[a] < g[b]
  <2> DEFINE S == {k \in 0..Len(x) : a < k => g[a] < g[k]}
  <2>1. 0 \in S
    BY <1>1
  <2>2. ASSUME NEW k \in 1..Len(x), k - 1 \in S PROVE k \in S
    <3>1. k - 1 \in 0..Len(x) /\ k \in 0..Len(x)
      BY <1>1
    <3>2. g[k] > g[k - 1] /\ g[k] \in Nat /\ g[k - 1] \in Nat /\ g[a] \in Nat
      BY <1>1, <3>1
    <3>3. a < k - 1 => g[a] < g[k - 1]
      BY <2>2
    <3>4. a < k => a < k - 1 \/ a = k - 1
      BY <1>1
    <3>5. a < k => g[a] < g[k]
      BY <3>2, <3>3, <3>4
    <3> QED BY <3>1, <3>5
  <2> HIDE DEF S
  <2>3. b \in S
    BY <1>1, <2>1, <2>2, UpTo
  <2> QED BY <1>2, <2>3 DEF S
<1>3. g[i] \in Nat /\ g[j] \in Nat /\ i \in Nat /\ j \in Nat
  BY <1>1
<1>4. (i < j => g[i] < g[j]) /\ (j < i => g[j] < g[i])
  BY <1>2
<1>5. i < j \/ j < i \/ i = j
  BY <1>3
<1>6. (g[i] = g[j] => i = j) /\ (g[i] <= g[j] <=> i <= j) /\ (g[i] < g[j] <=> i < j)
  BY <1>3, <1>4, <1>5
<1> QED BY <1>0, <1>3, <1>4, <1>6

\* A part of a sequence, and the beginning of that.
LEMMA Parts ==
  ASSUME NEW S, NEW s \in Seq(S), NEW a \in 1..Len(s) + 1, NEW b \in a - 1..Len(s)
  PROVE  /\ SubSeq(s, a, b) \in Seq(S) /\ Len(SubSeq(s, a, b)) = b - a + 1
         /\ \A i \in 1..b - a + 1 : SubSeq(s, a, b)[i] = s[a + i - 1]
         /\ \A k \in 0..b - a + 1 : SubSeq(SubSeq(s, a, b), 1, k) = SubSeq(s, a, a + k - 1)
<1>1. Len(s) \in Nat /\ \A i \in 1..Len(s) : s[i] \in S
  BY LenProperties, ElementOfSeq
<1>2. ASSUME NEW c \in a - 1..Len(s)
      PROVE  /\ SubSeq(s, a, c) \in Seq(S) /\ Len(SubSeq(s, a, c)) = c - a + 1
             /\ \A i \in 1..c - a + 1 : SubSeq(s, a, c)[i] = s[a + i - 1]
  <2>1. a \in Int /\ c \in Int /\ \A i \in a..c : i \in 1..Len(s)
    BY <1>1
  <2>2. \A i \in a..c : s[i] \in S
    BY <1>1, <2>1
  <2>3. /\ SubSeq(s, a, c) \in Seq(S)
        /\ Len(SubSeq(s, a, c)) = IF a <= c THEN c - a + 1 ELSE 0
        /\ \A i \in 1..c - a + 1 : SubSeq(s, a, c)[i] = s[a + i - 1]
    BY <2>1, <2>2, SubSeqProperties
  <2>4. (IF a <= c THEN c - a + 1 ELSE 0) = c - a + 1
    BY <1>1
  <2> QED BY <2>3, <2>4
<1>3. PICK q : q = SubSeq(s, a, b)
  OBVIOUS
<1>4. q \in Seq(S) /\ Len(q) = b - a + 1 /\ \A i \in 1..b - a + 1 : q[i] = s[a + i - 1]
  BY <1>2, <1>3
<1>5. ASSUME NEW k \in 0..b - a + 1 PROVE SubSeq(q, 1, k) = SubSeq(s, a, a + k - 1)
  <2>0. PICK c : c = a + k - 1
    OBVIOUS
  <2>1. c \in a - 1..Len(s) /\ c - a + 1 = k /\ k \in Nat /\ k <= Len(q)
    BY <1>1, <1>4, <2>0
  <2>2. PICK r : r = SubSeq(s, a, c)
    OBVIOUS
  <2>3. r \in Seq(S) /\ Len(r) = k /\ \A i \in 1..k : r[i] = s[a + i - 1]
    BY <1>2, <2>1, <2>2
  <2>4. PICK t : t = SubSeq(q, 1, k)
    OBVIOUS
  <2>5. \A i \in 1..k : q[i] \in S /\ i \in 1..b - a + 1
    <3>1. \A i \in 1..k : i \in 1..Len(q)
      BY <1>4, <2>1
    <3> QED BY <1>4, <3>1, ElementOfSeq
  <2>6. t \in Seq(S) /\ Len(t) = (IF 1 <= k THEN k - 1 + 1 ELSE 0) /\ \A i \in 1..k - 1 + 1 : t[i] = q[1 + i - 1]
    BY <2>1, <2>4, <2>5, SubSeqProperties
  <2>7. Len(t) = k /\ \A i \in 1..k : t[i] = q[i]
    BY <2>1, <2>6
  <2>8. \A i \in 1..k : t[i] = r[i]
    BY <1>4, <2>3, <2>5, <2>7
  <2>9. t = r
    BY <2>3, <2>6, <2>7, <2>8, SeqEqual
  <2> QED BY <2>0, <2>2, <2>4, <2>9
<1> QED BY <1>3, <1>4, <1>5

\* The bytes of a part are those between its ends.
LEMMA BytesOfPart ==
  ASSUME NEW x \in Texts, NEW a \in 0..Len(x), NEW b \in a..Len(x)
  PROVE  /\ SubSeq(x, a + 1, b) \in Texts /\ Len(SubSeq(x, a + 1, b)) = b - a
         /\ Spill!Bytes(SubSeq(x, a + 1, b)) = At(x)[b] - At(x)[a]
<1>0. PICK y : y = SubSeq(x, a + 1, b)
  OBVIOUS
<1>1. Len(x) \in Nat /\ a \in Nat /\ b \in Nat /\ a + 1 \in 1..Len(x) + 1 /\ b \in (a + 1) - 1..Len(x) /\ b - (a + 1) + 1 = b - a
  BY AtIs
<1>2. y \in Texts /\ Len(y) = b - a /\ \A i \in 1..b - a : y[i] = x[(a + 1) + i - 1]
  <2>1. /\ SubSeq(x, a + 1, b) \in Seq(Nat \ {0}) /\ Len(SubSeq(x, a + 1, b)) = b - (a + 1) + 1
        /\ \A i \in 1..b - (a + 1) + 1 : SubSeq(x, a + 1, b)[i] = x[(a + 1) + i - 1]
    BY <1>1, Parts DEF Texts
  <2> QED BY <1>0, <1>1, <2>1 DEF Texts
<1>3. PICK g : g = At(x)
  OBVIOUS
<1>4. PICK h : h = At(y)
  OBVIOUS
<1>5. g \in [0..Len(x) -> Nat] /\ \A i \in 1..Len(x) : g[i] = g[i - 1] + x[i] /\ x[i] \in Nat
  BY <1>3, AtIs
<1>6. h \in [0..b - a -> Nat] /\ h[0] = 0 /\ (\A i \in 1..b - a : h[i] = h[i - 1] + y[i]) /\ Spill!Bytes(y) = h[b - a]
  BY <1>2, <1>4, AtIs
<1> DEFINE S == {k \in 0..b - a : h[k] = g[a + k] - g[a]}
<1>7. 0 \in S
  <2>1. g[a] \in Nat /\ a + 0 = a /\ 0 \in 0..b - a
    BY <1>1, <1>5
  <2> QED BY <1>6, <2>1
<1>8. ASSUME NEW k \in 1..b - a, k - 1 \in S PROVE k \in S
  <2>1. PICK m : m = a + k
    OBVIOUS
  <2>2. m \in 1..Len(x) /\ m - 1 \in 0..Len(x) /\ m - 1 = a + (k - 1) /\ m = (a + 1) + k - 1 /\ k \in 0..b - a
        /\ m \in 0..Len(x)
    BY <1>1, <2>1
  <2>3. g[m] = g[m - 1] + x[m] /\ g[m - 1] \in Nat /\ x[m] \in Nat /\ g[m] \in Nat /\ g[a] \in Nat
    BY <1>5, <2>2
  <2>4. y[k] = x[m] /\ h[k] = h[k - 1] + y[k]
    BY <1>2, <1>6, <2>2
  <2>5. h[k - 1] = g[m - 1] - g[a]
    BY <1>8, <2>2
  <2>6. h[k] = g[m] - g[a]
    BY <2>3, <2>4, <2>5
  <2> QED BY <2>1, <2>2, <2>6
<1> HIDE DEF S
<1>9. b - a \in Nat
  BY <1>1
<1>10. b - a \in S
  <2>1. \A k \in 0..b - a : k \in S
    BY <1>7, <1>8, <1>9, UpTo
  <2>2. b - a \in 0..b - a
    BY <1>9
  <2> QED BY <2>1, <2>2
<1>11. a + (b - a) = b
  BY <1>1
<1>12. h[b - a] = g[b] - g[a]
  BY <1>10, <1>11 DEF S
<1> QED BY <1>0, <1>2, <1>3, <1>6, <1>12

\* A beginning of a text: it is a prefix, and its bytes.
LEMMA BytesOfBeginning ==
  ASSUME NEW x \in Texts, NEW n \in 0..Len(x)
  PROVE  /\ SubSeq(x, 1, n) \in Texts /\ Len(SubSeq(x, 1, n)) = n
         /\ Spill!Bytes(SubSeq(x, 1, n)) = At(x)[n] /\ Spill!IsPrefix(SubSeq(x, 1, n), x)
<1>1. Len(x) \in Nat /\ At(x)[0] = 0 /\ At(x)[n] \in Nat
  BY AtIs
<1>2. 0 \in 0..Len(x) /\ n \in 0..Len(x) /\ 0 + 1 = 1 /\ n - 0 = n
  BY <1>1
<1>3. /\ SubSeq(x, 0 + 1, n) \in Texts /\ Len(SubSeq(x, 0 + 1, n)) = n - 0
      /\ Spill!Bytes(SubSeq(x, 0 + 1, n)) = At(x)[n] - At(x)[0]
  BY <1>2, BytesOfPart
<1>4. SubSeq(x, 1, n) \in Texts /\ Len(SubSeq(x, 1, n)) = n
  BY <1>2, <1>3
<1>5. Spill!Bytes(SubSeq(x, 1, n)) = At(x)[n]
  BY <1>1, <1>2, <1>3
<1>6. Spill!IsPrefix(SubSeq(x, 1, n), x)
  <2>0. PICK y : y = SubSeq(x, 1, n)
    OBVIOUS
  <2>1. y \in Seq(Nat \ {0}) /\ Len(y) = n /\ n <= Len(x)
    BY <1>1, <1>4, <2>0 DEF Texts
  <2>2. SubSeq(y, 1, Len(y)) = y
    BY <2>1, SubSeqFull
  <2>3. SubSeq(y, 1, Len(y)) = SubSeq(x, 1, Len(y))
    BY <2>0, <2>1, <2>2
  <2> QED BY <2>0, <2>1, <2>3 DEF Spill!IsPrefix
<1> QED BY <1>4, <1>5, <1>6

\* What is between two characters' beginnings.
LEMMA BetweenIs ==
  ASSUME NEW x \in Texts, NEW a \in 0..Len(x), NEW b \in 0..Len(x), a < b
  PROVE  Spill!Between(x, At(x)[a], At(x)[b]) = SubSeq(x, a + 1, b)
<1>1. Len(x) \in Nat /\ DOMAIN x = 1..Len(x) /\ a \in Nat /\ b \in Nat
  BY AtIs, LenProperties
<1> DEFINE ns == {n \in DOMAIN x : At(x)[a] <= Spill!Bytes(SubSeq(x, 1, n - 1)) /\ Spill!Bytes(SubSeq(x, 1, n - 1)) < At(x)[b]}
<1>2. ASSUME NEW n \in DOMAIN x PROVE n \in ns <=> n \in a + 1..b
  <2>1. n - 1 \in 0..Len(x) /\ n \in Nat
    BY <1>1
  <2>2. Spill!Bytes(SubSeq(x, 1, n - 1)) = At(x)[n - 1]
    BY <2>1, BytesOfBeginning
  <2>3. (At(x)[a] <= At(x)[n - 1] <=> a <= n - 1) /\ (At(x)[n - 1] < At(x)[b] <=> n - 1 < b)
    BY <2>1, AtRises
  <2>4. n \in a + 1..b <=> a <= n - 1 /\ n - 1 < b
    BY <1>1, <2>1
  <2> QED BY <2>2, <2>3, <2>4
<1>3. ns \subseteq DOMAIN x /\ a + 1..b \subseteq DOMAIN x
  BY <1>1
<1>4. ns = a + 1..b
  BY <1>2, <1>3
<1>5. Spill!Between(x, At(x)[a], At(x)[b])
      = IF ns = {} THEN <<>>
        ELSE SubSeq(x, CHOOSE n \in ns : \A o \in ns : n <= o, CHOOSE n \in ns : \A o \in ns : n >= o)
  BY DEF Spill!Between
<1> HIDE DEF ns
<1>6. PICK c : c = a + 1
  OBVIOUS
<1>7. c \in Nat /\ c <= b /\ ns = c..b
  BY <1>1, <1>4, <1>6
<1>8. c \in ns /\ b \in ns /\ \A o \in ns : c <= o /\ b >= o /\ o \in Nat
  BY <1>1, <1>7
<1>9. PICK k : k = CHOOSE n \in ns : \A o \in ns : n <= o
  OBVIOUS
<1>10. PICK m : m = CHOOSE n \in ns : \A o \in ns : n >= o
  OBVIOUS
<1>11. k \in ns /\ \A o \in ns : k <= o
  BY <1>8, <1>9
<1>12. m \in ns /\ \A o \in ns : m >= o
  BY <1>8, <1>10
<1>13. k = c /\ m = b
  <2>1. k <= c /\ c <= k /\ k \in Nat
    BY <1>8, <1>11
  <2>2. m >= b /\ b >= m /\ m \in Nat
    BY <1>8, <1>12
  <2> QED BY <1>1, <1>7, <2>1, <2>2
<1>14. ns # {}
  BY <1>8
<1> QED BY <1>5, <1>6, <1>9, <1>10, <1>13, <1>14

\* The preview: as much of a text as fits, which is none of it at least.
LEMMA PreviewIs ==
  ASSUME NEW x \in Texts
  PROVE  Spill!IsPrefix(Spill!Preview(x), x) /\ Spill!Bytes(Spill!Preview(x)) <= Ceiling
<1>1. Len(x) \in Nat /\ Ceiling \in Nat /\ 0 \in 0..Len(x)
  BY AtIs, TextsAssumption
<1> DEFINE T == {n \in 0..Len(x) : Spill!Cuts(x, n)}
<1>2. 0 \in T
  <2>1. Spill!Bytes(SubSeq(x, 1, 0)) = 0
    BY <1>1, BytesOfBeginning, AtIs
  <2> QED BY <1>1, <2>1 DEF Spill!Cuts
<1>3. PICK m \in T : \A y \in m + 1..Len(x) : y \notin T
  BY <1>1, <1>2, GreatestOf
<1>4. m \in 0..Len(x) /\ Spill!Cuts(x, m) /\ \A o \in m + 1..Len(x) : ~ Spill!Cuts(x, o)
  <2>1. \A o \in m + 1..Len(x) : o \in 0..Len(x)
    BY <1>1, <1>3
  <2> QED BY <1>3, <2>1
<1> HIDE DEF T
<1>5. PICK n : n = CHOOSE k \in 0..Len(x) : Spill!Cuts(x, k) /\ \A o \in k + 1..Len(x) : ~ Spill!Cuts(x, o)
  OBVIOUS
<1>6. n \in 0..Len(x) /\ Spill!Cuts(x, n)
  BY <1>4, <1>5
<1>7. Spill!Preview(x) = SubSeq(x, 1, n)
  BY <1>5 DEF Spill!Preview
<1> QED BY <1>6, <1>7, BytesOfBeginning DEF Spill!Cuts

\* A text is a beginning of itself.
LEMMA WholeIsPrefix ==
  ASSUME NEW x \in Texts PROVE Spill!IsPrefix(x, x)
BY DEF Spill!IsPrefix

\* What is joined of lines is a text.
LEMMA JoinedIsText ==
  ASSUME NEW ls \in Seq(Texts)
  PROVE  Spill!Joined(ls) \in Texts
<1>1. PICK n : n = Len(ls)
  OBVIOUS
<1>2. n \in Nat /\ \A i \in 1..n : ls[i] \in Texts
  BY <1>1, LenProperties, ElementOfSeq
<1>3. <<>> \in Texts /\ <<1>> \in Texts
  <2>1. <<>> \in Seq(Nat \ {0}) /\ 1 \in Nat \ {0}
    BY EmptySeq
  <2> QED BY <2>1 DEF Texts
<1>4. \A a, b \in Texts : a \o <<1>> \o b \in Texts
  <2> SUFFICES ASSUME NEW a \in Texts, NEW b \in Texts PROVE a \o <<1>> \o b \in Texts
    OBVIOUS
  <2>1. a \o <<1>> \in Seq(Nat \ {0})
    BY <1>3, ConcatProperties DEF Texts
  <2> QED BY <2>1, ConcatProperties DEF Texts
<1> DEFINE Longer(i, v) == IF v = <<>> THEN ls[i] ELSE v \o <<1>> \o ls[i]
           h == [p \in (1..n) \X Texts |-> Longer(p[1], p[2])]
           Is(g) == g = [i \in 0..n |-> IF i = 0 THEN <<>> ELSE Longer(i, g[i - 1])]
<1>5. ASSUME NEW i \in 1..n, NEW v \in Texts PROVE Longer(i, v) \in Texts
  BY <1>2, <1>4
<1>6. h \in [(1..n) \X Texts -> Texts] /\ \A i \in 1..n, v \in Texts : h[<<i, v>>] = Longer(i, v)
  <2>1. \A p \in (1..n) \X Texts : Longer(p[1], p[2]) \in Texts
    <3> SUFFICES ASSUME NEW p \in (1..n) \X Texts PROVE Longer(p[1], p[2]) \in Texts
      OBVIOUS
    <3>1. p[1] \in 1..n /\ p[2] \in Texts
      OBVIOUS
    <3> HIDE DEF Longer
    <3> QED BY <1>5, <3>1
  <2> HIDE DEF Longer
  <2> QED BY <2>1
<1> HIDE DEF h
<1>7. \E g : Is(g)
  <2> HIDE DEF Longer
  <2>1. PICK g \in [0..n -> Texts] : Solves(g, n, <<>>, h)
    BY <1>2, <1>3, <1>6, Recursion
  <2>2. ASSUME NEW i \in 0..n PROVE g[i] = IF i = 0 THEN <<>> ELSE Longer(i, g[i - 1])
    <3>1. CASE i = 0
      BY <2>1, <3>1 DEF Solves
    <3>2. CASE i # 0
      <4>1. i \in 1..n /\ i - 1 \in 0..n
        BY <1>2, <3>2
      <4>2. g[i] = h[<<i, g[i - 1]>>] /\ g[i - 1] \in Texts
        BY <2>1, <4>1 DEF Solves
      <4> QED BY <1>6, <3>2, <4>1, <4>2
    <3> QED BY <3>1, <3>2
  <2>3. g = [i \in 0..n |-> IF i = 0 THEN <<>> ELSE Longer(i, g[i - 1])]
    BY <2>1, <2>2
  <2> QED BY <2>3
<1>8. ASSUME NEW g, Is(g) PROVE g[n] \in Texts
  <2> HIDE DEF Longer
  <2> DEFINE S == {i \in 0..n : g[i] \in Texts}
  <2>0. \A i \in 0..n : g[i] = IF i = 0 THEN <<>> ELSE Longer(i, g[i - 1])
    BY <1>8
  <2>1. 0 \in S
    BY <1>2, <1>3, <2>0
  <2>2. ASSUME NEW i \in 1..n, i - 1 \in S PROVE i \in S
    <3>1. i \in 0..n /\ i # 0
      BY <1>2
    <3> QED BY <1>5, <2>0, <2>2, <3>1
  <2> HIDE DEF S
  <2>3. \A i \in 0..n : i \in S
    BY <1>2, <2>1, <2>2, UpTo
  <2> QED BY <1>2, <2>3 DEF S
<1>9. Spill!Joined(ls) = (CHOOSE g : Is(g))[n]
  BY <1>1 DEF Spill!Joined
<1> HIDE DEF Is
<1> QED BY <1>7, <1>8, <1>9

-------------------------------------------------------------------------------
(* What is kept of outputs and of the calls that read them.                   *)

\* An outcome of a name shows a beginning of its text.
Shows(o) ==
  /\ o.text \in Texts /\ Spill!IsPrefix(o.shown, o.text)
  /\ o.by = "finalize" => Spill!Bytes(o.shown) <= Ceiling

\* What lies under a name is the text of its outcome or nothing of it, and all of it
\* where finalize gave the path.
Holds(p, f, o) ==
  /\ f.text \in {o.text, <<>>}
  /\ o.by = "finalize" /\ o.path = {p} => f.text = o.text

\* A text that may be read for a name.
Readable(p, x) == \E o \in outcomes[p] : x \in {o.text, <<>>}

\* What a caller got is what its text has between two characters, the first where it
\* began and the last where it stands.
Got(r) ==
  /\ r.got = <<>> => r.offset = r.from
  /\ r.got # <<>> =>
       \E o \in outcomes[r.path] : \E a, b \in 0..Len(o.text) :
         /\ a < b /\ r.from = At(o.text)[a] /\ r.offset = At(o.text)[b]
         /\ r.got = SubSeq(o.text, a + 1, b)

\* A name has one outcome at most, and nothing lies under it before it has one.
NamesFit ==
  /\ spilled = [p \in Paths |-> spilled[p]] /\ outcomes = [p \in Paths |-> outcomes[p]]
  /\ \A p \in Paths :
       /\ \A o, u \in outcomes[p] : o = u
       /\ \A o \in outcomes[p] : Shows(o)
       /\ \A f \in spilled[p] : outcomes[p] # {} /\ (f.kind = "file" => \A o \in outcomes[p] : Holds(p, f, o))

\* A call has open what may be read for the name it asks for, and reads it only from inside.
SearchFits ==
  /\ search = [at |-> search.at, file |-> search.file, limit |-> search.limit] /\ search.limit \in Nat
  /\ search.at # "none" => reader.path \in Paths
  /\ search.at \in {"check", "read"} => \A f \in search.file : Spill!Inside(f) => Readable(reader.path, f.text)
  /\ search.at = "read" => \A f \in search.file : Spill!Inside(f)

\* A caller has got a part of one text.
ReaderFits ==
  /\ reader = [path |-> reader.path, from |-> reader.from, offset |-> reader.offset, got |-> reader.got]
  /\ reader.offset \in Nat /\ (reader.got # <<>> => reader.path \in Paths) /\ Got(reader)

\* The lines that were read are the first of the file.
ScrollFits ==
  /\ scroll.next \in 1..Len(PagedFile) + 1
  /\ scroll.got = SubSeq(PagedFile, 1, scroll.next - 1)

\* What is kept of outputs, of the calls that read them, and of the pages of a file.
SpillInv == NamesFit /\ SearchFits /\ ReaderFits /\ ScrollFits

\* No outputs and no calls at the start.
LEMMA SpillStarts == Spill!Init => SpillInv
<1> SUFFICES ASSUME Spill!Init PROVE SpillInv
  OBVIOUS
<1>1. spilled = [p \in Paths |-> {}] /\ outcomes = [p \in Paths |-> {}]
  BY DEF Spill!Init
<1>2. search = [at |-> "none", file |-> {}, limit |-> 0]
  BY DEF Spill!Init, Spill!NoCall
<1>3. reader = [path |-> "none", from |-> 0, offset |-> 0, got |-> <<>>]
  BY DEF Spill!Init, Spill!NoReader
<1>4. scroll = [next |-> 1, got |-> <<>>]
  BY DEF Spill!Init
<1>5. NamesFit
  BY <1>1 DEF NamesFit
<1>6. SearchFits
  BY <1>2 DEF SearchFits
<1>7. ReaderFits
  BY <1>3 DEF ReaderFits, Got
<1>8. ScrollFits
  <2>1. Len(PagedFile) \in Nat
    BY LenProperties, TextsAssumption
  <2>2. SubSeq(PagedFile, 1, 0) = <<>>
    BY SubSeqEmpty
  <2>3. scroll.next = 1 /\ scroll.got = <<>> /\ 1 - 1 = 0
    BY <1>4
  <2> QED BY <2>1, <2>2, <2>3 DEF ScrollFits
<1> QED BY <1>5, <1>6, <1>7, <1>8 DEF SpillInv

\* A name is drawn: it was free, and its outcome and what lies there fit.
LEMMA NameIsDrawn ==
  ASSUME SpillInv, NEW p \in Paths, outcomes[p] = {}, NEW o, Shows(o), NEW fs,
         outcomes' = [outcomes EXCEPT ![p] = {o}], spilled' = [spilled EXCEPT ![p] = fs],
         \A f \in fs : f.kind = "file" => Holds(p, f, o), UNCHANGED <<search, reader>>, ScrollFits'
  PROVE  SpillInv'
<1>1. /\ outcomes' = [q \in Paths |-> IF q = p THEN {o} ELSE outcomes[q]]
      /\ spilled' = [q \in Paths |-> IF q = p THEN fs ELSE spilled[q]]
  BY DEF SpillInv, NamesFit
<1>2. outcomes'[p] = {o} /\ spilled'[p] = fs
  BY <1>1
<1>3. \A q \in Paths : q # p => outcomes'[q] = outcomes[q] /\ spilled'[q] = spilled[q]
  BY <1>1
<1>4. NamesFit'
  <2>1. spilled' = [q \in Paths |-> spilled'[q]] /\ outcomes' = [q \in Paths |-> outcomes'[q]]
    BY <1>1
  <2>2. ASSUME NEW q \in Paths
        PROVE  /\ \A v, u \in outcomes'[q] : v = u
               /\ \A v \in outcomes'[q] : Shows(v)
               /\ \A f \in spilled'[q] : outcomes'[q] # {} /\ (f.kind = "file" => \A v \in outcomes'[q] : Holds(q, f, v))
    <3>1. CASE q = p
      BY <1>2, <3>1
    <3>2. CASE q # p
      BY <1>3, <3>2 DEF SpillInv, NamesFit
    <3> QED BY <3>1, <3>2
  <2> QED BY <2>1, <2>2 DEF NamesFit, Shows, Holds
<1>5. ASSUME NEW q \in Paths, NEW v \in outcomes[q] PROVE v \in outcomes'[q]
  BY <1>3, <1>5
<1>6. SearchFits'
  <2>1. SearchFits
    BY DEF SpillInv
  <2>2. ASSUME NEW q \in Paths, NEW x, Readable(q, x) PROVE Readable(q, x)'
    BY <1>5, <2>2 DEF Readable
  <2>3. search' = search /\ reader' = reader
    OBVIOUS
  <2> QED BY <2>1, <2>2, <2>3 DEF SearchFits, Spill!Inside
<1>7. ReaderFits'
  <2>1. ReaderFits /\ reader' = reader
    BY DEF SpillInv
  <2>2. CASE reader.got = <<>>
    BY <2>1, <2>2 DEF ReaderFits, Got
  <2>3. CASE reader.got # <<>>
    <3>0. reader.path \in Paths
      BY <2>1, <2>3 DEF ReaderFits
    <3>1. \A v \in outcomes[reader.path] : v \in outcomes'[reader.path]
      BY <1>5, <3>0
    <3>2. Got(reader)
      BY <2>1 DEF ReaderFits
    <3>3. Got(reader)'
      BY <2>1, <2>3, <3>1, <3>2 DEF Got
    <3> QED BY <2>1, <3>3 DEF ReaderFits
  <2> QED BY <2>2, <2>3
<1> QED BY <1>4, <1>6, <1>7 DEF SpillInv

\* What is written of a drawn name's text is it, or nothing of it.
LEMMA NameIsWritten ==
  ASSUME SpillInv, NEW p \in Paths, outcomes[p] = {}, NEW o, Shows(o),
         outcomes' = [outcomes EXCEPT ![p] = {o}],
         \/ UNCHANGED spilled
         \/ spilled' = Spill!Written(p, o.text)
         \/ spilled' = Spill!Written(p, <<>>) /\ ~(o.by = "finalize" /\ o.path = {p}),
         UNCHANGED <<search, reader>>, ScrollFits'
  PROVE  SpillInv'
<1>1. CASE UNCHANGED spilled
  <2>1. spilled[p] = {}
    BY DEF SpillInv, NamesFit
  <2>2. spilled = [spilled EXCEPT ![p] = {}]
    BY <2>1 DEF SpillInv, NamesFit
  <2>3. spilled' = [spilled EXCEPT ![p] = {}]
    BY <1>1, <2>2
  <2>4. \A f \in {} : f.kind = "file" => Holds(p, f, o)
    OBVIOUS
  <2> QED BY <2>3, <2>4, NameIsDrawn
<1>2. ASSUME NEW x \in {o.text, <<>>}, spilled' = Spill!Written(p, x), o.by = "finalize" /\ o.path = {p} => x = o.text
      PROVE  SpillInv'
  <2>1. PICK f : f = [kind |-> "file", text |-> x]
    OBVIOUS
  <2>2. f.text = x
    BY <2>1
  <2>3. spilled' = [spilled EXCEPT ![p] = {f}]
    BY <1>2, <2>1 DEF Spill!Written
  <2>4. \A g \in {f} : g.kind = "file" => Holds(p, g, o)
    BY <1>2, <2>2 DEF Holds
  <2> QED BY <2>3, <2>4, NameIsDrawn
<1> QED BY <1>1, <1>2

\* A text is finalized under a name that was free (spec.rs), whatever came of the write.
LEMMA TextIsFinalized ==
  ASSUME SpillInv, NEW p \in Paths, Spill!Drawn(p), NEW text \in Texts, Spill!Finalize(p, text), ScrollFits'
  PROVE  SpillInv'
<1>1. outcomes[p] = {} /\ UNCHANGED <<search, reader>>
  BY DEF Spill!Drawn
<1>2. CASE Spill!Bytes(text) <= Ceiling
  <2>1. PICK o : o = [by |-> "finalize", text |-> text, shown |-> text, path |-> {}]
    OBVIOUS
  <2>2. outcomes' = [outcomes EXCEPT ![p] = {o}] /\ UNCHANGED spilled
    BY <1>2, <2>1 DEF Spill!Finalize, Spill!Gives
  <2>3. Shows(o)
    BY <1>2, <2>1, WholeIsPrefix DEF Shows
  <2> QED BY <1>1, <2>2, <2>3, NameIsWritten
<1>3. CASE /\ ~(Spill!Bytes(text) <= Ceiling)
           /\ spilled' = Spill!Written(p, text) /\ Spill!Gives(p, "finalize", text, Spill!Preview(text), {p})
  <2>1. PICK o : o = [by |-> "finalize", text |-> text, shown |-> Spill!Preview(text), path |-> {p}]
    OBVIOUS
  <2>2. outcomes' = [outcomes EXCEPT ![p] = {o}] /\ spilled' = Spill!Written(p, o.text)
    BY <1>3, <2>1 DEF Spill!Gives
  <2>3. Shows(o)
    BY <2>1, PreviewIs DEF Shows
  <2> QED BY <1>1, <2>2, <2>3, NameIsWritten
<1>4. CASE /\ ~(Spill!Bytes(text) <= Ceiling)
           /\ spilled' = Spill!Written(p, <<>>) \/ UNCHANGED spilled
           /\ Spill!Gives(p, "finalize", text, Spill!Preview(text), {})
  <2>1. PICK o : o = [by |-> "finalize", text |-> text, shown |-> Spill!Preview(text), path |-> {}]
    OBVIOUS
  <2>2. outcomes' = [outcomes EXCEPT ![p] = {o}] /\ o.path # {p}
    BY <1>4, <2>1 DEF Spill!Gives
  <2>3. Shows(o)
    BY <2>1, PreviewIs DEF Shows
  <2> QED BY <1>1, <1>4, <2>2, <2>3, NameIsWritten
<1> QED BY <1>2, <1>3, <1>4 DEF Spill!Finalize

\* The output of a search or of the shell is finalized.
LEMMA SpillOutput ==
  ASSUME SpillInv, NEW p \in Paths, NEW text \in Outputs, Spill!Output(p, text)
  PROVE  SpillInv'
<1>1. text \in Texts
  BY TextsAssumption DEF Texts
<1>2. ScrollFits'
  BY DEF Spill!Output, SpillInv, ScrollFits
<1> QED BY <1>1, <1>2, TextIsFinalized DEF Spill!Output

\* What memory_search gives: the whole, or its beginning and a path.
LEMMA SpillMemory ==
  ASSUME SpillInv, NEW p \in Paths, NEW text \in Outputs, Spill!MemorySearch(p, text)
  PROVE  SpillInv'
<1>1. text \in Texts /\ outcomes[p] = {} /\ UNCHANGED <<search, reader>>
  BY TextsAssumption DEF Texts, Spill!MemorySearch, Spill!Drawn
<1>2. ScrollFits'
  BY DEF Spill!MemorySearch, SpillInv, ScrollFits
<1>3. CASE Spill!Bytes(text) <= MemoryLimit
  <2>1. PICK o : o = [by |-> "memory", text |-> text, shown |-> text, path |-> {}]
    OBVIOUS
  <2>2. outcomes' = [outcomes EXCEPT ![p] = {o}] /\ UNCHANGED spilled
    BY <1>3, <2>1 DEF Spill!MemorySearch, Spill!Gives
  <2>3. Shows(o)
    BY <1>1, <2>1, WholeIsPrefix DEF Shows
  <2> QED BY <1>1, <1>2, <2>2, <2>3, NameIsWritten
<1>4. CASE ~(Spill!Bytes(text) <= MemoryLimit)
  <2>0. PICK x : x = SubSeq(text, 1, Spill!Least(MemoryLimit, Len(text)))
    OBVIOUS
  <2>1. PICK o : o = [by |-> "memory", text |-> text, shown |-> x, path |-> {p}]
    OBVIOUS
  <2>2. outcomes' = [outcomes EXCEPT ![p] = {o}]
        /\ (spilled' = Spill!Written(p, o.text) \/ spilled' = Spill!Written(p, <<>>) \/ UNCHANGED spilled)
        /\ o.by # "finalize"
    BY <1>4, <2>0, <2>1 DEF Spill!MemorySearch, Spill!Gives
  <2>3. Spill!Least(MemoryLimit, Len(text)) \in 0..Len(text)
    BY <1>1, AtIs, TextsAssumption DEF Spill!Least
  <2>4. Shows(o)
    BY <1>1, <2>0, <2>1, <2>3, BytesOfBeginning DEF Shows
  <2> QED BY <1>1, <1>2, <2>2, <2>4, NameIsWritten
<1> QED BY <1>3, <1>4

\* A file that cannot be read is an outcome too, of no text.
LEMMA SpillFails ==
  ASSUME SpillInv, NEW p \in Paths, Spill!ReadFails(p)
  PROVE  SpillInv'
<1>1. <<>> \in Texts
  <2>1. <<>> \in Seq(Nat \ {0})
    BY EmptySeq
  <2> QED BY <2>1 DEF Texts
<1>2. ScrollFits' /\ outcomes[p] = {} /\ UNCHANGED <<search, reader, spilled>>
  BY DEF Spill!ReadFails, Spill!Drawn, SpillInv, ScrollFits
<1>3. PICK o : o = [by |-> "error", text |-> <<>>, shown |-> <<>>, path |-> {}]
  OBVIOUS
<1>4. outcomes' = [outcomes EXCEPT ![p] = {o}]
  BY <1>3 DEF Spill!ReadFails, Spill!Gives
<1>5. Shows(o)
  BY <1>1, <1>3, WholeIsPrefix DEF Shows
<1> QED BY <1>2, <1>4, <1>5, NameIsWritten

\* A page of the file is what follows what was got.
LEMMA SpillPage ==
  ASSUME SpillInv, NEW p \in Paths, NEW limit \in Limits, Spill!ReadFile(p, limit)
  PROVE  SpillInv'
<1>1. PICK n : n = scroll.next
  OBVIOUS
<1>2. PICK m : m = Spill!Least(limit, MaxLimit)
  OBVIOUS
<1>3. PICK k : k = Len(PagedFile)
  OBVIOUS
<1>4. m \in Nat /\ k \in Nat /\ PagedFile \in Seq(Texts) /\ n \in 1..k + 1 /\ n <= k
      /\ scroll.got = SubSeq(PagedFile, 1, n - 1)
  <2>1. limit \in Nat /\ MaxLimit \in Nat /\ PagedFile \in Seq(Texts)
    BY TextsAssumption DEF Texts
  <2>2. k \in Nat
    BY <1>3, <2>1, LenProperties
  <2>3. m \in Nat
    BY <1>2, <2>1 DEF Spill!Least
  <2> QED BY <1>1, <1>3, <2>1, <2>2, <2>3 DEF SpillInv, ScrollFits, Spill!ReadFile
<1>5. PICK h : h = Spill!Least(n + m - 1, k)
  OBVIOUS
<1>6. h \in n - 1..k /\ h - n + 1 + n = h + 1 /\ h \in Nat
  BY <1>4, <1>5 DEF Spill!Least
<1>7. PICK page : page = SubSeq(PagedFile, n, h)
  OBVIOUS
<1>8. page = Spill!Page(limit)
  BY <1>1, <1>2, <1>3, <1>5, <1>7 DEF Spill!Page
<1>9. page \in Seq(Texts) /\ Len(page) = h - n + 1
  BY <1>3, <1>4, <1>6, <1>7, Parts
<1>10. /\ Spill!Drawn(p) /\ Spill!Finalize(p, Spill!Joined(page))
       /\ scroll' = [next |-> n + Len(page), got |-> SubSeq(PagedFile, 1, n - 1) \o page]
  BY <1>1, <1>4, <1>8 DEF Spill!ReadFile
<1>11. Spill!Joined(page) \in Texts
  BY <1>9, JoinedIsText
<1>12. ScrollFits'
  <2>1. 1 \in 1..Len(PagedFile) + 1 /\ n - 1 \in 1 - 1..Len(PagedFile) /\ h \in n - 1..Len(PagedFile) /\ (n - 1) + 1 = n
    BY <1>3, <1>4, <1>6
  <2>2. SubSeq(PagedFile, 1, n - 1) \o SubSeq(PagedFile, (n - 1) + 1, h) = SubSeq(PagedFile, 1, h)
    BY <1>4, <2>1, ConcatAdjacentSubSeq
  <2>3. scroll'.got = SubSeq(PagedFile, 1, h)
    BY <1>7, <1>10, <2>1, <2>2
  <2>4. scroll'.next = n + Len(page)
    BY <1>10
  <2>5. scroll'.next = h + 1
    BY <1>4, <1>6, <1>9, <2>4
  <2>6. h + 1 \in 1..Len(PagedFile) + 1 /\ (h + 1) - 1 = h
    BY <1>3, <1>4, <1>6
  <2> QED BY <2>3, <2>5, <2>6 DEF ScrollFits
<1> QED BY <1>10, <1>11, <1>12, TextIsFinalized

\* A difference is zero where there is none.
LEMMA Difference ==
  ASSUME NEW m \in Int, NEW n \in Int, NEW l, l = m - n
  PROVE  (m = n => l = 0) /\ (n < m => l # 0)
OBVIOUS

\* A page of a text, from a byte on.
PageAt(x, offset, limit) ==
  SubSeq(Spill!From(x, offset), 1, Spill!Least(limit, Len(Spill!From(x, offset))))

\* A page from a byte on: nothing, or what follows the character that begins there.
LEMMA PageIs ==
  ASSUME NEW x \in Texts, NEW offset, NEW limit \in Nat, NEW page, page = PageAt(x, offset, limit)
  PROVE  \/ page = <<>> /\ Spill!Bytes(page) = 0
         \/ \E n, m \in 0..Len(x) :
              n < m /\ offset = At(x)[n] /\ page = SubSeq(x, n + 1, m) /\ Spill!Bytes(page) = At(x)[m] - At(x)[n]
<1>1. PICK starts : starts = {n \in 0..Len(x) : Spill!Bytes(SubSeq(x, 1, n)) = offset}
  OBVIOUS
<1>2. PICK rest : rest = Spill!From(x, offset)
  OBVIOUS
<1>3. rest = IF starts = {} THEN <<>> ELSE SubSeq(x, 1 + CHOOSE n \in starts : TRUE, Len(x))
  BY <1>1, <1>2 DEF Spill!From
<1>4. Len(x) \in Nat
  BY AtIs
<1>5. <<>> \in Texts /\ Len(<<>>) = 0 /\ Spill!Bytes(<<>>) = 0
  <2>1. <<>> \in Texts /\ Len(<<>>) = 0
    BY EmptySeq DEF Texts
  <2>2. Spill!Bytes(<<>>) = At(<<>>)[Len(<<>>)] /\ At(<<>>)[0] = 0
    BY <2>1, AtIs
  <2> QED BY <2>1, <2>2
<1>6. PICK k : k = Spill!Least(limit, Len(rest))
  OBVIOUS
<1>7. page = SubSeq(rest, 1, k)
  BY <1>2, <1>6 DEF PageAt
<1>8. CASE starts = {}
  <2>1. rest = <<>>
    BY <1>3, <1>8
  <2>2. k = 0
    BY <1>5, <1>6, <2>1 DEF Spill!Least
  <2>3. page = <<>>
    BY <1>7, <2>1, <2>2, SubSeqEmpty
  <2> QED BY <1>5, <2>3
<1>9. CASE starts # {}
  <2>1. PICK n : n = CHOOSE k0 \in starts : TRUE
    OBVIOUS
  <2>2. n \in starts
    BY <1>9, <2>1
  <2>3. n \in 0..Len(x) /\ offset = At(x)[n]
    BY <1>1, <2>2, BytesOfBeginning
  <2>4. rest = SubSeq(x, n + 1, Len(x))
    <3>1. n + 1 = 1 + n
      BY <2>3
    <3>2. rest = SubSeq(x, 1 + n, Len(x))
      BY <1>3, <1>9, <2>1
    <3> QED BY <3>1, <3>2
  <2>5. x \in Seq(Nat \ {0}) /\ n + 1 \in 1..Len(x) + 1 /\ Len(x) \in (n + 1) - 1..Len(x) /\ n \in Nat
        /\ Len(x) - (n + 1) + 1 = Len(x) - n /\ Len(x) - n \in Nat
    BY <1>4, <2>3 DEF Texts
  <2>6. /\ Len(rest) = Len(x) - n
        /\ \A i \in 0..Len(x) - n : SubSeq(rest, 1, i) = SubSeq(x, n + 1, (n + 1) + i - 1)
    <3>1. Len(SubSeq(x, n + 1, Len(x))) = Len(x) - (n + 1) + 1
      BY <2>5, Parts
    <3>2. \A i \in 0..Len(x) - (n + 1) + 1 :
            SubSeq(SubSeq(x, n + 1, Len(x)), 1, i) = SubSeq(x, n + 1, (n + 1) + i - 1)
      BY <2>5, Parts
    <3> QED BY <2>4, <2>5, <3>1, <3>2
  <2>7. k \in 0..Len(x) - n
    <3>1. PICK l : l = Len(x) - n
      OBVIOUS
    <3>2. l \in Nat /\ Len(rest) = l
      BY <2>5, <2>6, <3>1
    <3>3. k \in 0..l
      BY <1>6, <3>2 DEF Spill!Least
    <3> QED BY <3>1, <3>3
  <2>8. PICK m : m = n + k
    OBVIOUS
  <2>9. m \in n..Len(x) /\ (n + 1) + k - 1 = m /\ m \in 0..Len(x) /\ (k = 0 => m = n) /\ (k # 0 => n < m)
    BY <1>4, <2>3, <2>7, <2>8
  <2>10. page = SubSeq(x, n + 1, m)
    BY <1>7, <2>6, <2>7, <2>9
  <2>11. Spill!Bytes(page) = At(x)[m] - At(x)[n] /\ Len(page) = m - n /\ page \in Texts
    BY <2>3, <2>9, <2>10, BytesOfPart
  <2>12. CASE k = 0
    <3>0. m = n /\ n \in Nat /\ Len(page) = m - n
      BY <2>5, <2>9, <2>11, <2>12
    <3>1. Len(page) = 0
      BY <3>0, Difference
    <3>2. page = <<>>
      BY <2>11, <3>1, EmptySeq DEF Texts
    <3> QED BY <1>5, <3>2
  <2>13. CASE k # 0
    BY <2>3, <2>9, <2>10, <2>11, <2>13
  <2> QED BY <2>12, <2>13
<1> QED BY <1>8, <1>9

\* A caller gets the next page of the text of its name.
LEMMA ReaderGoesOn ==
  ASSUME NEW r, NEW p, r.path = p, r.offset \in Nat, Got(r), NEW x, Readable(p, x),
         \A o, u \in outcomes[p] : o = u, \A o \in outcomes[p] : Shows(o),
         NEW limit \in Nat, NEW page, page = PageAt(x, r.offset, limit),
         r.got # <<>> => p \in Paths, NEW new,
         new = [path |-> p, from |-> r.from, offset |-> r.offset + Spill!Bytes(page), got |-> r.got \o page]
  PROVE  Got(new) /\ new.offset \in Nat
<1>1. PICK o \in outcomes[p] : x \in {o.text, <<>>}
  BY DEF Readable
<1>2. o.text \in Texts /\ <<>> \in Texts
  BY EmptySeq DEF Shows, Texts
<1>3. new.path = p /\ new.from = r.from /\ new.offset = r.offset + Spill!Bytes(page) /\ new.got = r.got \o page
  OBVIOUS
<1>4. \/ page = <<>> /\ Spill!Bytes(page) = 0
      \/ \E c, m \in 0..Len(x) :
           c < m /\ r.offset = At(x)[c] /\ page = SubSeq(x, c + 1, m) /\ Spill!Bytes(page) = At(x)[m] - At(x)[c]
  <2>1. x \in Texts
    BY <1>1, <1>2
  <2>2. \/ page = <<>> /\ Spill!Bytes(page) = 0
        \/ \E n, m \in 0..Len(x) :
             n < m /\ r.offset = At(x)[n] /\ page = SubSeq(x, n + 1, m) /\ Spill!Bytes(page) = At(x)[m] - At(x)[n]
    <3>1. PICK from : from = r.offset /\ page = PageAt(x, from, limit)
      OBVIOUS
    <3>2. \/ page = <<>> /\ Spill!Bytes(page) = 0
          \/ \E n, m \in 0..Len(x) :
               n < m /\ from = At(x)[n] /\ page = SubSeq(x, n + 1, m) /\ Spill!Bytes(page) = At(x)[m] - At(x)[n]
      BY <2>1, <3>1, PageIs
    <3> QED BY <3>1, <3>2
  <2> QED BY <2>2
<1>5. r.got # <<>> =>
        \E a, b \in 0..Len(o.text) :
          a < b /\ r.from = At(o.text)[a] /\ r.offset = At(o.text)[b] /\ r.got = SubSeq(o.text, a + 1, b)
  BY <1>1 DEF Got
<1>6. r.got \in Seq(Nat \ {0})
  <2>1. CASE r.got = <<>>
    BY <2>1, EmptySeq
  <2>2. CASE r.got # <<>>
    <3>1. PICK a \in 0..Len(o.text), b \in 0..Len(o.text) : a < b /\ r.got = SubSeq(o.text, a + 1, b)
      BY <1>5, <2>2
    <3>2. b \in a..Len(o.text)
      BY <1>2, <3>1, AtIs
    <3> QED BY <1>2, <3>1, <3>2, BytesOfPart DEF Texts
  <2> QED BY <2>1, <2>2
<1>7. CASE page = <<>> /\ Spill!Bytes(page) = 0
  <2>1. new.got = r.got
    BY <1>3, <1>6, <1>7, ConcatEmptySeq
  <2>2. new.offset = r.offset
    BY <1>3, <1>7
  <2> QED BY <1>3, <2>1, <2>2 DEF Got
<1>8. ASSUME NEW c \in 0..Len(x), NEW m \in 0..Len(x), c < m, r.offset = At(x)[c], page = SubSeq(x, c + 1, m),
             Spill!Bytes(page) = At(x)[m] - At(x)[c]
      PROVE  Got(new) /\ new.offset \in Nat
  <2>1. x = o.text
    <3>1. CASE x = <<>>
      <4>1. Len(x) = 0
        BY <3>1, EmptySeq
      <4> QED BY <1>8, <4>1
    <3> QED BY <1>1, <3>1
  <2>2. x \in Texts /\ Len(x) \in Nat /\ At(x)[c] \in Nat /\ At(x)[m] \in Nat
    <3>1. x \in Texts
      BY <1>2, <2>1
    <3>2. Len(x) \in Nat /\ At(x) \in [0..Len(x) -> Nat]
      BY <3>1, AtIs
    <3> QED BY <3>1, <3>2
  <2>3. new.offset = At(x)[m] /\ new.offset \in Nat
    BY <1>3, <1>8, <2>2
  <2>4. CASE r.got = <<>>
    <3>1. page \in Seq(Nat \ {0})
      <4>1. m \in c..Len(x)
        BY <1>8, <2>2
      <4> QED BY <1>8, <2>2, <4>1, BytesOfPart DEF Texts
    <3>2. new.got = page
      BY <1>3, <2>4, <3>1, ConcatEmptySeq
    <3>3. new.from = At(x)[c]
      BY <1>3, <1>8, <2>4 DEF Got
    <3>4. m - c > 0 /\ m \in c..Len(x)
      BY <1>8, <2>2
    <3>5. page # <<>>
      <4>1. Len(page) = m - c
        <5>1. Len(SubSeq(x, c + 1, m)) = m - c
          BY <2>2, <3>4, BytesOfPart
        <5> QED BY <1>8, <5>1
      <4>2. Len(page) # 0
        BY <1>8, <2>2, <4>1, Difference
      <4> QED BY <3>1, <4>2, EmptySeq
    <3> QED BY <1>1, <1>3, <1>8, <2>1, <2>3, <3>2, <3>3, <3>5 DEF Got
  <2>5. CASE r.got # <<>>
    <3>1. PICK a \in 0..Len(x), b \in 0..Len(x) :
            a < b /\ r.from = At(x)[a] /\ r.offset = At(x)[b] /\ r.got = SubSeq(x, a + 1, b)
      BY <1>5, <2>1, <2>5
    <3>2. b = c
      BY <1>8, <2>2, <3>1, AtRises
    <3>3. a + 1 \in 1..Len(x) + 1 /\ b \in (a + 1) - 1..Len(x) /\ m \in b..Len(x) /\ x \in Seq(Nat \ {0}) /\ a < m
          /\ m \in a..Len(x) /\ m - a > 0
      BY <1>8, <2>2, <3>1, <3>2 DEF Texts
    <3>4. SubSeq(x, a + 1, b) \o SubSeq(x, b + 1, m) = SubSeq(x, a + 1, m)
      BY <3>3, ConcatAdjacentSubSeq
    <3>5. new.got = SubSeq(x, a + 1, m)
      BY <1>3, <1>8, <3>1, <3>2, <3>4
    <3>6. new.got # <<>>
      <4>0. PICK z : z = SubSeq(x, a + 1, m)
        OBVIOUS
      <4>1. Len(z) = m - a /\ z \in Seq(Nat \ {0})
        BY <2>2, <3>3, <4>0, BytesOfPart DEF Texts
      <4>2. Len(z) # 0
        BY <3>3, <4>1
      <4>3. z # <<>>
        BY <4>1, <4>2, EmptySeq
      <4> QED BY <3>5, <4>0, <4>3
    <3> QED BY <1>1, <1>3, <2>1, <2>3, <3>1, <3>3, <3>5, <3>6 DEF Got
  <2> QED BY <2>3, <2>4, <2>5
<1> QED BY <1>4, <1>7, <1>8

\* The names stay as they are.
LEMMA NamesStay ==
  ASSUME SpillInv, UNCHANGED <<spilled, outcomes, scroll>>, SearchFits', ReaderFits'
  PROVE  SpillInv'
<1>1. NamesFit'
  BY DEF SpillInv, NamesFit, Shows, Holds
<1>2. ScrollFits'
  BY DEF SpillInv, ScrollFits
<1> QED BY <1>1, <1>2 DEF SpillInv

\* What may be read stays readable as long as no name is drawn.
LEMMA ReaderStays ==
  ASSUME SpillInv, UNCHANGED <<outcomes, reader>>
  PROVE  ReaderFits' /\ \A p, x : Readable(p, x) <=> Readable(p, x)'
<1>1. ReaderFits /\ (Got(reader) => Got(reader)')
  BY DEF SpillInv, Got
<1>2. ReaderFits'
  BY <1>1 DEF ReaderFits
<1> QED BY <1>2 DEF Readable

\* A call asks for the next page, or for a first one.
LEMMA SpillAsks ==
  ASSUME SpillInv, NEW p \in Paths, NEW offset \in Nat, NEW limit \in Limits, Spill!Ask(p, offset, limit)
  PROVE  SpillInv'
<1>1. UNCHANGED <<spilled, outcomes, scroll>> /\ search' = [at |-> "open", file |-> {}, limit |-> limit]
  BY DEF Spill!Ask, Spill!Apart
<1>2. limit \in Nat
  BY TextsAssumption
<1>3. CASE reader' = reader /\ reader.path = p
  <2>1. ReaderFits'
    BY <1>1, <1>3, ReaderStays
  <2>2. SearchFits'
    BY <1>1, <1>2, <1>3 DEF SearchFits
  <2> QED BY <1>1, <2>1, <2>2, NamesStay
<1>4. CASE reader' = [path |-> p, from |-> offset, offset |-> offset, got |-> <<>>]
  <2>1. ReaderFits'
    BY <1>4 DEF ReaderFits, Got
  <2>2. SearchFits'
    BY <1>1, <1>2, <1>4 DEF SearchFits
  <2> QED BY <1>1, <2>1, <2>2, NamesStay
<1> QED BY <1>3, <1>4 DEF Spill!Ask

\* A call is refused.
LEMMA SpillRefuses ==
  ASSUME SpillInv, Spill!Apart, Spill!Refused
  PROVE  SpillInv'
<1>1. UNCHANGED <<spilled, outcomes, scroll, reader>> /\ search' = [at |-> "none", file |-> {}, limit |-> 0]
  BY DEF Spill!Apart, Spill!Refused, Spill!NoCall
<1>2. SearchFits'
  BY <1>1 DEF SearchFits
<1> QED BY <1>1, <1>2, NamesStay, ReaderStays

\* A call moves on with the files it has open.
LEMMA CallGoesOn ==
  ASSUME SpillInv, UNCHANGED <<spilled, outcomes, scroll, reader>>, NEW fs, NEW at \in {"check", "read"},
         search.at # "none", search' = [at |-> at, file |-> fs, limit |-> search.limit],
         \A f \in fs : Spill!Inside(f) => Readable(reader.path, f.text),
         at = "read" => \A f \in fs : Spill!Inside(f)
  PROVE  SpillInv'
<1>1. search'.at = at /\ search'.file = fs /\ search'.limit = search.limit
  OBVIOUS
<1>2. search.limit \in Nat /\ reader.path \in Paths
  BY DEF SpillInv, SearchFits
<1>3. \A f \in fs : Spill!Inside(f) => Readable(reader.path, f.text)'
  BY ReaderStays
<1>4. SearchFits'
  BY <1>1, <1>2, <1>3 DEF SearchFits, Spill!Inside
<1> QED BY <1>4, NamesStay, ReaderStays

\* A call opens what is under its name, wherever the name of the directory leads.
LEMMA SpillOpens ==
  ASSUME SpillInv, Spill!Open
  PROVE  SpillInv'
<1>1. CASE Spill!Refused
  BY <1>1, SpillRefuses DEF Spill!Open
<1>2. CASE search' = [search EXCEPT !.at = "check", !.file = Spill!Found] /\ UNCHANGED <<spilled, leads, reader>>
  <2>0. PICK fs : fs = Spill!Found
    OBVIOUS
  <2>1. search = [at |-> search.at, file |-> search.file, limit |-> search.limit] /\ reader.path \in Paths
        /\ search.at = "open" /\ UNCHANGED <<outcomes, scroll>>
    BY DEF SpillInv, SearchFits, Spill!Open, Spill!Apart
  <2>2. search' = [at |-> "check", file |-> fs, limit |-> search.limit]
    BY <1>2, <2>0, <2>1
  <2>3. ASSUME NEW f \in fs, Spill!Inside(f) PROVE Readable(reader.path, f.text)
    <3>1. PICK g \in spilled[reader.path] : g.kind = "file" /\ f.text = g.text
      <4>1. CASE leads # "own"
        <5>1. f = [place |-> "outside", text |-> Foreign]
          BY <2>0, <4>1 DEF Spill!Found
        <5>2. f.place = "outside" /\ f.place = "inside"
          BY <2>3, <5>1 DEF Spill!Inside
        <5> QED BY <5>2
      <4>2. CASE leads = "own"
        BY <2>0, <4>2 DEF Spill!Found
      <4> QED BY <4>1, <4>2
    <3>2. outcomes[reader.path] # {} /\ \A o \in outcomes[reader.path] : Holds(reader.path, g, o)
      BY <2>1, <3>1 DEF SpillInv, NamesFit
    <3> QED BY <3>1, <3>2 DEF Readable, Holds
  <2> QED BY <1>2, <2>1, <2>2, <2>3, CallGoesOn
<1> QED BY <1>1, <1>2 DEF Spill!Open

\* A call checks where the file it opened is.
LEMMA SpillChecks ==
  ASSUME SpillInv, Spill!Check
  PROVE  SpillInv'
<1>1. CASE Spill!Refused
  BY <1>1, SpillRefuses DEF Spill!Check
<1>2. CASE /\ \A f \in search.file : Spill!Inside(f)
           /\ search' = [search EXCEPT !.at = "read"] /\ UNCHANGED <<spilled, leads, reader>>
  <2>0. PICK fs : fs = search.file
    OBVIOUS
  <2>1. search = [at |-> search.at, file |-> fs, limit |-> search.limit]
        /\ search.at = "check" /\ UNCHANGED <<outcomes, scroll>>
    BY <2>0 DEF SpillInv, SearchFits, Spill!Check, Spill!Apart
  <2>2. search' = [at |-> "read", file |-> fs, limit |-> search.limit]
    BY <1>2, <2>1
  <2>3. \A f \in fs : Spill!Inside(f) => Readable(reader.path, f.text)
    BY <2>0, <2>1 DEF SpillInv, SearchFits
  <2> QED BY <1>2, <2>0, <2>1, <2>2, <2>3, CallGoesOn
<1> QED BY <1>1, <1>2 DEF Spill!Check

\* A reader who got more.
ReadOn(r, offset, got) == [r EXCEPT !.offset = offset, !.got = got]

\* The parts of a reader who got more.
LEMMA ReadOnIs ==
  ASSUME NEW r, r = [path |-> r.path, from |-> r.from, offset |-> r.offset, got |-> r.got],
         NEW new, NEW more, NEW n, n = ReadOn(r, new, more)
  PROVE  n = [path |-> r.path, from |-> r.from, offset |-> new, got |-> more]
<1> DEFINE R == [path : {r.path}, from : {r.from}, offset : {r.offset, new}, got : {r.got, more}]
<1>1. r \in R
  OBVIOUS
<1>2. n = [r EXCEPT !.offset = new, !.got = more]
  BY DEF ReadOn
<1>3. n \in R
  BY <1>1, <1>2
<1>4. n.offset = new /\ n.got = more
  BY <1>1, <1>2
<1>5. n.path = r.path /\ n.from = r.from /\ n = [path |-> n.path, from |-> n.from, offset |-> n.offset, got |-> n.got]
  BY <1>3
<1> QED BY <1>4, <1>5

\* A call reads the file it opened.
LEMMA SpillReads ==
  ASSUME SpillInv, Spill!Read
  PROVE  SpillInv'
<1>1. UNCHANGED <<spilled, outcomes, scroll>> /\ search' = [at |-> "none", file |-> {}, limit |-> 0] /\ search.at = "read"
  BY DEF Spill!Read, Spill!Apart, Spill!NoCall
<1>2. PICK f \in search.file :
        reader' = [reader EXCEPT !.offset = @ + Spill!Bytes(SubSeq(Spill!From(f.text, reader.offset), 1,
                                                  Spill!Least(search.limit, Len(Spill!From(f.text, reader.offset))))),
                                 !.got = @ \o SubSeq(Spill!From(f.text, reader.offset), 1,
                                                  Spill!Least(search.limit, Len(Spill!From(f.text, reader.offset))))]
  BY DEF Spill!Read
<1>3. PICK page : page = PageAt(f.text, reader.offset, search.limit)
  OBVIOUS
<1>4. reader' = ReadOn(reader, reader.offset + Spill!Bytes(page), reader.got \o page)
  BY <1>2, <1>3 DEF ReadOn, PageAt
<1>5. PICK p : p = reader.path
  OBVIOUS
<1>6. reader = [path |-> p, from |-> reader.from, offset |-> reader.offset, got |-> reader.got]
      /\ reader.offset \in Nat /\ Got(reader)
  BY <1>5 DEF SpillInv, ReaderFits
<1>7. PICK n : n = reader'
  OBVIOUS
<1>8. n = [path |-> p, from |-> reader.from, offset |-> reader.offset + Spill!Bytes(page), got |-> reader.got \o page]
  <2>1. PICK k : k = reader.offset + Spill!Bytes(page)
    OBVIOUS
  <2>2. PICK g : g = reader.got \o page
    OBVIOUS
  <2>3. n = ReadOn(reader, k, g)
    BY <1>4, <1>7, <2>1, <2>2
  <2>4. reader = [path |-> reader.path, from |-> reader.from, offset |-> reader.offset, got |-> reader.got]
    BY DEF SpillInv, ReaderFits
  <2>5. n = [path |-> reader.path, from |-> reader.from, offset |-> k, got |-> g]
    BY <2>3, <2>4, ReadOnIs, Zenon
  <2> QED BY <1>5, <2>1, <2>2, <2>5
<1>9. p \in Paths /\ search.limit \in Nat /\ Readable(p, f.text)
  BY <1>1, <1>5 DEF SpillInv, SearchFits
<1>10. (\A o, u \in outcomes[p] : o = u) /\ (\A o \in outcomes[p] : Shows(o))
  BY <1>9 DEF SpillInv, NamesFit
<1>11. Got(n) /\ n.offset \in Nat
  BY <1>3, <1>5, <1>6, <1>8, <1>9, <1>10, ReaderGoesOn
<1>12. n = [path |-> n.path, from |-> n.from, offset |-> n.offset, got |-> n.got] /\ n.path = p
  BY <1>8
<1>13. Got(n)'
  BY <1>1, <1>11 DEF Got
<1>14. ReaderFits'
  BY <1>7, <1>9, <1>11, <1>12, <1>13 DEF ReaderFits
<1>15. SearchFits'
  BY <1>1 DEF SearchFits
<1> QED BY <1>1, <1>14, <1>15, NamesStay

\* Others put a link where a file was, or move the directory.
LEMMA SpillPlants ==
  ASSUME SpillInv, NEW p \in Paths, Spill!Plant(p)
  PROVE  SpillInv'
<1>1. PICK g : g = [kind |-> "link", text |-> Foreign]
  OBVIOUS
<1>2. /\ spilled' = [spilled EXCEPT ![p] = {g}] /\ g.kind # "file" /\ spilled[p] # {}
      /\ UNCHANGED <<outcomes, search, reader, scroll>>
  BY <1>1 DEF Spill!Plant, Spill!Apart
<1>3. spilled' = [q \in Paths |-> IF q = p THEN {g} ELSE spilled[q]]
  BY <1>2 DEF SpillInv, NamesFit
<1>4. ASSUME NEW q \in Paths, NEW f \in spilled'[q]
      PROVE  outcomes[q] # {} /\ (f.kind = "file" => \A o \in outcomes[q] : Holds(q, f, o))
  <2>1. CASE q = p
    BY <1>2, <1>3, <1>4, <2>1 DEF SpillInv, NamesFit
  <2>2. CASE q # p
    BY <1>3, <1>4, <2>2 DEF SpillInv, NamesFit
  <2> QED BY <2>1, <2>2
<1>5. NamesFit'
  <2>1. spilled' = [q \in Paths |-> spilled'[q]]
    BY <1>3
  <2> QED BY <1>2, <1>4, <2>1 DEF SpillInv, NamesFit, Shows, Holds
<1>6. SearchFits'
  BY <1>2, ReaderStays DEF SpillInv, SearchFits, Spill!Inside
<1>7. ScrollFits'
  BY <1>2 DEF SpillInv, ScrollFits
<1> QED BY <1>2, <1>5, <1>6, <1>7, ReaderStays DEF SpillInv

\* What outputs and calls do not depend on changes.
LEMMA SpillSame ==
  ASSUME SpillInv, UNCHANGED <<spilled, outcomes, search, reader, scroll>>
  PROVE  SpillInv'
<1>1. SearchFits'
  BY ReaderStays DEF SpillInv, SearchFits, Spill!Inside
<1> QED BY <1>1, ReaderStays, NamesStay

\* Every step of the outputs and their calls.
LEMMA SpillStays == SpillInv /\ [Spill!Next]_(Spill!vars) => SpillInv'
<1> SUFFICES ASSUME SpillInv, [Spill!Next]_(Spill!vars) PROVE SpillInv'
  OBVIOUS
<1>1. ASSUME UNCHANGED Spill!vars PROVE SpillInv'
  BY <1>1, SpillSame DEF Spill!vars
<1>2. ASSUME Spill!Swap PROVE SpillInv'
  BY <1>2, SpillSame DEF Spill!Swap, Spill!Apart
<1>3. ASSUME NEW p \in Paths, NEW limit \in Limits, NEW offset \in {reader.offset, 0, 1}, Spill!Ask(p, offset, limit)
      PROVE  SpillInv'
  <2>1. reader.offset \in Nat
    BY DEF SpillInv, ReaderFits
  <2>2. offset \in Nat
    BY <2>1
  <2> QED BY <1>3, <2>2, SpillAsks
<1> QED BY <1>1, <1>2, <1>3, SpillOpens, SpillChecks, SpillReads, SpillOutput, SpillMemory, SpillPage, SpillFails,
           SpillPlants DEF Spill!Next

\* What is kept of outputs is what was promised.
LEMMA SpillIsRecalled == SpillInv => Spill!SpillsAreRecalled
<1> SUFFICES ASSUME SpillInv PROVE Spill!SpillsAreRecalled
  OBVIOUS
<1>1. ASSUME NEW p \in Paths, NEW o \in outcomes[p]
      PROVE  /\ Spill!IsPrefix(o.shown, o.text)
             /\ o.by = "finalize" => Spill!Bytes(o.shown) <= Ceiling
             /\ o.by = "finalize" /\ o.path = {p} => \A f \in spilled[p] : f.kind = "file" => f.text = o.text
  <2>1. Shows(o)
    BY DEF SpillInv, NamesFit
  <2>2. \A f \in spilled[p] : f.kind = "file" => Holds(p, f, o)
    BY DEF SpillInv, NamesFit
  <2> QED BY <2>1, <2>2 DEF Shows, Holds
<1>2. ASSUME reader.got # <<>>
      PROVE  \E o \in outcomes[reader.path] : reader.got = Spill!Between(o.text, reader.from, reader.offset)
  <2>1. PICK o \in outcomes[reader.path] : \E a, b \in 0..Len(o.text) :
          /\ a < b /\ reader.from = At(o.text)[a] /\ reader.offset = At(o.text)[b]
          /\ reader.got = SubSeq(o.text, a + 1, b)
    BY <1>2 DEF SpillInv, ReaderFits, Got
  <2>2. o.text \in Texts
    BY <1>2 DEF SpillInv, ReaderFits, NamesFit, Shows
  <2>3. PICK a \in 0..Len(o.text), b \in 0..Len(o.text) :
          /\ a < b /\ reader.from = At(o.text)[a] /\ reader.offset = At(o.text)[b]
          /\ reader.got = SubSeq(o.text, a + 1, b)
    BY <2>1
  <2>4. reader.got = Spill!Between(o.text, reader.from, reader.offset)
    BY <2>2, <2>3, BetweenIs
  <2> QED BY <2>4
<1>3. scroll.got = SubSeq(PagedFile, 1, scroll.next - 1)
  BY DEF SpillInv, ScrollFits
<1> QED BY <1>1, <1>2, <1>3 DEF Spill!SpillsAreRecalled

\* Whoever else writes, is killed or makes directories: nothing outside the workspace changes, protected
\* files keep what they hold, and a file that is no unfinished one holds one complete content (write_file.rs);
\* a search stays in the workspace, lists no file twice, keeps its caps, and one that ended over a tree
\* nobody changed has found exactly what matches (search_files.rs); a preview is a beginning that fits, a
\* path that finalize gave holds the whole output, and pages are read in order, nothing twice and nothing
\* left out, never from outside the directory (spec.rs, read_file.rs, lib.rs).
THEOREM FilesTrue == Spec => []FilesAreTrue
<1>1. Init => FilesInv /\ ScanInv(tree, scan) /\ SpillInv
  BY FilesStart, ScanStarts, SpillStarts DEF Init
<1>2. FilesInv /\ ScanInv(tree, scan) /\ SpillInv /\ [Next]_vars => (FilesInv /\ ScanInv(tree, scan) /\ SpillInv)'
  <2>1. [Next]_vars => [Files!Next]_(Files!vars)
    BY DEF Next, OneOf, vars, fileVars, Files!vars
  <2>2. [Next]_vars => [Spill!Next]_(Spill!vars)
    BY DEF Next, OneOf, vars, spillVars, Spill!vars
  <2> QED BY <2>1, <2>2, FilesStay, ScanStays, SpillStays
<1>3. FilesInv /\ ScanInv(tree, scan) /\ SpillInv => FilesAreTrue
  <2>1. FilesInv => Files!FilesAreWhole
    BY DEF FilesInv, Whole, Files!FilesAreWhole
  <2> QED BY <2>1, ScanIsExact, SpillIsRecalled DEF FilesAreTrue
<1> QED BY <1>1, <1>2, <1>3, PTL DEF Spec
===============================================================================
