----------------------------- MODULE McpTransport -----------------------------
(***************************************************************************)
(* The stdio client of an MCP server (crates/darius-tools/src/mcp.rs): one *)
(* child process, one thread that reads its lines into a channel, and one  *)
(* lock that a caller holds from writing its request until it has a reply, *)
(* an error or its timeout.  The server answers when and in what order it  *)
(* likes, writes lines nobody asked for, and may exit at any time.         *)
(***************************************************************************)
EXTENDS Integers, Sequences, FiniteSets

CONSTANTS
  Callers,   \* threads that share the client; the first call of one connects
  MaxIds,    \* bound on the requests of a run
  MaxNoise   \* bound on lines that answer no request

VARIABLES
  child,     \* the server process: none, running or gone
  nextId,    \* the id of the last request
  asked,     \* requests the server has read and not answered
  answered,  \* what the server answered each request with
  stdout,    \* lines read from the child and not yet received
  noise,     \* lines written that answer nothing, counted
  holder,    \* who holds the lock of the transport
  call       \* what each caller is doing, and how its last call ended

vars == <<child, nextId, asked, answered, stdout, noise, holder, call>>

Nobody == "nobody"
Kinds == {"ping", "request", "shutdown"}      \* request: tools/list or tools/call
Bodies == {"short", "long", "error"}      \* long: above the spill ceiling, or more than 64 tools
NoCall == [at |-> "idle", kind |-> "none", id |-> 0, result |-> "none"]

Init ==
  /\ child = "none" /\ nextId = 0 /\ asked = {} /\ answered = <<>>
  /\ stdout = <<>> /\ noise = 0 /\ holder = Nobody
  /\ call = [c \in Callers |-> NoCall]

-------------------------------------------------------------------------------
(* The server and the thread that reads its lines.                           *)

Say(line) == stdout' = Append(stdout, line)

ServerAnswers(id, body) ==
  /\ child = "running" /\ id \in asked
  /\ Say([of |-> id, body |-> body])
  /\ answered' = [answered EXCEPT ![id] = body]
  /\ asked' = asked \ {id}
  /\ UNCHANGED <<child, nextId, noise, holder, call>>

\* A notification (valid JSON without an id) or a line that is not JSON.
ServerSpeaks(body) ==
  /\ child = "running" /\ noise < MaxNoise
  /\ noise' = noise + 1
  /\ Say([of |-> 0, body |-> body])
  /\ UNCHANGED <<child, nextId, asked, answered, holder, call>>

ServerExits ==
  /\ child = "running"
  /\ child' = "gone"
  /\ UNCHANGED <<nextId, asked, answered, stdout, noise, holder, call>>

-------------------------------------------------------------------------------
(* A caller.                                                                 *)

Release(c, result) ==
  /\ holder' = Nobody
  /\ call' = [call EXCEPT ![c] =
       IF @.kind = "request" /\ result \in Bodies THEN [@ EXCEPT !.at = "idle", !.result = result]
       ELSE [NoCall EXCEPT !.result = result]]

\* A ping with no time at all ends before it asks for the lock.
Enter(c, kind) ==
  /\ child # "none" /\ call[c].at = "idle"
  /\ kind # "shutdown" => nextId < MaxIds
  /\ call' = [call EXCEPT ![c] = [at |-> "locking", kind |-> kind, id |-> 0, result |-> "none"]]
  /\ UNCHANGED <<child, nextId, asked, answered, stdout, noise, holder>>

Lock(c) ==
  /\ call[c].at = "locking" /\ holder = Nobody
  /\ holder' = c
  /\ call' = [call EXCEPT ![c].at = "writing"]
  /\ UNCHANGED <<child, nextId, asked, answered, stdout, noise>>

\* Every request takes the next id, whatever became of the one before.
FreshId == nextId + 1

\* The request is written to the child, which an exit turns into an error; a
\* ping looks at the child first.
Write(c) ==
  /\ holder = c /\ call[c].at = "writing" /\ call[c].kind # "shutdown"
  /\ nextId < MaxIds
  /\ IF child = "gone" /\ call[c].kind = "ping"
     THEN Release(c, "unreachable") /\ UNCHANGED <<nextId, asked, answered>>
     ELSE /\ nextId' = FreshId
          /\ answered' = Append(answered, "nothing")
          /\ IF child = "gone"
             THEN Release(c, "transport") /\ UNCHANGED asked
             ELSE /\ asked' = asked \cup {FreshId}
                  /\ call' = [call EXCEPT ![c].at = "waiting", ![c].id = FreshId]
                  /\ UNCHANGED holder
  /\ UNCHANGED <<child, stdout, noise>>

\* The bound on ids ends the run of a caller that is already in line.
OutOfIds(c) ==
  /\ holder = c /\ call[c].at = "writing" /\ call[c].kind # "shutdown"
  /\ nextId = MaxIds
  /\ Release(c, "none")
  /\ UNCHANGED <<child, nextId, asked, answered, stdout, noise>>

\* A ping takes any error but a timeout for health, as long as the child lives.
Verdict(kind, result) ==
  IF kind # "ping" \/ result = "timeout" THEN result
  ELSE IF result \in {"short", "long"} \/ child = "running" THEN "healthy" ELSE "unreachable"

\* A connection whose initialize fails is dropped, and its child with it.
Return(c, result) ==
  IF call[c].kind = "connect" /\ result \notin {"short", "long"}
  THEN Release(c, result) /\ child' = "gone"
  ELSE Release(c, Verdict(call[c].kind, result)) /\ UNCHANGED child

Waiting(c) == call[c].at = "waiting" /\ holder = c

\* Mutant: the next reply is taken for the answer.
OwnLineAny(c, line) == line.of > 0

\* Only the line with the id of the request ends it well or as a server error.
OwnLine(c, line) == line.of = call[c].id

\* One line: the reply, a line for somebody else, which is dropped (the late
\* reply to a request that timed out among them), or no JSON at all.
Receive(c) ==
  /\ Waiting(c) /\ stdout # <<>>
  /\ stdout' = Tail(stdout)
  /\ LET line == Head(stdout) IN
     \/ line.body = "garbage" /\ Return(c, "parse")
     \/ line.body # "garbage" /\ OwnLine(c, line) /\ Return(c, line.body)
     \/ line.body # "garbage" /\ ~OwnLine(c, line) /\ UNCHANGED <<child, holder, call>>
  /\ UNCHANGED <<nextId, asked, answered, noise>>

Disconnected(c) ==
  /\ Waiting(c) /\ stdout = <<>> /\ child = "gone"
  /\ Return(c, "transport")
  /\ UNCHANGED <<nextId, asked, answered, stdout, noise>>

\* Mutant: the receiver waits without a deadline.
TimesOutNever(c) == Disconnected(c)

TimesOut(c) ==
  /\ Waiting(c)
  /\ Return(c, "timeout")
  /\ UNCHANGED <<nextId, asked, answered, stdout, noise>>

\* Spawn, and initialize as the first request of the transport.
Connect(c) ==
  /\ child = "none" /\ holder = Nobody
  /\ child' = "running" /\ holder' = c
  /\ nextId' = 1 /\ asked' = {1} /\ answered' = <<"nothing">>
  /\ call' = [call EXCEPT ![c] = [at |-> "waiting", kind |-> "connect", id |-> 1, result |-> "none"]]
  /\ UNCHANGED <<stdout, noise>>

\* shutdown has the lock: kill, wait.  The transport stays, its pipes closed.
Reap(c) ==
  /\ holder = c /\ call[c].at = "writing" /\ call[c].kind = "shutdown"
  /\ child' = "gone"
  /\ Release(c, "reaped")
  /\ UNCHANGED <<nextId, asked, answered, stdout, noise>>

Progress(c) == Write(c) \/ OutOfIds(c) \/ Receive(c) \/ Disconnected(c) \/ TimesOut(c) \/ Reap(c)

Next ==
  \/ \E c \in Callers : Connect(c) \/ Lock(c) \/ Progress(c)
  \/ \E c \in Callers, kind \in Kinds : Enter(c, kind)
  \/ \E id \in asked, body \in Bodies : ServerAnswers(id, body)
  \/ \E body \in {"notice", "garbage"} : ServerSpeaks(body)
  \/ ServerExits

\* Callers are threads the scheduler runs, and whoever lets go of the client's lock
\* lets the next one in now and then: nobody is passed over for ever.
Fairness == \A c \in Callers : WF_vars(Progress(c)) /\ SF_vars(Lock(c))

Spec == Init /\ [][Next]_vars /\ Fairness

-------------------------------------------------------------------------------
(* Properties.                                                               *)

Finished(c) == call[c].at = "idle" /\ call[c].id > 0

\* A reply answers the request it is given to, across timeouts, late replies,
\* lines of other callers and noise: what a finished call returns is what the
\* server answered to that call's id, and no two calls of a run share an id.
\* A call that got nothing of its own never reports an answer.
ReplyIsOwn ==
  /\ \A c \in Callers :
       Finished(c) => call[c].result = answered[call[c].id]
  /\ \A c, d \in Callers : c # d /\ call[c].id > 0 => call[c].id # call[d].id
  /\ Cardinality({c \in Callers : call[c].at \in {"writing", "waiting"}}) <= 1

\* A shutdown waits for the lock, and a pending request holds it no longer than
\* its timeout: whoever asks for the shutdown gets it, and the child is gone.
ShutdownReaps ==
  \A c \in Callers :
    (call[c].at = "locking" /\ call[c].kind = "shutdown")
      ~> (child = "gone" /\ call[c].at = "idle")

-------------------------------------------------------------------------------
(* The inductive invariant of ReplyIsOwn.                                     *)

Results == Bodies \cup {"none", "notice", "garbage", "parse", "transport", "timeout",
                        "healthy", "unreachable", "reaped"}
Calls == [at : {"idle", "locking", "writing", "waiting"}, kind : Kinds \cup {"none", "connect"},
          id : Nat, result : Results]
Lines == [of : Nat, body : Bodies \cup {"notice", "garbage"}]

TypeOK ==
  /\ child \in {"none", "running", "gone"} /\ nextId \in Nat
  /\ asked \subseteq 1..nextId
  /\ answered \in Seq(Bodies \cup {"nothing"}) /\ Len(answered) = nextId
  /\ stdout \in Seq(Lines)
  /\ holder \in Callers \cup {Nobody} /\ call \in [Callers -> Calls]

\* The server has answered the request id, once and for all, with body.
Settled(id, body) == id \in 1..nextId /\ id \notin asked /\ answered[id] = body

LinesAreAnswers ==
  \A i \in DOMAIN stdout :
    \/ stdout[i].of = 0 /\ stdout[i].body \notin Bodies
    \/ stdout[i].body \in Bodies /\ Settled(stdout[i].of, stdout[i].body)

Steady(c) ==
  /\ call[c].id <= nextId
  /\ call[c].at \in {"writing", "waiting"} => holder = c
  /\ call[c].at = "waiting" => call[c].id > 0
  /\ call[c].at \in {"locking", "writing"} => call[c].id = 0
  /\ Finished(c) => Settled(call[c].id, call[c].result)

IdsDiffer == \A c, d \in Callers : c # d /\ call[c].id > 0 => call[c].id # call[d].id

IInv ==
  /\ TypeOK /\ LinesAreAnswers /\ IdsDiffer
  /\ child = "none" => nextId = 0 /\ \A c \in Callers : call[c].at = "idle"
  /\ \A c \in Callers : Steady(c)
===============================================================================
