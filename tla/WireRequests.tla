------------------------------ MODULE WireRequests ------------------------------
(***************************************************************************)
(* What a model is asked, on the wire: a conversation as the agent loop    *)
(* grows it, encoded as a Messages body (crates/darius-daemon/src/         *)
(* model_router/anthropic.rs, encode_anthropic_request) or as a chat-      *)
(* completions body with the quirks and extras of the provider's profile   *)
(* (wire.rs).  A content is the place of the message it comes from.        *)
(***************************************************************************)
EXTENDS Integers, Sequences, SequencesExt

CONSTANTS
  MaxMessages, MaxCalls,   \* bounds on the conversation, and on one message's calls
  Profiles                 \* ids of the providers, "anthropic" among them

VARIABLES
  conversation,  \* messages: a role, a text or none or a blank one, calls or an answered call
  request        \* the last body: none, or its profile, system, messages and extras

vars == <<conversation, request>>

NoRequest == [profile |-> "none", system |-> <<>>, messages |-> <<>>, extras |-> {}]
Init == conversation = <<>> /\ request = NoRequest

\* A call is the place of its message and its number in it.
Calls(place, n) == [k \in 1 .. n |-> <<place, k>>]
Open ==
  {c \in UNION {Range(conversation[i].calls) : i \in DOMAIN conversation} :
     ~\E i \in DOMAIN conversation : conversation[i].answers = c}

Speak(role, text, n) ==
  /\ Len(conversation) < MaxMessages /\ Open = {}
  /\ conversation' = Append(conversation, [role |-> role, text |-> text, answers |-> <<>>,
                                           calls |-> Calls(Len(conversation) + 1, n)])
  /\ UNCHANGED request

Instruct(text) == conversation = <<>> /\ Speak("system", text, 0)

\* A turn may have ended without an answer.
Ask == Speak("user", "said", 0)

\* The model answers, or calls tools with or without a word; an answer may be empty.
Answer(text, n) ==
  /\ conversation # <<>> /\ Last(conversation).role \in {"user", "tool"}
  /\ Speak("assistant", text, n)

\* The results follow the calls, in their order.
Resolve ==
  /\ Open # {}
  /\ \E c \in Open :
       /\ \A d \in Open : c[2] <= d[2]
       /\ conversation' = Append(conversation, [role |-> "tool", text |-> "said", answers |-> c, calls |-> <<>>])
  /\ UNCHANGED request

-------------------------------------------------------------------------------
(* encode_anthropic_request.                                                 *)

Text(i) == [kind |-> "text", of |-> i]
Use(c) == [kind |-> "tool_use", of |-> c]
Result(c) == [kind |-> "tool_result", of |-> c]

\* The texts of the system messages, blank ones left out.
System == SelectSeq([i \in DOMAIN conversation |-> i],
                    LAMBDA i : conversation[i].role = "system" /\ conversation[i].text = "said")

\* An assistant's blocks: its text unless empty, its calls, or else an empty text.
AssistantBlocks(i) ==
  LET m == conversation[i]
      uses == [k \in DOMAIN m.calls |-> Use(m.calls[k])] IN
  IF m.text # "none" THEN <<Text(i)>> \o uses
  ELSE IF uses = <<>> THEN <<Text(i)>> ELSE uses

\* Mutant: every message opens one of its own on the wire.
JoinsNever(sent, role) == FALSE

\* A user's text or a result joins the user message it follows.
Joins(sent, role) == role = "user" /\ sent # <<>> /\ Last(sent).role = "user"

Put(sent, role, blocks) ==
  IF Joins(sent, role)
  THEN [sent EXCEPT ![Len(sent)] = [role |-> role, blocks |-> @.blocks \o blocks]]
  ELSE Append(sent, [role |-> role, blocks |-> blocks])

Encode(sent, i) ==
  CASE conversation[i].role = "system" -> sent
    [] conversation[i].role = "user" -> Put(sent, "user", <<Text(i)>>)
    [] conversation[i].role = "assistant" -> Put(sent, "assistant", AssistantBlocks(i))
    [] conversation[i].role = "tool" -> Put(sent, "user", <<Result(conversation[i].answers)>>)

\* The body after the first n messages.
Encodings ==
  LET encoded[n \in 0 .. Len(conversation)] == IF n = 0 THEN <<>> ELSE Encode(encoded[n - 1], n)
  IN encoded
Messages == Encodings[Len(conversation)]

SendMessages(stream) ==
  /\ Open = {} /\ conversation # <<>>
  /\ request' = [profile |-> "anthropic", system |-> System, messages |-> Messages,
                 extras |-> IF stream THEN {"stream"} ELSE {}]
  /\ UNCHANGED conversation

-------------------------------------------------------------------------------
(* encode_request_with_profile and apply_body_extras.                        *)

\* One message for each, system messages too; a tool message without its name
\* for nvidia.
Chat(profile) ==
  [i \in DOMAIN conversation |->
    [role |-> conversation[i].role,
     blocks |-> CASE conversation[i].role = "assistant" ->
                       <<Text(i)>> \o [k \in DOMAIN conversation[i].calls |-> Use(conversation[i].calls[k])]
                  [] conversation[i].role = "tool" /\ profile = "nvidia" -> <<Result(conversation[i].answers)>>
                  [] conversation[i].role = "tool" -> <<Result(conversation[i].answers), [kind |-> "name", of |-> i]>>
                  [] OTHER -> <<Text(i)>>]]

\* Routing preferences for openrouter, session and tags for nous, nothing for others.
Extras(profile, routing) ==
  CASE profile = "openrouter" -> IF routing THEN {"provider_routing"} ELSE {}
    [] profile = "nous" -> {"session_id", "tags"}
    [] OTHER -> {}

SendChat(profile, routing, stream) ==
  /\ profile # "anthropic" /\ Open = {} /\ conversation # <<>>
  /\ request' = [profile |-> profile, system |-> <<>>, messages |-> Chat(profile),
                 extras |-> Extras(profile, routing) \cup (IF stream THEN {"stream", "include_usage"} ELSE {})]
  /\ UNCHANGED conversation

Next ==
  \/ \E text \in {"said", "none"} : Instruct(text)
  \/ Ask \/ Resolve
  \/ \E text \in {"said", "none"}, n \in 0 .. MaxCalls : Answer(text, n)
  \/ \E stream \in BOOLEAN :
       \/ SendMessages(stream)
       \/ \E profile \in Profiles, routing \in BOOLEAN : SendChat(profile, routing, stream)

-------------------------------------------------------------------------------
(* Properties.                                                               *)

Encoded == request.profile = "anthropic"

\* Begins with the user and alternates.
Alternates(body) ==
  \A k \in DOMAIN body : body[k].role = IF k % 2 = 1 THEN "user" ELSE "assistant"

\* No block comes twice.
BlocksDiffer(body) ==
  \A j, k \in DOMAIN body : \A a \in DOMAIN body[j].blocks, b \in DOMAIN body[k].blocks :
    body[j].blocks[a] = body[k].blocks[b] => j = k /\ a = b

\* The result of a call is in the next message, at the place that is the call's number.
Answers(body, k, x) ==
  /\ k + 1 \in DOMAIN body
  /\ x.of[2] \in DOMAIN body[k + 1].blocks /\ body[k + 1].blocks[x.of[2]] = Result(x.of)
CallsAnswered(body) ==
  \A k \in DOMAIN body : \A x \in Range(body[k].blocks) : x.kind = "tool_use" => Answers(body, k, x)
ResultsCalled(body) ==
  \A k \in DOMAIN body : \A x \in Range(body[k].blocks) :
    x.kind = "tool_result" => k - 1 \in DOMAIN body /\ Use(x.of) \in Range(body[k - 1].blocks)

\* A Messages body begins with the user and alternates, has every call and every result
\* of the conversation it was made from once, a call's results at the head of the very
\* next message; preferences and tags go to the provider they are for, and to no other.
RequestsAreAnswerable ==
  /\ Encoded =>
       /\ Alternates(request.messages) /\ BlocksDiffer(request.messages)
       /\ CallsAnswered(request.messages) /\ ResultsCalled(request.messages)
  /\ request.profile # "openrouter" => "provider_routing" \notin request.extras
  /\ request.profile # "nous" => "tags" \notin request.extras

TypeOK ==
  conversation \in Seq([role : {"system", "user", "assistant", "tool"}, text : {"said", "none"},
                        answers : (Nat \X Nat) \cup {<<>>}, calls : Seq(Nat \X Nat)])

\* An instruction comes first, an answer after a question or a result.
InTurn ==
  \A n \in DOMAIN conversation :
    /\ conversation[n].role = "system" => n = 1
    /\ conversation[n].role = "assistant" =>
         n - 1 \in DOMAIN conversation /\ conversation[n - 1].role \in {"user", "tool"}

\* The calls of a message are its own, and only an answer has any; their results follow
\* it, each at its number, and are all the results there are.
ResultsFollow ==
  \A n \in DOMAIN conversation :
    LET m == conversation[n] IN
    /\ \A u \in DOMAIN m.calls : m.calls[u] = <<n, u>> /\ m.role = "assistant"
    /\ \A u \in DOMAIN m.calls :
         n + u \in DOMAIN conversation =>
           conversation[n + u].role = "tool" /\ conversation[n + u].answers = <<n, u>>
    /\ m.role = "tool" =>
         \E i \in DOMAIN conversation : \E u \in DOMAIN conversation[i].calls :
           n = i + u /\ m.answers = <<i, u>>
    /\ m.role # "tool" => m.answers = <<>>

\* The inductive invariant.
IInv == TypeOK /\ InTurn /\ ResultsFollow /\ RequestsAreAnswerable
===============================================================================
