------------------------------ MODULE Transcript ------------------------------
(***************************************************************************)
(* Conversation messages as the agent loop sees them: a role and the       *)
(* identifiers that correlate an assistant's tool calls with their         *)
(* results.  Contents, tool names and arguments are abstracted away: no    *)
(* rule of the transcript looks at them.                                   *)
(***************************************************************************)
EXTENDS Naturals, Sequences

CONSTANTS
  Ids,      \* the identifiers a model gives to its tool calls
  EmptyId   \* the empty string, which some providers send as an identifier

ASSUME EmptyIdAssumption == EmptyId \notin Ids

RawIds == Ids \cup {EmptyId}

\* An assistant message carries the ids of its calls (none for plain text), a
\* tool message the id of the call it answers.
Message == [role : {"user", "assistant", "tool"}, ids : Seq(RawIds)]

User == [role |-> "user", ids |-> <<>>]
Assistant(ids) == [role |-> "assistant", ids |-> ids]
Tool(id) == [role |-> "tool", ids |-> <<id>>]

\* The ids a message calls, and the ids it answers.
Called(m) ==
  IF m.role = "assistant" THEN {m.ids[p] : p \in DOMAIN m.ids} ELSE {}

Answered(m) == IF m.role = "tool" THEN {m.ids[p] : p \in DOMAIN m.ids} ELSE {}

NoEmptyId(msgs) ==
  \A i \in DOMAIN msgs : EmptyId \notin Called(msgs[i]) \cup Answered(msgs[i])

\* No id is called twice, by one message or by two.
NoDuplicateCall(msgs) ==
  /\ \A i \in DOMAIN msgs : msgs[i].role = "assistant" =>
       \A p, q \in DOMAIN msgs[i].ids : msgs[i].ids[p] = msgs[i].ids[q] => p = q
  /\ \A i, j \in DOMAIN msgs :
       i # j => Called(msgs[i]) \cap Called(msgs[j]) = {}

NoDuplicateResult(msgs) ==
  \A i, j \in DOMAIN msgs :
    i # j => Answered(msgs[i]) \cap Answered(msgs[j]) = {}

NoOrphanResult(msgs) ==
  \A i \in DOMAIN msgs : \A id \in Answered(msgs[i]) :
    \E j \in DOMAIN msgs : j < i /\ id \in Called(msgs[j])

NoUnresolvedCall(msgs) ==
  \A i \in DOMAIN msgs : \A id \in Called(msgs[i]) :
    \E j \in DOMAIN msgs : id \in Answered(msgs[j])

\* What a transcript promises to the model provider it is replayed to.
WellFormed(msgs) ==
  /\ NoEmptyId(msgs)
  /\ NoDuplicateCall(msgs)
  /\ NoDuplicateResult(msgs)
  /\ NoOrphanResult(msgs)
  /\ NoUnresolvedCall(msgs)
===============================================================================
