--------------------------- MODULE TurnTransaction ---------------------------
(***************************************************************************)
(* What a turn of the agent promises its session: the conversation is the  *)
(* sequence of the turns that ended in an answer.  A turn either appends   *)
(* one complete exchange, from the user's message to the assistant's final *)
(* text, or leaves no trace; the conversation is well formed throughout.   *)
(***************************************************************************)
EXTENDS Transcript

VARIABLES
  convo,    \* the committed conversation
  active    \* whether a turn is running

Extends(new, old) ==
  /\ Len(new) > Len(old)
  /\ SubSeq(new, 1, Len(old)) = old

\* The exchange appended to old: it opens with the user's message and closes
\* with an assistant message that calls no tool.
Exchange(new, old) ==
  /\ new[Len(old) + 1] = User
  /\ new[Len(new)] = Assistant(<<>>)
  /\ \A i \in (Len(old) + 2)..Len(new) : new[i].role # "user"

Init == convo = <<>> /\ active = FALSE

Begin == ~active /\ active' = TRUE /\ UNCHANGED convo

Commit ==
  /\ active
  /\ active' = FALSE
  /\ Extends(convo', convo)
  /\ Exchange(convo', convo)
  /\ WellFormed(convo')

Abort == active /\ active' = FALSE /\ UNCHANGED convo

Next == Begin \/ Commit \/ Abort

Spec == Init /\ [][Next]_<<convo, active>>
===============================================================================
