------------------------------ MODULE StreamDecode ------------------------------
(***************************************************************************)
(* One request to a provider and its answer, streamed or not (crates/      *)
(* darius-daemon/src/model_router/anthropic.rs, openai.rs, wire_decode.rs):*)
(* lines arrive in chunks cut anywhere, text is shown as it comes, calls   *)
(* are put together from pieces by index, and the stream may end, fail, be *)
(* cancelled or run out of time between any two.                           *)
(***************************************************************************)
EXTENDS Integers, Sequences, FiniteSets, SequencesExt

CONSTANTS
  Calls,     \* indexes of the calls the provider makes
  MaxLines   \* bound on the lines of the stream

VARIABLES
  at,        \* "posted", "streaming" or "done"
  sent,      \* the lines the provider has finished
  line,      \* what has come of the next: {} or {the line and if a character is cut}
  text, shown,   \* the pieces of text kept, and the pieces given to the sink
  calls,     \* per index: {} or {its id and the pieces of its arguments}
  answer     \* "none", "output", "malformed", "failed" or "cancelled"

vars == <<at, sent, line, text, shown, calls, answer>>

Init ==
  /\ at = "posted"
  /\ sent = <<>> /\ line = {} /\ text = <<>> /\ shown = <<>>
  /\ calls = [i \in Calls |-> {}]
  /\ answer = "none"

\* A line: a piece of text, the start of a call, a piece of its arguments (an opening
\* and a closing one make them JSON), or what tells nothing of the answer.
Lines ==
  [kind : {"text", "skipped"}, index : {0}]
    \cup [kind : {"start", "open", "close"}, index : Calls]

\* What a provider writes next: it opens what it has started, closes what it opened.
Follows(l) ==
  /\ Len(sent) < MaxLines
  /\ l.kind = "start" => ~Contains(sent, l)
  /\ l.kind = "open" => Contains(sent, [l EXCEPT !.kind = "start"]) /\ ~Contains(sent, l)
  /\ l.kind = "close" => Contains(sent, [l EXCEPT !.kind = "open"]) /\ ~Contains(sent, l)

Ends(result) == at' = "done" /\ answer' = result
Keeps == UNCHANGED <<sent, line, text, shown, calls>>

-------------------------------------------------------------------------------
(* The answer.                                                               *)

\* No connection, another status, a body that is no JSON.
Refuse == at = "posted" /\ Ends("failed") /\ Keeps

\* A body of JSON is decoded whole; a call whose arguments do not parse, or with no
\* id, is an error.  Its text is shown if it calls nothing.
AnswerJson(called, parses) ==
  /\ at = "posted"
  /\ Ends(IF parses THEN "output" ELSE "malformed")
  /\ parses => /\ calls' = [i \in Calls |-> IF i \in called THEN {[id |-> i, args |-> <<"open", "close">>]} ELSE {}]
               /\ text' = <<"whole">> /\ shown' = IF called = {} THEN text' ELSE <<>>
  /\ ~parses => UNCHANGED <<calls, text, shown>>
  /\ UNCHANGED <<sent, line>>

OpenStream ==
  /\ at = "posted" /\ at' = "streaming"
  /\ UNCHANGED <<sent, line, text, shown, calls, answer>>

\* A chunk that ends inside a line, and perhaps inside a character of it.
ReadPart(l, cut) ==
  /\ at = "streaming" /\ line = {} /\ Follows(l) /\ (cut => l.kind = "text")
  /\ line' = {[l |-> l, cut |-> cut]}
  /\ UNCHANGED <<at, sent, text, shown, calls, answer>>

\* input_json_delta, function/arguments: of the entry at its index.
Piece(l) == [calls EXCEPT ![l.index] = {[c EXCEPT !.args = Append(@, l.kind)] : c \in @}]

\* The rest of the line, up to its end.
ReadRest ==
  /\ at = "streaming"
  /\ \E p \in line :
       LET l == p.l IN
       /\ sent' = Append(sent, l)
       /\ IF l.kind = "text"
          THEN LET piece == IF p.cut THEN "lossy" ELSE "whole" IN
               text' = Append(text, piece) /\ shown' = Append(shown, piece)
          ELSE UNCHANGED <<text, shown>>
       /\ calls' = CASE l.kind = "start" -> [calls EXCEPT ![l.index] = {[id |-> l.index, args |-> <<>>]}]
                     [] l.kind \in {"open", "close"} -> Piece(l)
                     [] OTHER -> calls
  /\ line' = {}
  /\ UNCHANGED <<at, answer>>

\* The body ends, wherever: what has come is the answer, unless it is nothing.
\* A call whose arguments do not parse has the arguments {}.
EndOfStream ==
  /\ at = "streaming"
  /\ Ends(IF text = <<>> /\ \A i \in Calls : calls[i] = {} THEN "malformed" ELSE "output")
  /\ line' = {}
  /\ UNCHANGED <<sent, text, shown, calls>>

BreakStream == at = "streaming" /\ Ends("failed") /\ Keeps

\* The select looks at the token first, and has the deadline beside the fetch.
Cancel == at # "done" /\ Ends("cancelled") /\ Keeps
Deadline == at # "done" /\ Ends("failed") /\ Keeps

Next ==
  \/ Refuse \/ OpenStream \/ ReadRest \/ EndOfStream \/ BreakStream \/ Cancel \/ Deadline
  \/ \E called \in SUBSET Calls, parses \in BOOLEAN : AnswerJson(called, parses)
  \/ \E l \in Lines, cut \in BOOLEAN : ReadPart(l, cut)

-------------------------------------------------------------------------------
(* Properties.                                                               *)

\* The places of the lines that carry text, and of those that carry arguments of a call.
Texts == {n \in DOMAIN sent : sent[n].kind = "text"}
Arguments(i) == {n \in DOMAIN sent : sent[n].kind \in {"open", "close"} /\ sent[n].index = i}

\* Pieces are those of the lines at these places, in their order, and none is left out.
Carried(pieces, places) ==
  \E from \in [DOMAIN pieces -> DOMAIN sent] :
    /\ Range(from) = places
    /\ \A m, n \in DOMAIN pieces : m < n => from[m] < from[n]
    /\ \A n \in DOMAIN pieces : pieces[n] = sent[from[n]].kind

Kept ==
  /\ Len(text) = Cardinality(Texts) /\ shown = text
  /\ \A i \in Calls : \A c \in calls[i] : Carried(c.args, Arguments(i))

\* However the stream is cut into chunks and calls are interleaved in it, what is kept
\* is what the finished lines carry: the text piece by piece, all of it shown, and of
\* every call the pieces of its own arguments, in order; what comes back as an answer
\* says something, or calls.
StreamIsFaithful ==
  /\ sent # <<>> => Kept
  /\ answer = "output" => text # <<>> \/ \E i \in Calls : calls[i] # {}

TypeOK ==
  /\ sent \in Seq(Lines) /\ \A p \in line : p.l \in Lines
  /\ text \in Seq({"whole", "lossy"})
  /\ calls \in [Calls -> SUBSET [id : Calls, args : Seq({"open", "close"})]]

Starts(l) == [l EXCEPT !.kind = "start"]

\* A call that has pieces was started, and one that is about to start was not.
StartsComeFirst ==
  /\ \A n \in DOMAIN sent : sent[n].kind \in {"open", "close"} => Contains(sent, Starts(sent[n]))
  /\ \A p \in line :
       /\ p.l.kind = "start" => ~Contains(sent, p.l)
       /\ p.l.kind \in {"open", "close"} => Contains(sent, Starts(p.l))

\* The inductive invariant: as long as lines come, what is kept is true.
IInv ==
  /\ TypeOK /\ StartsComeFirst /\ StreamIsFaithful
  /\ at # "done" => Kept /\ answer = "none"
  /\ at = "posted" => sent = <<>> /\ line = {}
===============================================================================
