------------------------------- MODULE Compaction -------------------------------
(***************************************************************************)
(* Making a conversation fit: compact_to shrinks tool results, oldest      *)
(* first, until the serialized request fits (crates/darius-cognitive/src/  *)
(* agent_compact.rs), for the whole conversation when the session asks     *)
(* (crates/darius-cli/src/runtime.rs, compact_conversation), which then    *)
(* remembers an episode; lean_tail_compress drops the middle of a chat     *)
(* (compress.rs).  A content is its length in bytes and its kind: "plain"  *)
(* serializes a byte to a character, "escaped" to two, "wide" has two      *)
(* bytes to a character; a content that was cut ends in a marker.          *)
(***************************************************************************)
EXTENDS Integers, Sequences

CONSTANTS
  MaxMessages, Lengths,      \* bounds on the conversation; lengths are even
  Overhead,                  \* characters of a message beside its content
  MarkerBytes, MarkerChars,
  Budgets,                   \* what the request, or the chat, may take
  HeadRoom, TailRoom         \* head_chars, tail_chars

VARIABLES
  given,     \* the conversation as it came
  msgs,      \* as it is now: messages of a role, a kind, body bytes and a marker or not
  limit,     \* the budget asked for
  index,     \* the message compact_to is at
  at,        \* "idle", "compacting", "fits", "exceeded" or "compressed"
  episodes,  \* the summaries stored
  kept       \* of lean_tail_compress: the messages it keeps, in order

vars == <<given, msgs, limit, index, at, episodes, kept>>

Messages == [role : {"tool", "user"}, kind : {"plain", "escaped", "wide"},
             body : Lengths, marked : {FALSE}]

Init ==
  /\ given = <<>> /\ msgs = <<>> /\ limit = 0 /\ index = 1 /\ at = "idle"
  /\ episodes = 0 /\ kept = <<>>

Bytes(m) == m.body + (IF m.marked THEN MarkerBytes ELSE 0)
Chars(m) ==
  Overhead + (IF m.marked THEN MarkerChars ELSE 0)
     + (CASE m.kind = "plain" -> m.body
          [] m.kind = "escaped" -> 2 * m.body
          [] m.kind = "wide" -> m.body \div 2)

\* Per place of a sequence of numbers, the sum up to there.
Sums(w) == LET sum[n \in 0 .. Len(w)] == IF n = 0 THEN 0 ELSE sum[n - 1] + w[n] IN sum
Total(w) == Sums(w)[Len(w)]
Required == Total([i \in DOMAIN msgs |-> Chars(msgs[i])])

AddMessage(m) ==
  /\ at = "idle" /\ Len(given) < MaxMessages
  /\ given' = Append(given, m) /\ msgs' = Append(msgs, m)
  /\ UNCHANGED <<limit, index, at, episodes, kept>>

Begin(b) ==
  /\ at = "idle" /\ at' = "compacting" /\ limit' = b
  /\ UNCHANGED <<given, msgs, index, episodes, kept>>

-------------------------------------------------------------------------------
(* compact_to.                                                               *)

Minus(a, b) == IF a > b THEN a - b ELSE 0

\* Nothing more to take from this message.
Exhausted(m) == m.body = 0 /\ ~m.marked

\* shrink: to the length asked for at most, its marker included and no character cut
\* in two, or to nothing where not even the marker fits.
Shrunk(m, target) ==
  LET end == Minus(target, MarkerBytes) IN
  IF target < MarkerBytes THEN [m EXCEPT !.body = 0, !.marked = FALSE]
  ELSE [m EXCEPT !.body = IF m.kind = "wide" THEN 2 * (end \div 2) ELSE end, !.marked = TRUE]

Fit ==
  /\ at = "compacting" /\ Required <= limit
  /\ at' = "fits"
  /\ episodes' = episodes + (IF \E i \in DOMAIN msgs : msgs[i].role = "user" THEN 1 ELSE 0)
  /\ UNCHANGED <<given, msgs, limit, index, kept>>

PassOver ==
  /\ at = "compacting" /\ index <= Len(msgs) /\ Required > limit
  /\ msgs[index].role # "tool" \/ Exhausted(msgs[index])
  /\ index' = index + 1
  /\ UNCHANGED <<given, msgs, limit, at, episodes, kept>>

Cut ==
  /\ at = "compacting" /\ index <= Len(msgs) /\ Required > limit
  /\ msgs[index].role = "tool" /\ ~Exhausted(msgs[index])
  /\ msgs' = [msgs EXCEPT ![index] = Shrunk(@, Minus(Bytes(@), Required - limit))]
  /\ UNCHANGED <<given, limit, index, at, episodes, kept>>

Exceed ==
  /\ at = "compacting" /\ index > Len(msgs) /\ Required > limit
  /\ at' = "exceeded"
  /\ UNCHANGED <<given, msgs, limit, index, episodes, kept>>

-------------------------------------------------------------------------------
(* lean_tail_compress.                                                       *)

SpanSize(from, to) ==
  LET sums == Sums([i \in DOMAIN given |-> given[i].body]) IN sums[to] - sums[from - 1]
Span(from, to) == [i \in 1 .. Minus(to + 1, from) |-> from + i - 1]

\* Whole messages from the front, and from the end, as many as fit, at least one.
HeadCount == CHOOSE n \in 1 .. Len(given) :
  /\ n = 1 \/ SpanSize(1, n) <= HeadRoom
  /\ n < Len(given) => SpanSize(1, n + 1) > HeadRoom
TailStart == CHOOSE n \in 1 .. Len(given) :
  /\ n = Len(given) \/ SpanSize(n, Len(given)) <= TailRoom
  /\ n > 1 => SpanSize(n - 1, Len(given)) > TailRoom

\* Where head and tail meet: of the end what fits beside the first message.
MeetStart(room) == CHOOSE n \in 2 .. Len(given) + 1 :
  /\ SpanSize(n, Len(given)) <= room
  /\ n > 2 => SpanSize(n - 1, Len(given)) > room

Compress(b) ==
  /\ at = "idle" /\ at' = "compressed" /\ limit' = b
  /\ kept' = IF SpanSize(1, Len(given)) <= b THEN Span(1, Len(given))
             ELSE IF HeadCount >= TailStart - 1
             THEN <<1>> \o Span(MeetStart(Minus(b, given[1].body)), Len(given))
             ELSE Span(1, HeadCount) \o Span(TailStart, Len(given))
  /\ UNCHANGED <<given, msgs, index, episodes>>

Next ==
  \/ \E m \in Messages : AddMessage(m)
  \/ \E b \in Budgets : Begin(b) \/ Compress(b)
  \/ Fit \/ PassOver \/ Cut \/ Exceed

-------------------------------------------------------------------------------
(* Properties.                                                               *)

\* What compact_to returns fits.  It takes from a result only once those before it are
\* empty, touches nothing but results and only makes them shorter, and gives up only
\* when no result has anything left.  An episode is stored only of a conversation that
\* fits.  What lean_tail_compress keeps is in order, and begins with the first message.
CompactionIsOldestFirst ==
  /\ at = "fits" => Required <= limit
  /\ at = "exceeded" => \A i \in DOMAIN msgs : msgs[i].role = "tool" => Bytes(msgs[i]) = 0
  /\ DOMAIN msgs = DOMAIN given
  /\ \A i \in DOMAIN msgs :
       msgs[i] # given[i] =>
         /\ msgs[i].role = "tool" /\ Bytes(msgs[i]) < Bytes(given[i])
         /\ \A j \in 1 .. i - 1 : msgs[j].role = "tool" => Bytes(msgs[j]) = 0
  /\ episodes > 0 => at = "fits"
  /\ \A i, j \in DOMAIN kept : i < j => kept[i] < kept[j]
  /\ at = "compressed" /\ given # <<>> => kept # <<>> /\ kept[1] = 1

Kinds == {"plain", "escaped", "wide"}

TypeOK ==
  /\ given \in Seq([role : {"tool", "user"}, kind : Kinds, body : Nat, marked : {FALSE}])
  /\ msgs \in Seq([role : {"tool", "user"}, kind : Kinds, body : Nat, marked : BOOLEAN])
  /\ Len(msgs) = Len(given) /\ limit \in Nat /\ index \in Nat \ {0} /\ episodes \in Nat /\ kept \in Seq(Nat)

\* The message at hand divides what is exhausted from what is as it came.
OldestFirst ==
  /\ \A j \in DOMAIN msgs : j < index /\ msgs[j].role = "tool" => Exhausted(msgs[j])
  /\ \A i \in DOMAIN msgs :
       msgs[i] # given[i] => i <= index /\ msgs[i].role = "tool" /\ Bytes(msgs[i]) < Bytes(given[i])

\* The inductive invariant.
IInv ==
  /\ TypeOK /\ OldestFirst
  /\ at = "idle" => msgs = given /\ index = 1
  /\ at = "fits" => Required <= limit
  /\ at = "exceeded" => index > Len(msgs)
  /\ at # "fits" => episodes = 0
  /\ at # "compressed" => kept = <<>>
  /\ \A i, j \in DOMAIN kept : i < j => kept[i] < kept[j]
  /\ at = "compressed" /\ given # <<>> => kept # <<>> /\ kept[1] = 1
===============================================================================
