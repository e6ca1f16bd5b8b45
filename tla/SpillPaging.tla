------------------------------- MODULE SpillPaging -------------------------------
(***************************************************************************)
(* What the model is shown of a tool's output, and how it comes back for   *)
(* the rest (crates/darius-tools/src: spec.rs, read_file.rs and the        *)
(* builtins of lib.rs): an output over a ceiling is cut to a preview and   *)
(* kept whole in a file of the spill directory, which spill_read serves in *)
(* pages.  An offset counts bytes and a limit counts characters.           *)
(* A text is a sequence of characters, each the number of its bytes.       *)
(***************************************************************************)
EXTENDS Integers, Sequences, SequencesExt, FiniteSets

CONSTANTS
  Paths,        \* names of spill files; each is drawn once
  Outputs,      \* texts a tool may produce
  Foreign,      \* a text that is in no output: the files outside the directory
  File,         \* a file read_file serves: a sequence of lines
  Ceiling,      \* preview_ceiling, in bytes
  MemoryLimit,  \* memory_search's 1000, of bytes and then of characters
  MaxLimit,     \* the most lines read_file serves
  Limits        \* limits a caller asks for, of characters or lines

VARIABLES
  spilled,   \* per name: none, or what is there: a file or a link, and its text
  outcomes,  \* per name: none, or the outcome it was drawn for
  leads,     \* where the directory's name leads: to the directory of old, or elsewhere
  call,      \* a spill_read on its way: where it is, and what it has open
  reader,    \* its pages: of which name, from where, up to where, what it got
  scroll     \* read_file's pages: the next line, the lines got

vars == <<spilled, outcomes, leads, call, reader, scroll>>

NoCall == [at |-> "none", file |-> {}, limit |-> 0]
NoReader == [path |-> "none", from |-> 0, offset |-> 0, got |-> <<>>]

Init ==
  /\ spilled = [p \in Paths |-> {}] /\ outcomes = [p \in Paths |-> {}]
  /\ leads = "own" /\ call = NoCall /\ reader = NoReader
  /\ scroll = [next |-> 1, got |-> <<>>]

Bytes(text) ==
  LET sum[n \in 0..Len(text)] == IF n = 0 THEN 0 ELSE sum[n - 1] + text[n] IN sum[Len(text)]
Least(a, b) == IF a <= b THEN a ELSE b

-------------------------------------------------------------------------------
(* Outputs.                                                                  *)

\* truncate_preview: back from the ceiling to the end of a character.
Cuts(text, n) == Bytes(SubSeq(text, 1, n)) <= Ceiling
Preview(text) ==
  SubSeq(text, 1, CHOOSE n \in 0..Len(text) :
                    Cuts(text, n) /\ \A o \in n+1..Len(text) : ~Cuts(text, o))

\* A file is written or it is not, and what is left of a failed write is short.
Written(p, text) == [spilled EXCEPT ![p] = {[kind |-> "file", text |-> text]}]
Gives(p, by, text, shown, path) ==
  outcomes' = [outcomes EXCEPT ![p] = {[by |-> by, text |-> text, shown |-> shown, path |-> path]}]
Drawn(p) == outcomes[p] = {} /\ UNCHANGED <<leads, call, reader>>

\* finalize, and the registry's own spill.
Finalize(p, text) ==
  IF Bytes(text) <= Ceiling THEN Gives(p, "finalize", text, text, {}) /\ UNCHANGED spilled
  ELSE \/ spilled' = Written(p, text) /\ Gives(p, "finalize", text, Preview(text), {p})
       \/ /\ spilled' = Written(p, <<>>) \/ UNCHANGED spilled
          /\ Gives(p, "finalize", text, Preview(text), {})

\* search_files and the shell give what they found.
Output(p, text) == Drawn(p) /\ Finalize(p, text) /\ UNCHANGED scroll

\* memory_search: bytes decide, characters are cut, and the path is given whatever came
\* of the write.
MemorySearch(p, text) ==
  /\ Drawn(p) /\ UNCHANGED scroll
  /\ IF Bytes(text) <= MemoryLimit THEN Gives(p, "memory", text, text, {}) /\ UNCHANGED spilled
     ELSE /\ \/ spilled' = Written(p, text)
             \/ spilled' = Written(p, <<>>)
             \/ UNCHANGED spilled
          /\ Gives(p, "memory", text, SubSeq(text, 1, Least(MemoryLimit, Len(text))), {p})

\* read_paged, of a file that is text and within its bound.
Page(limit) == SubSeq(File, scroll.next, Least(scroll.next + Least(limit, MaxLimit) - 1, Len(File)))
Joined(lines) ==
  LET text[n \in 0..Len(lines)] ==
        IF n = 0 THEN <<>>
        ELSE IF text[n - 1] = <<>> THEN lines[n] ELSE text[n - 1] \o <<1>> \o lines[n]
  IN  text[Len(lines)]

\* read_file, by a caller that goes on behind the last line it got.
ReadFile(p, limit) ==
  /\ Drawn(p) /\ scroll.next <= Len(File) /\ Finalize(p, Joined(Page(limit)))
  /\ scroll' = [next |-> scroll.next + Len(Page(limit)), got |-> scroll.got \o Page(limit)]

\* read_file of another path: missing, too large, binary or not UTF-8.
ReadFails(p) ==
  /\ Drawn(p) /\ Gives(p, "error", <<>>, <<>>, {}) /\ UNCHANGED <<spilled, scroll>>

-------------------------------------------------------------------------------
(* spill_read: one call opens, asks the descriptor where it is, and reads,   *)
(* while others change what the names mean.                                  *)

Apart == UNCHANGED <<outcomes, scroll>>

\* A call for the next page, or a first one from anywhere.
Ask(p, offset, limit) ==
  /\ call.at = "none" /\ call' = [at |-> "open", file |-> {}, limit |-> limit]
  /\ reader' = IF reader.path = p /\ offset = reader.offset THEN reader
               ELSE [path |-> p, from |-> offset, offset |-> offset, got |-> <<>>]
  /\ Apart /\ UNCHANGED <<spilled, leads>>

Refused == call' = NoCall /\ UNCHANGED <<spilled, leads, reader>>

\* The open follows the directory's name but no link at the end of it.
Found ==
  IF leads # "own" THEN {[place |-> "outside", text |-> Foreign]}
  ELSE {[place |-> "inside", text |-> f.text] : f \in {f \in spilled[reader.path] : f.kind = "file"}}
Open ==
  /\ call.at = "open" /\ Apart
  /\ IF Found = {} THEN Refused
     ELSE call' = [call EXCEPT !.at = "check", !.file = Found] /\ UNCHANGED <<spilled, leads, reader>>

\* opened_fd_path, against the directory as it was canonicalized when it was registered.
Inside(f) == f.place = "inside"
Check ==
  /\ call.at = "check" /\ Apart
  /\ IF \A f \in call.file : Inside(f) THEN call' = [call EXCEPT !.at = "read"] /\ UNCHANGED <<spilled, leads, reader>>
     ELSE Refused

\* The rest of a text from a byte on: nothing if the byte is inside a character.
From(text, offset) ==
  LET starts == {n \in 0..Len(text) : Bytes(SubSeq(text, 1, n)) = offset} IN
  IF starts = {} THEN <<>> ELSE SubSeq(text, 1 + CHOOSE n \in starts : TRUE, Len(text))

Read ==
  /\ call.at = "read" /\ Apart /\ call' = NoCall /\ UNCHANGED <<spilled, leads>>
  /\ \E f \in call.file :
       LET rest == From(f.text, reader.offset)
           page == SubSeq(rest, 1, Least(call.limit, Len(rest)))
       IN  reader' = [reader EXCEPT !.offset = @ + Bytes(page), !.got = @ \o page]

\* Others: a link where a file was, the directory moved and something else at its name.
Plant(p) ==
  /\ spilled[p] # {} /\ spilled' = [spilled EXCEPT ![p] = {[kind |-> "link", text |-> Foreign]}]
  /\ Apart /\ UNCHANGED <<leads, call, reader>>
Swap ==
  /\ leads' = (IF leads = "own" THEN "elsewhere" ELSE "own")
  /\ Apart /\ UNCHANGED <<spilled, call, reader>>

Next ==
  \/ Open \/ Check \/ Read \/ Swap
  \/ \E p \in Paths :
       \/ \E text \in Outputs : Output(p, text) \/ MemorySearch(p, text)
       \/ \E limit \in Limits : ReadFile(p, limit)
       \/ ReadFails(p) \/ Plant(p)
       \/ \E limit \in Limits, offset \in {reader.offset, 0, 1} : Ask(p, offset, limit)

-------------------------------------------------------------------------------
(* Properties.                                                               *)

\* What a text has from one byte up to another.
Between(text, from, to) ==
  LET at(n) == Bytes(SubSeq(text, 1, n - 1))
      ns == {n \in DOMAIN text : from <= at(n) /\ at(n) < to}
  IN  IF ns = {} THEN <<>>
      ELSE SubSeq(text, CHOOSE n \in ns : \A o \in ns : n <= o, CHOOSE n \in ns : \A o \in ns : n >= o)

\* A preview is the start of its output and of no more bytes than the ceiling; a path
\* that finalize gives holds the whole output as long as nobody else touched it; a caller
\* who goes on by the bytes it got has read one output in order, nothing twice and
\* nothing left out, and never a text from outside the directory, whatever the names led
\* to meanwhile; the lines of a file come in order, once each.
SpillsAreRecalled ==
  /\ \A p \in Paths : \A o \in outcomes[p] :
       /\ IsPrefix(o.shown, o.text)
       /\ o.by = "finalize" => Bytes(o.shown) <= Ceiling
       /\ o.by = "finalize" /\ o.path = {p} =>
            \A f \in spilled[p] : f.kind = "file" => f.text = o.text
  /\ reader.got # <<>> =>
       \E o \in outcomes[reader.path] : reader.got = Between(o.text, reader.from, reader.offset)
  /\ scroll.got = SubSeq(File, 1, scroll.next - 1)
===============================================================================
