--------------------------------- MODULE Screen ---------------------------------
(***************************************************************************)
(* What is drawn of a session (crates/darius-tui/src/render.rs): the lines *)
(* of the transcript's items, the window on them, and the sections around  *)
(* it.  Only numbers of lines are kept.  The offset of the window is a u16 *)
(* counted from the end; Width stands for 2^16.                            *)
(***************************************************************************)
EXTENDS Integers, Sequences, FiniteSets, SequencesExt

CONSTANTS
  MaxItems, MaxLines,  \* bounds on the transcript and on an item
  Heights,             \* of the terminal
  Width,               \* what a u16 wraps at
  Smallest, Welcoming, \* heights below which nothing is drawn, and from which the welcome is
  Composer, Welcome, Palette, Picker, Permission  \* rows of the sections

VARIABLES
  items,    \* a kind, the lines of its body, and whether it is unfolded
  scroll,   \* AppState::scroll
  height,   \* of the terminal
  overlays  \* which of palette, picker and permission are open

vars == <<items, scroll, height, overlays>>

Kinds == {"user", "assistant", "thinking", "tool", "tasks", "diff"}

Init ==
  /\ items = <<>> /\ scroll = 0 /\ height \in Heights /\ overlays = {}

Put(kind, n) ==
  /\ Len(items) < MaxItems
  /\ items' = Append(items, [kind |-> kind, lines |-> n, unfolded |-> FALSE])
  /\ UNCHANGED <<scroll, height, overlays>>

\* A delta makes the last answer longer.
Grow ==
  /\ items # <<>> /\ items[Len(items)].kind = "assistant" /\ items[Len(items)].lines < MaxLines
  /\ items' = [items EXCEPT ![Len(items)].lines = @ + 1]
  /\ UNCHANGED <<scroll, height, overlays>>

\* ToggleTool: the one named, if it is a tool.
Toggle(i) ==
  /\ items[i].kind = "tool"
  /\ items' = [items EXCEPT ![i].unfolded = ~@]
  /\ UNCHANGED <<scroll, height, overlays>>

\* Page down adds a line to the offset, page up takes one off.
ScrollBy(delta) ==
  /\ scroll' = IF scroll + delta < 0 THEN 0 ELSE IF scroll + delta >= Width THEN Width - 1 ELSE scroll + delta
  /\ UNCHANGED <<items, height, overlays>>

\* End and Enter.
ToTail == scroll' = 0 /\ UNCHANGED <<items, height, overlays>>
Clear == items' = <<>> /\ scroll' = 0 /\ UNCHANGED <<height, overlays>>

Overlay(section) ==
  /\ overlays' = IF section \in overlays THEN overlays \ {section} ELSE overlays \cup {section}
  /\ UNCHANGED <<items, scroll, height>>

Resize(h) == height' = h /\ UNCHANGED <<items, scroll, overlays>>

-------------------------------------------------------------------------------
(* A frame.                                                                  *)

\* render_user, render_thinking: one line; render_assistant: its lines; render_tool,
\* render_tasks, render_diff: a head and their lines, a tool's if unfolded.
Lines(item) ==
  CASE item.kind \in {"user", "thinking"} -> 1
    [] item.kind = "assistant" -> item.lines
    [] item.kind = "tool" -> 1 + (IF item.unfolded THEN item.lines ELSE 0)
    [] item.kind \in {"tasks", "diff"} -> 1 + item.lines

\* The lines of an item are numbered from 1; the blank one that follows it is 0.
Total == Cardinality(UNION {{i} \X (0 .. Lines(items[i])) : i \in DOMAIN items})

Welcomes == height >= Welcoming /\ \A i \in DOMAIN items : items[i].kind # "user"

Fixed ==
  Composer + (IF Welcomes THEN Welcome ELSE 0)
    + (IF "palette" \in overlays THEN Palette ELSE 0)
    + (IF "picker" \in overlays THEN Picker ELSE 0)
    + (IF "permission" \in overlays THEN Permission ELSE 0)

\* The transcript has what the others leave, and a row at least.
Room == IF height > Fixed THEN height - Fixed ELSE 1

Minus(a, b) == IF a > b THEN a - b ELSE 0

\* Mutant: the offset is counted from the start.
TopFromStart == scroll % Width

\* The first line shown: the offset from the last place, that one as a u16.
Top == Minus(Minus(Total, Room) % Width, scroll)

Sections ==
  (IF Welcomes THEN <<"welcome">> ELSE <<>>) \o <<"transcript">>
    \o (IF "palette" \in overlays THEN <<"palette">> ELSE <<>>)
    \o (IF "picker" \in overlays THEN <<"picker">> ELSE <<>>)
    \o (IF "permission" \in overlays THEN <<"permission">> ELSE <<>>)
    \o <<"composer">>

\* A loop's frame, every 25 ms; too small a terminal shows a message only.
Frame ==
  IF height < Smallest THEN {} ELSE {[sections |-> Sections, top |-> Top, room |-> Room]}

Next ==
  \/ \E kind \in Kinds, n \in 0 .. MaxLines : Put(kind, n)
  \/ Grow \/ ToTail \/ Clear
  \/ \E i \in DOMAIN items : Toggle(i)
  \/ \E delta \in {-1, 1} : ScrollBy(delta)
  \/ \E section \in {"palette", "picker", "permission"} : Overlay(section)
  \/ \E h \in Heights : Resize(h)

-------------------------------------------------------------------------------
(* Properties.                                                               *)

\* A frame at the tail shows the last line of the transcript, and one scrolled has no
\* row empty that a line could fill, while the lines above the window can be counted in
\* a u16; whatever is open is drawn once, between the transcript and the composer.
WindowIsFull ==
  \A f \in Frame :
    /\ Minus(Total, Room) < Width =>
         /\ scroll = 0 => f.top + f.room >= Total
         /\ f.top = 0 \/ f.top + f.room <= Total
    /\ \A section \in overlays : Cardinality({n \in DOMAIN f.sections : f.sections[n] = section}) = 1
    /\ Last(f.sections) = "composer"

\* The inductive invariant.
IInv ==
  /\ items \in Seq([kind : Kinds, lines : Nat, unfolded : BOOLEAN])
  /\ scroll \in Nat /\ height \in Nat
  /\ overlays \subseteq {"palette", "picker", "permission"}
===============================================================================
