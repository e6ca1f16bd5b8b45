-------------------------------- MODULE Composer --------------------------------
(***************************************************************************)
(* The line a user types on, with the slash palette and the model picker   *)
(* over it: AppState::reduce outside a permission dialog (crates/darius-   *)
(* tui/src/app.rs).  A command is "/" or "-" and one letter; the model     *)
(* command also opens the picker, whose entries are one letter each.       *)
(* Blanks, and with them arguments, are left out.                          *)
(***************************************************************************)
EXTENDS Integers, Sequences, SequencesExt

CONSTANTS
  Letters,    \* what is typed beside the two marks
  Commands,   \* letters of the commands, in the order the registry lists them
  ModelName,  \* the letter of the model command
  Entries,    \* letters of the picker's entries, in order
  MaxLine     \* bounds the line and the filter

Marks == {"/", "-"}
Closed == [open |-> FALSE, selected |-> 0]
Nothing == [line |-> <<>>, effect |-> "none", of |-> <<>>]

VARIABLES
  line, cursor, \* ComposerState: the input, and the place in it
  slash,        \* slash_mode
  palette,      \* PaletteState
  picker,       \* none or one: a filter and a cursor
  entered       \* what the last Enter found on the line, and what it gave

vars == <<line, cursor, slash, palette, picker, entered>>

Init ==
  /\ line = <<>> /\ cursor = 0 /\ slash = FALSE
  /\ palette = Closed /\ picker = {} /\ entered = Nothing

Marked(l) == l # <<>> /\ l[1] \in Marks

\* Of names that are one letter each, and differ, a filter leaves itself or nothing.
Matches(names, filter) ==
  IF filter = <<>> THEN names
  ELSE IF Len(filter) = 1 /\ Contains(names, filter[1]) THEN filter ELSE <<>>

\* commands::filter: what is typed after the leading marks, anywhere in a name.
Bare(l) ==
  LET led == {n \in 0 .. Len(l) : \A i \in 1 .. n : l[i] \in Marks} IN
  SubSeq(l, 1 + (CHOOSE n \in led : \A m \in led : m <= n), Len(l))
Filtered(l) == Matches(Commands, Bare(l))

\* parse_invocation.
Parsed(l) ==
  IF Len(l) = 2 /\ Marked(l) /\ Contains(Commands, l[2]) THEN {l[2]} ELSE {}

Matching(filter) == Matches(Entries, filter)

Inserted(c) == InsertAt(line, cursor + 1, c)
Removed(n) == SubSeq(line, 1, n - 1) \o SubSeq(line, n + 1, Len(line))

-------------------------------------------------------------------------------
(* Moving and typing.                                                        *)

Typing == picker = {}

Move(to) ==
  /\ Typing /\ to \in {IF cursor = 0 THEN 0 ELSE cursor - 1,
                       IF cursor < Len(line) THEN cursor + 1 ELSE cursor, 0, Len(line)}
  /\ cursor' = to
  /\ UNCHANGED <<line, slash, palette, picker, entered>>

\* An edit under the palette selects the first again.
Reselect == 0

\* A mark alone opens the palette; a palette open without slash_mode takes no letters.
Insert(c) ==
  /\ Typing /\ Len(line) < MaxLine
  /\ IF palette.open
     THEN /\ slash /\ line' = Inserted(c) /\ cursor' = cursor + 1
          /\ palette' = [palette EXCEPT !.selected = Reselect] /\ UNCHANGED slash
     ELSE /\ line' = Inserted(c) /\ cursor' = cursor + 1
          /\ IF line' \in {<<"/">>, <<"-">>}
             THEN slash' = TRUE /\ palette' = [open |-> TRUE, selected |-> 0]
             ELSE UNCHANGED <<slash, palette>>
  /\ UNCHANGED <<picker, entered>>

\* Pasted text opens the palette whenever the line begins with a mark.
Paste(text) ==
  /\ Typing /\ Len(line) + Len(text) <= MaxLine
  /\ line' = SubSeq(line, 1, cursor) \o text \o SubSeq(line, cursor + 1, Len(line))
  /\ cursor' = cursor + Len(text)
  /\ IF ~palette.open /\ Marked(line')
     THEN slash' = TRUE /\ palette' = [open |-> TRUE, selected |-> 0]
     ELSE palette' = [palette EXCEPT !.selected = 0] /\ UNCHANGED slash
  /\ UNCHANGED <<picker, entered>>

\* Taking the mark away closes the palette only where it is closed already: under an
\* open palette only an empty line does.
Erase(n, to) ==
  /\ Typing /\ n \in DOMAIN line
  /\ line' = Removed(n) /\ cursor' = to
  /\ IF palette.open
     THEN IF line' = <<>> THEN slash' = FALSE /\ palette' = Closed
          ELSE palette' = [palette EXCEPT !.selected = Reselect] /\ UNCHANGED slash
     ELSE IF Marked(line') THEN UNCHANGED <<slash, palette>>
          ELSE slash' = FALSE /\ palette' = Closed
  /\ UNCHANGED <<picker, entered>>

Delete == Erase(cursor + 1, cursor)
Backspace == cursor > 0 /\ (palette.open => slash) /\ Erase(cursor, cursor - 1)

Cleared == line' = <<>> /\ cursor' = 0 /\ slash' = FALSE /\ palette' = Closed

\* Esc closes the picker, or the palette, or clears the line.
Escape ==
  /\ IF picker # {} THEN picker' = {} /\ UNCHANGED <<line, cursor, slash, palette>>
     ELSE IF palette.open THEN palette' = Closed /\ UNCHANGED <<line, cursor, slash, picker>>
     ELSE Cleared /\ UNCHANGED picker
  /\ UNCHANGED entered

-------------------------------------------------------------------------------
(* The palette.                                                              *)

Turn(n, size, back) ==
  IF size = 0 THEN n ELSE IF back THEN (n + size - 1) % size ELSE (n + 1) % size

Select(back) ==
  /\ Typing /\ palette.open
  /\ palette' = [palette EXCEPT !.selected = Turn(@, Len(Filtered(line)), back)]
  /\ UNCHANGED <<line, cursor, slash, picker, entered>>

\* Tab.
Complete ==
  /\ Typing /\ palette.open /\ palette.selected < Len(Filtered(line))
  /\ line' = <<"/", Filtered(line)[palette.selected + 1]>> /\ cursor' = Len(line')
  /\ slash' = TRUE /\ palette' = Closed
  /\ UNCHANGED <<picker, entered>>

\* handle_command_invocation; a command that does not parse leaves a message.
Run(commands) ==
  IF commands = {} THEN entered' = [line |-> line, effect |-> "message", of |-> <<>>] /\ UNCHANGED picker
  ELSE \E x \in commands :
         /\ entered' = [line |-> line, effect |-> "command", of |-> <<x>>]
         /\ picker' = IF x = ModelName THEN {[filter |-> <<>>, cursor |-> 0]} ELSE picker

\* Enter under the palette: the line if it is marked, otherwise the first that is listed,
\* for the selection is reset before it is looked at.
Accept ==
  /\ Typing /\ palette.open
  /\ Run(IF Marked(line) THEN Parsed(line)
         ELSE IF Filtered(line) # <<>> THEN {Filtered(line)[1]}
         ELSE {})
  /\ Cleared

Submit ==
  /\ Typing /\ ~palette.open /\ line # <<>>
  /\ IF Marked(line) THEN Run(Parsed(line))
     ELSE entered' = [line |-> line, effect |-> "goal", of |-> line] /\ UNCHANGED picker
  /\ Cleared

-------------------------------------------------------------------------------
(* The picker.                                                               *)

Picking(p, filter, at) ==
  /\ p \in picker /\ picker' = {[filter |-> filter, cursor |-> at]}
  /\ UNCHANGED <<line, cursor, slash, palette, entered>>

PickerMove(back) ==
  \E p \in picker : Picking(p, p.filter, Turn(p.cursor, Len(Matching(p.filter)), back))

PickerType(c) ==
  \E p \in picker : Len(p.filter) < MaxLine /\ Picking(p, Append(p.filter, c), 0)

PickerErase ==
  \E p \in picker : p.filter # <<>> /\ Picking(p, Front(p.filter), 0)

\* Enter: the entry under the cursor, if the filter leaves one.
PickerSelect ==
  \E p \in picker :
    /\ picker' = {}
    /\ entered' = IF p.cursor < Len(Matching(p.filter))
                  THEN [line |-> p.filter, effect |-> "model", of |-> <<Matching(p.filter)[p.cursor + 1]>>]
                  ELSE entered
    /\ UNCHANGED <<line, cursor, slash, palette>>

Next ==
  \/ \E to \in 0 .. MaxLine : Move(to)
  \/ \E c \in Letters \cup Marks : Insert(c) \/ PickerType(c)
  \/ \E c, d \in Letters \cup Marks : Paste(<<c, d>>)
  \/ \E back \in BOOLEAN : Select(back) \/ PickerMove(back)
  \/ Delete \/ Backspace \/ Escape \/ Complete \/ Accept \/ Submit \/ PickerErase \/ PickerSelect

-------------------------------------------------------------------------------
(* Properties.                                                               *)

\* The cursor is in the line and both selections point at something listed, however the
\* line and the lists shrink under them; a goal is the line that was on the screen and
\* no command, a command typed out is the one that runs, a model picked was listed.
LineIsEditable ==
  /\ cursor <= Len(line)
  /\ palette.open => slash
  /\ palette.selected = 0 \/ palette.selected < Len(Filtered(line))
  /\ \A p \in picker : p.cursor = 0 \/ p.cursor < Len(Matching(p.filter))
  /\ entered.effect = "goal" => entered.of = entered.line /\ ~Marked(entered.line)
  /\ entered.effect = "command" /\ Marked(entered.line) => entered.of[1] \in Parsed(entered.line)
  /\ entered.effect = "model" => Contains(Matching(entered.line), entered.of[1])

Symbols == Letters \cup Marks \cup Range(Commands)

TypeOK ==
  /\ line \in Seq(Symbols) /\ cursor \in Nat /\ slash \in BOOLEAN
  /\ palette \in [open : BOOLEAN, selected : Nat]
  /\ \A p \in picker : p.cursor \in Nat

\* The inductive invariant: a palette that is closed selects nothing.
IInv == TypeOK /\ LineIsEditable /\ (palette.open \/ palette = Closed)

\* README.md:67: ordinary text is typed into the composer, and Enter submits it.
OrdinaryTextIsSubmitted == entered.effect = "command" => Marked(entered.line)
===============================================================================
