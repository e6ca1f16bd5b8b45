------------------------------- MODULE HashEdits -------------------------------
(***************************************************************************)
(* Edits anchored to the hash of a content (crates/darius-hashline:        *)
(* anchors.rs, edits.rs, filesystem.rs) and who makes them: the rename of  *)
(* the language server (crates/darius-lsp/src/lib.rs) and the anchored     *)
(* write of the daemon's tools (crates/darius-daemon/src/tools.rs).        *)
(* Editors share one file system under a lock they hold for one operation  *)
(* at a time, so whatever was read may be stale when the edit is applied:  *)
(* the anchor decides.                                                     *)
(*                                                                         *)
(* A text is its lines and whether it ends in a newline; a hash is taken   *)
(* for the text itself (BLAKE3 is assumed to tell two texts apart).        *)
(***************************************************************************)
EXTENDS Integers, Sequences, FiniteSets

CONSTANTS
  Editors,  \* threads that edit
  Paths,    \* the paths they name; a file of a path may not exist yet
  Loads,    \* texts that are loaded: [lines, newline]
  Edits,    \* edits that are asked for: [kind, from, to, put]
  MaxLines, \* bound on the lines of a file
  MaxLoads  \* bound on files loaded or written without an anchor

VARIABLES
  files,   \* path -> text, for the files that exist
  op,      \* per editor, its edit: the anchor, the range, and how it ended
  loads    \* contents written without an anchor, counted

vars == <<files, op, loads>>

NoOp == [at |-> "idle", kind |-> "none", path |-> "none", saw |-> <<>>, from |-> 0, to |-> 0,
         put |-> <<>>, end |-> "none"]

Init ==
  /\ files = [p \in {} |-> <<>>]
  /\ op = [e \in Editors |-> NoOp]
  /\ loads = 0

-------------------------------------------------------------------------------
(* Texts.                                                                    *)

Text(lines, newline) == [lines |-> lines, newline |-> newline]
EmptyText == Text(<<>>, FALSE)
Blank == ""
Lines == STRING \cup {Blank}

\* The text that is read back after lines were joined and a newline added: no
\* lines and a newline are one empty line, an empty last line without a newline
\* is the newline of the line before it.
Joined(lines, newline) ==
  IF newline THEN Text(IF lines = <<>> THEN <<Blank>> ELSE lines, TRUE)
  ELSE IF lines = <<>> \/ lines[Len(lines)] # Blank THEN Text(lines, FALSE)
  ELSE IF Len(lines) = 1 THEN EmptyText
  ELSE Text(SubSeq(lines, 1, Len(lines) - 1), TRUE)

Read(p) == IF p \in DOMAIN files THEN files[p] ELSE EmptyText
Written(p, text) == [q \in DOMAIN files \cup {p} |-> IF q = p THEN text ELSE files[q]]

-------------------------------------------------------------------------------
(* Contents without an anchor: load_file, and write_file of the daemon       *)
(* without an expected hash.                                                 *)

LoadFile(p, text) ==
  /\ loads < MaxLoads
  /\ loads' = loads + 1
  /\ files' = Written(p, Joined(text.lines, text.newline))
  /\ UNCHANGED <<op>>

-------------------------------------------------------------------------------
(* Anchored edits.                                                           *)

\* The editor reads the file and keeps the hash.  rename replaces one line and
\* its range is that line; a put or a cut has the range it was asked for; the
\* anchored write of the daemon replaces everything, and a file that does not
\* exist has the hash of the empty text.
Anchor(e, edit, p) ==
  /\ op[e].at = "idle"
  /\ edit.kind = "rename" => edit.to = edit.from + 1 /\ Len(edit.put) = 1
  /\ edit.kind = "cut" => edit.put = <<>>
  /\ edit.kind = "write" => edit.from = 0 /\ edit.to = 0
  /\ IF p \notin DOMAIN files /\ edit.kind # "write"
     THEN op' = [op EXCEPT ![e] = [NoOp EXCEPT !.at = "ended", !.end = "not_found"]]
     ELSE op' = [op EXCEPT ![e] = [at |-> "anchored", kind |-> edit.kind, path |-> p, saw |-> Read(p),
                                   from |-> edit.from, to |-> edit.to, put |-> edit.put, end |-> "none"]]
  /\ UNCHANGED <<files, loads>>

\* Mutant: the anchor is compared by its line count.
FreshByLength(e) == Len(Read(op[e].path).lines) = Len(op[e].saw.lines)

\* The hash of what is there now is the hash of what the editor read.
Fresh(e) == Read(op[e].path) = op[e].saw

InRange(e) ==
  LET n == Len(Read(op[e].path).lines) IN op[e].kind = "write" \/ (op[e].from <= n /\ op[e].to <= n)

\* Everything before the range, what is put, everything after it.  A range that
\* ends before it starts keeps the lines in between twice.
Spliced(e) ==
  LET text == Read(op[e].path) IN
  IF op[e].kind = "write" THEN Joined(op[e].put, FALSE)
  ELSE Joined(SubSeq(text.lines, 1, op[e].from) \o op[e].put
                \o SubSeq(text.lines, op[e].to + 1, Len(text.lines)), text.newline)

\* apply_put, apply_cut and write_file, each under the lock of the file system.
Apply(e) ==
  /\ op[e].at = "anchored"
  /\ LET end == IF ~Fresh(e) THEN "stale" ELSE IF ~InRange(e) THEN "invalid_range" ELSE "applied"
     IN /\ end = "applied" => Len(Spliced(e).lines) <= MaxLines
        /\ op' = [op EXCEPT ![e].at = "ended", ![e].end = end]
        /\ files' = IF end = "applied" THEN Written(op[e].path, Spliced(e)) ELSE files
  /\ UNCHANGED <<loads>>

Return(e) ==
  /\ op[e].at = "ended"
  /\ op' = [op EXCEPT ![e] = NoOp]
  /\ UNCHANGED <<files, loads>>

Next ==
  \/ \E p \in Paths, text \in Loads : LoadFile(p, text)
  \/ \E e \in Editors, edit \in Edits, p \in Paths : Anchor(e, edit, p)
  \/ \E e \in Editors : Apply(e) \/ Return(e)

-------------------------------------------------------------------------------
(* Properties.                                                               *)

\* No edit is lost to a stale reader: a step that changes a file is a load, or
\* an edit of exactly the text its editor read, which keeps the lines before
\* and after its range, but for an empty last one ("StaleAnchor", crates/darius-hashline/src/edits.rs:24).
NoLostEdit ==
  [][\A p \in DOMAIN files : files'[p] # files[p] /\ loads' = loads =>
       \E e \in Editors :
         /\ op[e].at = "anchored" /\ op[e].path = p /\ op[e].saw = files[p]
         /\ op'[e].end = "applied"
         /\ op[e].kind # "write" =>
              LET old == files[p].lines
                  new == files'[p].lines
                  kept == Len(old) - op[e].to
              IN /\ \A i \in 1..op[e].from : old[i] # Blank => i \in DOMAIN new /\ new[i] = old[i]
                 /\ \A i \in 1..kept : old[op[e].to + i] # Blank =>
                      \E j \in DOMAIN new : new[j] = old[op[e].to + i]
    ]_vars

Texts == [lines : Seq(Lines), newline : BOOLEAN]

\* The inductive invariant: an anchored edit is one that was asked for.
IInv ==
  /\ files \in [DOMAIN files -> Texts] /\ loads \in Nat
  /\ DOMAIN op = Editors
  /\ \A e \in Editors :
       /\ DOMAIN op[e] = DOMAIN NoOp
       /\ op[e].at = "anchored" =>
            op[e].from \in Nat /\ op[e].to \in Nat /\ op[e].put \in Seq(Lines) /\ op[e].saw \in Texts
===============================================================================
