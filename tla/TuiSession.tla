------------------------------ MODULE TuiSession ------------------------------
(***************************************************************************)
(* The session behind the terminal: SessionActor with run_tui as its       *)
(* client.  The loop of the terminal drains the event stream, draws,       *)
(* waits for a key, drains again and interprets the key against what it    *)
(* then knows.  Draining touches nothing that another thread reads, so a   *)
(* drain is one step, taken when it finds the stream empty.  Editing the   *)
(* composer, the palette and the pickers send nothing and are left out.    *)
(***************************************************************************)
EXTENDS SessionActor

CONSTANT Capacity   \* of the broadcast channel: older events are overwritten

ASSUME CapacityAssumption == Capacity \in Nat \ {0}

VARIABLES
  ui,      \* run_tui is about to "draw", waits in "poll", or has returned
  next,    \* events received or skipped
  view,    \* AppState: latest_turn, running, permission and mode, and, for the
           \* properties only, whether the receiver ever lagged
  shown    \* the permission dialog on the screen

uiVars == <<ui, next, view, shown>>
allVars == <<vars, uiVars>>

NoDialog == [turn |-> 0, id |-> "none"]
Dialogs == [turn : 1..MaxCmds, id : CallIds] \cup {NoDialog}

InitialView ==
  [latest |-> 0, running |-> FALSE, dialog |-> NoDialog, mode |-> "Auto",
   lagged |-> FALSE]

TuiInit ==
  /\ Init
  /\ ui = "draw" /\ next = 0 /\ shown = NoDialog /\ view = InitialView

-------------------------------------------------------------------------------
(* Applying the event stream.                                                 *)

\* apply_event: the other kinds of event change only the transcript and the status
\* line.
Apply(v, e) ==
  CASE e.kind = "Header" -> [v EXCEPT !.running = TRUE]
    [] e.kind = "PermissionRequired" -> [v EXCEPT !.dialog = [turn |-> e.turn, id |-> e.arg]]
    [] e.kind = "ModeChanged" -> [v EXCEPT !.mode = e.arg]
    [] e.kind \in {"Done", "Interrupted"} -> [v EXCEPT !.running = FALSE]
    [] OTHER -> v

\* Mutant: an event that is not newer than the latest turn is taken for a stale one.
ApplyRuntimeEventStrict(v, e) ==
  IF e.turn = 0 THEN Apply(v, e)
  ELSE IF e.turn <= v.latest THEN v
  ELSE IF e.kind = "Header"
       THEN Apply([v EXCEPT !.latest = e.turn, !.dialog = NoDialog], e)
  ELSE v

\* An event of a turn counts from that turn's Header to its end; one of no turn always.
ApplyRuntimeEvent(v, e) ==
  CASE e.turn = 0 -> Apply(v, e)
    [] e.turn > v.latest /\ e.kind = "Header" ->
         Apply([v EXCEPT !.latest = e.turn, !.dialog = NoDialog], e)
    [] e.turn > 0 /\ e.turn = v.latest /\ v.running /\ e.kind # "Header" -> Apply(v, e)
    [] OTHER -> v

\* drain_events: a receiver that fell behind goes on with the oldest event kept.
Lags == Len(events) - next > Capacity

\* The view after each event from the given one on, starting from v.
Replayed(v, from) ==
  LET after[i \in from..Len(events)] ==
        IF i = from THEN v ELSE ApplyRuntimeEvent(after[i - 1], events[i])
  IN after

Drained ==
  IF Lags THEN Replayed([view EXCEPT !.lagged = TRUE], Len(events) - Capacity)[Len(events)]
  ELSE Replayed(view, next)[Len(events)]

\* All senders are gone with the actor; only then is the drained stream closed.
StreamClosed == actor = "Stopped"

-------------------------------------------------------------------------------
(* The loop of run_tui.                                                       *)

\* Returning drops the state and both channels.
Leave ==
  /\ ui' = "gone" /\ closed' = TRUE
  /\ view' = InitialView /\ next' = 0 /\ shown' = NoDialog

UiFrame ==
  /\ ui # "gone" /\ ~StreamClosed
  /\ view' = Drained /\ next' = Len(events)
  /\ shown' = view'.dialog
  /\ ui' = "poll"
  /\ UNCHANGED vars

UiFindsStreamClosed ==
  /\ ui # "gone" /\ StreamClosed
  /\ Leave
  /\ UNCHANGED <<actorVars, workerVars, controlVars, cmds, sent, events, history>>

\* Drawing or reading the terminal fails.
UiFails ==
  /\ ui # "gone"
  /\ Leave
  /\ UNCHANGED <<actorVars, workerVars, controlVars, cmds, sent, events, history>>

\* A key is read and the stream drained again, to d: what it means depends on d.
KeyRead == ui = "poll" /\ ~StreamClosed /\ sent < MaxCmds

\* The command goes to the actor; a dialog that was open is closed by the key.
Press(d, c) ==
  /\ KeyRead
  /\ Send(c)
  /\ view' = [d EXCEPT !.dialog = NoDialog] /\ next' = Len(events)
  /\ ui' = "draw"
  /\ UNCHANGED shown

Quit ==
  /\ KeyRead
  /\ cmds' = Append(cmds, Plain("Shutdown")) /\ sent' = sent + 1
  /\ Leave
  /\ UNCHANGED <<actorVars, workerVars, controlVars, events, history>>

\* y, a and n, the chooser, and Esc answer the dialog.
AnswerKey(d, choice) ==
  /\ KeyRead /\ d.dialog # NoDialog
  /\ Press(d, Resolve(d.dialog.id, choice))

\* Ctrl+C interrupts a dialog or a running turn, and otherwise quits.
CtrlC(d) ==
  IF d.dialog # NoDialog \/ d.running THEN Press(d, Plain("Interrupt")) ELSE Quit

\* Enter sends the goal with the mode on the screen, or a slash command.
EnterGoal(d) == d.dialog = NoDialog /\ Press(d, Submit(d.mode))

EnterSlash(d) ==
  /\ d.dialog = NoDialog
  /\ \/ \E m \in Modes : Press(d, SetMode(m))
     \/ \E k \in {"Interrupt", "SelectModel", "Slash"} : Press(d, Plain(k))
     \/ Quit

ShiftTab(d) == d.dialog = NoDialog /\ Press(d, SetMode("next"))

Key(d) ==
  \/ \E choice \in PermissionChoices : AnswerKey(d, choice)
  \/ CtrlC(d) \/ EnterGoal(d) \/ EnterSlash(d) \/ ShiftTab(d)

UiStep ==
  \/ UiFrame \/ UiFindsStreamClosed \/ UiFails
  \/ KeyRead /\ LET d == Drained IN Key(d)

SessionStep == ActorStep \/ ShutdownOverdue \/ WorkerStep \/ WorkerPanics

TuiNext == (SessionStep /\ UNCHANGED uiVars) \/ UiStep

\* The terminal's loop never blocks: its poll times out after 25 ms.  Nobody has to
\* press a key.
TuiFairness ==
  /\ WF_allVars(ActorStep /\ UNCHANGED uiVars)
  /\ WF_allVars(WorkerStep /\ UNCHANGED uiVars)
  /\ WF_allVars(UiFrame \/ UiFindsStreamClosed)

TuiSpec == TuiInit /\ [][TuiNext]_allVars
TuiFairSpec == TuiSpec /\ TuiFairness

-------------------------------------------------------------------------------
(* Properties.                                                                *)

\* The type of every variable of the terminal (AppState, run_tui).
TuiTypeOK ==
  /\ ui \in {"draw", "poll", "gone"}
  /\ next \in 0..Len(events)
  /\ view \in [latest : 0..MaxCmds, running : BOOLEAN, dialog : Dialogs, mode : Modes,
               lagged : BOOLEAN]
  /\ shown \in Dialogs

\* The screen is up to date, and no command is on its way.
UpToDate == ui = "poll" /\ next = Len(events) /\ ~view.lagged /\ cmds = <<>>

\* Never do the turn and the person wait for each other: when everything has settled
\* and the turn waits for an answer to a prompt, that prompt is on the screen and
\* open to the keys (approve_tool, app_events.rs, terminal.rs run_tui).
PromptIsVisible ==
  UpToDate /\ worker = "waiting" /\ answer = "none" /\ ~cancelled =>
    view.dialog = [turn |-> turns, id |-> call.id] /\ shown = view.dialog

\* The screen does not stay busy when the session has come to rest: after an answer,
\* an error, an interrupt and a panic alike, and whatever was submitted meanwhile
\* (lifecycle.rs restore, app_events.rs).
ScreenSettles == UpToDate /\ actor = "Idle" => ~view.running

\* The screen agrees with the session as soon as neither has anything on its way.
ScreenAgrees == PromptIsVisible /\ ScreenSettles

\* The terminal returns when the session has died under it (terminal.rs drain_events).
DeathIsNoticed == (actor = "Stopped") ~> (ui = "gone")

\* "Ctrl+C interrupts the active turn" (docs/TROUBLESHOOTING.md:36): no turn is
\* running when Ctrl+C ends the session instead.
CtrlCInterruptsTurn == [][CtrlC(Drained) /\ actor = "Running" => ui' # "gone"]_allVars

\* Neither side outlives the other: a shutdown or a lost client stops the session, and a
\* session that is gone ends the terminal.
BothSidesEnd == ShutdownStops /\ DeathIsNoticed
===============================================================================
