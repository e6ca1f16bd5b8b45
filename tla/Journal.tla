------------------------------- MODULE Journal --------------------------------
(***************************************************************************)
(* What the web service promises of its event streams: every task has a    *)
(* log that grows until its one terminal event, and a reader receives the  *)
(* log of the task it asked for from the beginning, in order, nothing      *)
(* skipped or repeated, and is let go exactly at the terminal event.       *)
(***************************************************************************)
EXTENDS Naturals, Sequences

CONSTANTS Tasks, Readers, Events, Terminals

VARIABLES
  log,       \* per task, the events so far
  reading,   \* per reader, the task of its last request
  phase,     \* per reader: "idle", "open", "ended" by the service, "gone"
  received   \* per reader, what its open or last stream delivered

vars == <<log, reading, phase, received>>

Closed(t) == \E i \in DOMAIN log[t] : log[t][i] \in Terminals

Init ==
  /\ log = [t \in Tasks |-> <<>>]
  /\ reading \in [Readers -> Tasks]
  /\ phase = [r \in Readers |-> "idle"]
  /\ received = [r \in Readers |-> <<>>]

Extend(t, e) ==
  /\ ~Closed(t)
  /\ log' = [log EXCEPT ![t] = Append(@, e)]
  /\ UNCHANGED <<reading, phase, received>>

Open(r, t) ==
  /\ phase[r] # "open"
  /\ reading' = [reading EXCEPT ![r] = t]
  /\ phase' = [phase EXCEPT ![r] = "open"]
  /\ received' = [received EXCEPT ![r] = <<>>]
  /\ UNCHANGED log

Receive(r) ==
  LET position == Len(received[r]) + 1
      events == log[reading[r]]
  IN /\ phase[r] = "open"
     /\ position \in DOMAIN events
     /\ received' = [received EXCEPT ![r] = Append(@, events[position])]
     /\ phase' = [phase EXCEPT ![r] =
                    IF events[position] \in Terminals THEN "ended" ELSE "open"]
     /\ UNCHANGED <<log, reading>>

Leave(r) ==
  /\ phase[r] = "open"
  /\ phase' = [phase EXCEPT ![r] = "gone"]
  /\ UNCHANGED <<log, reading, received>>

Next ==
  \/ \E t \in Tasks, e \in Events : Extend(t, e)
  \/ \E r \in Readers, t \in Tasks : Open(r, t)
  \/ \E r \in Readers : Receive(r) \/ Leave(r)

Spec == Init /\ [][Next]_vars
===============================================================================
