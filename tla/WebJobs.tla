------------------------------- MODULE WebJobs --------------------------------
(***************************************************************************)
(* The web service (crates/darius-web) with the executor the CLI injects   *)
(* (crates/darius-cli/src/web_bridge.rs): goals submitted over HTTP, one   *)
(* runner per goal, its journal of events, and the streams that replay and *)
(* follow the journal.  Every action is one critical section of the jobs   *)
(* mutex, or a step that holds no lock.                                    *)
(*                                                                         *)
(* The turn behind the executor is AgentTurn; here it emits events, may be *)
(* denied a tool, and ends.  Events that neither end a stream nor announce *)
(* a state are all "Note".                                                 *)
(***************************************************************************)
EXTENDS Naturals, Sequences, FiniteSets

CONSTANTS
  Jobs,      \* identities of submissions (fresh uuids)
  Readers,   \* event stream clients
  MaxNotes   \* bound on the events a turn emits before its end

ASSUME NotesAssumption == MaxNotes \in Nat

VARIABLES
  step,      \* where the runner of a job is; "absent" before submission
  task,      \* TaskState of the job, as GET /a2a/tasks/:id returns it
  turn,      \* the turn in the executor: "none", "open", or how it ended: "Done" alone,
             \* or "Error" and then Done
  denied,    \* HeadlessRunControl: an approval was asked for
  result,    \* what the joined executor returned: "none", "Ok", "Err"
  events,    \* the journal of the job
  phase,     \* per reader: "idle", "open", "ended", "gone"
  reading,   \* per reader, the task_id of its request
  cursor,    \* per stream, the number of events taken from batches
  batch,     \* per stream, the events copied and not yet yielded
  received   \* per reader, what the stream delivered

runner == <<step, task, turn, denied, result, events>>
streams == <<phase, reading, cursor, batch, received>>
vars == <<step, task, turn, denied, result, events, phase, reading, cursor, batch, received>>

Terminals == {"Done", "Error"}
Announcements == {"Running", "Completed", "Failed"}
Events == {"Note"} \cup Announcements \cup Terminals
Steps == {"absent", "spawned", "running", "executing", "returned", "settled",
          "announced", "over"}

Init ==
  /\ step = [j \in Jobs |-> "absent"]
  /\ task = [j \in Jobs |-> "Pending"]
  /\ turn = [j \in Jobs |-> "none"]
  /\ denied = [j \in Jobs |-> FALSE]
  /\ result = [j \in Jobs |-> "none"]
  /\ events = [j \in Jobs |-> <<>>]
  /\ phase = [r \in Readers |-> "idle"]
  /\ reading \in [Readers -> Jobs]
  /\ cursor = [r \in Readers |-> 0]
  /\ batch = [r \in Readers |-> <<>>]
  /\ received = [r \in Readers |-> <<>>]

-------------------------------------------------------------------------------
(* The runner of a job.                                                      *)

Goes(j, from, to) == step[j] = from /\ step' = [step EXCEPT ![j] = to]

Publish(j, e) == events' = [events EXCEPT ![j] = Append(@, e)]

\* The task is Pending and its journal empty when the runner is spawned.
Submit(j) ==
  /\ Goes(j, "absent", "spawned")
  /\ UNCHANGED <<task, turn, denied, result, events, streams>>

\* The task is Running before the journal says so.
MarkRunning(j) ==
  /\ Goes(j, "spawned", "running")
  /\ task' = [task EXCEPT ![j] = "Running"]
  /\ UNCHANGED <<turn, denied, result, events, streams>>

AnnounceRunning(j) ==
  /\ Goes(j, "running", "executing")
  /\ Publish(j, "Running")
  /\ UNCHANGED <<task, turn, denied, result, streams>>

\* Mutant: every event of the turn is published.
SinkEmitUnfiltered(j, e) == Publish(j, e)

\* The sink of the job: the turn's own end is not published.
SinkEmit(j, e) ==
  IF e \in Terminals THEN UNCHANGED events ELSE Publish(j, e)

Notes(j) == Cardinality({i \in DOMAIN events[j] : events[j][i] = "Note"})

TurnEmits(j) ==
  /\ step[j] = "executing"
  /\ turn[j] \in {"none", "open"}
  /\ Notes(j) < MaxNotes
  /\ turn' = [turn EXCEPT ![j] = "open"]
  /\ SinkEmit(j, "Note")
  /\ UNCHANGED <<step, task, denied, result, streams>>

\* A mutating tool asks for approval: remembered, and denied.
ApproveTool(j) ==
  /\ step[j] = "executing"
  /\ turn[j] = "open"
  /\ denied' = [denied EXCEPT ![j] = TRUE]
  /\ UNCHANGED <<step, task, turn, result, events, streams>>

TurnEnds(j) ==
  /\ step[j] = "executing"
  /\ turn[j] = "open"
  /\ \E e \in Terminals :
       /\ turn' = [turn EXCEPT ![j] = e]
       /\ SinkEmit(j, e)
  /\ UNCHANGED <<step, task, denied, result, streams>>

\* Mutant: only the turn's own result counts.
OutcomeIgnoresDenial(j) == IF turn[j] = "Done" THEN "Ok" ELSE "Err"

Outcome(j) == IF turn[j] = "Done" /\ ~denied[j] THEN "Ok" ELSE "Err"

\* The executor returns: after the turn, or at once when the runtime cannot
\* be built or is no longer configured.
ExecutorReturns(j) ==
  /\ Goes(j, "executing", "returned")
  /\ turn[j] # "open"
  /\ result' = [result EXCEPT ![j] = Outcome(j)]
  /\ UNCHANGED <<task, turn, denied, events, streams>>

\* The blocking worker panics: the join error becomes the result.
ExecutorPanics(j) ==
  /\ Goes(j, "executing", "returned")
  /\ result' = [result EXCEPT ![j] = "Err"]
  /\ UNCHANGED <<task, turn, denied, events, streams>>

\* Mutant: a copy of the task is changed.
SettleCopy(j) ==
  /\ Goes(j, "returned", "settled")
  /\ UNCHANGED <<task, turn, denied, result, events, streams>>

Settle(j) ==
  /\ Goes(j, "returned", "settled")
  /\ task' = [task EXCEPT ![j] = IF result[j] = "Ok" THEN "Completed" ELSE "Failed"]
  /\ UNCHANGED <<turn, denied, result, events, streams>>

AnnounceResult(j) ==
  /\ Goes(j, "settled", "announced")
  /\ Publish(j, IF result[j] = "Ok" THEN "Completed" ELSE "Failed")
  /\ UNCHANGED <<task, turn, denied, result, streams>>

\* Mutant: only a completed task ends its journal.
PublishTerminalDone(j) ==
  /\ Goes(j, "announced", "over")
  /\ IF result[j] = "Ok" THEN Publish(j, "Done") ELSE UNCHANGED events
  /\ UNCHANGED <<task, turn, denied, result, streams>>

PublishTerminal(j) ==
  /\ Goes(j, "announced", "over")
  /\ Publish(j, IF result[j] = "Ok" THEN "Done" ELSE "Error")
  /\ UNCHANGED <<task, turn, denied, result, streams>>

-------------------------------------------------------------------------------
(* The streams.                                                              *)

\* GET /api/events for a task in the map (any other gets a 404); a client may
\* come back after its stream ended or broke, and is served from the start.
Subscribe(r, j) ==
  /\ phase[r] # "open"
  /\ step[j] # "absent"
  /\ phase' = [phase EXCEPT ![r] = "open"]
  /\ reading' = [reading EXCEPT ![r] = j]
  /\ cursor' = [cursor EXCEPT ![r] = 0]
  /\ batch' = [batch EXCEPT ![r] = <<>>]
  /\ received' = [received EXCEPT ![r] = <<>>]
  /\ UNCHANGED runner

From(journal, position) == SubSeq(journal, position + 1, Len(journal))

\* Every tick copies what the journal has beyond the cursor.
Tick(r) ==
  /\ phase[r] = "open"
  /\ batch[r] = <<>>
  /\ cursor[r] < Len(events[reading[r]])
  /\ batch' = [batch EXCEPT ![r] = From(events[reading[r]], cursor[r])]
  /\ UNCHANGED <<runner, phase, reading, cursor, received>>

Yield(r) ==
  LET e == Head(batch[r])
  IN /\ phase[r] = "open"
     /\ batch[r] # <<>>
     /\ cursor' = [cursor EXCEPT ![r] = @ + 1]
     /\ batch' = [batch EXCEPT ![r] = Tail(@)]
     /\ received' = [received EXCEPT ![r] = Append(@, e)]
     /\ phase' = [phase EXCEPT ![r] = IF e \in Terminals THEN "ended" ELSE @]
     /\ UNCHANGED <<runner, reading>>

\* The client closes its connection; the stream is dropped where it is.
Disconnect(r) ==
  /\ phase[r] = "open"
  /\ phase' = [phase EXCEPT ![r] = "gone"]
  /\ UNCHANGED <<runner, reading, cursor, batch, received>>

-------------------------------------------------------------------------------
RunnerStep(j) ==
  \/ MarkRunning(j) \/ AnnounceRunning(j)
  \/ ExecutorReturns(j) \/ ExecutorPanics(j)
  \/ Settle(j) \/ AnnounceResult(j) \/ PublishTerminal(j)

TurnStep(j) == TurnEmits(j) \/ ApproveTool(j) \/ TurnEnds(j)

StreamStep(r) == Tick(r) \/ Yield(r)

Next ==
  \/ \E j \in Jobs : Submit(j) \/ RunnerStep(j) \/ TurnStep(j)
  \/ \E r \in Readers, j \in Jobs : Subscribe(r, j)
  \/ \E r \in Readers : StreamStep(r) \/ Disconnect(r)

\* Spawned runners and open streams are polled by the runtime, and a turn ends
\* (AgentTurn: TurnProgress); clients do as they like.
Fairness ==
  /\ \A j \in Jobs : WF_vars(RunnerStep(j)) /\ WF_vars(TurnEnds(j))
  /\ \A r \in Readers : WF_vars(StreamStep(r))

Spec == Init /\ [][Next]_vars
FairSpec == Spec /\ Fairness

-------------------------------------------------------------------------------
(* Properties.                                                               *)

\* Types of the state, and that a runner past the join has a result.
TypeOK ==
  /\ step \in [Jobs -> Steps]
  /\ task \in [Jobs -> {"Pending"} \cup Announcements]
  /\ turn \in [Jobs -> {"none", "open"} \cup Terminals]
  /\ denied \in [Jobs -> BOOLEAN]
  /\ result \in [Jobs -> {"none", "Ok", "Err"}]
  /\ events \in [Jobs -> Seq(Events)]
  /\ phase \in [Readers -> {"idle", "open", "ended", "gone"}]
  /\ reading \in [Readers -> Jobs]
  /\ cursor \in [Readers -> Nat]
  /\ batch \in [Readers -> Seq(Events)]
  /\ received \in [Readers -> Seq(Events)]
  /\ \A j \in Jobs :
       step[j] \in {"returned", "settled", "announced", "over"} => result[j] # "none"

\* What a stream has shown, a task lookup confirms: by the time an event that
\* announces or implies a state reaches a client, GET /a2a/tasks/:id returns
\* that state or a later one (state.rs and execution.rs write the task under
\* one lock section and the journal under another).
Confirmed(j, e) ==
  /\ e = "Running" => task[j] # "Pending"
  /\ e \in {"Completed", "Done"} => task[j] = "Completed"
  /\ e \in {"Failed", "Error"} => task[j] = "Failed"
LookupConfirmsStream ==
  \A r \in Readers : \A i \in DOMAIN received[r] : Confirmed(reading[r], received[r][i])

\* A run that was denied a tool is never reported as completed, by lookup or by
\* stream, even when its turn went on and ended well.
DenialFails ==
  \A j \in Jobs : denied[j] =>
    /\ task[j] # "Completed"
    /\ \A i \in DOMAIN events[j] : events[j][i] \notin {"Completed", "Done"}

\* The streams keep the promise of the journal: whole, in order, one terminal
\* event, ended there and only there.
Promise == INSTANCE Journal WITH log <- events, Tasks <- Jobs
StreamsFollowJournal == Promise!Spec

\* An open stream is eventually ended by the terminal event of its task unless
\* the client leaves: no run and no cursor is left waiting.
EveryStreamEnds == \A r \in Readers : phase[r] = "open" ~> phase[r] # "open"
===============================================================================
