---------------------------- MODULE WebJobs_proofs ----------------------------
(***************************************************************************)
(* Proofs about WebJobs for any sets of jobs and readers and any bound.    *)
(* Streams never look at each other, and a runner and a stream meet only   *)
(* in a journal: the invariant has one part per job and one per stream.    *)
(***************************************************************************)
EXTENDS WebJobs, TLAPS

\* What the runner of a job has done to the task and to the journal when it
\* stands at a given step.
Verdict(j) == IF result[j] = "Ok" THEN "Completed" ELSE "Failed"

TaskFollowsRunner(j) ==
  /\ step[j] \in {"absent", "spawned"} => task[j] = "Pending"
  /\ step[j] \in {"running", "executing", "returned"} => task[j] = "Running"
  /\ step[j] \in {"settled", "announced", "over"} => task[j] = Verdict(j)

JournalFollowsRunner(j) ==
  /\ step[j] \in {"absent", "spawned", "running"} => events[j] = <<>>
  /\ step[j] # "over" => \A i \in 1..Len(events[j]) : events[j][i] \notin Terminals
  /\ \A i \in 1..Len(events[j]) : Confirmed(j, events[j][i])

DenialIsKept(j) ==
  denied[j] =>
    /\ step[j] \notin {"absent", "spawned", "running"}
    /\ step[j] # "executing" => result[j] # "Ok"

RunnerInvariant(j) == TaskFollowsRunner(j) /\ JournalFollowsRunner(j) /\ DenialIsKept(j)

\* A sequence is what the journal has after its first k events, or a part of it.
IsPiece(piece, journal, k) ==
  /\ k + Len(piece) <= Len(journal)
  /\ \A i \in 1..Len(piece) : piece[i] = journal[k + i]

\* What a stream has delivered and what it holds are two consecutive pieces of
\* the journal, from its beginning.
StreamFollowsJournal(r) ==
  /\ cursor[r] = Len(received[r])
  /\ IsPiece(received[r], events[reading[r]], 0)
  /\ IsPiece(batch[r], events[reading[r]], cursor[r])

IInv ==
  /\ TypeOK
  /\ \A j \in Jobs : RunnerInvariant(j)
  /\ \A r \in Readers : StreamFollowsJournal(r)
-------------------------------------------------------------------------------
\* Publishing an event keeps the journals well typed.
LEMMA PublishType ==
  ASSUME TypeOK, NEW j \in Jobs, NEW e \in Events, Publish(j, e)
  PROVE  events' \in [Jobs -> Seq(Events)]
<1>1. Append(events[j], e) \in Seq(Events)
  BY DEF TypeOK
<1> QED BY <1>1 DEF TypeOK, Publish

\* What a tick copies is a piece of the journal.
LEMMA CopyIsPiece ==
  ASSUME NEW journal \in Seq(Events), NEW k \in Nat, k < Len(journal)
  PROVE  From(journal, k) \in Seq(Events) /\ IsPiece(From(journal, k), journal, k)
BY DEF From, IsPiece

\* The variables keep their types.
THEOREM TypeCorrect == Spec => []TypeOK
<1>1. Init => TypeOK
  BY DEF Init, TypeOK, Steps
<1>2. TypeOK /\ [Next]_vars => TypeOK'
  <2> SUFFICES ASSUME TypeOK, [Next]_vars PROVE TypeOK'
    OBVIOUS
  <2>1. ASSUME NEW j \in Jobs, Submit(j) PROVE TypeOK'
    BY <2>1 DEF TypeOK, Submit, Goes, Steps, streams
  <2>2. ASSUME NEW j \in Jobs, MarkRunning(j) PROVE TypeOK'
    BY <2>2 DEF TypeOK, MarkRunning, Goes, Steps, streams, Announcements
  <2>3. ASSUME NEW j \in Jobs, AnnounceRunning(j) PROVE TypeOK'
    <3>1. events' \in [Jobs -> Seq(Events)]
      BY <2>3, PublishType DEF AnnounceRunning, Events, Announcements
    <3> QED BY <2>3, <3>1 DEF TypeOK, AnnounceRunning, Goes, Steps, streams
  <2>4. ASSUME NEW j \in Jobs, ExecutorReturns(j) PROVE TypeOK'
    BY <2>4 DEF TypeOK, ExecutorReturns, Goes, Steps, streams, Outcome
  <2>5. ASSUME NEW j \in Jobs, ExecutorPanics(j) PROVE TypeOK'
    BY <2>5 DEF TypeOK, ExecutorPanics, Goes, Steps, streams
  <2>6. ASSUME NEW j \in Jobs, Settle(j) PROVE TypeOK'
    BY <2>6 DEF TypeOK, Settle, Goes, Steps, streams, Announcements
  <2>7. ASSUME NEW j \in Jobs, AnnounceResult(j) PROVE TypeOK'
    <3>1. events' \in [Jobs -> Seq(Events)]
      BY <2>7, PublishType DEF AnnounceResult, Events, Announcements
    <3> QED BY <2>7, <3>1 DEF TypeOK, AnnounceResult, Goes, Steps, streams
  <2>8. ASSUME NEW j \in Jobs, PublishTerminal(j) PROVE TypeOK'
    <3>1. events' \in [Jobs -> Seq(Events)]
      BY <2>8, PublishType DEF PublishTerminal, Events, Terminals
    <3> QED BY <2>8, <3>1 DEF TypeOK, PublishTerminal, Goes, Steps, streams
  <2>9. ASSUME NEW j \in Jobs, TurnEmits(j) PROVE TypeOK'
    <3>1. events' \in [Jobs -> Seq(Events)]
      BY <2>9, PublishType DEF TurnEmits, SinkEmit, Events, TypeOK
    <3> QED BY <2>9, <3>1 DEF TypeOK, TurnEmits, streams
  <2>10. ASSUME NEW j \in Jobs, ApproveTool(j) PROVE TypeOK'
    BY <2>10 DEF TypeOK, ApproveTool, streams
  <2>11. ASSUME NEW j \in Jobs, TurnEnds(j) PROVE TypeOK'
    BY <2>11 DEF TypeOK, TurnEnds, SinkEmit, streams, Terminals
  <2>12. ASSUME NEW r \in Readers, NEW j \in Jobs, Subscribe(r, j) PROVE TypeOK'
    BY <2>12 DEF TypeOK, Subscribe, runner
  <2>13. ASSUME NEW r \in Readers, Tick(r) PROVE TypeOK'
    <3>1. From(events[reading[r]], cursor[r]) \in Seq(Events)
      BY <2>13, CopyIsPiece DEF TypeOK, Tick
    <3> QED BY <2>13, <3>1 DEF TypeOK, Tick, runner
  <2>14. ASSUME NEW r \in Readers, Yield(r) PROVE TypeOK'
    <3>1. Head(batch[r]) \in Events /\ Tail(batch[r]) \in Seq(Events)
      BY <2>14 DEF TypeOK, Yield
    <3>2. Append(received[r], Head(batch[r])) \in Seq(Events)
      BY <3>1 DEF TypeOK
    <3> QED BY <2>14, <3>1, <3>2 DEF TypeOK, Yield, runner
  <2>15. ASSUME NEW r \in Readers, Disconnect(r) PROVE TypeOK'
    BY <2>15 DEF TypeOK, Disconnect, runner
  <2>16. CASE UNCHANGED vars
    BY <2>16 DEF TypeOK, vars
  <2> QED
    BY <2>1, <2>2, <2>3, <2>4, <2>5, <2>6, <2>7, <2>8, <2>9, <2>10, <2>11, <2>12,
       <2>13, <2>14, <2>15, <2>16 DEF Next, RunnerStep, TurnStep, StreamStep
<1> QED BY <1>1, <1>2, PTL DEF Spec
-------------------------------------------------------------------------------
(* The runner's part.                                                        *)

\* Nothing but its own runner and turn touches a job.
LEMMA OtherJobs ==
  ASSUME NEW j, RunnerInvariant(j), step'[j] = step[j], task'[j] = task[j],
         denied'[j] = denied[j], result'[j] = result[j], events'[j] = events[j]
  PROVE  RunnerInvariant(j)'
BY DEF RunnerInvariant, TaskFollowsRunner, JournalFollowsRunner, DenialIsKept, Verdict,
       Confirmed

\* The journal after an event was published.
LEMMA Published ==
  ASSUME NEW journal \in Seq(Events), NEW e \in Events
  PROVE  /\ Len(Append(journal, e)) = Len(journal) + 1
         /\ \A i \in 1..Len(journal) : Append(journal, e)[i] = journal[i]
         /\ Append(journal, e)[Len(journal) + 1] = e
OBVIOUS

LEMMA PublishConfirmed ==
  ASSUME TypeOK, NEW j \in Jobs, NEW e \in Events, Publish(j, e), JournalFollowsRunner(j),
         task' = task, Confirmed(j, e),
         step[j] # "over", step'[j] \notin {"absent", "spawned", "running"},
         step'[j] # "over" => e \notin Terminals
  PROVE  JournalFollowsRunner(j)'
<1> DEFINE after == Append(events[j], e)
<1>1. events'[j] = after /\ events[j] \in Seq(Events)
  BY DEF TypeOK, Publish
<1>2. \A i \in 1..Len(after) : after[i] = e \/ (i \in 1..Len(events[j]) /\ after[i] = events[j][i])
  <2> SUFFICES ASSUME NEW i \in 1..Len(after)
               PROVE  after[i] = e \/ (i \in 1..Len(events[j]) /\ after[i] = events[j][i])
    OBVIOUS
  <2>1. Len(after) = Len(events[j]) + 1 /\ Len(events[j]) \in Nat
    BY <1>1, Published
  <2>2. CASE i = Len(events[j]) + 1
    BY <2>2, <1>1, Published
  <2>3. CASE i # Len(events[j]) + 1
    <3>1. i \in 1..Len(events[j])
      BY <2>1, <2>3
    <3> QED BY <3>1, <1>1, Published
  <2> QED BY <2>2, <2>3
<1>3. ASSUME NEW i \in 1..Len(after)
      PROVE  /\ Confirmed(j, after[i])
             /\ step'[j] # "over" => after[i] \notin Terminals
  <2>1. CASE after[i] = e
    BY <2>1 DEF Confirmed
  <2>2. CASE i \in 1..Len(events[j]) /\ after[i] = events[j][i]
    <3>1. Confirmed(j, events[j][i]) /\ events[j][i] \notin Terminals
      BY <2>2 DEF JournalFollowsRunner
    <3> QED BY <2>2, <3>1 DEF Confirmed
  <2> HIDE DEF after
  <2> QED BY <1>2, <2>1, <2>2
<1> HIDE DEF after
<1>4. \A i \in 1..Len(events'[j]) :
        /\ Confirmed(j, events'[j][i])
        /\ step'[j] # "over" => events'[j][i] \notin Terminals
  BY <1>1, <1>3, Zenon
<1> QED BY <1>4 DEF JournalFollowsRunner, Confirmed

LEMMA RunnerPreserved ==
  ASSUME TypeOK, TypeOK', [Next]_vars, NEW j \in Jobs, RunnerInvariant(j)
  PROVE  RunnerInvariant(j)'
<1> USE DEF TypeOK
<1>1. ASSUME NEW k \in Jobs, Submit(k) PROVE RunnerInvariant(j)'
  <2>1. CASE k # j
    BY <1>1, <2>1, OtherJobs DEF Submit, Goes
  <2>2. CASE k = j
    <3>1. /\ task'[j] = task[j] /\ denied'[j] = denied[j] /\ events'[j] = events[j]
          /\ step[j] = "absent" /\ step'[j] = "spawned" /\ result'[j] = result[j]
      BY <1>1, <2>2 DEF Submit, Goes
    <3>2. TaskFollowsRunner(j)'
      BY <3>1 DEF RunnerInvariant, TaskFollowsRunner
    <3>3. JournalFollowsRunner(j)'
      BY <3>1 DEF RunnerInvariant, JournalFollowsRunner, Confirmed
    <3>4. DenialIsKept(j)'
      BY <1>1, <3>1 DEF RunnerInvariant, DenialIsKept, Submit, Outcome
    <3> QED BY <3>2, <3>3, <3>4 DEF RunnerInvariant
  <2> QED BY <2>1, <2>2
<1>2. ASSUME NEW k \in Jobs, MarkRunning(k) PROVE RunnerInvariant(j)'
  <2>1. CASE k # j
    BY <1>2, <2>1, OtherJobs DEF MarkRunning, Goes
  <2>2. CASE k = j
    <3>1. events'[j] = <<>> /\ step[j] = "spawned" /\ step'[j] = "running" /\ task'[j] = "Running"
      BY <1>2, <2>2 DEF MarkRunning, Goes, RunnerInvariant, JournalFollowsRunner
    <3>2. ~denied'[j]
      BY <1>2, <2>2 DEF MarkRunning, Goes, RunnerInvariant, DenialIsKept
    <3> QED BY <3>1, <3>2 DEF RunnerInvariant, TaskFollowsRunner, JournalFollowsRunner,
            DenialIsKept
  <2> QED BY <2>1, <2>2
<1>3. ASSUME NEW k \in Jobs, AnnounceRunning(k) PROVE RunnerInvariant(j)'
  <2>1. CASE k # j
    <3>1. /\ step'[j] = step[j] /\ task'[j] = task[j] /\ denied'[j] = denied[j]
          /\ result'[j] = result[j] /\ events'[j] = events[j]
      <4>1. step'[j] = step[j]
        BY <1>3, <2>1 DEF AnnounceRunning, Goes
      <4>2. events'[j] = events[j]
        BY <1>3, <2>1 DEF AnnounceRunning, Publish
      <4> QED BY <1>3, <4>1, <4>2 DEF AnnounceRunning
    <3> QED BY <3>1, OtherJobs
  <2>2. CASE k = j
    <3>1. JournalFollowsRunner(j)'
      BY <1>3, <2>2, PublishConfirmed DEF AnnounceRunning, Goes, RunnerInvariant,
         TaskFollowsRunner, Confirmed, Events, Announcements, Terminals
    <3> QED BY <1>3, <2>2, <3>1 DEF AnnounceRunning, Goes, RunnerInvariant,
            TaskFollowsRunner, DenialIsKept
  <2> QED BY <2>1, <2>2
<1>4. ASSUME NEW k \in Jobs, ExecutorReturns(k) PROVE RunnerInvariant(j)'
  <2>1. CASE k # j
    <3>1. /\ step'[j] = step[j] /\ task'[j] = task[j] /\ denied'[j] = denied[j]
          /\ result'[j] = result[j] /\ events'[j] = events[j]
      BY <1>4, <2>1 DEF ExecutorReturns, Goes
    <3> QED BY <3>1, OtherJobs
  <2>2. CASE k = j
    <3>1. /\ task'[j] = task[j] /\ denied'[j] = denied[j] /\ events'[j] = events[j]
          /\ step[j] = "executing" /\ step'[j] = "returned" /\ result'[j] = Outcome(j)
      BY <1>4, <2>2 DEF ExecutorReturns, Goes
    <3>2. TaskFollowsRunner(j)'
      BY <3>1 DEF RunnerInvariant, TaskFollowsRunner
    <3>3. JournalFollowsRunner(j)'
      BY <3>1 DEF RunnerInvariant, JournalFollowsRunner, Confirmed
    <3>4. DenialIsKept(j)'
      BY <1>4, <3>1 DEF RunnerInvariant, DenialIsKept, ExecutorReturns, Outcome
    <3> QED BY <3>2, <3>3, <3>4 DEF RunnerInvariant
  <2> QED BY <2>1, <2>2
<1>5. ASSUME NEW k \in Jobs, ExecutorPanics(k) PROVE RunnerInvariant(j)'
  <2>1. CASE k # j
    BY <1>5, <2>1, OtherJobs DEF ExecutorPanics, Goes
  <2>2. CASE k = j
    <3>1. /\ task'[j] = task[j] /\ denied'[j] = denied[j] /\ events'[j] = events[j]
          /\ step[j] = "executing" /\ step'[j] = "returned" /\ result'[j] = "Err"
      BY <1>5, <2>2 DEF ExecutorPanics, Goes
    <3>2. TaskFollowsRunner(j)'
      BY <3>1 DEF RunnerInvariant, TaskFollowsRunner
    <3>3. JournalFollowsRunner(j)'
      BY <3>1 DEF RunnerInvariant, JournalFollowsRunner, Confirmed
    <3>4. DenialIsKept(j)'
      BY <1>5, <3>1 DEF RunnerInvariant, DenialIsKept, ExecutorPanics, Outcome
    <3> QED BY <3>2, <3>3, <3>4 DEF RunnerInvariant
  <2> QED BY <2>1, <2>2
<1>6. ASSUME NEW k \in Jobs, Settle(k) PROVE RunnerInvariant(j)'
  <2>1. CASE k # j
    BY <1>6, <2>1, OtherJobs DEF Settle, Goes
  <2>2. CASE k = j
    <3>1. step[j] = "returned" /\ step'[j] = "settled" /\ task[j] = "Running"
          /\ task'[j] = Verdict(j) /\ events'[j] = events[j]
      BY <1>6, <2>2 DEF Settle, Goes, Verdict, RunnerInvariant, TaskFollowsRunner
    <3>2. Verdict(j) \in {"Completed", "Failed"} /\ Verdict(j)' = Verdict(j)
      BY <1>6, <2>2 DEF Settle, Verdict
    <3>3. \A e \in Events : Confirmed(j, e) => Confirmed(j, e)'
      BY <3>1, <3>2 DEF Confirmed, Events, Announcements, Terminals
    <3>4. \A i \in 1..Len(events[j]) : events[j][i] \in Events
      OBVIOUS
    <3>5. JournalFollowsRunner(j)'
      BY <3>1, <3>3, <3>4 DEF RunnerInvariant, JournalFollowsRunner
    <3> QED BY <1>6, <2>2, <3>1, <3>2, <3>5 DEF Settle, Goes, RunnerInvariant,
            TaskFollowsRunner, DenialIsKept
  <2> QED BY <2>1, <2>2
<1>7. ASSUME NEW k \in Jobs, AnnounceResult(k) PROVE RunnerInvariant(j)'
  <2>1. CASE k # j
    BY <1>7, <2>1, OtherJobs DEF AnnounceResult, Goes, Publish
  <2>2. CASE k = j
    <3>1. JournalFollowsRunner(j)'
      BY <1>7, <2>2, PublishConfirmed DEF AnnounceResult, Goes, RunnerInvariant, Verdict,
         TaskFollowsRunner, Confirmed, Events, Announcements, Terminals
    <3> QED BY <1>7, <2>2, <3>1 DEF AnnounceResult, Goes, RunnerInvariant, Verdict,
            TaskFollowsRunner, DenialIsKept
  <2> QED BY <2>1, <2>2
<1>8. ASSUME NEW k \in Jobs, PublishTerminal(k) PROVE RunnerInvariant(j)'
  <2>1. CASE k # j
    BY <1>8, <2>1, OtherJobs DEF PublishTerminal, Goes, Publish
  <2>2. CASE k = j
    <3>1. JournalFollowsRunner(j)'
      BY <1>8, <2>2, PublishConfirmed DEF PublishTerminal, Goes, RunnerInvariant, Verdict,
         TaskFollowsRunner, Confirmed, Events, Announcements, Terminals
    <3> QED BY <1>8, <2>2, <3>1 DEF PublishTerminal, Goes, RunnerInvariant, Verdict,
            TaskFollowsRunner, DenialIsKept
  <2> QED BY <2>1, <2>2
<1>9. ASSUME NEW k \in Jobs, TurnEmits(k) PROVE RunnerInvariant(j)'
  <2>1. Publish(k, "Note")
    BY <1>9 DEF TurnEmits, SinkEmit, Terminals
  <2>2. CASE k # j
    BY <1>9, <2>1, <2>2, OtherJobs DEF TurnEmits, Publish
  <2>3. CASE k = j
    <3>1. JournalFollowsRunner(j)'
      BY <1>9, <2>1, <2>3, PublishConfirmed DEF TurnEmits, RunnerInvariant, Confirmed, Events,
         Terminals
    <3> QED BY <1>9, <2>3, <3>1 DEF TurnEmits, RunnerInvariant, TaskFollowsRunner, DenialIsKept
  <2> QED BY <2>2, <2>3
<1>10. ASSUME NEW k \in Jobs, ApproveTool(k) PROVE RunnerInvariant(j)'
  BY <1>10, OtherJobs DEF ApproveTool, RunnerInvariant, TaskFollowsRunner,
     JournalFollowsRunner, DenialIsKept, Verdict, Confirmed
<1>11. ASSUME NEW k \in Jobs, TurnEnds(k) PROVE RunnerInvariant(j)'
  BY <1>11, OtherJobs DEF TurnEnds, SinkEmit
<1>12. ASSUME UNCHANGED runner PROVE RunnerInvariant(j)'
  BY <1>12, OtherJobs DEF runner
<1> QED
  BY <1>1, <1>2, <1>3, <1>4, <1>5, <1>6, <1>7, <1>8, <1>9, <1>10, <1>11, <1>12
  DEF Next, RunnerStep, TurnStep, StreamStep, Subscribe, Tick, Yield, Disconnect, vars, runner
-------------------------------------------------------------------------------
(* The streams' part.                                                        *)

\* Journals only grow, one event at a time and by their own runner.
Grows(before, after) ==
  \/ after = before
  \/ \E e \in Events : after = Append(before, e)

LEMMA JournalsGrow ==
  ASSUME TypeOK, [Next]_vars, NEW j \in Jobs
  PROVE  Grows(events[j], events'[j])
<1>1. ASSUME NEW k \in Jobs, NEW e \in Events, Publish(k, e)
      PROVE  Grows(events[j], events'[j])
  BY <1>1 DEF Publish, Grows, TypeOK
<1>2. ASSUME events' = events PROVE Grows(events[j], events'[j])
  BY <1>2 DEF Grows
<1>3. ASSUME NEW k \in Jobs, RunnerStep(k) PROVE Grows(events[j], events'[j])
  <2>1. events' = events \/ \E e \in Events : Publish(k, e)
    BY <1>3 DEF RunnerStep, MarkRunning, AnnounceRunning, ExecutorReturns, ExecutorPanics,
       Settle, AnnounceResult, PublishTerminal, Events, Announcements, Terminals
  <2> QED BY <2>1, <1>1, <1>2
<1>4. ASSUME NEW k \in Jobs, TurnStep(k) PROVE Grows(events[j], events'[j])
  <2>1. events' = events \/ \E e \in Events : Publish(k, e)
    BY <1>4 DEF TurnStep, TurnEmits, ApproveTool, TurnEnds, SinkEmit, Events, Terminals
  <2> QED BY <2>1, <1>1, <1>2
<1>5. ASSUME NEW k \in Jobs, Submit(k) PROVE Grows(events[j], events'[j])
  BY <1>5, <1>2 DEF Submit
<1>6. ASSUME UNCHANGED runner PROVE Grows(events[j], events'[j])
  BY <1>6, <1>2 DEF runner
<1> QED
  BY <1>3, <1>4, <1>5, <1>6
  DEF Next, StreamStep, Subscribe, Tick, Yield, Disconnect, vars, runner

\* A journal that grows keeps what it had.
LEMMA GrownKeeps ==
  ASSUME NEW before \in Seq(Events), NEW after, Grows(before, after)
  PROVE  /\ after \in Seq(Events)
         /\ Len(before) <= Len(after)
         /\ \A i \in 1..Len(before) : after[i] = before[i]
BY Published DEF Grows

\* A piece of a journal is a piece of what the journal grows to.
LEMMA PieceOfGrown ==
  ASSUME NEW before \in Seq(Events), NEW after, Grows(before, after),
         NEW k \in Nat, NEW piece \in Seq(Events), IsPiece(piece, before, k)
  PROVE  IsPiece(piece, after, k)
<1>1. /\ after \in Seq(Events) /\ Len(before) <= Len(after)
      /\ \A i \in 1..Len(before) : after[i] = before[i]
  BY GrownKeeps
<1> DEFINE m == Len(piece)  n == Len(before)  p == Len(after)
<1>2. m \in Nat /\ n \in Nat /\ p \in Nat /\ k + m <= n /\ n <= p
  BY <1>1 DEF IsPiece
<1>3. \A i \in 1..m : piece[i] = before[k + i]
  BY DEF IsPiece
<1>4. \A i \in 1..n : after[i] = before[i]
  BY <1>1
<1> HIDE DEF m, n, p
<1>5. k + m <= p
  BY <1>2
<1>6. \A i \in 1..m : piece[i] = after[k + i]
  <2> SUFFICES ASSUME NEW i \in 1..m PROVE piece[i] = after[k + i]
    OBVIOUS
  <2>1. k + i \in 1..n
    BY <1>2
  <2> QED BY <2>1, <1>3, <1>4
<1> QED BY <1>5, <1>6 DEF m, n, p, IsPiece

\* Yielding an event moves it from one piece to the other.
LEMMA YieldMoves ==
  ASSUME NEW journal \in Seq(Events), NEW seen \in Seq(Events), NEW b \in Seq(Events),
         b # <<>>, IsPiece(seen, journal, 0), IsPiece(b, journal, Len(seen))
  PROVE  /\ Len(Append(seen, Head(b))) = Len(seen) + 1
         /\ IsPiece(Append(seen, Head(b)), journal, 0)
         /\ IsPiece(Tail(b), journal, Len(seen) + 1)
<1> DEFINE m == Len(seen)  n == Len(b)  p == Len(journal)  more == Append(seen, Head(b))
           rest == Tail(b)
<1>0. m \in Nat /\ n \in Nat /\ n >= 1 /\ p \in Nat
  OBVIOUS
<1>1. /\ m + n <= p
      /\ \A i \in 1..n : b[i] = journal[m + i]
      /\ \A i \in 1..m : seen[i] = journal[i]
  <2>1. /\ \A i \in 1..m : seen[i] = journal[0 + i]
        /\ \A i \in 1..n : b[i] = journal[m + i]
        /\ m + n <= p
    BY DEF IsPiece
  <2>2. \A i \in 1..m : 0 + i = i
    BY <1>0
  <2> QED BY <2>1, <2>2
<1>2. /\ Head(b) = b[1] /\ Head(b) \in Events /\ Len(rest) = n - 1
      /\ \A i \in 1..(n - 1) : rest[i] = b[i + 1]
  OBVIOUS
<1>3. /\ Len(more) = m + 1 /\ more[m + 1] = Head(b)
      /\ \A i \in 1..m : more[i] = seen[i]
  BY <1>2, Published
<1> HIDE DEF m, n, p, more, rest
<1>4. \A i \in 1..(m + 1) : more[i] = journal[0 + i]
  <2> SUFFICES ASSUME NEW i \in 1..(m + 1) PROVE more[i] = journal[i]
    OBVIOUS
  <2>1. CASE i = m + 1
    BY <2>1, <1>0, <1>1, <1>2, <1>3
  <2>2. CASE i # m + 1
    <3>1. i \in 1..m
      BY <2>2, <1>0
    <3> QED BY <3>1, <1>1, <1>3
  <2> QED BY <2>1, <2>2
<1>5. \A i \in 1..(n - 1) : rest[i] = journal[(m + 1) + i]
  <2> SUFFICES ASSUME NEW i \in 1..(n - 1) PROVE rest[i] = journal[(m + 1) + i]
    OBVIOUS
  <2>1. i + 1 \in 1..n /\ m + (i + 1) = (m + 1) + i
    BY <1>0, <1>1
  <2>2. b[i + 1] = journal[m + (i + 1)]
    BY <2>1, <1>1
  <2> QED BY <2>1, <2>2, <1>2
<1>6. 0 + (m + 1) <= p /\ (m + 1) + (n - 1) <= p
  BY <1>0, <1>1
<1>7. IsPiece(more, journal, 0) /\ IsPiece(rest, journal, m + 1)
  BY <1>2, <1>3, <1>4, <1>5, <1>6 DEF IsPiece, p
<1> QED BY <1>3, <1>7 DEF m, more, rest

\* A stream nobody serves stays a piece of a journal that grows.
LEMMA IdleStream ==
  ASSUME TypeOK, [Next]_vars, NEW r \in Readers, StreamFollowsJournal(r),
         reading'[r] = reading[r], cursor'[r] = cursor[r], batch'[r] = batch[r],
         received'[r] = received[r]
  PROVE  StreamFollowsJournal(r)'
<1>1. /\ events[reading[r]] \in Seq(Events) /\ reading[r] \in Jobs
      /\ batch[r] \in Seq(Events) /\ received[r] \in Seq(Events) /\ cursor[r] \in Nat
  BY DEF TypeOK
<1>2. Grows(events[reading[r]], events'[reading[r]])
  BY <1>1, JournalsGrow
<1>3. IsPiece(received[r], events'[reading[r]], 0)
  BY <1>1, <1>2, PieceOfGrown, 0 \in Nat, Zenon DEF StreamFollowsJournal
<1>4. IsPiece(batch[r], events'[reading[r]], cursor[r])
  BY <1>1, <1>2, PieceOfGrown, Zenon DEF StreamFollowsJournal
<1> QED BY <1>3, <1>4 DEF StreamFollowsJournal, IsPiece

LEMMA StreamPreserved ==
  ASSUME TypeOK, TypeOK', [Next]_vars, NEW r \in Readers, StreamFollowsJournal(r)
  PROVE  StreamFollowsJournal(r)'
<1>0. /\ cursor[r] \in Nat /\ batch[r] \in Seq(Events) /\ received[r] \in Seq(Events)
      /\ reading[r] \in Jobs /\ events[reading[r]] \in Seq(Events)
  BY DEF TypeOK
<1>1. ASSUME NEW s \in Readers, NEW j \in Jobs, Subscribe(s, j)
      PROVE  StreamFollowsJournal(r)'
  <2>1. CASE s # r
    BY <1>1, <2>1, IdleStream DEF Subscribe, TypeOK
  <2>2. CASE s = r
    <3>1. cursor'[r] = 0 /\ batch'[r] = <<>> /\ received'[r] = <<>>
      BY <1>1, <2>2 DEF Subscribe, TypeOK
    <3>2. events'[reading'[r]] \in Seq(Events)
      BY DEF TypeOK
    <3> QED BY <3>1, <3>2 DEF StreamFollowsJournal, IsPiece
  <2> QED BY <2>1, <2>2
<1>2. ASSUME NEW s \in Readers, Tick(s) PROVE StreamFollowsJournal(r)'
  <2>1. CASE s # r
    BY <1>2, <2>1, IdleStream DEF Tick, TypeOK
  <2>2. CASE s = r
    <3>1. /\ batch'[r] = From(events[reading[r]], cursor[r])
          /\ cursor'[r] = cursor[r] /\ received'[r] = received[r]
          /\ reading'[r] = reading[r] /\ events' = events
          /\ cursor[r] < Len(events[reading[r]])
      BY <1>2, <2>2 DEF Tick, TypeOK, runner
    <3>2. IsPiece(batch'[r], events[reading[r]], cursor[r])
      BY <3>1, <1>0, CopyIsPiece, Zenon
    <3> QED BY <3>1, <3>2 DEF StreamFollowsJournal, IsPiece
  <2> QED BY <2>1, <2>2
<1>3. ASSUME NEW s \in Readers, Yield(s) PROVE StreamFollowsJournal(r)'
  <2>1. CASE s # r
    BY <1>3, <2>1, IdleStream DEF Yield, TypeOK
  <2>2. CASE s = r
    <3>1. /\ batch[r] # <<>> /\ batch'[r] = Tail(batch[r])
          /\ received'[r] = Append(received[r], Head(batch[r]))
          /\ cursor'[r] = cursor[r] + 1 /\ reading'[r] = reading[r] /\ events' = events
      BY <1>3, <2>2 DEF Yield, TypeOK, runner
    <3>2. /\ cursor[r] = Len(received[r])
          /\ IsPiece(received[r], events[reading[r]], 0)
          /\ IsPiece(batch[r], events[reading[r]], Len(received[r]))
      BY DEF StreamFollowsJournal, IsPiece
    <3>3. /\ Len(received'[r]) = Len(received[r]) + 1
          /\ IsPiece(received'[r], events[reading[r]], 0)
          /\ IsPiece(batch'[r], events[reading[r]], Len(received[r]) + 1)
      <4> DEFINE seen == received[r]  b == batch[r]  journal == events[reading[r]]
      <4>1. seen \in Seq(Events) /\ b \in Seq(Events) /\ journal \in Seq(Events) /\ b # <<>>
            /\ IsPiece(seen, journal, 0) /\ IsPiece(b, journal, Len(seen))
        BY <1>0, <3>1, <3>2
      <4>2. received'[r] = Append(seen, Head(b)) /\ batch'[r] = Tail(b)
        BY <3>1
      <4> HIDE DEF seen, b, journal
      <4>3. /\ Len(Append(seen, Head(b))) = Len(seen) + 1
            /\ IsPiece(Append(seen, Head(b)), journal, 0)
            /\ IsPiece(Tail(b), journal, Len(seen) + 1)
        BY <4>1, YieldMoves, Zenon
      <4> QED BY <4>2, <4>3, Zenon DEF seen, b, journal
    <3> QED BY <3>1, <3>2, <3>3 DEF StreamFollowsJournal, IsPiece
  <2> QED BY <2>1, <2>2
<1>4. ASSUME UNCHANGED <<reading, cursor, batch, received>> PROVE StreamFollowsJournal(r)'
  BY <1>4, IdleStream
<1> QED
  BY <1>1, <1>2, <1>3, <1>4
  DEF Next, RunnerStep, TurnStep, StreamStep, Disconnect, vars, streams, Submit, MarkRunning,
      AnnounceRunning, ExecutorReturns, ExecutorPanics, Settle, AnnounceResult,
      PublishTerminal, TurnEmits, ApproveTool, TurnEnds

-------------------------------------------------------------------------------
(* The invariant and what follows from it.                                   *)

THEOREM InvariantHolds == Spec => []IInv
<1>1. Init => IInv
  BY DEF Init, IInv, TypeOK, Steps, RunnerInvariant, TaskFollowsRunner,
     JournalFollowsRunner, DenialIsKept, StreamFollowsJournal, IsPiece
<1>2. IInv /\ TypeOK' /\ [Next]_vars => IInv'
  BY RunnerPreserved, StreamPreserved DEF IInv
<1> QED BY <1>1, <1>2, TypeCorrect, PTL DEF Spec

\* Whatever a client has received, a lookup of the task confirms.
THEOREM LookupConfirms == Spec => []LookupConfirmsStream
<1>1. IInv => LookupConfirmsStream
  <2> SUFFICES ASSUME IInv, NEW r \in Readers, NEW i \in DOMAIN received[r]
               PROVE  Confirmed(reading[r], received[r][i])
    BY DEF LookupConfirmsStream
  <2>1. /\ reading[r] \in Jobs /\ received[r] \in Seq(Events) /\ batch[r] \in Seq(Events)
        /\ events[reading[r]] \in Seq(Events)
    BY DEF IInv, TypeOK
  <2>2. i \in 1..Len(received[r]) /\ i \in 1..Len(events[reading[r]])
    BY <2>1 DEF IInv, StreamFollowsJournal, IsPiece
  <2>3. received[r][i] = events[reading[r]][i]
    BY <2>2 DEF IInv, StreamFollowsJournal, IsPiece
  <2> QED BY <2>1, <2>2, <2>3 DEF IInv, RunnerInvariant, JournalFollowsRunner, Confirmed
<1> QED BY <1>1, InvariantHolds, PTL

\* A run that asked for an approval is never shown as completed.
THEOREM DenialHolds == Spec => []DenialFails
<1>1. IInv => DenialFails
  <2> SUFFICES ASSUME IInv, NEW j \in Jobs, denied[j] = TRUE
               PROVE  /\ task[j] # "Completed"
                      /\ \A i \in DOMAIN events[j] : events[j][i] \notin {"Completed", "Done"}
    BY DEF DenialFails
  <2>1. events[j] \in Seq(Events) /\ step[j] \in Steps
    BY DEF IInv, TypeOK
  <2>2. task[j] # "Completed"
    BY <2>1 DEF IInv, RunnerInvariant, TaskFollowsRunner, DenialIsKept, Verdict, Steps
  <2>3. \A i \in 1..Len(events[j]) : Confirmed(j, events[j][i])
    BY DEF IInv, RunnerInvariant, JournalFollowsRunner
  <2> QED BY <2>1, <2>2, <2>3 DEF Confirmed
<1> QED BY <1>1, InvariantHolds, PTL
-------------------------------------------------------------------------------
(* The streams implement the journal.                                        *)

\* A runner that is not over has an open journal, and an event it publishes
\* extends it.
LEMMA PublishExtends ==
  ASSUME IInv, NEW j \in Jobs, NEW e \in Events, step[j] # "over", Publish(j, e),
         UNCHANGED streams
  PROVE  Promise!Next
<1>1. \A i \in DOMAIN events[j] : events[j][i] \notin Terminals
  <2>1. DOMAIN events[j] = 1..Len(events[j])
    BY DEF IInv, TypeOK
  <2> QED BY <2>1 DEF IInv, RunnerInvariant, JournalFollowsRunner
<1>2. ~Promise!Closed(j)
  BY <1>1 DEF Promise!Closed
<1>3. Promise!Extend(j, e)
  BY <1>2 DEF Promise!Extend, Publish, streams
<1> QED BY <1>3 DEF Promise!Next

\* Yielding an event is receiving the next event of the journal.
LEMMA YieldReceives ==
  ASSUME IInv, NEW r \in Readers, Yield(r)
  PROVE  Promise!Next
<1> DEFINE b == batch[r]  seen == received[r]  journal == events[reading[r]]
           position == Len(seen) + 1
<1>1. /\ b # <<>> /\ b \in Seq(Events) /\ seen \in Seq(Events) /\ journal \in Seq(Events)
      /\ phase \in [Readers -> {"idle", "open", "ended", "gone"}] /\ phase[r] = "open"
  BY DEF Yield, IInv, TypeOK
<1>2. /\ cursor[r] = Len(seen) /\ Len(seen) + Len(b) <= Len(journal)
      /\ \A i \in 1..Len(b) : b[i] = journal[Len(seen) + i]
  <2>1. cursor[r] = Len(seen) /\ IsPiece(b, journal, cursor[r])
    BY DEF IInv, StreamFollowsJournal, IsPiece
  <2>2. IsPiece(b, journal, Len(seen))
    BY <2>1, Zenon
  <2> QED BY <2>1, <2>2 DEF IsPiece
<1>3. Head(b) = b[1] /\ 1 \in 1..Len(b)
  BY <1>1
<1>4. Head(b) = journal[position]
  BY <1>2, <1>3
<1>5. position \in DOMAIN journal
  <2> DEFINE n == Len(b)  m == Len(seen)  p == Len(journal)
  <2>0. n \in Nat /\ m \in Nat /\ p \in Nat
    BY <1>1
  <2>1. m + n <= p
    BY <1>2
  <2>3. n >= 1
    BY <2>0, <1>3
  <2> HIDE DEF n, m, p
  <2>2. m + 1 \in 1..p
    BY <2>0, <2>1, <2>3
  <2> USE DEF m, p
  <2> QED BY <2>2, <1>1
<1>6. /\ received' = [received EXCEPT ![r] = Append(@, journal[position])]
      /\ phase' = [phase EXCEPT ![r] =
                     IF journal[position] \in Terminals THEN "ended" ELSE "open"]
      /\ UNCHANGED <<events, reading>>
  BY <1>1, <1>4 DEF Yield, runner
<1>7. Promise!Receive(r)
  BY <1>1, <1>5, <1>6 DEF Promise!Receive
<1> QED BY <1>7 DEF Promise!Next

\* Every step of the service is a step of the journal or leaves it alone.
THEOREM JournalRefinement == Spec => StreamsFollowJournal
<1>1. Init => Promise!Init
  BY DEF Init, Promise!Init
<1>2. IInv /\ [Next]_vars => [Promise!Next]_Promise!vars
  <2> SUFFICES ASSUME IInv, [Next]_vars
               PROVE  Promise!Next \/ UNCHANGED Promise!vars
    BY DEF Promise!vars
  <2> DEFINE Goal == Promise!Next \/ UNCHANGED Promise!vars
  <2>1. ASSUME NEW j \in Jobs, MarkRunning(j) \/ ExecutorReturns(j) \/ ExecutorPanics(j)
                               \/ Settle(j) \/ Submit(j) \/ ApproveTool(j) \/ TurnEnds(j)
        PROVE  Goal
    BY <2>1 DEF MarkRunning, ExecutorReturns, ExecutorPanics, Settle, Submit, ApproveTool,
       TurnEnds, SinkEmit, streams, Promise!vars
  <2>2. ASSUME NEW j \in Jobs, AnnounceRunning(j) PROVE Goal
    BY <2>2, PublishExtends DEF AnnounceRunning, Goes, Events, Announcements
  <2>3. ASSUME NEW j \in Jobs, AnnounceResult(j) PROVE Goal
    BY <2>3, PublishExtends DEF AnnounceResult, Goes, Events, Announcements
  <2>4. ASSUME NEW j \in Jobs, PublishTerminal(j) PROVE Goal
    BY <2>4, PublishExtends DEF PublishTerminal, Goes, Events, Terminals
  <2>5. ASSUME NEW j \in Jobs, TurnEmits(j) PROVE Goal
    BY <2>5, PublishExtends DEF TurnEmits, SinkEmit, Events, Terminals
  <2>6. ASSUME NEW r \in Readers, NEW j \in Jobs, Subscribe(r, j) PROVE Goal
    <3>1. Promise!Open(r, j)
      BY <2>6 DEF Subscribe, Promise!Open, runner
    <3> QED BY <3>1 DEF Promise!Next
  <2>7. ASSUME NEW r \in Readers, Tick(r) PROVE Goal
    BY <2>7 DEF Tick, runner, Promise!vars
  <2>8. ASSUME NEW r \in Readers, Yield(r) PROVE Goal
    BY <2>8, YieldReceives
  <2>9. ASSUME NEW r \in Readers, Disconnect(r) PROVE Goal
    <3>1. Promise!Leave(r)
      BY <2>9 DEF Disconnect, Promise!Leave, runner
    <3> QED BY <3>1 DEF Promise!Next
  <2>10. CASE UNCHANGED vars
    BY <2>10 DEF vars, Promise!vars
  <2> QED
    BY <2>1, <2>2, <2>3, <2>4, <2>5, <2>6, <2>7, <2>8, <2>9, <2>10
    DEF Next, RunnerStep, TurnStep, StreamStep
<1> QED BY <1>1, <1>2, InvariantHolds, PTL DEF Spec, StreamsFollowJournal, Promise!Spec
===============================================================================
