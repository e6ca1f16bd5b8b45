------------------------------- MODULE CronJobs -------------------------------
(***************************************************************************)
(* The cron scheduler (crates/darius-daemon/src/cron.rs).  Every method    *)
(* holds the lock of the jobs for its own time only, so a runner works on  *)
(* the copy that ready_jobs gave it while the job is disabled, broken,     *)
(* removed or loaded anew.  Schedules, commands and notepads are text that *)
(* nothing here branches on, and are left out.                             *)
(***************************************************************************)
EXTENDS Integers, FiniteSets

CONSTANTS
  Jobs, Runners, Payloads,
  MaxFailures,   \* max_failures: failures that break the circuit
  MaxFails       \* bound on the failures counted since somebody reset a job

VARIABLES
  jobs,      \* per id: enabled, failure_count, last_output_hash; or Absent
  runner,    \* per runner: the job it took and the payload it runs on
  saving,    \* what save_to_dir listed and has not written: {} or {jobs}
  disk,      \* cron.json, if there is one: {}, {jobs} or {Torn}
  fails      \* history: failures recorded since a success or an operator's reset

vars == <<jobs, runner, saving, disk, fails>>

Absent == [there |-> FALSE, enabled |-> FALSE, failures |-> 0, hash |-> "none"]
New == [Absent EXCEPT !.there = TRUE, !.enabled = TRUE]
Torn == [j \in Jobs |-> [Absent EXCEPT !.hash = "torn"]]
Idle == [at |-> "idle", job |-> "none"]

Init ==
  /\ jobs = [j \in Jobs |-> Absent]
  /\ runner = [r \in Runners |-> Idle]
  /\ saving = {} /\ disk = {}
  /\ fails = [j \in Jobs |-> 0]

\* An operator's change of a job starts the count anew.
Operates(j, new) ==
  /\ jobs' = [jobs EXCEPT ![j] = new]
  /\ fails' = [fails EXCEPT ![j] = 0]
  /\ UNCHANGED <<runner, saving, disk>>

AddJob(j) == ~jobs[j].there /\ Operates(j, New)
RemoveJob(j) == jobs[j].there /\ Operates(j, Absent)
\* enable leaves failure_count: the next failure breaks the circuit again.
Enable(j) == jobs[j].there /\ Operates(j, [jobs[j] EXCEPT !.enabled = TRUE])
Disable(j) == jobs[j].there /\ Operates(j, [jobs[j] EXCEPT !.enabled = FALSE])

\* ready_jobs: a copy of every enabled job.
Take(r, j) ==
  /\ runner[r] = Idle /\ jobs[j].there /\ jobs[j].enabled
  /\ runner' = [runner EXCEPT ![r] = [at |-> "taken", job |-> j]]
  /\ UNCHANGED <<jobs, saving, disk, fails>>

\* check_and_update_hash remembers the payload before anything has run on it, so
\* one whose run fails is skipped the next time; no job is an error.
CheckPayload(r, p) ==
  LET j == runner[r].job IN
  /\ runner[r].at = "taken"
  /\ IF jobs[j].there /\ jobs[j].hash # p
     THEN /\ jobs' = [jobs EXCEPT ![j].hash = p]
          /\ runner' = [runner EXCEPT ![r].at = "running"]
     ELSE runner' = [runner EXCEPT ![r] = Idle] /\ UNCHANGED jobs
  /\ UNCHANGED <<saving, disk, fails>>

\* is_circuit_broken, and what record_run disables on.
Broken(failures) == failures >= MaxFailures

\* record_run finds the job by its id: a run of a job that was removed and added
\* again is recorded for the new one.  Failures are counted up to MaxFailures.
RecordRun(r, success) ==
  LET j == runner[r].job
      failures == IF success THEN 0
                  ELSE IF jobs[j].failures < MaxFailures THEN jobs[j].failures + 1 ELSE MaxFailures IN
  /\ runner[r].at = "running" /\ (success \/ fails[j] < MaxFails)
  /\ runner' = [runner EXCEPT ![r] = Idle]
  /\ IF jobs[j].there
     THEN /\ jobs' = [jobs EXCEPT ![j].failures = failures,
                        ![j].enabled = @ /\ (success \/ ~Broken(failures))]
          /\ fails' = [fails EXCEPT ![j] = IF success THEN 0 ELSE @ + 1]
     ELSE UNCHANGED <<jobs, fails>>
  /\ UNCHANGED <<saving, disk>>

\* save_to_dir lists under the lock, and writes the file in place without it.
List ==
  /\ saving = {}
  /\ saving' = {jobs}
  /\ UNCHANGED <<jobs, runner, disk, fails>>

Write ==
  /\ saving # {}
  /\ disk' = saving /\ saving' = {}
  /\ UNCHANGED <<jobs, runner, fails>>

\* load_from_dir puts what the file holds over what is in memory, and leaves the
\* rest; a file cut short is an error that changes nothing.
Load ==
  /\ \E saved \in disk :
       /\ saved # Torn
       /\ jobs' = [j \in Jobs |-> IF saved[j].there THEN saved[j] ELSE jobs[j]]
       /\ fails' = [j \in Jobs |-> IF saved[j].there THEN 0 ELSE fails[j]]
  /\ UNCHANGED <<runner, saving, disk>>

Crash ==
  /\ jobs' = [j \in Jobs |-> Absent]
  /\ runner' = [r \in Runners |-> Idle]
  /\ fails' = [j \in Jobs |-> 0]
  /\ disk' \in {disk} \cup {{Torn} : s \in saving}
  /\ saving' = {}

Next ==
  \/ \E j \in Jobs : AddJob(j) \/ RemoveJob(j) \/ Enable(j) \/ Disable(j)
  \/ \E r \in Runners, j \in Jobs : Take(r, j)
  \/ \E r \in Runners, p \in Payloads : CheckPayload(r, p)
  \/ \E r \in Runners, success \in BOOLEAN : RecordRun(r, success)
  \/ List \/ Write \/ Load \/ Crash

-------------------------------------------------------------------------------
(* Properties.                                                               *)

\* The circuit breaker ("Circuit breaker: disable after max failures"): nobody
\* having reset it, a job fails in a row at most max_failures times and once more
\* for every other run that was under way, and one that failed that often is not
\* among the ready ones.
BreakerBounds ==
  \A j \in Jobs :
    /\ fails[j] <= MaxFailures + Cardinality(Runners) - 1
    /\ jobs[j].there /\ fails[j] >= MaxFailures => ~jobs[j].enabled

JobRecord == [there : BOOLEAN, enabled : BOOLEAN, failures : Nat, hash : Payloads \cup {"none", "torn"}]

TypeOK ==
  /\ jobs \in [Jobs -> JobRecord] /\ fails \in [Jobs -> Nat]
  /\ runner \in [Runners -> {Idle} \cup [at : {"taken", "running"}, job : Jobs]]
  /\ saving \subseteq [Jobs -> JobRecord] /\ disk \subseteq [Jobs -> JobRecord]

RunsOf(j) == {r \in Runners : runner[r].job = j}

\* The runs under way count as failures to come.
RunsAreBounded == \A j \in Jobs : fails[j] + Cardinality(RunsOf(j)) <= MaxFailures + Cardinality(Runners) - 1

\* failure_count keeps up with the failures until it is full; then the job is disabled.
CountsKeepUp ==
  \A j \in Jobs : jobs[j].there =>
    /\ fails[j] <= jobs[j].failures \/ jobs[j].failures >= MaxFailures
    /\ fails[j] >= MaxFailures => ~jobs[j].enabled

\* The inductive invariant.
IInv == TypeOK /\ RunsAreBounded /\ CountsKeepUp
===============================================================================
