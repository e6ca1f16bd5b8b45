------------------------------- MODULE ShellRun -------------------------------
(***************************************************************************)
(* The shell tool (crates/darius-tools/src: shell.rs, process_group.rs,    *)
(* process_guard.rs, execution.rs): `sh -c` in a process group of its own, *)
(* polled every 25 ms for its exit, its cancellation and its deadline, and *)
(* killed as a group on every way out.  A call of a turn has the turn's    *)
(* token; calls through the registry share one.  The command forks, exits  *)
(* and leaves processes in the background as it likes.                     *)
(***************************************************************************)
EXTENDS Naturals, FiniteSets

CONSTANTS
  Runs,    \* calls of the shell tool
  Tokens,  \* cancellation tokens
  Kids     \* processes a command can leave in its group, besides the shell itself

VARIABLES
  token,      \* per token, whether it is cancelled; a token is never reset
  expired,    \* per run, whether its deadline has passed
  group,      \* per run, the processes of its group that are alive
  run         \* per run, where it is, its token and how it ended

vars == <<token, expired, group, run>>

Sh == "sh"
NoRun == [at |-> "idle", token |-> "none", code |-> "none", refused |-> FALSE,
          sawCancel |-> FALSE, end |-> "none", spilled |-> FALSE]

Init ==
  /\ token = [t \in Tokens |-> FALSE]
  /\ expired = [r \in Runs |-> FALSE]
  /\ group = [r \in Runs |-> {}]
  /\ run = [r \in Runs |-> NoRun]

Cancelled(r) == token[run[r].token]
End(r, end) == run' = [run EXCEPT ![r].at = "done", ![r].end = end]

-------------------------------------------------------------------------------
(* The command, the person and the clock.                                    *)

\* exit status of the shell: a code, or a signal that somebody else sent
Codes == {"zero", "nonzero", "signal"}

ShellExits(r, code) ==
  /\ Sh \in group[r] /\ run[r].code = "none"
  /\ group' = [group EXCEPT ![r] = @ \ {Sh}]
  /\ run' = [run EXCEPT ![r].code = code]
  /\ UNCHANGED <<token, expired>>

Forks(r, k) ==
  /\ group[r] # {} /\ k \notin group[r]
  /\ group' = [group EXCEPT ![r] = @ \cup {k}]
  /\ UNCHANGED <<token, expired, run>>

KidExits(r, k) ==
  /\ k \in group[r]
  /\ group' = [group EXCEPT ![r] = @ \ {k}]
  /\ UNCHANGED <<token, expired, run>>

\* Interrupting a turn, or every call that shares the registry's token.
CancelToken(t) ==
  /\ ~token[t]
  /\ token' = [token EXCEPT ![t] = TRUE]
  /\ UNCHANGED <<expired, group, run>>

DeadlinePasses(r) ==
  /\ run[r].at \notin {"idle", "done"} /\ ~expired[r]
  /\ expired' = [expired EXCEPT ![r] = TRUE]
  /\ UNCHANGED <<token, group, run>>

-------------------------------------------------------------------------------
(* run_process_group.                                                        *)

\* An empty command, and a directory, file or process that cannot be made, end
\* the call before anything runs.
Refuse(r) ==
  /\ run[r].at = "idle"
  /\ End(r, "error")
  /\ UNCHANGED <<token, expired, group>>

Spawn(r, t) ==
  /\ run[r].at = "idle"
  /\ group' = [group EXCEPT ![r] = {Sh}]
  /\ run' = [run EXCEPT ![r].at = "polling", ![r].token = t]
  /\ UNCHANGED <<token, expired>>

\* try_wait found the shell gone, or failed; what it forked may live on.
PollExit(r) ==
  /\ run[r].at = "polling"
  /\ \/ run[r].code # "none" /\ run' = [run EXCEPT ![r].at = "exited"]
     \/ run' = [run EXCEPT ![r].at = "failing"]
  /\ UNCHANGED <<token, expired, group>>

MustStop(r) == Cancelled(r) \/ expired[r]

\* try_wait found it running; the token and the clock are read after that, and
\* the shell may end in between.
PollPending(r) ==
  /\ run[r].at = "polling" /\ run[r].code = "none"
  /\ run' = [run EXCEPT ![r].at = "pending"]
  /\ UNCHANGED <<token, expired, group>>

LookAtContext(r) ==
  /\ run[r].at = "pending"
  /\ run' = IF MustStop(r)
            THEN [run EXCEPT ![r].at = "stopping", ![r].sawCancel = Cancelled(r)]
            ELSE [run EXCEPT ![r].at = "polling"]
  /\ UNCHANGED <<token, expired, group>>

\* Mutant: only the shell is killed, as Child::kill would.
SurvivorsOfShell(r) == group[r] \ {Sh}

\* SIGKILL to the group leaves nothing of it alive.
Survivors(r) == {}

\* terminate on the way out of the loop, after the exit, the stop or an error,
\* by the guard's Drop if not before.  The reaped shell keeps the code it had.
Terminate(r) ==
  /\ run[r].at \in {"exited", "stopping", "failing"}
  /\ group' = [group EXCEPT ![r] = Survivors(r)]
  /\ run' = [run EXCEPT ![r].at = CASE run[r].at = "exited" -> "reporting"
                                    [] run[r].at = "stopping" -> "choosing"
                                    [] run[r].at = "failing" -> "erring",
                        ![r].code = IF @ = "none" THEN "signal" ELSE @]
  /\ UNCHANGED <<token, expired>>

\* The kernel refuses the signal: the call fails, and Drop is refused as well.
TerminateRefused(r) ==
  /\ run[r].at \in {"exited", "stopping", "failing"} /\ group[r] # {}
  /\ run' = [run EXCEPT ![r].at = "erring", ![r].refused = TRUE]
  /\ UNCHANGED <<token, expired, group>>

\* Cancellation wins over a deadline that has passed as well.
StopReason(r) == IF Cancelled(r) THEN "interrupted" ELSE "timed_out"

Choose(r) ==
  /\ run[r].at = "choosing"
  /\ End(r, StopReason(r))
  /\ UNCHANGED <<token, expired, group>>

\* The output, short or spilled to a file, with the code of the shell.
Report(r, long) ==
  /\ run[r].at = "reporting"
  /\ run' = [run EXCEPT ![r].at = "done", ![r].end = IF run[r].code = "zero" THEN "ok" ELSE "error",
                        ![r].spilled = long /\ run[r].code # "signal"]
  /\ UNCHANGED <<token, expired, group>>

Err(r) ==
  /\ run[r].at = "erring"
  /\ End(r, "error")
  /\ UNCHANGED <<token, expired, group>>

Progress(r) ==
  \/ PollExit(r) \/ PollPending(r) \/ LookAtContext(r)
  \/ Terminate(r) \/ TerminateRefused(r) \/ Choose(r) \/ Err(r)
  \/ \E long \in BOOLEAN : Report(r, long)

Next ==
  \/ \E r \in Runs : Refuse(r) \/ Progress(r) \/ DeadlinePasses(r)
  \/ \E r \in Runs, t \in Tokens : Spawn(r, t)
  \/ \E r \in Runs, code \in Codes : ShellExits(r, code)
  \/ \E r \in Runs, k \in Kids : Forks(r, k) \/ KidExits(r, k)
  \/ \E t \in Tokens : CancelToken(t)

\* The worker of a call polls until it returns; nothing is asked of the command.
Fairness == \A r \in Runs : WF_vars(Progress(r))

Spec == Init /\ [][Next]_vars /\ Fairness

-------------------------------------------------------------------------------
(* Properties.                                                               *)

\* However exit, cancellation, deadline and failures race between two polls, no
\* process of the group outlives its call (unless the kernel refused the kill),
\* a call that was cancelled when it stopped never reports a timeout ("cancel
\* wins ties", execution.rs:4), and success is the shell's own doing.
ShellEndsClean ==
  \A r \in Runs : run[r].at = "done" =>
    /\ run[r].refused \/ group[r] = {}
    /\ run[r].end = "timed_out" => expired[r] /\ ~run[r].sawCancel
    /\ run[r].end = "interrupted" => Cancelled(r)
    /\ run[r].end = "ok" => run[r].code = "zero"

\* A command that was cancelled or ran out of time ends, whatever it does: what
\* a turn relies on when it waits for its tool.
ShellEnds ==
  \A r \in Runs : (run[r].at # "idle" /\ (expired[r] \/ (run[r].token \in Tokens /\ Cancelled(r))))
                    ~> run[r].at = "done"

-------------------------------------------------------------------------------
(* The inductive invariant of ShellEndsClean.                                 *)

TypeOK ==
  /\ token \in [Tokens -> BOOLEAN] /\ expired \in [Runs -> BOOLEAN]
  /\ group \in [Runs -> SUBSET (Kids \cup {Sh})]
  /\ run \in [Runs -> [at : {"idle", "polling", "pending", "exited", "stopping", "failing",
                             "reporting", "choosing", "erring", "done"},
                       token : Tokens \cup {"none"}, code : Codes \cup {"none"},
                       refused : BOOLEAN, sawCancel : BOOLEAN,
                       end : {"none", "ok", "error", "interrupted", "timed_out"},
                       spilled : BOOLEAN]]

\* The group is empty but while the call polls or was refused the kill; a call that is
\* being stopped has its reason, which lasts.
Clean(r) ==
  /\ run[r].at \in {"idle", "reporting", "choosing"} => group[r] = {}
  /\ run[r].at \in {"erring", "done"} => run[r].refused \/ group[r] = {}
  /\ run[r].at \notin {"idle", "done"} => run[r].token \in Tokens
  /\ run[r].at \in {"stopping", "choosing"} => MustStop(r) /\ (run[r].sawCancel => Cancelled(r))
  /\ run[r].end = "interrupted" => run[r].token \in Tokens /\ Cancelled(r)
  /\ run[r].end = "timed_out" => expired[r] /\ ~run[r].sawCancel
  /\ run[r].end = "ok" => run[r].code = "zero"
  /\ run[r].at # "done" => run[r].end = "none"

IInv == TypeOK /\ \A r \in Runs : Clean(r)
===============================================================================
