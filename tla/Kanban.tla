-------------------------------- MODULE Kanban --------------------------------
(***************************************************************************)
(* The two task boards.  The daemon's (crates/darius-daemon/src/kanban.rs) *)
(* is shared by agents: claim, release, promote, record_failure and        *)
(* reclaim_stale each hold the board's lock, take a task's id and no more, *)
(* so the board cannot tell who calls.  The session's (TaskBoard,          *)
(* crates/darius-tools/src/lib.rs) is written by the model's tools, which  *)
(* show and take the first eight characters of a task's id.                *)
(***************************************************************************)
EXTENDS Integers, Sequences

CONSTANTS
  Agents, Cards,
  MaxFailures,   \* failures that block a card
  Threshold,     \* age that makes a claim stale
  MaxTime,       \* bound on the clock
  Names,         \* what two random ids may show as
  MaxTasks       \* bound of the session's board

VARIABLES
  card,      \* the daemon's board: status, holder, time of the claim, failures
  worker,    \* per agent: the card it works on, and since when
  now,
  meddled,   \* history: cards an agent changed that another agent held
  board,     \* the session's board, oldest first: [name, done]
  told       \* history: the names task_complete answered "completed" for

kanban == <<card, worker, now, meddled>>
tasks == <<board, told>>
vars == <<card, worker, now, meddled, board, told>>

Resting == [card |-> "none", since |-> 0]
Absent == [status |-> "absent", by |-> "none", at |-> 0, failures |-> 0]

Init ==
  /\ card = [c \in Cards |-> Absent]
  /\ worker = [a \in Agents |-> Resting]
  /\ now = 0 /\ meddled = {}
  /\ board = <<>> /\ told = {}

Tick ==
  /\ now < MaxTime
  /\ now' = now + 1
  /\ UNCHANGED <<card, worker, meddled, tasks>>

AddTask(c) ==
  /\ card[c].status = "absent"
  /\ card' = [card EXCEPT ![c].status = "ready"]
  /\ UNCHANGED <<worker, now, meddled, tasks>>

Held(c, a, failures) == [status |-> "progress", by |-> a, at |-> now, failures |-> failures]
Takes(a, c) == worker' = [worker EXCEPT ![a] = [card |-> c, since |-> now]]

Claim(a, c) ==
  /\ worker[a] = Resting /\ card[c].status = "ready"
  /\ card' = [card EXCEPT ![c] = Held(c, a, card[c].failures)]
  /\ Takes(a, c)
  /\ UNCHANGED <<now, meddled, tasks>>

\* Mutant: the comparison the wrong way round.
StaleWhenYoung(c) == now - card[c].at <= Threshold

Stale(c) == now - card[c].at >= Threshold

ReclaimStale(a, c) ==
  /\ worker[a] = Resting /\ card[c].status = "progress" /\ Stale(c)
  /\ card' = [card EXCEPT ![c] = Held(c, a, card[c].failures)]
  /\ Takes(a, c)
  /\ UNCHANGED <<now, meddled, tasks>>

\* What an agent does to the card it works on, whoever holds it by now.
Acts(a, new) ==
  LET c == worker[a].card IN
  /\ card' = [card EXCEPT ![c] = new]
  /\ meddled' = IF card[c].by = a THEN meddled ELSE meddled \cup {c}
  /\ UNCHANGED <<now, tasks>>

Rest(a) == worker' = [worker EXCEPT ![a] = Resting]

Release(a) ==
  /\ worker[a] # Resting
  /\ Acts(a, [Absent EXCEPT !.status = "ready", !.failures = card[worker[a].card].failures])
  /\ Rest(a)

Promote(a) ==
  /\ worker[a] # Resting
  /\ Acts(a, [Absent EXCEPT !.status = "done"])
  /\ Rest(a)

\* The holder stays written on a card that becomes blocked; an agent that asks
\* (is_blocked) lets it be.  Failures are counted up to MaxFailures.
RecordFailure(a) ==
  /\ worker[a] # Resting
  /\ LET k == card[worker[a].card]
         failures == IF k.failures < MaxFailures THEN k.failures + 1 ELSE MaxFailures
         blocks == failures >= MaxFailures IN
     /\ Acts(a, [k EXCEPT !.failures = failures, !.status = IF blocks THEN "blocked" ELSE @])
     /\ IF blocks THEN Rest(a) ELSE UNCHANGED worker

\* Somebody releases a blocked card, with its failures as they are.
Unblock(c) ==
  /\ card[c].status = "blocked"
  /\ card' = [card EXCEPT ![c] = [Absent EXCEPT !.status = "ready", !.failures = card[c].failures]]
  /\ UNCHANGED <<worker, now, meddled, tasks>>

\* An agent that dies holds its card until the claim is stale.
Die(a) ==
  /\ worker[a] # Resting
  /\ Rest(a)
  /\ UNCHANGED <<card, now, meddled, tasks>>

\* task_add refuses when the board is full; ids are random, names may collide.
Add(n) ==
  /\ Len(board) < MaxTasks
  /\ board' = Append(board, [name |-> n, done |-> FALSE])
  /\ UNCHANGED <<told, kanban>>

\* task_complete: the oldest task whose id begins with what the model gave.
Named(n) ==
  {i \in DOMAIN board : board[i].name = n /\ \A j \in 1 .. i - 1 : board[j].name # n}

Complete(n) ==
  \E i \in Named(n) :
    /\ board' = [board EXCEPT ![i].done = TRUE]
    /\ told' = told \cup {n}
    /\ UNCHANGED kanban

KanbanNext ==
  \/ Tick
  \/ \E c \in Cards : AddTask(c) \/ Unblock(c)
  \/ \E a \in Agents, c \in Cards : Claim(a, c) \/ ReclaimStale(a, c)
  \/ \E a \in Agents : Release(a) \/ Promote(a) \/ RecordFailure(a) \/ Die(a)

Next == KanbanNext \/ \E n \in Names : Add(n) \/ Complete(n)

-------------------------------------------------------------------------------
(* Properties.                                                               *)

Fresh(a, c) == worker[a].card = c /\ now - worker[a].since < Threshold

\* Two agents work on one card within the threshold only after an agent whose
\* claim had been taken over changed the card under its new holder; a card in
\* progress is the last claimant's, and a finished or free card has no holder.
ClaimsAreExclusive ==
  \A c \in Cards \ meddled :
    /\ \A a, b \in Agents : Fresh(a, c) /\ Fresh(b, c) => a = b
    /\ \A a \in Agents : Fresh(a, c) => card[c].status = "progress" /\ card[c].by = a
    /\ card[c].status \in {"ready", "done"} => card[c].by = "none"

\* A name task_complete answered for is that of a task that is complete.
RepliesAreTrue == \A n \in told : \E i \in DOMAIN board : board[i].name = n /\ board[i].done

\* Both boards say what was done on them.
BoardsAreTrue == ClaimsAreExclusive /\ RepliesAreTrue

TypeOK ==
  /\ card \in [Cards -> [status : {"absent", "ready", "progress", "blocked", "done"},
                         by : Agents \cup {"none"}, at : Nat, failures : 0 .. MaxFailures]]
  /\ worker \in [Agents -> {Resting} \cup [card : Cards, since : Nat]]
  /\ now \in Nat /\ meddled \subseteq Cards
  /\ board \in Seq([name : Names, done : BOOLEAN])

\* Whoever works on a card has it as he took it, or took it a threshold ago.
HoldersAreFresh ==
  \A c \in Cards \ meddled : \A a \in Agents :
    worker[a].card = c =>
      \/ card[c].status = "progress" /\ card[c].by = a /\ card[c].at = worker[a].since
      \/ now - worker[a].since >= Threshold

FreeCardsHaveNone == \A c \in Cards : card[c].status \in {"absent", "ready", "done"} => card[c].by = "none"

\* The inductive invariant.
IInv == TypeOK /\ HoldersAreFresh /\ FreeCardsHaveNone /\ RepliesAreTrue
===============================================================================
