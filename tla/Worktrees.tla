------------------------------- MODULE Worktrees -------------------------------
(***************************************************************************)
(* The worktrees of agent sessions (crates/darius-daemon/src/worktrees.rs).*)
(* The manager runs git and ignores what it answers: a directory git made  *)
(* no worktree of stays a plain directory inside the main checkout.  A     *)
(* tree is what its session committed and left uncommitted in it.          *)
(***************************************************************************)
EXTENDS Integers

CONSTANTS
  Sessions, Branches,
  MaxTrees,   \* bound on the worktrees created
  MaxTime     \* bound on the clock

VARIABLES
  repo,       \* the root is a git repository
  branches,   \* its branches
  main,       \* the main checkout: uncommitted changes of its user
  worktrees,  \* the manager's list, in the order of the ids: session, base commit given,
              \* made by git, created
  tree,       \* per id: commits and uncommitted changes in the directory
  made,       \* worktrees created, counted: the next id
  now,
  lost        \* history: a rollback discarded changes of the main checkout

vars == <<repo, branches, main, worktrees, tree, made, now, lost>>

Clean == [commits |-> FALSE, dirty |-> FALSE]

Init ==
  /\ repo = FALSE /\ branches = {} /\ main = FALSE
  /\ worktrees = [i \in {} |-> <<>>] /\ tree = [i \in 1 .. MaxTrees |-> Clean] /\ made = 0
  /\ now = 0 /\ lost = FALSE

GitInit ==
  /\ ~repo /\ repo' = TRUE
  /\ UNCHANGED <<branches, main, worktrees, tree, made, now, lost>>

UserEdits ==
  /\ ~main /\ main' = TRUE
  /\ UNCHANGED <<repo, branches, worktrees, tree, made, now, lost>>

Tick ==
  /\ now < MaxTime /\ now' = now + 1
  /\ UNCHANGED <<repo, branches, main, worktrees, tree, made, lost>>

SessionWorks(i) ==
  /\ i \in DOMAIN worktrees
  /\ \E new \in [commits : BOOLEAN, dirty : BOOLEAN] :
       /\ tree[i].commits => new.commits
       /\ new.commits => worktrees[i].git
       /\ tree' = [tree EXCEPT ![i] = new]
  /\ UNCHANGED <<repo, branches, main, worktrees, made, now, lost>>

\* git refuses a branch that exists; the entry is made all the same.
CreateForSession(s, b, based) ==
  LET added == repo /\ b \notin branches IN
  /\ made < MaxTrees
  /\ made' = made + 1
  /\ branches' = IF added THEN branches \cup {b} ELSE branches
  /\ worktrees' = [i \in DOMAIN worktrees \cup {made + 1} |->
       IF i \in DOMAIN worktrees THEN worktrees[i]
       ELSE [session |-> s, based |-> based, git |-> added, created |-> now]]
  /\ UNCHANGED <<repo, main, tree, now, lost>>

\* A session that has two worktrees gets the first.
First(s) ==
  {i \in DOMAIN worktrees : worktrees[i].session = s /\
     \A j \in DOMAIN worktrees : j < i => worktrees[j].session # s}

\* reset --hard to the base commit, or to HEAD, which keeps what the session
\* committed; then clean.
GitRollback(i) ==
  /\ worktrees[i].git
  /\ tree' = [tree EXCEPT ![i] = [commits |-> @.commits /\ ~worktrees[i].based, dirty |-> FALSE]]
  /\ UNCHANGED <<main, lost>>

\* In a plain directory inside a repository git status succeeds as well, and the
\* reset is one of the main checkout; clean stays in the directory.
MainRollback(i) ==
  /\ ~worktrees[i].git /\ repo
  /\ main' = FALSE /\ lost' = (lost \/ main)
  /\ \E ignored \in BOOLEAN : tree' = IF ignored THEN tree ELSE [tree EXCEPT ![i] = Clean]

DirectoryRollback(i) ==
  /\ ~worktrees[i].git /\ ~repo
  /\ tree' = [tree EXCEPT ![i] = Clean]
  /\ UNCHANGED <<main, lost>>

RollbackSession(s) ==
  /\ \E i \in First(s) : GitRollback(i) \/ MainRollback(i) \/ DirectoryRollback(i)
  /\ UNCHANGED <<repo, branches, worktrees, made, now>>

Without(ids) == [i \in DOMAIN worktrees \ ids |-> worktrees[i]]

\* The branch stays.
Remove(i) ==
  /\ i \in DOMAIN worktrees
  /\ worktrees' = Without({i})
  /\ tree' = [tree EXCEPT ![i] = Clean]
  /\ UNCHANGED <<repo, branches, main, made, now, lost>>

PruneStale(age) ==
  LET old == {i \in DOMAIN worktrees : now - worktrees[i].created >= age} IN
  /\ worktrees' = Without(old)
  /\ tree' = [i \in DOMAIN tree |-> IF i \in old THEN Clean ELSE tree[i]]
  /\ UNCHANGED <<repo, branches, main, made, now, lost>>

Next ==
  \/ GitInit \/ UserEdits \/ Tick
  \/ \E i \in 1 .. MaxTrees : SessionWorks(i) \/ Remove(i)
  \/ \E s \in Sessions, b \in Branches, based \in BOOLEAN : CreateForSession(s, b, based)
  \/ \E s \in Sessions : RollbackSession(s)
  \/ \E age \in 0 .. MaxTime : PruneStale(age)

Spec == Init /\ [][Next]_vars

-------------------------------------------------------------------------------
(* Properties.                                                               *)

\* Worktrees isolate sessions: while both stay, a rollback undoes work in the tree
\* of the session it names and in no other's, and one that git made from a known
\* commit is then as it was created.
RollbackIsOwn ==
  [][\A s \in Sessions : RollbackSession(s) =>
       /\ \A i \in DOMAIN worktrees : worktrees[i].session # s => tree'[i] = tree[i]
       /\ \E i \in DOMAIN worktrees :
            worktrees[i].session = s /\ (worktrees[i].git /\ worktrees[i].based => tree'[i] = Clean)
    ]_<<tree, main>>

\* What "isolated worktrees" (crates/darius-daemon/src/worktrees.rs:1) says: a
\* rollback of a session leaves the main checkout alone.
RollbackIsContained == ~lost

\* The inductive invariant: trees are those of the ids that were given.
IInv ==
  /\ made \in 0 .. MaxTrees /\ DOMAIN worktrees \subseteq 1 .. made
  /\ tree \in [1 .. MaxTrees -> [commits : BOOLEAN, dirty : BOOLEAN]]
===============================================================================
