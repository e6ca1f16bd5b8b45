------------------------------- MODULE MCDaemon -------------------------------
(* The daemon's services and the libraries beside them on small instances.    *)
(* They share no state, so a behaviour runs one of them, the focus it was     *)
(* started with, while the others keep their initial state.                   *)
EXTENDS Integers, Sequences, FiniteSets, TLC

CONSTANTS
  Threads, SessionIds, MaxEvents, MaxCrashes,                          \* DaemonSessions, and
  Askers, Quotas, Window, MaxQuotaTime, MaxQueued,                     \* its quotas
  Agents, Cards, BoardFailures, StaleAfter, MaxBoardTime, Names, MaxTasks,  \* Kanban
  Jobs, Runners, Payloads, CronFailures, MaxFails,                     \* CronJobs
  Sessions, Branches, MaxTrees, MaxTime,                               \* Worktrees
  Clients, Bodies, Tags, Size, Huge, File, Handoff, Limit, PackChars, MaxRows,  \* MemoryStore
  Editors, Paths, Loads, Edits, MaxLines, MaxLoads,                    \* HashEdits
  SkillIds, Manifests, Caps, MaxFiles,                                 \* Skills
  Workers, Keys, MaxEntries,                                           \* Subagents
  MaxMessages, Lengths, Overhead, MarkerBytes, MarkerChars,            \* Compaction
  Budgets, HeadRoom, TailRoom,
  Callers, Tokens, Pids, Plugins, MaxGiven,                            \* Isolation
  Prefixes, MaxCalls                                                   \* PromptCache

VARIABLES
  focus,
  phase, db, log, session, task, handoff, lock, thread, crashes, spoiled,    \* DaemonSessions
  quota, active, queued, completed, lastStart, caller, quotaNow, calls, seen, \* its quotas
  card, worker, boardNow, meddled, board, told,                              \* Kanban
  jobs, runner, saving, disk, fails,                                         \* CronJobs
  repo, branches, main, worktrees, tree, treesMade, treeNow, lost,           \* Worktrees
  rows, index, made, client, file, overlap,                                  \* MemoryStore
  files, op, loads,                                                          \* HashEdits
  skillNow, registry, drawn, archive, pass, folder, preface,                 \* Skills
  agents, partial, reply,                                                    \* Subagents
  given, msgs, limit, cursor, at, episodes, kept,                            \* Compaction
  approved, uses, procs, tiers, guarded, plugins, life, audit,               \* Isolation
  holder, doing, version, warm, stats, metrics, cacheCalls                   \* PromptCache

daemonVars == <<phase, db, log, session, task, handoff, lock, thread, crashes, spoiled>>
quotaVars == <<quota, active, queued, completed, lastStart, caller, quotaNow, calls, seen>>
boardVars == <<card, worker, boardNow, meddled, board, told>>
cronVars == <<jobs, runner, saving, disk, fails>>
treeVars == <<repo, branches, main, worktrees, tree, treesMade, treeNow, lost>>
memoryVars == <<rows, index, made, client, file, overlap>>
hashVars == <<files, op, loads>>
skillVars == <<skillNow, registry, drawn, archive, pass, folder, preface>>
agentVars == <<agents, partial, reply>>
compactVars == <<given, msgs, limit, cursor, at, episodes, kept>>
gateVars == <<approved, uses, procs, tiers, guarded, plugins, life, audit>>
cacheVars == <<holder, doing, version, warm, stats, metrics, cacheCalls>>

Daemon == INSTANCE DaemonSessions WITH
  Ids <- SessionIds, MaxTime <- MaxQuotaTime, now <- quotaNow

Boards == INSTANCE Kanban WITH
  MaxFailures <- BoardFailures, Threshold <- StaleAfter, MaxTime <- MaxBoardTime, now <- boardNow

Cron == INSTANCE CronJobs WITH MaxFailures <- CronFailures

Trees == INSTANCE Worktrees WITH made <- treesMade, now <- treeNow

Memory == INSTANCE MemoryStore

Hashline == INSTANCE HashEdits

Curator == INSTANCE Skills WITH Ids <- SkillIds, Threshold <- 0, now <- skillNow, files <- archive

Children == INSTANCE Subagents WITH Agents <- Workers

Compact == INSTANCE Compaction WITH index <- cursor

Gates == INSTANCE Isolation WITH given <- uses, calls <- guarded, log <- audit

Cache == INSTANCE PromptCache WITH calls <- cacheCalls

\* One place and a queue, or two places and none.
MCQuotas == {[tasks |-> 1, depth |-> 2, rate |-> 3], [tasks |-> 2, depth |-> 0, rate |-> 1]}

\* A pack has room for a short record and for no long one; the file has a line that does
\* not parse and a record too large to insert.
MCSize == ("a" :> 1) @@ ("b" :> 2) @@ ("h" :> 9)
MCFile == <<"junk", "a", "h">>
MCHandoff == <<"a", "h">>

\* A file without a newline may be left with an empty last line, which is none.
Text(lines, newline) == [lines |-> lines, newline |-> newline]
MCLoads == {Text(<<"a", "b">>, TRUE), Text(<<"b">>, FALSE), Text(<<"", "b">>, FALSE)}
Edit(kind, from, to, put) == [kind |-> kind, from |-> from, to |-> to, put |-> put]
MCEdits ==
  {Edit("rename", 0, 1, <<"c">>), Edit("put", 1, 1, <<"a">>), Edit("put", 2, 1, <<>>),
   Edit("cut", 0, 2, <<>>), Edit("cut", 1, 2, <<>>), Edit("cut", 3, 3, <<>>), Edit("write", 0, 0, <<"b">>)}

\* A manifest with fields and a rule in its body, one in CR LF, one with two rules and no
\* fields.
Manifest(lines, crlf) == [lines |-> lines, crlf |-> crlf]
MCManifests ==
  {Manifest(<<"fence", "name", "fence", "text", "text">>, FALSE),
   Manifest(<<"fence", "field", "name", "fence", "text">>, TRUE),
   Manifest(<<"heading", "text", "fence", "text", "fence", "text">>, FALSE)}

\* Two plugins that call themselves the same.
MCPlugins == {[name |-> "n", id |-> 1], [name |-> "n", id |-> 2]}

\* Nobody is no thread, and no agent or card is called none.
ASSUME NamesAssumption ==
  "nobody" \notin Threads /\ "none" \notin Agents /\ "none" \notin Cards /\ "none" \notin Jobs

\* Who counts is finite, and what is compared with a number is one.
ASSUME CountsAssumption ==
  /\ IsFiniteSet(Askers) /\ IsFiniteSet(Runners) /\ IsFiniteSet(Callers)
  /\ \A q \in Quotas : q.tasks \in Nat /\ q.depth \in Nat
  /\ BoardFailures \in Nat /\ StaleAfter \in Nat /\ CronFailures \in Nat \ {0}
  /\ MaxTrees \in Nat

\* A body has a length.  A marker takes room.
ASSUME LengthsAssumption ==
  /\ Size \in [Bodies \cup Huge -> Nat] /\ Limit \in Nat /\ PackChars \in Nat
  /\ File \in Seq(Bodies \cup Huge \cup {"junk"}) /\ Handoff \in Seq(Bodies \cup Huge)
  /\ Lengths \subseteq Nat /\ Budgets \subseteq Nat /\ Overhead \in Nat
  /\ MarkerBytes \in Nat \ {0} /\ MarkerChars \in Nat /\ HeadRoom \in Nat /\ TailRoom \in Nat
  /\ Caps \subseteq Nat

\* Texts, edits and manifests are made of lines.
ASSUME LinesAssumption ==
  /\ Loads \subseteq Hashline!Texts
  /\ \A e \in Edits : e.from \in Nat /\ e.to \in Nat /\ e.put \in Seq(Hashline!Lines)
  /\ \A m \in Manifests : m.lines \in Seq(STRING)

-------------------------------------------------------------------------------
Init ==
  /\ focus \in {"sessions", "quota", "boards", "cron", "trees", "memory", "hashline",
                "curator", "agents", "compact", "gates", "cache"}
  /\ Daemon!SessionInit /\ Daemon!QuotaInit /\ Boards!Init /\ Cron!Init /\ Trees!Init /\ Memory!Init
  /\ Hashline!Init /\ Curator!Init /\ Children!Init /\ Compact!Init /\ Gates!Init /\ Cache!Init

\* The component runs and the others, whose variables these are, rest.
Only(name, others) == focus = name /\ UNCHANGED <<focus, others>>

Next ==
  \/ Only("sessions",
       <<quotaVars, boardVars, cronVars, treeVars, memoryVars, hashVars,
         skillVars, agentVars, compactVars, gateVars, cacheVars>>)
     /\ Daemon!SessionNext
  \/ Only("quota",
       <<daemonVars, boardVars, cronVars, treeVars, memoryVars, hashVars,
         skillVars, agentVars, compactVars, gateVars, cacheVars>>)
     /\ Daemon!QuotaNext
  \/ Only("boards",
       <<daemonVars, quotaVars, cronVars, treeVars, memoryVars, hashVars,
         skillVars, agentVars, compactVars, gateVars, cacheVars>>)
     /\ Boards!Next
  \/ Only("cron",
       <<daemonVars, quotaVars, boardVars, treeVars, memoryVars, hashVars,
         skillVars, agentVars, compactVars, gateVars, cacheVars>>)
     /\ Cron!Next
  \/ Only("trees",
       <<daemonVars, quotaVars, boardVars, cronVars, memoryVars, hashVars,
         skillVars, agentVars, compactVars, gateVars, cacheVars>>)
     /\ Trees!Next
  \/ Only("memory",
       <<daemonVars, quotaVars, boardVars, cronVars, treeVars, hashVars,
         skillVars, agentVars, compactVars, gateVars, cacheVars>>)
     /\ Memory!Next
  \/ Only("hashline",
       <<daemonVars, quotaVars, boardVars, cronVars, treeVars, memoryVars,
         skillVars, agentVars, compactVars, gateVars, cacheVars>>)
     /\ Hashline!Next
  \/ Only("curator",
       <<daemonVars, quotaVars, boardVars, cronVars, treeVars, memoryVars,
         hashVars, agentVars, compactVars, gateVars, cacheVars>>)
     /\ Curator!Next
  \/ Only("agents",
       <<daemonVars, quotaVars, boardVars, cronVars, treeVars, memoryVars,
         hashVars, skillVars, compactVars, gateVars, cacheVars>>)
     /\ Children!Next
  \/ Only("compact",
       <<daemonVars, quotaVars, boardVars, cronVars, treeVars, memoryVars,
         hashVars, skillVars, agentVars, gateVars, cacheVars>>)
     /\ Compact!Next
  \/ Only("gates",
       <<daemonVars, quotaVars, boardVars, cronVars, treeVars, memoryVars,
         hashVars, skillVars, agentVars, compactVars, cacheVars>>)
     /\ Gates!Next
  \/ Only("cache",
       <<daemonVars, quotaVars, boardVars, cronVars, treeVars, memoryVars,
         hashVars, skillVars, agentVars, compactVars, gateVars>>)
     /\ Cache!Next

vars == <<focus, daemonVars, quotaVars, boardVars, cronVars, treeVars, memoryVars, hashVars,
          skillVars, agentVars, compactVars, gateVars, cacheVars>>

Spec == Init /\ [][Next]_vars

-------------------------------------------------------------------------------
(* Properties: those of the components, two of a kind under one name.         *)

\* The event log tells what became of a session across crashes and concurrent
\* operations; and every place an agent's task took is given back once.
SessionsAreAccounted == Daemon!LogTellsSession /\ Daemon!QuotaAccounts

\* Two agents do not work on one card within the threshold and the task board's replies
\* are true; and a failing job runs no more often than its circuit breaker lets it.
WorkIsExclusive == Boards!BoardsAreTrue /\ Cron!BreakerBounds

\* The text index is that of the records, imports make no duplicates, packs keep their
\* bounds; and compaction empties the oldest results first and only as far as it must.
MemoryIsSound == Memory!MemoryIsSound /\ Compact!CompactionIsOldestFirst

\* A rollback undoes the work of the session it names and of no other; and no edit by
\* anchor is lost to a stale reader.
EditsAreOwn == Trees!RollbackIsOwn /\ Hashline!NoLostEdit

\* A skill marked archived has its whole file, prefaces are whole entries in order; and a
\* stopped subagent changes no more and kept an output that fits its schema.
SkillsAreKept == Curator!SkillsAreKept /\ Children!SubagentsSettle

\* Approvals are used at most once each, a killed process is dead, the audit log has
\* what the callers were told; and the prompt cache's locks make no circle, a warm prefix
\* is of the version asked for.
IsolationHolds == Gates!IsolationHolds /\ Cache!CacheIsOfVersion
===============================================================================
