# A verification project for darius

TLA+ specifications of darius, TLC runs over small instances of them, and TLAPS proofs of
what matters most in the agent loop, the session actor and its terminal, the web service, the tools, the
token budgets, the listings, the configuration, the credentials and the daemon's services. Paths below are relative to `src/crates/`.

## The system

darius is a coding agent. A *session* owns a conversation, a model provider, a tool registry
and a memory. A *turn* takes one goal from a person, asks the model, runs the tools it calls,
and ends in an answer, an error or an interruption. The terminal, the headless `run` command
and the web service all drive the same agent loop.

    keyboard -> run_tui -- RuntimeCommand (unbounded mpsc) --> SessionActor -- spawn_blocking --> turn task
                   ^                                              |  ^                               |
                   |                                              |  +------- JoinHandle -----------+
                   +--- RuntimeEvent (broadcast, 256) <-----------+------------ TurnSink -----------+
    SessionActor <-- ChannelRunControl (token, pending prompts, approval cache) --> turn task

    turn task --> model router --> provider (a stream of lines)     config.toml, .env, auth.json,
         |            budgets, retry after 401, refresh              model caches: files of the
         +--> tools: files, shell, MCP server, kernel, memory        profile, shared by processes

### Inventory

| Component | State | Operations | What is hard | What makes it correct |
|---|---|---|---|---|
| Agent loop (`darius-cognitive` agent_*.rs, context, model) | working transcript, round, token, deadline | run_turn, drive, execute_calls, finish | cancellation, deadline and approval at every point between two statements | transactional conversation, correlated results, only approved bodies run, exactly one terminal event, termination |
| Conversation and compaction (`darius-cognitive` conversation, agent_compact, compress) | messages | from_messages, push, compact_to | byte limits against character counts; an error half-way | every stored transcript can be replayed; the oldest results are shrunk first and no more than needed |
| Session actor (`darius-cli` tui_runtime) | Idle / Running / Stopped, control registry, cache | dispatch, submit, restore, interrupt, shutdown | two threads and two channels; panics; the shutdown deadline | the session is never lost or detached, prompts are live, the event stream is framed |
| Terminal (`darius-tui`) | AppState, composer, palette, picker, scroll | drain_events, apply_event, reduce, render | stale, lagged and late events; keys against a newer state; overlays; counters that wrap | the open prompt is visible, the screen settles, a line is what was typed, the window shows the end |
| Web service (`darius-web`) | jobs, per-job journal | submit, run, publish, events | journal read under another lock section than the state | every subscriber sees the journal up to its terminal event |
| Tool registry (`darius-tools` lib, model_tools) | registry, dynamic allowlist of the process | register, gate, dispatch | names that collide; one allowlist for all sessions | a call is gated by the risk of the body that runs |
| File tools (`darius-tools` path_policy, write_file, search_files, read_file, spec) | the file system, spilled output | write, read, search, spill_read | other writers between any two system calls; links; kills | nothing outside the workspace, nothing protected, nothing half-written; spilled output comes back whole |
| Shell (`darius-tools` shell, process_group, process_guard) | child process group | run, poll, terminate | exit against cancel against deadline; background children | no group survives its call |
| MCP client (`darius-tools` mcp) | transport, next id | request, notify, shutdown | late replies, timeouts, a lock held while waiting | a reply answers its own request; a shutdown gets through |
| Nous auth, keepalive (`darius-daemon` auth) | stored credential, refresh guard, task | resolve, refresh, logout, start, stop | awaits between load and save | a logout stays a logout; one refresh at a time |
| Credential file (`darius-core` auth_store) | auth.json, auth.lock, a temporary file | provider, set_provider, update_provider, remove_provider | several processes, crashes between write, sync and rename | no update is lost; a reported success lasts |
| Credentials and providers (`darius-cli` runtime_selector, runtime, config_probe; `darius-daemon` model_router) | environment, .env, store, registrations | select, apply, probe, list, post_chat | five places decide the same thing; registrations change under a call | they agree where it counts; a credential stays with its provider |
| Configuration (`darius-core` config, `darius-cli` config_init) | config.toml, .env | load, save, setup, init | several processes, no lock, no atomic write | a model in use is usable; one published configuration |
| Catalogs (`darius-daemon` model_catalog) | memory and disk caches, ETag, back-off | fetch_models, lookup | one temporary name for every writer | a listing is whole; failures are not repeated at once |
| Budgets (`darius-daemon` model_router/budget) | used and limit per scope | charge, reserve, reconcile, drop | cancellation around dispatch, numeric edges | charged at least what was dispatched, nothing leaks |
| Wire (`darius-daemon` model_router/anthropic, openai, wire) | a stream, a body | encode, decode | streams cut anywhere; calls in pieces | what is kept is what the lines carry; a body is answerable |
| Daemon sessions (`darius-daemon` daemon, a2a, event_log, handoff, status_projector) | sessions, SQLite log, handoff files, tasks | start, create, attach, end, stop | crashes, threads, failures half-way | the log tells what became of a session |
| Quotas, boards, cron (`darius-daemon` a2a_quotas, kanban, cron; `TaskBoard`) | counters, claims, circuit breakers | start, claim, reclaim, run | check and update in two lock sections; no owner checks; copies of jobs | places are given back once, two agents never hold one card unless one went stale |
| Worktrees (`darius-daemon` worktrees) | git worktrees, their list | create, rollback, remove, prune | git refuses and nobody looks | a rollback undoes one session's work |
| Prompt cache, sandboxes, gates, plugins (`darius-daemon`, `darius-safety`, `darius-core`) | locked maps, approvals, processes | get, bump, approve, spawn, kill, init | lock order, double use, failures half-way | no circle of locks, an approval is used once |
| Memory store (`darius-memory`) | records, text index | insert, import, search, pack, export | several connections, triggers, limits | the index is that of the records, imports make no duplicates |
| Skills, subagents (`darius-skills`, `darius-skill-parser`, `darius-cognitive`) | registry, archive, agents | archive, parse, spawn, complete | failures and crashes half-way | an archived skill has its whole file |
| Edits and kernels (`darius-hashline`, `darius-lsp`, `darius-rlm`) | anchored texts, sessions, breakpoints | put, rename, start, kill | a stale anchor, concurrent ids | no lost edit, a kill is final |
| Redaction, evaluation, benchmarks, types, printing | | | text and scoring | see "Not modelled" |

`PROJECT.json` lists every component with its sources and status, and every hazard at the line
where it bites.

## Modules

Abstract promises: `TurnTransaction` (a turn commits one complete exchange or leaves no trace)
and `Journal` (a stream shows the whole log in order, up to its one terminal event).

| Module | Models | Source |
|---|---|---|
| `Transcript` | messages as roles and call ids, the validation rules | conversation.rs, conversation/validate.rs |
| `AgentTurn` | the loop of a turn, statement by statement | agent_loop.rs, agent_turn.rs, agent_exec.rs, agent_outcome.rs, agent_finish.rs, model_dispatch.rs |
| `Compaction` | shrinking results until the request fits; /compact | agent_compact.rs, compress.rs, runtime.rs |
| `Subagents` | child agents and the output schema | subagent.rs |
| `SessionActor` | actor, turn task seen from outside, permission control, channels | darius-cli tui_runtime/* |
| `TuiSession` | `SessionActor` with `run_tui` as its client | darius-tui terminal.rs, app_events.rs, input.rs |
| `Composer` | the line, the slash palette and the model picker | darius-tui app.rs |
| `Screen` | sections of a frame and the window on the transcript | darius-tui render.rs |
| `WebJobs` | jobs, their runner and executor, journals, lookups and streams | darius-web handlers.rs, execution.rs, stream.rs; darius-cli web_bridge.rs |
| `ToolRegistry` | registered names, allowlist, gate and dispatch | darius-tools lib.rs, model_tools.rs, model_dispatch.rs, mcp.rs |
| `FileTools` | paths, write_file, search_files, system call by system call | darius-tools path_policy, ensure_dirs.rs, write_file, search_files |
| `SpillPaging` | previews, spill files, pages | darius-tools spec.rs, read_file.rs, lib.rs |
| `ShellRun` | a command, its group, the poll loop | darius-tools shell.rs, process_group.rs, process_guard.rs, execution.rs |
| `McpTransport` | the stdio client of an MCP server | darius-tools mcp.rs |
| `CodeSessions` | kernel sessions and the debugger | darius-rlm lib.rs, darius-lsp lib.rs |
| `HashEdits` | edits by anchor, renames, anchored writes | darius-hashline, darius-lsp, darius-daemon tools.rs |
| `Budget` | token budgets and the requests that draw on them | model_router/budget/*, and the wire clients as its users |
| `ModelCalls` | routing, credential and retry of a call | model_router.rs, chat_completions.rs |
| `WireRequests`, `StreamDecode` | a body; a streamed answer | anthropic.rs, openai.rs, wire.rs, wire_decode.rs |
| `NousAuth` | requests, refreshes, keepalive and CLI around one stored credential | darius-daemon auth/*, chat_completions.rs; darius-core auth_store; darius-cli auth_cmd.rs |
| `AuthStore` | the file of credentials under its lock, through crashes and power failures | darius-core auth_store.rs, auth_store/* |
| `Providers` | who decides whether a provider has its credential | runtime_selector.rs, runtime.rs, config_probe.rs, models_cmd.rs, chat_completions.rs |
| `RuntimeConfig` | config.toml and .env under sessions and wizards | darius-core config.rs; darius-cli runtime.rs, config_init.rs |
| `ModelCatalog`, `ModelsDev` | the two listings and their caches | model_catalog.rs |
| `DaemonSessions` | the daemon's sessions, log, handoffs, tasks, crashes; the quotas of its agents | daemon.rs, a2a.rs, event_log.rs, handoff.rs, status_projector.rs; a2a_quotas.rs |
| `Kanban`, `CronJobs`, `Worktrees`, `PromptCache` | one service of the daemon each | kanban.rs, cron.rs, worktrees.rs, cache.rs |
| `Isolation` | approvals, audit, sandboxed processes, plugins | darius-safety, sandbox.rs, plugins.rs |
| `MemoryStore` | the memory of a profile under several clients | darius-memory lib.rs |
| `Skills` | curator, archive, manifests, preface | darius-skills, darius-skill-parser, darius-cognitive skills.rs |
| `MCTools`, `MCDaemon`, `MCClients` | the components of a family side by side, for TLC and for theorems about the family | |
| `AgentTurn_proofs`, `WebJobs_proofs`, `NousAuth_proofs` | theorems about one module | |
| `Session_proofs` | theorems about `SessionActor` and `TuiSession` | |
| `Tools_proofs`, `Clients_proofs`, `Daemon_proofs` | theorems about `MCTools`, `MCClients` and `MCDaemon` | |

`AgentTurn` EXTENDS `Transcript` and implements `TurnTransaction` (instance `Transaction`, with
`active` mapped to `pc # "idle"`). `TuiSession` EXTENDS `SessionActor` and replaces its
unconstrained client by the terminal's loop. `WebJobs` implements `Journal` (instance `Promise`, its
log being the journals of the jobs). The three families `MCTools`, `MCDaemon` and `MCClients` take
components that share no state: a behaviour draws a `focus` and runs that component alone, the
others keep an initial state, so that each is explored as it would be by itself, and a property
of the family is the conjunction of its components' properties.

**How the code corresponds.** In `AgentTurn`, `pc` is the point of the code the turn is at:
`round` the head of `drive`'s loop, `model` the awaited request, `calls` the head of
`execute_calls`' loop, `approve` inside `approve_tool`, `dispatch` between `emit_start` and the
context check, `running` inside a handler, `finish` before `finish`. `Cancel` and
`DeadlinePasses` are actions of their own and can strike between any two. Arguments, contents
and streamed text are abstracted: a call is its id and its risk. "Hidden" is a name the risk
table does not know; the loop asks no approval for it and the dispatcher refuses it.

In `SessionActor` the turn task is `worker`, at the points where it touches shared state. The
prompt registers its reply channel (`CallRegisters`) and publishes the prompt (`CallAsks`) in
two steps, as the code does. The biased `select!` is `polled`: a command is received only after
the join handle was polled and found pending, so a task that ends right after the poll lets one
more command pass. `shutdown` is `stopping`: waiting for the task, overdue after two seconds
(waiting on), and finished. The command queue is unbounded in the code; the check bounds the
commands a client sends (`MaxCmds`). An event carries its turn id, 0 standing for the default one.

In `TuiSession` one frame is drain, state change and draw (`UiFrame`); a key is read, the stream
is drained again, and the key is interpreted (`Key`). Nobody sees what a drain does half-way, so
a drain is one step: `Replayed` is the view after each event of the stream, and `Drained` the last of them,
from the next event or, for a terminal that fell behind, from the oldest one kept.

In `WebJobs` an action is one critical section of the jobs mutex, or a step that holds no lock: the
runner marks the task and announces it in two sections (`MarkRunning`, `AnnounceRunning`; `Settle`,
`AnnounceResult`, `PublishTerminal`), and a stream copies a batch in one (`Tick`) and yields it event
by event (`Yield`). `turn` stands for `AgentTurn`: it emits events that carry no state (`Note`), may
have a tool denied (`ApproveTool`), and ends; the sink keeps its terminal events out of the journal.
The broadcast channel every event is also sent to has no reader in the repository and is left out.
A client may come back and is then served from the start.

In `Budget` a request is reserved, dispatched, sent and settled. `DropUndispatched` is the `Drop` of a
reservation whose fetch was never polled; `AnswerMetered` is `reconcile`, `KeepReserved` is
`conservative_charge` and a dispatched reservation dropped by unwinding. `bill` and `stubs` are history:
they record what was charged to whom, so that the one counter can be compared with them. `reserve` and
`charge` read and write the counter under one lock section, so each is one action. The retry of a Nous
request after a 401 goes out under the same reservation and is part of `sent`.

In `NousAuth` a task (a request or a keepalive) is at a place between two awaits or between two accesses
to auth.json, so that others can run wherever the code lets them. `waiting` is the await of the refresh
lock, `locked` the critical section before the post, `posting` the awaited answer, `rejecting` and `saving`
the time between that answer and the write. `cred` is the local variable of `refresh`, `token` what the
caller will send. A service is a refresh lock and the time of its last success; `Sharing` says which callers
hold one `Arc<NousAuthService>`, and every other caller makes a service of its own for each refresh, as
`post_chat` does. No caller in the repository shares one: `Sharing = {}` is the shipped wiring, and
the shared service is what the type offers and its comments describe. `Dropped` is the turn's
cancellation or deadline, which drops the future of a request at an await and gives the lock back if
it held it; `AbortTakes` is the same for the keepalive. `refresh` does not look at the quarantine, and an
answer without a refresh token erases the one that was stored; both are in the model. A crash of the whole
process is not. auth.json is written atomically, which `AuthStore` shows of the file lock and the rename;
a write may fail before the rename or, at the sync of the directory, after it. What expires
when is a choice: a resolve may find the token near its expiry at any time.

In the tools, an action is what happens between two points where somebody else can act: a system
call in `FileTools` and `SpillPaging`, a 25 ms poll in `ShellRun`, a line read or written in
`McpTransport`, a lock section in `CodeSessions`. A path is a sequence of names, links included;
names of tools are sequences of letters because two of them collide only as text (`ToolRegistry`); a
spilled character is the number of its bytes, since one limit counts bytes and another characters. A
process is alive, a zombie or gone; what the command itself does (fork, exit, stay in the background) is
free. The kill of a group may fail.

In the daemon, an action is a lock section of the method, or a statement on a file or the database, and
callers are threads: a start under a quota (`DaemonSessions`, `QuotaNext`) checks under one lock and counts under another; `CronJobs` lets a runner
hold the copy it was given; `Kanban` takes no caller, as the code does. `DaemonSessions` may crash
between any two steps and is opened again on the same files. Time is a counter the clock advances, up to
`MaxTime`. A text is its length and kind (`Compaction`), its lines (`HashEdits`, `Skills`) or its value. Git, in
`Worktrees`, may refuse anything, and commands run in a directory that is no worktree act on the
repository above it.

In the clients, files shared by processes are read and written as `fs` does it: what `fs::write`
truncates is torn until it is written (`RuntimeConfig`), what is renamed is an inode that its writer may
still hold (`ModelCatalog`). `Providers` writes the five decisions side by side, each from its own function; a probe of a Nous profile asks
the store first, which refreshes what expired, and authorises with what the store holds then.
`StreamDecode` has the provider send any lines in any chunks and end at any point. `Screen` counts
lines; `Width` stands for 2^16.

## Runs

| Run | Question | Instance |
|---|---|---|
| `agent_turn` | is a turn correct against any model, approver, tools, cancellation and deadline? | 3 ids and the empty one, 2 turns, 2 requests, 2 calls per answer |
| `session_actor` | is the session safe under any client? | 2 ids, 1 cache key, 3 commands |
| `tui_session` | does the screen settle, and do both sides end? | 1 id, 3 commands, a stream of 4 |
| `web_jobs` | does every stream show its task's journal, and do lookups agree? | 2 jobs, 1 reader, 2 events of the turn |
| `nous_auth` | is the refresh lock sound on every path, and what do a logout and a stop mean? | 2 requests, 1 keepalive, two of the three sharing a service, 2 credentials |
| `tools` | does each tool do what its caller is told, whatever runs beside it? | `MCTools` |
| `daemon` | does each service keep its account under concurrent callers, failures and crashes? | `MCDaemon` |
| `clients` | is what is asked, listed, charged, sent, typed and shown the right thing? | `MCClients` |
| `tui_ctrl_c`, `nous_single_flight`, `composer_text`, `worktree_rollback` | four sentences of the documentation or comments the code does not keep | `TuiSession`, `NousAuth`, `MCClients` with the composer in focus, `Worktrees` |

`agent_turn` checks that only approved bodies run (`OnlyApprovedRuns`), that what the person is
shown and what the model is replayed agree call by call (`EventsMirrorTranscript`: the ends shown and the
results in the transcript correspond one to one, in order and with the same ids), that every
start is closed once and a turn has one terminal event (`TurnIsClosed`), that
at most one body begins after the cancellation (`AtMostOneLateTool`), that a finished answer is
always committed (`FinishedTurnCommits`), that the loop implements the transaction
(`TurnIsTransaction`), and that a cancelled turn and the loop itself come to an end (`TurnEnds`).

`session_actor` checks ownership of the session (`TaskIsOwned`), one `Done` per turn and nothing
of a turn after it (`StreamIsFramed`), that reply channels are registered only
for the open prompt (`PromptsAreLive`), that gated bodies run only under an answer the actor
delivered or a cached approval that was earned (`PermissionsHold`), and the effect of the bias
(`DoneIsNotStarved`).

`tui_session` checks that a waiting turn's prompt is on the screen and that the
screen stops being busy (`ScreenAgrees`), and that neither side outlives the other (`BothSidesEnd`).

`web_jobs` checks that the streams implement the journal (`StreamsFollowJournal`) and end
(`EveryStreamEnds`), that whatever a stream has shown of a task's state a lookup confirms although the
two are written under different lock sections (`LookupConfirmsStream`), and that a run that was denied a
tool is reported as failed even if its turn ended well (`DenialFails`).

`nous_auth` checks that the lock of a service belongs to the one task past it, whatever errors,
cancellations and aborts ended the others, and that nobody posts within five seconds of a success of the
same service (`RefreshIsShared`); that a token in use has been in the file (`TokensAreSaved`); that once no
refresh is in flight only a login ends a logout (`LogoutIsFinal`: a refresh that was in flight when the
logout came does write its credential back); that every refresh ends and a stopped
keepalive is eventually gone, even from the middle of a refresh (`TasksEnd`).

`tools`: a reply of an MCP server is that of the call it is given to, across timeouts, late replies
and other callers (`ReplyIsOwn`); no process of a shell call outlives it, a cancelled call reports no
timeout, success is the shell's own (`ShellEndsClean`); the risk a call was gated by is that of the
body that runs, although two servers' tools may get one name (`RiskIsOwn`); a write leaves nothing
outside, protected or half-written, a search finds what matches, and spilled output comes back whole
(`FilesAreTrue`); breakpoints never meet, a kill is final, compaction forgets no running turn
(`SessionsAreKept`); a shutdown of the MCP client gets through and a shell command ends (`ToolsEnd`).

`daemon`: the event log tells what became of a session across crashes, and a task's place is given
back once (`SessionsAreAccounted`); two agents do not hold one card within the threshold, the task
board's replies are true, and a failing job runs no more often than its breaker lets it
(`WorkIsExclusive`); the text index is that of the records, imports make no duplicates, packs keep
their bounds, and compaction empties the oldest results first and only as far as it must
(`MemoryIsSound`); a skill marked archived has its whole file, prefaces are whole entries, a stopped
subagent changes no more (`SkillsAreKept`); approvals are used once, killed processes are dead, the
audit log has what callers were told, the prompt cache's locks make no circle and its answers are of
the version asked for (`IsolationHolds`); a rollback undoes the named session's work, and no edit by
anchor is lost (`EditsAreOwn`).

`clients`: the counter of a budget is what open reservations, bills and stub charges add up to unless a
sum left its range, and concurrent requests exceed a limit by no more than providers reported beyond the
reservations (`BudgetHolds`); a listing is whole and was served, and a failure holds back those after it
(`ListingsHold`); the deciders about credentials agree where it counts and a credential goes to its own
provider, at most twice, and of the updates of auth.json none is lost to another process and none that was
reported a success to a crash or a power failure (`CredentialsHold`); what is kept of a stream is what its lines carry, and a
Messages body begins with the user, alternates, and has each result after its call (`WireIsFaithful`); the
cursor stays in the line, a submitted goal is the line on the screen, and a frame shows the end of the
transcript or has no empty row (`TerminalIsFaithful`); a model in use has its key or needs none, and of
wizards that run together one publishes (`ConfigIsSafe`).

**Bounds.** Two turns are what "across turns" means for ids, tokens and events: a third begins
from the same states as the second. Two requests let the second reuse an id of the first; three
ids and two calls let a third call follow both. Three commands let a submission, an answer and an
interrupt overlap, or two submissions and anything between them. A stream of four events lets the
terminal fall behind within one turn. With one call id in `tui_session`, a later turn that reuses
an id is included; call ids in `session_actor` are symmetric, since no definition tells them apart.
Readers of the web service share nothing but journals they do not write, so one reader that may leave one
job for the other stands for many; the proof of `StreamsFollowJournal` is for any number. Three requests
let two be open while a third is refused or squeezed into what is left of a budget; the reports include
nothing, less and more than the reservation, and the end of the counter, and one input estimate
saturates; requests are symmetric. Two credentials let a refresh cross a login or another refresh; a third
only renames them. One request outside the shared service is enough to act under the others' feet; the
proofs are for any number. In the families, two callers are enough wherever what can go wrong is one
acting between two steps of the other; quotas have three, so that two can start while a third waits, and
the board three agents, so that a claim can go stale twice. The other constants are given in the family's cfg,
or defined and commented in its module where a cfg cannot write them: the
trees, manifests, lines and lengths are one of each kind the code tells apart. One shell command with two
children stands for many, as commands share only their token. One session has the registry in `tools`: with
two, sharing the allowlist, `RiskIsOwn` does not hold (below).

**Deadlock** is not checked: a session that is idle with nobody at the keyboard, a prompt nobody
answers, and the bounds themselves all stop legitimately; the liveness properties say when it
must not. `web_jobs` does check it: a client can always come back. In the prompt cache a deadlock would be a
circle of waiting threads, which `IsolationHolds` excludes directly (every set of threads has one that waits for
none of the set).

**Fairness.** The turn's own steps, the end of a request (every client races the token and the
deadline, `model_router/openai.rs`) and the end of a tool (the shell polls token and deadline, the
other tools are bounded) are weakly fair. `Allow` and `Deny` are not: a person need not answer.
`ApprovalCancelled` is: the prompt polls the token every 50 ms. In the session the actor's and the
task's steps are weakly fair, panics and the shutdown deadline are not. Of the terminal only its
frames are: `crossterm::event::poll` returns after 25 ms; nobody has to press a key. In the web service
spawned runners and the streams of connected clients are polled by the runtime, and a turn ends (which
`TurnEnds` shows of it); submitting, subscribing, leaving, panicking and what the turn does are not
fair. In `NousAuth` the steps of a refresh are weakly fair (a post times out
after 30 s, a wait for the file lock after 10 s) and those of the keepalive too (its sleeps end, and the
runtime drops an aborted task). Taking the lock is strongly fair: tokio's mutex is a queue, so a waiter's
turn comes although others take the lock in between. Requests, the CLI, shutdown and stop are not fair.
In `McpTransport` a caller's own steps are weakly fair, its timeout among them (`recv_timeout`), and taking
the transport's lock is strongly fair: callers are finitely many and each holds it for a bounded time; the server
owes nothing. In `ShellRun` the poll loop is weakly fair, the command owes nothing, and the property speaks
of commands whose token is cancelled or whose deadline has passed. The other modules state safety only.

**What the failing runs show.**
- `tui_ctrl_c`: Ctrl+C interrupts only while `AppState::running`, which follows the event stream.
  Pressed after Enter and before the `Header` is drained, or after `Interrupted` and before the
  join, it quits the program while a turn runs.
- `nous_single_flight`: `resolve_auth` and the 401 path of `post_chat` build a `NousAuthService` per call,
  and the lock is a field of it: two requests near the expiry post the same refresh token. If the portal
  rotates it, the second is rejected, and saves the old credential, quarantined, over the new one.
- `composer_text`: a mark opens the palette, and the palette stays open when the mark is deleted from the
  front of a longer line: Enter then runs the first command listed instead of submitting the text.
- `worktree_rollback`: `create_for_session` lists a worktree git refused to make, a plain directory of the
  main checkout, and rolling that session back resets and cleans the main checkout.

## Also seen

What the models showed where no sentence of the repository is plainly contradicted, or where a run of its own
would say less than a line does.

*Session and terminal.* A key typed before a prompt was drawn can answer it (terminal.rs:195). The end of a
written file is not shown as an item, because its `Diff` stands between (app.rs:919). The terminal drops
`UiEvent::Error`, so a failed turn ends as "Done". A `PermissionRequired` lost to a lag leaves the turn
waiting for a prompt no screen shows. A goal carries the mode on the screen and overwrites the session's
(lifecycle.rs:18). A model selected while a turn runs is dropped without an event (dispatch.rs:24). The
palette's arrows choose nothing (app.rs:569 runs the first entry); j and k cannot be typed into the
picker's filter; Ctrl+C under picker or palette types a `c`. Above 65,535 lines the window no longer shows
the end (render.rs:557); PageUp and PageDown move the wrong way (input.rs:73); the palette has room for 5 of
13 commands.

*Models and credentials.* The chat-completions client marks a dispatch before it resolves credentials, so a
request without a key is charged in full (reservation.rs:1 says otherwise; the Anthropic client is in order). A
shutdown of the keepalive that comes during a refresh is lost, since `notify_waiters` stores no permit
(keepalive.rs:124); `stop` also aborts. Nothing starts the keepalive. An Anthropic stream without usage is charged
one token, and a cut one in part (anthropic.rs:600). Arguments of a call that were cut off by the end of a
stream are accepted (openai.rs:172, anthropic.rs:579); bytes are decoded chunk by chunk; a last line without
a newline is dropped. A login in the OAuth store alone does not let a session start (runtime_selector.rs:33);
the probe never loads .env and asks for the key's variable of a Nous profile (config_probe.rs:69); choosing a
model accepts a blank key (runtime.rs:332). An answer of "not modified" leaves a task without a listing when the
copy on disk is gone, and that copy never expires. `ModelRouter::route` and `CacheCoordinator` are used by tests
alone.

*Configuration.* Choosing a model drops the other sections of config.toml (darius-core config.rs:95). `.env` keys are
appended by an unlocked read and write. `apply_model_config` renames the label before it fails
(runtime.rs:319); setup stores a key before it finds that the profile exists. Of several `.env` files the
first wins, where the comment says the last.

*Tools.* With two sessions in a process, dropping one disposes of dynamic names the other still uses, so the
risk that is asked is not that of the body that runs (model_tools.rs:29-32). `cancel_shells` cancels a token
that is never reset (lib.rs:217). memory_search names a spill file even when writing it failed
(lib.rs:384). memory_remember panics after storing when byte 80 of a body is inside a character (lib.rs:446). A rename of
line 0 by the language server underflows (darius-lsp lib.rs:125).

*Daemon.* Concurrent starts exceed a quota (a2a_quotas.rs:133), and DropOldest with depth 0 queues one (:188). A handoff is
not written atomically (handoff.rs:41); a crash while the log is created leaves a daemon whose log has no
tables (event_log.rs:45); the end of a session is logged after its removal from the map; stop ignores failed
handoffs; the agent-to-agent task of a session is never updated. An agent whose claim was reclaimed
still releases and promotes the new holder's card. Cron stores the hash before the run, so a payload that failed is
skipped next time (cron.rs:181); loading re-adds removed jobs. An export of the memory is limited to what a
search returns (darius-memory lib.rs:459); an import stops midway at a body that is too large.

*Libraries.* When the context budget is exceeded the results are already emptied (agent_compact.rs).
A subagent completes without being checked for running, and `max_iters` is not enforced. An archive pass that
fails midway leaves files of skills the registry does not mark; a manifest with CR LF loses its body. The tier of an
approval is only logged, `verify` of the audit log is always true, and `SafetyGate::check` always allows. The
first plugin that fails ends `init_all` and `shutdown_all`. Ending a sandboxed process kills it and not its children.

## Proofs

`AgentTurn_proofs` proves for every set of ids and every bound:

- `TypeCorrect`, `Spec => []TypeOK`; the other proofs rest on it.
- `ApprovalHolds`, `Spec => []OnlyApprovedRuns`. The strengthening adds what is known of the call in
  hand: at `dispatch` and `running` the head of `todo` is not denied by the mode, is granted if it is
  gated, and at `running` is not hidden.
- `CancellationIsPrompt`, `Spec => []AtMostOneLateTool`. `late` counts bodies begun under a cancelled
  token; the strengthening says that it is 0 until the token is cancelled, and that once it is 1 the
  turn can only be at the end of that call, or on its way to the finish.
- `TurnRefinement`, `Spec => TurnIsTransaction`. The working copy always extends the committed
  conversation and begins its part with the user's message (`WorkingCopyInvariant`); at the finish
  with a text its last message is the assistant's. Every step then maps to `Begin`, `Commit`,
  `Abort` or a stutter.
- `AnswerIsNeverLost`, `Spec => []FinishedTurnCommits`. The correlation invariant
  (`CorrelationInvariant`) splits the ids of the transcript into answered ones and those still in
  `todo`, which are distinct and not empty because `NewCalls` rejected everything else; when `todo`
  is empty the transcript is well formed, and only then can the loop reach a text.

`WebJobs_proofs` proves for any number of jobs and readers:

- `JournalRefinement`, `Spec => StreamsFollowJournal`. The invariant (`InvariantHolds`) says that what a
  reader received, and the batch it still holds, are two consecutive pieces of the journal from its
  start, and that a journal holds a terminal event only when its runner is over. Then `Yield` is
  `Receive`, every publishing step is `Extend`, and `Tick` is a stutter.
- `LookupConfirms`, `Spec => []LookupConfirmsStream`, from the same invariant and what each point of the
  runner says of the task: the task is written before the journal.
- `DenialHolds`, `Spec => []DenialFails`: a denied run can only return an error.

`NousAuth_proofs` proves for any requests, keepalives, sharing and number of credentials:

- `TypeCorrect`, `Spec => []TypeOK`, and `RefreshShared` and `TokensSaved`, the two invariants of the run. The inductive invariant
  `IInv` adds that the file holds no credential without a token and remembers the token of the one it
  holds (`StoredIsSaved`: `Resolve` and `Reread` take theirs from there), and that a task in a refresh
  holds a credential with a token (`HeldIsReal`). Each action is one of four kinds, a lemma each: it leaves
  the task on its side of the lock (`QuietStep`, `MovingStep`), gives the lock back (`ReleasingStep`,
  `LeavingStep`), begins a refresh (`BeginRefreshPreserves`), or touches no task (`ElsewherePreserves`).
- `LogoutFinal`, `Spec => LogoutIsFinal`: without a credential in the file the only steps of a refresh
  that remain end it.

`Session_proofs` proves, for any ids, keys and number of commands, every safety property of `session_actor`,
and that of `tui_session`:

- `TypeCorrect`, `Spec => []TypeOK`, with the types of the history variables and that every turn took a command.
- `OwnershipHolds` and `DoneIsServed`, from `Owned`: besides the two properties, the actor is not Running at
  the last point of a shutdown, and after a command served behind the task's end the join handle is polled next.
- `PromptsLive`, from `Prompts`: a registered channel is that of the call the task asks for or waits at, and an
  answer takes its channel with it, so that a second answer finds none.
- `PermissionsAreKept`, from `Approvals` (an answer the task holds is an answer the actor delivered for this
  call of this turn) and `Earned` (the cached keys and the answer for the session not yet turned into one are no
  more than the answers of that kind).
- `StreamFramed`, from `Framed`: no event is of a turn to come, and the running turn has no `Done` yet. Most steps
  publish nothing of that kind (`Calm`); the submission opens a turn and the join closes it.

- `TuiTypes` and `ScreenAgreement`, `TuiSpec => []ScreenAgrees`, from `Session /\ Screen`. `Session` adds to the
  actor's invariants that a prompt without an answer is registered under its call (`Registered`) and what the stream
  says of the session (`Announced`): a turn that has started has its `Header`, a running one no end, and a prompt
  that waits was published and no later `Header` or prompt takes its place.
  `Screen` says that the view is that of the events drained so far (`Good`), for every prefix of the stream, so that
  a drain of any length keeps it; what was folded is the recursive function `Replayed`, whose steps are chained by
  an induction over the set of positions it holds at (`Induction`).

`Tools_proofs` proves all five safety properties of the run `tools`, of the family's specification, for any values of its constants:

- `RepliesOwn`, provided "nobody" is no caller, and no thread of the debugger (`CallersAssumption`). Every line in flight is what the server answered
  once and for all to an id that was asked, ids are no higher than the last one given and differ between callers,
  and whoever writes or waits holds the lock.
- `ShellEnds`. The group of a call is empty but while the call polls or was refused the kill, and a call that is
  being stopped has its reason, cancellation or deadline, which lasts until the report (`Clean`).
- `RiskOwn`, under three hypotheses that are named: `OneSession` (sessions follow one another) in the theorem, and
  in `TableAssumption`, which TLC evaluates, `NamesApart` (no server's tool takes a built-in name, all of which lack
  the prefix `mcp_`) and `StaticTable` (the built-in table is a table of risks). The invariant is that the two tables
  agree on every name of the registry (`Agrees`): registering under a name that is taken overwrites both. Without
  `OneSession` it fails, as "Also seen" tells.
- `SessionsKept` (`SessionsAreKept`). Who sets a breakpoint has the lock and the next id, and nobody was given that id before
  (`IdsAreFresh`), so that no insertion falls on a breakpoint that is listed. That a kill is final and that compaction keeps
  running turns follow from the single steps.
- `FilesTrue` (`FilesAreTrue`), in three parts. *Writes* (`FilesInv`): what lies above a path is a directory (`Closed`), so that
  a path resolves to a place whose parents all are (`JoinedIs`) and what `create_dir_all` makes lies fresh below one
  (`DirsAreMade`); a target stays a place in a directory of the workspace, since directories stay (`Keeps`), and unfinished
  contents lie only under the names of calls that are on their way or dead (`Temps`). *Searches* (`ScanInv`): what is on the
  stack, what is left of the directory being read and what is found lie apart from each other, none below another
  (`StandsApart`), whatever changes under the search, which is why no file is found twice; and over a tree nobody changes what is
  wanted is found, or lies below something that is still ahead (`Finds`). *Spilled output* (`SpillInv`): every character has
  a byte, so offsets in bytes tell characters apart (`AtRises`), and a reader has a part of one text from the byte it began
  at up to the one it stands at (`Got`), whatever a name led to between its calls; a preview is the longest beginning that fits
  (`PreviewIs`). `FilesAssumption` and `TextsAssumption` are the conditions.

`Clients_proofs` proves all six properties of the run `clients`, of the family's specification. Every step of the
family is a step of each component or leaves its variables alone, so an inductive invariant of the component is one of the family:

- `TypeCorrect` and `BudgetSound` (`BudgetHolds`): `reserve` subtracts and adds without saturation, and `GrantFits`
  shows that it never leaves u64 and always grants at least one token of output, for limits below half the range
  (the code's are at most 1,000,000). What is owed is a sum over the requests. `Sum` is written as the cardinality of
  a set of pairs, so that moving one summand is a fact about disjoint finite sets and needs no induction. `Covered` bounds the
  counter from both sides by what is held and owed. A sum that saturates is the difficulty: the counter forgets tokens then,
  and the invariant keeps it so high (`MaxU64 - Limit + Held`) that giving back all that is held cannot reopen the budget.
- `ListingsKept` (`ListingsHold`). Of `ModelCatalog`: a process that has a listing from the endpoint keeps, writes and
  remembers that one (`Kept`), whatever the inode it writes has come to hold. Of `ModelsDev`: whoever keeps a registry, or is
  about to save one, has it from models.dev (`Known`), and no task under way asked later than now, so that a failure, whose
  back-off is counted from now, leaves all of them behind it.
- `CredentialsKept` (`CredentialsHold`). Of `Providers`: a session has passed the decider it came through (`Admitted`).
  Of `ModelCalls`: the header of a call suits its provider from the moment it is made (`Suits`), `Posted` says what
  was posted at each point, and a token that was refused is older than the one of the retry because the stored one never
  passes the one the portal takes. Of `AuthStore`, also by itself as `StoreSafe`: a process past the lock is its only holder,
  so that nobody replaces the file between the reading and the renaming of another, and what is about to be renamed
  has been synced; the files a power failure may choose from are all whole, and none is older than the last reported success.
- `ConfigHolds` (`ConfigIsSafe`): a model is in use only after a step that looked for its key, and the environment of
  a session does not change; a publication finds no file or was forced, whoever came between the look and it.
- `WireFaithful` (`WireIsFaithful`). Of `StreamDecode`: a call that has pieces was started and one about to start was not
  (`StartsComeFirst`), so that a start wipes nothing; the pieces kept of a call stand at the places of its lines by a map
  that ascends (`Carried`), which one more line extends by its own place. Of `WireRequests`: the results of a call that
  are there follow it one by one and are all the results there are (`ResultsFollow`), for the one to be answered next is the open
  call of the least number. The body after n messages is a recursive function; by `UpTo` on n it is well shaped,
  holds every block of those messages once, and has each call where it belongs (`WireBody`): with its result at its number in
  the next message, or, while results are still coming, with nothing but the earlier ones after it (`Placed`). A request is made with
  no call open, so then every call is answered.
- `TerminalFaithful` (`TerminalIsFaithful`). Of `Composer`: a palette that is closed selects nothing, which is why taking
  away a character can leave it as it is. Of `Screen` the invariant is the types alone; the rows are a sum of
  cardinalities, and every overlay is drawn once because the sections of a frame are a concatenation of parts that differ.

`Daemon_proofs` proves all six properties of the run `daemon`, of the family's specification, for any values of its
constants: `SessionsStayAccounted`, `WorkStaysExclusive`, `MemoryStaysSound`, `SkillsStayKept`, `IsolationStays` and
`EditsStayOwn`. Every step of the family is, for each component, one of its steps or none (`StepsOfParts`), so each theorem is
the conjunction of two components' invariants, each proved of its component alone. Those invariants stand in the modules as
`IInv` (`SessionInv` and `QuotaInv` in `DaemonSessions`). What they add to the properties:

- The event log (`SessionsStay`). The log's last word on a session may be untrue only while somebody is about to correct
  it: the holder of the session map who has changed the session and not yet logged it, or an `end_session` that has let
  go of the map (`LogIsLate`). The file of a logged end is whole, or somebody writes it again (`EndIsSaved`).
- Quotas (`QuotaStays`). The count is the cardinality of the callers that run, and a caller that was accepted found a
  quota with a place; the bound follows by counting, because the callers are finitely many.
- The boards (`BoardsStay`). A claim that is fresh is the card's own and its time is that of the card (`HoldersAreFresh`), so a
  reclaim can only take what went stale. Cron (`CronStays`): a job's failures and its
  runs under way are together bounded (`RunsAreBounded`), and the breaker's own count keeps up with the failures (`CountsKeepUp`).
- The memory (`MemoryStays`). New records come at the end under new ids, entries of the index are those of records
  (`IndexMirrorsRows`), and while no imports overlap there is one at most, and what it is about to insert is no record yet (`ImportIsAlone`).
- Compaction (`CompactStays`). Before the cursor every result is exhausted and after it the messages are as given
  (`OldestFirst`). That what the code subtracts from its sum after a cut is the sum of the shortened messages is a fact about sums.
- Worktrees need next to nothing, edits by anchor (`HashStays`) only that texts are texts: a lost edit is excluded by the step itself,
  which compares the anchor with the file under the operation's own hand.
- Skills (`SkillsStay`). A pass works on skills that were the agent's when it began and that nobody changes while it runs
  (`PassIsOfAgents`); what it has written is whole. Of a preface (`PrefaceOf`) the size is that of its entries, and if it
  stopped, one more would exceed the cap. The two readers of a manifest (`ReadersAreGood`) find one body because the second fence is the first
  one's next.
- Subagents (`ChildrenStay`), gates (`GatesStay`: an approval in the set was given more often than used; the audit log is
  ahead of what was told by the callers between the two), and the prompt cache (`CacheStays`). There a thread has exactly the
  locks of its place in its call (`Spot`), and since every call takes them in one order (`SpotsAreRanked`: version, keys,
  stats, metrics) no set of threads can wait for one another. While a bump holds the version and waits for the keys, nobody knows
  the new version, which is why a warm prefix can be told under the version that was read.

Sums and scans are recursive functions, along sequences of any length. What the library's induction theorems cannot give (they
take an operator as a parameter) is built in `Daemon_proofs`, for bodies in `Clients_proofs` and for texts in `Tools_proofs`, from the well-founded order on the naturals: a set of naturals has a least
element (`LeastOf`), what holds at 0 and is kept holds up to n (`UpTo`, with a set for the predicate), a recursion along
0..n has a solution (`Recursion`), so that sums along a sequence exist, are naturals and agree
(`SumsExist`, `SumsAreNat`, `SumsAgree`).

**Assumptions**, all named, and evaluated by TLC on the instances: the empty id is not an id of `Ids`; the bounds are
naturals, `MaxIters` in 1..12 as the policy clamps it; `BudgetAssumption` puts the limits below half the range of the counter
and has finitely many requests; `DelayAssumption` has a memory that keeps what it holds for at least one tick and a back-off
that is no negative time; `NousAssumption` keeps requests, keepalives, the common service and "nobody" apart; `CallersAssumption`
and `TableAssumption` are above. `FilesAssumption` says of the file system that parents are directories and the root is one, that
nobody else uses the names of temporary files (`tempfile` draws them), and that a search has room for one result;
`TextsAssumption` that every character has at least one byte and limits are naturals. `MCDaemon` has four: `NamesAssumption` (no thread is called "nobody", no agent, card or job
"none"), `CountsAssumption` (who counts or is counted is finite, limits are naturals, a breaker allows at least one failure),
`LengthsAssumption` (bodies, messages, markers and budgets have natural lengths, and a marker takes room) and `LinesAssumption` (texts, edits and
manifests are made of lines). `MCClients` has, besides `DelayAssumption`, `TerminalAssumption` (commands and entries are lists, heights
and rows are naturals, and the width is a natural above zero).

**Only model-checked.** Liveness under fairness is out of the prover's reach (`TurnEnds`, `BothSidesEnd`, `EveryStreamEnds`,
`TasksEnd`, `ToolsEnd`); every safety property of the passing runs is a theorem. An induction theorem of the library
that takes an operator as a parameter cannot be instantiated by the provers; where a proof needs one over
positions, it is stated with a set in its place (`Induction` in `Session_proofs`, `UpTo` in the three others), which is provable and
enough for recursive functions.
Operators of the modules are written without RECURSIVE, so that theorems can be stated about all of them.

## Not modelled

Bytes and wording: of messages, prompts, results, requests and drawn rows a model keeps what its properties
tell apart. Of the components that are modelled in part: the effect of single slash commands on the session
beyond the mode; the HTTP client and the decoding of results of MCP; schemas and descriptions of tools; the derivation of a
session's cache key; the device login's polling, which is one step; merging and filtering of listings; ranking and migrations of the memory; the search of the
skill hub; the command lines of sandbox backends; a crash of the process during a Nous refresh. A terminal whose
drawing fails leaves without joining the actor's thread, which ends with the process.

Components left out: redaction, capabilities and audit records (patterns and plain records); daemon services that
are maps, adapters and copies for one caller; types, prompts, argument parsing and printing; evaluation and
benchmarks. `darius-rlm`'s kernel.rs and wire.rs are declared as modules nowhere and ipykernel.rs is behind a feature.

## Plan

1. `ShellRun` and `McpTransport` under `AgentTurn`: the turn's cancellation seen through to its tool.
2. `NousAuth` over `AuthStore`, with a crash of the process between a refresh and its save.
