-------------------------------- MODULE Isolation --------------------------------
(***************************************************************************)
(* What stands between the agent and things that need leave: the one-time  *)
(* approvals of instruction files and the audited capability check         *)
(* (crates/darius-safety), the sandbox backends and how a process is ended *)
(* (crates/darius-daemon/src/sandbox.rs), and the life of the plugins      *)
(* (crates/darius-core/src/plugins.rs).  Callers run on threads.           *)
(***************************************************************************)
EXTENDS Integers, Sequences, FiniteSets

CONSTANTS
  Callers,   \* threads
  Tokens,    \* approval tokens
  Paths,     \* protected paths
  Pids,      \* process ids the system gives out, one after the other
  Plugins,   \* plugins, and what metadata().name says of each
  MaxGiven   \* bounds the approvals given of one kind

Tiers == {"Trusted", "Process", "GVisor", "MicroVm", "Wasm"}
Approvals == Tokens \cup Paths

VARIABLES
  approved,  \* approved_tokens and approved_paths
  given,     \* per approval: how often it was given, and used
  procs,     \* per pid: whether it runs, is dead but not waited for, or was never started
  tiers,     \* per pid: the tier it was asked for
  calls,     \* per caller: what it is in
  plugins,   \* per name: none, or the registered plugin
  life,      \* per plugin: how often init was called and shutdown was
  log        \* the audit log's entries, and what the callers were told

vars == <<approved, given, procs, tiers, calls, plugins, life, log>>

NoCall == [at |-> "idle", of |-> "none"]
Statuses == {"allowed", "denied"}
NoEntries == [s \in Statuses |-> 0]

Init ==
  /\ approved = {} /\ given = [a \in Approvals |-> [given |-> 0, used |-> 0]]
  /\ procs = [p \in Pids |-> "none"] /\ tiers = [p \in Pids |-> "none"]
  /\ calls = [c \in Callers |-> NoCall]
  /\ plugins = [n \in {p.name : p \in Plugins} |-> {}]
  /\ life = [p \in Plugins |-> [inits |-> 0, shut |-> FALSE]]
  /\ log = [entries |-> NoEntries, told |-> NoEntries]

At(c, place) == calls[c].at = place
Goes(c, place, of) == calls' = [calls EXCEPT ![c] = [at |-> place, of |-> of]]

-------------------------------------------------------------------------------
(* InstructionWriteGate.                                                     *)

GateOnly == UNCHANGED <<procs, tiers, plugins, life, log>>

\* approve_token, approve_path: a set, so giving one twice gives one.
Approve(a) ==
  /\ given[a].given < MaxGiven /\ GateOnly /\ UNCHANGED calls
  /\ approved' = approved \cup {a} /\ given' = [given EXCEPT ![a].given = @ + 1]

\* Mutant: what allows a write is not taken out.
LooksUp(a) == approved

\* HashSet::remove, under the set's lock.
Consumes(a) == approved \ {a}

Uses(c, a) ==
  /\ approved' = Consumes(a) /\ given' = [given EXCEPT ![a].used = @ + 1]
  /\ Goes(c, "idle", "none")

\* check_write of a protected path: the token in one section, the path in the next.
CheckToken(c, path, token) ==
  /\ At(c, "idle") /\ GateOnly
  /\ \/ \E t \in token : t \in approved /\ Uses(c, t)
     \/ token \cap approved = {} /\ Goes(c, "path", path) /\ UNCHANGED <<approved, given>>
CheckPath(c) ==
  /\ At(c, "path") /\ GateOnly
  /\ IF calls[c].of \in approved THEN Uses(c, calls[c].of)
     ELSE Goes(c, "idle", "none") /\ UNCHANGED <<approved, given>>

-------------------------------------------------------------------------------
(* SafetyGate::check and check_untrusted: a decision of the policy alone,    *)
(* written down, then told.                                                  *)

CheckOnly == UNCHANGED <<approved, given, procs, tiers, plugins, life>>
More(counts, status) == [counts EXCEPT ![status] = @ + 1]

Decide(c, status) == At(c, "idle") /\ Goes(c, "record", status) /\ CheckOnly /\ UNCHANGED log
Record(c) ==
  /\ At(c, "record") /\ log.entries[calls[c].of] < MaxGiven
  /\ log' = [log EXCEPT !.entries = More(@, calls[c].of)]
  /\ Goes(c, "tell", calls[c].of) /\ CheckOnly
Tell(c) ==
  /\ At(c, "tell") /\ log' = [log EXCEPT !.told = More(@, calls[c].of)]
  /\ Goes(c, "idle", "none") /\ CheckOnly

-------------------------------------------------------------------------------
(* The sandbox.                                                              *)

SandboxOnly == UNCHANGED <<approved, given, plugins, life, log>>

\* select_backend: only two of the backends start anything.
Starts(tier) == tier \in {"Trusted", "Process"}

\* spawn, spawn_untrusted and spawn_plugin; the handle of the child is dropped.
Spawn(tier, p) ==
  /\ Starts(tier) /\ procs[p] = "none" /\ \A q \in Pids : q < p => procs[q] # "none"
  /\ procs' = [procs EXCEPT ![p] = "running"] /\ tiers' = [tiers EXCEPT ![p] = tier]
  /\ SandboxOnly /\ UNCHANGED calls

\* A process of its own will; nobody waits for it, so its id is never given out again.
Exits(p) ==
  /\ procs[p] = "running" /\ procs' = [procs EXCEPT ![p] = "dead"]
  /\ SandboxOnly /\ UNCHANGED <<calls, tiers>>

\* terminate_with_timeout: SIGTERM, which ends a process or does not...
Terminate(c, p) ==
  /\ At(c, "idle") /\ procs[p] # "none" /\ Goes(c, "wait", p)
  /\ \/ procs' = [procs EXCEPT ![p] = "dead"]
     \/ UNCHANGED procs
  /\ SandboxOnly /\ UNCHANGED tiers

\* ... signal 0 reaches the dead one too, so the wait always runs to its end...
Elapses(c) == At(c, "wait") /\ Goes(c, "kill", calls[c].of) /\ SandboxOnly /\ UNCHANGED <<procs, tiers>>

\* ... and force_terminate ends it.
ForceTerminate(c) ==
  /\ At(c, "kill") /\ procs' = [procs EXCEPT ![calls[c].of] = "dead"]
  /\ Goes(c, "ended", calls[c].of) /\ SandboxOnly /\ UNCHANGED tiers

Leaves(c) == At(c, "ended") /\ Goes(c, "idle", "none") /\ SandboxOnly /\ UNCHANGED <<procs, tiers>>

-------------------------------------------------------------------------------
(* The plugin registry; each call holds the map's lock to its end.           *)

PluginsOnly == UNCHANGED <<approved, given, procs, tiers, calls, log>>
Registered == UNION {plugins[n] : n \in DOMAIN plugins}

Register(p) ==
  /\ plugins[p.name] = {} /\ plugins' = [plugins EXCEPT ![p.name] = {p}]
  /\ PluginsOnly /\ UNCHANGED life

\* In the order of a hash map, up to the first that fails: those before it were called.
InitAll(before, failing) ==
  /\ IF failing = {} THEN before = Registered ELSE before \cap failing = {}
  /\ \A p \in before \cup failing : life[p].inits < MaxGiven
  /\ life' = [p \in Plugins |-> IF p \in before \cup failing THEN [life[p] EXCEPT !.inits = @ + 1] ELSE life[p]]
  /\ PluginsOnly /\ UNCHANGED plugins
ShutdownAll(before, failing) ==
  /\ IF failing = {} THEN before = Registered ELSE before \cap failing = {}
  /\ life' = [p \in Plugins |-> IF p \in before THEN [life[p] EXCEPT !.shut = TRUE] ELSE life[p]]
  /\ PluginsOnly /\ UNCHANGED plugins

Next ==
  \/ \E a \in Approvals : Approve(a)
  \/ \E c \in Callers :
       \/ \E path \in Paths, token \in {{}} \cup {{t} : t \in Tokens} : CheckToken(c, path, token)
       \/ \E status \in Statuses : Decide(c, status)
       \/ \E p \in Pids : Terminate(c, p)
       \/ CheckPath(c) \/ Record(c) \/ Tell(c) \/ Elapses(c) \/ ForceTerminate(c) \/ Leaves(c)
  \/ \E tier \in Tiers, p \in Pids : Spawn(tier, p)
  \/ \E p \in Pids : Exits(p)
  \/ \E p \in Plugins : Register(p)
  \/ \E before \in SUBSET Registered, failing \in {{}} \cup {{p} : p \in Registered} :
       InitAll(before, failing) \/ ShutdownAll(before, failing)

-------------------------------------------------------------------------------
(* Properties.                                                               *)

\* Callers that wrote down what they will be told.
Telling(s) == {c \in Callers : At(c, "tell") /\ calls[c].of = s}

\* An approval lets at most one write through each time it was given, however the writers
\* run; a process a caller was told has ended has, and only a plugin that is registered
\* was ever started; what the callers were told is in the audit log.
IsolationHolds ==
  /\ \A a \in Approvals : given[a].used <= given[a].given /\ (a \in approved => given[a].used < given[a].given)
  /\ \A c \in Callers : At(c, "ended") => procs[calls[c].of] = "dead"
  /\ \A p \in Plugins : life[p].inits > 0 \/ life[p].shut => plugins[p.name] = {p}
  /\ \A s \in Statuses : log.entries[s] = log.told[s] + Cardinality(Telling(s))

Places == {"idle", "path", "record", "tell", "wait", "kill", "ended"}

TypeOK ==
  /\ approved \subseteq Approvals /\ given \in [Approvals -> [given : Nat, used : Nat]]
  /\ procs \in [Pids -> {"none", "running", "dead"}]
  /\ DOMAIN calls = Callers
  /\ \A c \in Callers :
       /\ calls[c] = [at |-> calls[c].at, of |-> calls[c].of] /\ calls[c].at \in Places
       /\ At(c, "path") => calls[c].of \in Paths
       /\ At(c, "record") \/ At(c, "tell") => calls[c].of \in Statuses
       /\ At(c, "wait") \/ At(c, "kill") \/ At(c, "ended") => calls[c].of \in Pids
  /\ DOMAIN plugins = {p.name : p \in Plugins}
  /\ \A n \in DOMAIN plugins : plugins[n] \in {{}} \cup {{p} : p \in {q \in Plugins : q.name = n}}
  /\ life \in [Plugins -> [inits : Nat, shut : BOOLEAN]]
  /\ log \in [entries : [Statuses -> Nat], told : [Statuses -> Nat]]

\* The inductive invariant.
IInv == TypeOK /\ IsolationHolds
===============================================================================
