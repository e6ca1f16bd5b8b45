----------------------------- MODULE ToolRegistry -----------------------------
(***************************************************************************)
(* The tools of a session and the names a model may call them by           *)
(* (crates/darius-tools/src/lib.rs, model_tools.rs, model_dispatch.rs; the *)
(* registration of MCP servers in mcp.rs and crates/darius-cli/src/        *)
(* runtime.rs).  Each session has a registry of its own; the allowlist of  *)
(* dynamic tools, which the policy asks for the risk of a call, is one for *)
(* the process.  Sessions are built, called and dropped concurrently, as   *)
(* the jobs of the web service are.                                        *)
(***************************************************************************)
EXTENDS Integers, Sequences

CONSTANTS
  Sessions,   \* slots for sessions of the process
  Servers,    \* names of MCP servers, as sequences of characters
  ToolNames,  \* names their tools may have
  Letters,    \* the characters a registered name keeps, the underscore apart
  Builtins,   \* the static allowlist: name -> risk
  MaxListed,  \* bound on the tools of one server
  MaxBuilds   \* bound on the sessions built

VARIABLES
  allowed,    \* DYNAMIC_MODEL_TOOLS: name -> risk, for the whole process
  session,    \* per slot, its registry, its specs and its connected servers
  call,       \* per slot, the call between its approval and its body
  builds      \* sessions built so far

vars == <<allowed, session, call, builds>>

Risks == {"read_only", "mutating", "shell"}
NoFun == [n \in {} |-> "none"]
Fresh(at, tools) ==
  [at |-> at, tools |-> tools, specs |-> <<>>, tried |-> {}, server |-> <<>>, todo |-> <<>>]
Off == Fresh("off", NoFun)
NoCall == [at |-> "none", name |-> <<>>, gate |-> "none"]

Init ==
  /\ allowed = NoFun
  /\ session = [s \in Sessions |-> Off]
  /\ call = [s \in Sessions |-> NoCall]
  /\ builds = 0

\* f with k mapped to v, whether or not it was there.
Put(f, k, v) == [x \in DOMAIN f \cup {k} |-> IF x = k THEN v ELSE f[x]]

-------------------------------------------------------------------------------
(* Names.                                                                    *)

\* Everything but letters, digits and the underscore becomes an underscore, so
\* different names may meet.
Sanitize(name) == [i \in DOMAIN name |-> IF name[i] \in Letters THEN name[i] ELSE "_"]

RegisteredName(server, tool) ==
  <<"mcp", "_">> \o Sanitize(server) \o <<"_">> \o Sanitize(tool)

IsModelTool(name) == name \in DOMAIN Builtins \/ name \in DOMAIN allowed

\* The static table is asked first; a name in neither table has no risk.
ModelToolRisk(name) ==
  IF name \in DOMAIN Builtins THEN Builtins[name]
  ELSE IF name \in DOMAIN allowed THEN allowed[name] ELSE "hidden"

-------------------------------------------------------------------------------
(* Building and dropping a session.                                          *)

\* The built-in tools are registered with the risks of the static table.
Build(s) ==
  /\ session[s].at = "off" /\ builds < MaxBuilds
  /\ builds' = builds + 1
  /\ session' = [session EXCEPT ![s] =
       Fresh("building",
                [n \in DOMAIN Builtins |-> [risk |-> Builtins[n], server |-> <<>>, tool |-> n]])]
  /\ UNCHANGED <<allowed, call>>

Listings == UNION {[1..k -> [name : ToolNames, readOnly : BOOLEAN]] : k \in 0..MaxListed}

\* A server connects and lists its tools, or is reported in the diagnostics and
\* shut down.
Connect(s, server, listed) ==
  /\ session[s].at = "building" /\ session[s].todo = <<>>
  /\ server \notin session[s].tried
  /\ session' = [session EXCEPT ![s].tried = @ \cup {server},
                                ![s].server = server, ![s].todo = listed]
  /\ UNCHANGED <<allowed, call, builds>>

\* Mutant: the allowlist keeps the risk a name was first registered with.
AllowFirst(name, risk) == IF name \in DOMAIN allowed THEN allowed ELSE Put(allowed, name, risk)

\* The insert of a dynamic tool replaces what the name stood for.
Allow(name, risk) == Put(allowed, name, risk)

\* One tool of the list: the allowlist first, then the registry.
RegisterNext(s) ==
  /\ session[s].at = "building" /\ session[s].todo # <<>>
  /\ LET tool == Head(session[s].todo)
         name == RegisteredName(session[s].server, tool.name)
         risk == IF tool.readOnly THEN "read_only" ELSE "mutating"
     IN /\ allowed' = Allow(name, risk)
        /\ session' = [session EXCEPT
             ![s].todo = Tail(@), ![s].specs = Append(@, name),
             ![s].tools = Put(@, name, [risk |-> risk, server |-> session[s].server,
                                        tool |-> tool.name])]
  /\ UNCHANGED <<call, builds>>

Built(s) ==
  /\ session[s].at = "building" /\ session[s].todo = <<>>
  /\ session' = [session EXCEPT ![s].at = "ready"]
  /\ UNCHANGED <<allowed, call, builds>>

\* The drop of a session shuts its clients down; the allowlist keeps its names.
DropSession(s) ==
  /\ session[s].at = "ready" /\ call[s].at = "none"
  /\ session' = [session EXCEPT ![s] = Off]
  /\ UNCHANGED <<allowed, call, builds>>

-------------------------------------------------------------------------------
(* A call of the model.                                                      *)

\* The policy and the approval see the risk of the name; a hidden name goes on
\* to be refused by the dispatch.
Gate(s, name) ==
  /\ session[s].at = "ready" /\ call[s].at = "none"
  /\ call' = [call EXCEPT ![s] = [at |-> "gated", name |-> name, gate |-> ModelToolRisk(name)]]
  /\ UNCHANGED <<allowed, session, builds>>

\* The dispatch: hidden and unregistered names end in an error, every other name
\* runs the handler registered for it.
Dispatch(s) ==
  /\ call[s].at = "gated"
  /\ call' = [call EXCEPT ![s].at =
       IF ~IsModelTool(call[s].name) \/ call[s].name \notin DOMAIN session[s].tools
       THEN "refused" ELSE "running"]
  /\ UNCHANGED <<allowed, session, builds>>

Finish(s) ==
  /\ call[s].at \in {"refused", "running"}
  /\ call' = [call EXCEPT ![s] = NoCall]
  /\ UNCHANGED <<allowed, session, builds>>

Names == DOMAIN Builtins \cup DOMAIN allowed \cup {<<"unknown">>}

Next ==
  \/ \E s \in Sessions :
       Build(s) \/ RegisterNext(s) \/ Built(s) \/ DropSession(s) \/ Dispatch(s) \/ Finish(s)
  \/ \E s \in Sessions, server \in Servers, listed \in Listings : Connect(s, server, listed)
  \/ \E s \in Sessions, name \in Names : Gate(s, name)

Spec == Init /\ [][Next]_vars

-------------------------------------------------------------------------------
(* Properties.                                                               *)

\* The risk a call was gated by is the risk its body was registered with, although
\* gate and body live in two tables, names collide, servers list a tool twice and
\* dropped sessions leave their names behind; a body that nobody gated never runs;
\* and every tool the model is shown can be called.  Of one session at a time: "Register a session-scoped
\* dynamic model tool" (crates/darius-tools/src/model_tools.rs:32) says the same
\* of several.
RiskIsOwn ==
  /\ \A s \in Sessions :
       call[s].at = "running" => call[s].gate = session[s].tools[call[s].name].risk
  /\ \A s \in Sessions : session[s].at = "ready" =>
       \A i \in DOMAIN session[s].specs :
         /\ session[s].specs[i] \in DOMAIN session[s].tools
         /\ IsModelTool(session[s].specs[i])

-------------------------------------------------------------------------------
(* The inductive invariant of RiskIsOwn, of one session at a time.            *)

AllNames == DOMAIN Builtins \cup {RegisteredName(v, t) : v \in Servers, t \in ToolNames}
Entries == [risk : Risks, server : Servers \cup {<<>>}, tool : ToolNames \cup DOMAIN Builtins]
Tables(V) == UNION {[D -> V] : D \in SUBSET AllNames}
Items == [name : ToolNames, readOnly : BOOLEAN]

Registries ==
  [at : {"off", "building", "ready"}, tools : Tables(Entries), specs : Seq(AllNames),
   tried : SUBSET Servers, server : Servers \cup {<<>>}, todo : Seq(Items)]
Calls == [at : {"none", "gated", "refused", "running"}, name : AllNames \cup {<<>>, <<"unknown">>},
          gate : Risks \cup {"none", "hidden"}]

TypeOK ==
  /\ allowed \in Tables(Risks)
  /\ session \in [Sessions -> Registries] /\ call \in [Sessions -> Calls]
  /\ \A s \in Sessions : session[s].todo # <<>> => session[s].server \in Servers

\* What the two tables say of a name agrees, and a session that answers a call is built.
Agrees(s) ==
  /\ \A n \in DOMAIN session[s].tools : IsModelTool(n) /\ session[s].tools[n].risk = ModelToolRisk(n)
  /\ \A i \in DOMAIN session[s].specs : session[s].specs[i] \in DOMAIN session[s].tools
  /\ call[s].at # "none" => session[s].at = "ready"
  /\ call[s].at = "running" => call[s].name \in DOMAIN session[s].tools
  /\ call[s].at \in {"gated", "running"} => call[s].gate = ModelToolRisk(call[s].name)

IInv == TypeOK /\ \A s \in Sessions : Agrees(s)

\* Sessions follow one another, and no server's tool has the name of a built-in one.
OneSession == \A s, t \in Sessions : s = t
NamesApart == \A v \in Servers, t \in ToolNames : RegisteredName(v, t) \notin DOMAIN Builtins
StaticTable == Builtins \in [DOMAIN Builtins -> Risks]
===============================================================================
