------------------------------- MODULE MCTools --------------------------------
(* The tools of a session on small instances: the MCP client, the shell, the  *)
(* registry, the code kernel, the file tools and spilled output.  They share   *)
(* no state, so a behaviour runs one of them, the focus it was started with,   *)
(* while the others keep their initial state: what is checked of all           *)
(* behaviours is checked of each tool on its own, in one run.                  *)
EXTENDS Integers, Sequences, TLC

CONSTANTS
  Callers, MaxIds, MaxNoise,                                           \* McpTransport
  Runs, Tokens, Kids,                                                  \* ShellRun
  Sessions, Servers, ToolNames, Letters, Builtins, MaxListed, MaxBuilds, \* ToolRegistry
  Threads, Handles, MaxPoints,                                         \* CodeSessions
  Writers, Root, Tree0, Raws, Contents, Matching, Cap, MaxVisited, MaxDepth, \* FileTools
  Paths, Outputs, Foreign, PagedFile, Ceiling, MemoryLimit, MaxLimit, Limits \* SpillPaging

VARIABLES
  focus,
  child, nextId, asked, answered, stdout, noise, holder, request,      \* McpTransport
  token, expired, group, run,                                          \* ShellRun
  allowed, session, call, builds,                                      \* ToolRegistry
  kernel, handle, registry, points, pointId, idLock, setting, debugger, \* CodeSessions
  tree, write, scan,                                                   \* FileTools
  spilled, outcomes, leads, search, reader, scroll                     \* SpillPaging

Mcp == INSTANCE McpTransport WITH call <- request
Shell == INSTANCE ShellRun
Registry == INSTANCE ToolRegistry
Code == INSTANCE CodeSessions WITH nextId <- pointId
Files == INSTANCE FileTools
Spill == INSTANCE SpillPaging WITH File <- PagedFile, call <- search

\* No caller and no thread has the name that stands for nobody; the built-in tools have risks, and
\* no server's tool has the name of one: those of servers begin with mcp_.
ASSUME CallersAssumption == Mcp!Nobody \notin Callers /\ Code!Nobody \notin Threads
ASSUME TableAssumption == Registry!StaticTable /\ Registry!NamesApart

\* A path is made of names, and what lies above one is a directory: the root of the workspace
\* is one.  The names of temporary files are nobody else's.  A search has room.
ASSUME FilesAssumption ==
  /\ Writers \subseteq STRING /\ Raws \subseteq Seq(STRING) \ {<<>>}
  /\ DOMAIN Tree0 \subseteq Seq(STRING) \ {<<>>}
  /\ \A p \in DOMAIN Tree0 : \A n \in 1..Len(p) - 1 : Files!IsDir(Tree0, SubSeq(p, 1, n))
  /\ Files!IsDir(Tree0, Root)
  /\ \A p \in DOMAIN Tree0 \cup Raws : \A n \in DOMAIN p : p[n] \notin Writers
  /\ "AGENTS" \notin Writers
  /\ Cap \in Nat \ {0} /\ MaxVisited \in Nat /\ MaxDepth \in Nat

\* A character has at least one byte.
ASSUME TextsAssumption ==
  /\ Outputs \subseteq Seq(Nat \ {0}) /\ PagedFile \in Seq(Seq(Nat \ {0}))
  /\ Ceiling \in Nat /\ MemoryLimit \in Nat /\ MaxLimit \in Nat /\ Limits \subseteq Nat

-------------------------------------------------------------------------------
(* The values of the .cfg that are more than a set of names.                  *)

\* The tools b.c of server a and c of server a_b get one registered name.
MCServers == {<<"a">>, <<"a", "_", "b">>}
MCToolNames == {<<"b", ".", "c">>, <<"c">>}
MCBuiltins == <<"write">> :> "mutating"

\* A workspace w beside an outside o: a protected file, a directory, a link that
\* leads out and one that leads to a directory inside.
FileOf(text) == [kind |-> "file", data |-> text]
DirNode == [kind |-> "dir", data |-> <<>>]
LinkTo(path) == [kind |-> "link", data |-> path]

MCTree ==
  (<<"w">> :> DirNode) @@ (<<"w", "f">> :> FileOf("old")) @@ (<<"w", "AGENTS">> :> FileOf("rules"))
  @@ (<<"w", "a">> :> DirNode) @@ (<<"w", "a", "f">> :> FileOf("new"))
  @@ (<<"w", "out">> :> LinkTo(<<"o">>)) @@ (<<"w", "in">> :> LinkTo(<<"w", "a">>))
  @@ (<<"o">> :> DirNode) @@ (<<"o", "f">> :> FileOf("new"))

MCRoot == <<"w">>
MCRaws == {<<"f">>, <<"b", "AGENTS", "f">>, <<"out", "f">>, <<"in", "f">>, <<"AGENTS">>, <<"out">>}

\* Characters of one to three bytes, an output under and one over the ceiling.
MCOutputs == {<<1>>, <<1, 2, 3, 1>>}
MCForeign == <<9>>
MCFile == <<<<1>>, <<1, 2>>, <<1>>>>

-------------------------------------------------------------------------------
mcpVars == <<child, nextId, asked, answered, stdout, noise, holder, request>>
shellVars == <<token, expired, group, run>>
registryVars == <<allowed, session, call, builds>>
codeVars == <<kernel, handle, registry, points, pointId, idLock, setting, debugger>>
fileVars == <<tree, write, scan>>
spillVars == <<spilled, outcomes, leads, search, reader, scroll>>
vars == <<focus, mcpVars, shellVars, registryVars, codeVars, fileVars, spillVars>>

Init ==
  /\ focus \in {"mcp", "shell", "registry", "code", "files", "spill"}
  /\ Mcp!Init /\ Shell!Init /\ Registry!Init /\ Code!Init /\ Files!Init /\ Spill!Init

OneOf(name) == focus = name /\ UNCHANGED focus

Next ==
  \/ OneOf("mcp") /\ Mcp!Next
     /\ UNCHANGED <<shellVars, registryVars, codeVars, fileVars, spillVars>>
  \/ OneOf("shell") /\ Shell!Next
     /\ UNCHANGED <<mcpVars, registryVars, codeVars, fileVars, spillVars>>
  \/ OneOf("registry") /\ Registry!Next
     /\ UNCHANGED <<mcpVars, shellVars, codeVars, fileVars, spillVars>>
  \/ OneOf("code") /\ Code!Next
     /\ UNCHANGED <<mcpVars, shellVars, registryVars, fileVars, spillVars>>
  \/ OneOf("files") /\ Files!Next
     /\ UNCHANGED <<mcpVars, shellVars, registryVars, codeVars, spillVars>>
  \/ OneOf("spill") /\ Spill!Next
     /\ UNCHANGED <<mcpVars, shellVars, registryVars, codeVars, fileVars>>

Spec == Init /\ [][Next]_vars /\ Mcp!Fairness /\ Shell!Fairness

-------------------------------------------------------------------------------
(* Properties: those of the tools, under the names they have there.           *)

\* An MCP call returns what the server answered to that call and nothing else,
\* across timeouts, late replies, noise and other callers.
ReplyIsOwn == Mcp!ReplyIsOwn

\* Whoever asks the MCP client to shut down gets it, however long requests hold
\* the lock; and a cancelled or overdue command ends.
ToolsEnd == Mcp!ShutdownReaps /\ Shell!ShellEnds

\* No process outlives its shell call, no cancelled call reports a timeout, and
\* success is the shell's own doing.
ShellEndsClean == Shell!ShellEndsClean

\* Breakpoints of concurrent callers never meet, a kill is final, and compaction
\* forgets no running turn.
SessionsAreKept == Code!SessionsAreKept

\* The risk a call was gated by is the risk of the body that runs.
RiskIsOwn == Registry!RiskIsOwn

\* Files outside the workspace, protected files and half-written contents: a write
\* leaves none of them touched; a search finds exactly what matches; and spilled
\* output comes back whole and in order.
FilesAreTrue == Files!FilesAreWhole /\ Files!SearchIsExact /\ Spill!SpillsAreRecalled
===============================================================================
