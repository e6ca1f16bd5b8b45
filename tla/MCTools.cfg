\* A connection and two requests, so that one may follow another that timed out, and a
\* line that answers nobody; one command and what it forks, as commands share nothing but
\* their token; two threads that take ids at once, two turns of one kernel.
CONSTANTS
  Callers = {"c1", "c2"}
  MaxIds = 3
  MaxNoise = 1
  Runs = {"r1"}
  Tokens = {"t1"}
  Kids = {"k1", "k2"}
  Sessions = {"s1"}
  Servers <- MCServers
  ToolNames <- MCToolNames
  Letters = {"a", "b", "c"}
  Builtins <- MCBuiltins
  MaxListed = 2
  MaxBuilds = 2
  Threads = {"t1", "t2"}
  Handles = {"h1", "h2"}
  MaxPoints = 2
  Writers = {"t1", "t2"}
  Root <- MCRoot
  Tree0 <- MCTree
  Raws <- MCRaws
  Contents = {"new"}
  Matching = {"new"}
  Cap = 2
  MaxVisited = 8
  MaxDepth = 1
  Paths = {"p", "q"}
  Outputs <- MCOutputs
  Foreign <- MCForeign
  PagedFile <- MCFile
  Ceiling = 4
  MemoryLimit = 3
  MaxLimit = 2
  Limits = {1, 3}
SPECIFICATION Spec
INVARIANTS
  ReplyIsOwn
  ShellEndsClean
  
  
PROPERTIES
  ToolsEnd
  SessionsAreKept
CHECK_DEADLOCK FALSE
