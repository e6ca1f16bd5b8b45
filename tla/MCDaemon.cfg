\* Two threads in one session, and a crash between any two of their steps.  The quotas'
\* window is over before their clock stops.  On the board time for a claim to go stale
\* twice, and for the second holder to lose it too.  Bodies shorter and longer than the
\* marker, and budgets that take no, some and all of them.
CONSTANTS
  Threads = {"t1", "t2"}
  SessionIds = {"s1"}
  MaxEvents = 3
  MaxCrashes = 1
  Askers = {"t1", "t2", "t3"}
  Quotas <- MCQuotas
  Window = 2
  MaxQuotaTime = 2
  MaxQueued = 3
  Agents = {"x", "y", "z"}
  Cards = {"c"}
  BoardFailures = 3
  StaleAfter = 2
  MaxBoardTime = 4
  Names = {"n", "m"}
  MaxTasks = 2
  Jobs = {"j"}
  Runners = {"r", "q"}
  Payloads = {"p", "o"}
  CronFailures = 2
  MaxFails = 4
  Sessions = {"r", "q"}
  Branches = {"p", "o"}
  MaxTrees = 2
  MaxTime = 1
  Clients = {"x", "y"}
  Bodies = {"a", "b"}
  Tags = {"t"}
  Size <- MCSize
  Huge = {"h"}
  File <- MCFile
  Handoff <- MCHandoff
  Limit = 1
  PackChars = 1
  MaxRows = 3
  Editors = {"e1", "e2"}
  Paths = {"p"}
  Loads <- MCLoads
  Edits <- MCEdits
  MaxLines = 2
  MaxLoads = 2
  SkillIds = {"i", "j"}
  Manifests <- MCManifests
  Caps = {5}
  MaxFiles = 2
  Workers = {"a"}
  Keys = {"k", "l"}
  MaxEntries = 4
  MaxMessages = 3
  Lengths = {0, 4, 12}
  Overhead = 1
  MarkerBytes = 3
  MarkerChars = 4
  Budgets = {3, 9, 14, 24}
  HeadRoom = 5
  TailRoom = 5
  Callers = {"c", "d"}
  Tokens = {"t"}
  Pids = {1}
  Plugins <- MCPlugins
  MaxGiven = 1
  Prefixes = {"p"}
  MaxCalls = 4
SPECIFICATION Spec
INVARIANTS
  
  WorkIsExclusive
  
  SkillsAreKept
  IsolationHolds
PROPERTY EditsAreOwn
CHECK_DEADLOCK FALSE
