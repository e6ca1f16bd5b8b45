\* A session and two config commands over its files, a model with a key and one without;
\* two processes, and an inode for each of the files they open and put in place; time for
\* a copy and for a back-off to run out; two calls of one role, whose token is replaced
\* while one is on its way; two updates of the credentials, and a third begun meanwhile; two calls
\* whose pieces come mixed; a command that can be typed, and opens the picker; a screen
\* too small to draw, one without room for the transcript, and one that scrolls, where
\* three rows are more than a counter holds.
CONSTANTS
  Scopes = {session}
  Limit <- MCLimit
  Requests = {q1, q2, q3}
  MaxU64 = 15
  Inputs = {1, 2, 15}
  Outputs = {2, 15}
  Reports = {0, 2, 9, 15}
  Prompts = {1, 3}
  MaxStubs = 1
  Sessions = {"s"}
  Wizards = {"w", "v"}
  Models = {"free", "paid", "demo"}
  Keyless = {"free"}
  Mock = {"demo"}
  Processes = {"p", "q"}
  Inodes = {"i", "j", "k", "l"}
  MemoryTtl = 1
  MaxTime = 1
  Tasks = {"p", "q"}
  Ttl = 2
  RetryDelay = 2
  MaxDevTime = 3
  Selectable <- MCSelectable
  Callers = {"c", "d"}
  Roles = {"default"}
  Services = {"nous", "other"}
  States = {"s"}
  MaxVersion = 2
  Indexes = {1, 2}
  MaxStream = 5
  MaxMessages = 6
  MaxCalls = 2
  Profiles = {"nous", "openrouter", "nvidia", "anthropic"}
  Letters = {"m"}
  Commands <- MCCommands
  ModelName = "m"
  Entries <- MCEntries
  MaxLine = 3
  MaxItems = 2
  MaxBody = 2
  Heights = {2, 6, 9}
  Width = 3
  Smallest = 3
  Welcoming = 8
  Rows <- MCRows
SYMMETRY RequestSymmetry
SPECIFICATION ClientsSpec
INVARIANTS
  BudgetHolds
  ListingsHold
  CredentialsHold
  
  
PROPERTY ConfigIsSafe
CHECK_DEADLOCK FALSE
