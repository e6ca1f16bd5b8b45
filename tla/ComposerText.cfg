\* Ordinary text that Enter runs as a command.
CONSTANTS
  Scopes = {session}
  Limit <- MCLimit
  Requests = {q1}
  MaxU64 = 15
  Inputs = {1}
  Outputs = {2}
  Reports = {0}
  Prompts = {1}
  MaxStubs = 1
  Sessions = {"s"}
  Wizards = {"w", "v"}
  Models = {"free", "paid", "demo"}
  Keyless = {"free"}
  Mock = {"demo"}
  Processes = {"p", "q"}
  Inodes = {"i", "j", "k", "l"}
  MemoryTtl = 1
  MaxTime = 1
  Tasks = {"p", "q"}
  Ttl = 2
  RetryDelay = 2
  MaxDevTime = 3
  Selectable <- MCSelectable
  Callers = {"c", "d"}
  Roles = {"default"}
  Services = {"nous", "other"}
  States = {"s"}
  MaxVersion = 2
  Indexes = {1, 2}
  MaxStream = 5
  MaxMessages = 6
  MaxCalls = 2
  Profiles = {"nous", "openrouter", "nvidia", "anthropic"}
  Letters = {"m"}
  Commands <- MCCommands
  ModelName = "m"
  Entries <- MCEntries
  MaxLine = 3
  MaxItems = 2
  MaxBody = 2
  Heights = {2, 6, 9}
  Width = 3
  Smallest = 3
  Welcoming = 8
  Rows <- MCRows
SPECIFICATION TypingSpec
INVARIANT OrdinaryTextIsSubmitted
CHECK_DEADLOCK FALSE
