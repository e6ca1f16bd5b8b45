\* Two requests and a keepalive, two of them callers of one service: two credentials, so
\* that a login and a refresh can cross.
CONSTANTS
  Requests = {r1, r2}
  Keepalives = {k}
  Sharing = {k, r1}
  Common = common
  Nobody = nobody
  MaxIssued = 2
SPECIFICATION FairSpec
INVARIANTS
  RefreshIsShared
  TokensAreSaved
PROPERTIES
  LogoutIsFinal
  TasksEnd
