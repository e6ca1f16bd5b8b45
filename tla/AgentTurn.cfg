\* Two turns of at most two requests, each answered by up to two calls over three
\* identifiers and the empty one: enough for the second request to reuse an id of the
\* first or of the turn before, and for a third call after both.
CONSTANTS
  Ids = {c1, c2, c3}
  EmptyId = empty
  MaxTurns = 2
  MaxIters = 2
  MaxCalls = 2
SPECIFICATION FairSpec
INVARIANTS
  FinishedTurnCommits
  OnlyApprovedRuns
  EventsMirrorTranscript
  TurnIsClosed
  AtMostOneLateTool
PROPERTIES
  TurnIsTransaction
  TurnEnds
CHECK_DEADLOCK FALSE
