\* Two sessions, one of which may roll back a tree that git did not make.
CONSTANTS
  Sessions = {r, q}
  Branches = {p, o}
  MaxTrees = 2
  MaxTime = 1
SPECIFICATION Spec
INVARIANT RollbackIsContained
CHECK_DEADLOCK FALSE
