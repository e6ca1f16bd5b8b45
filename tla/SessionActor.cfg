CONSTANTS
  CallIds = {c1, c2}
  Keys = {k1}
  NoKey = nokey
  MaxCmds = 3
SPECIFICATION Spec
SYMMETRY IdSymmetry
INVARIANTS
  TaskIsOwned
  StreamIsFramed
  PromptsAreLive
  PermissionsHold
  DoneIsNotStarved
CHECK_DEADLOCK FALSE
