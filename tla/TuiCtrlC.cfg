CONSTANTS
  CallIds = {c1}
  Keys = {}
  NoKey = nokey
  MaxCmds = 3
  Capacity = 4
SPECIFICATION TuiFairSpec
PROPERTY CtrlCInterruptsTurn
CHECK_DEADLOCK FALSE
