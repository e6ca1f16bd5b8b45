\* One person at the keyboard: as many keys that send a command as there are commands,
\* and a stream short enough for the terminal to fall behind it.
CONSTANTS
  CallIds = {c1}
  Keys = {}
  NoKey = nokey
  MaxCmds = 3
  Capacity = 4
SPECIFICATION TuiFairSpec
INVARIANT ScreenAgrees
PROPERTY BothSidesEnd
CHECK_DEADLOCK FALSE
