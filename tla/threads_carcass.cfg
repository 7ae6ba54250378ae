\* Without a timer, as nachos runs by default.
SPECIFICATION Spec
CONSTANTS
  Thread = {main, a, b}
  Main = main
  NULL = NULL
  MaxTimer = 0
  MaxDevices = 0
INVARIANTS
  NoCarcassLost
