\* One semaphore; the thread that V wakes finds the value 0 again.
SPECIFICATION Spec
CONSTANTS
  Thread = {main, a, b}
  Main = main
  NULL = NULL
  MaxTimer = 2
  MaxDevices = 0
  Semaphore = {s}
  MaxValue = 1
INVARIANTS
  WakeupConsumesV
