\* Two locks and three threads, which may hold both or ask again for their own.
SPECIFICATION FairSpec
CONSTANTS
  Thread = {main, a, b}
  Main = main
  NULL = NULL
  MaxTimer = 2
  MaxDevices = 1
  Lock = {l, m}
INVARIANTS
  MutualExclusion
  QueueSound
  NoLostWakeup
  HaltMeansDeadlock
PROPERTIES
  Implements
