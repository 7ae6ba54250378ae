\* Two semaphores, three threads and device handlers that call V.
SPECIFICATION FairSpec
CONSTANTS
  Thread = {main, a, b}
  Main = main
  NULL = NULL
  MaxTimer = 2
  MaxDevices = 1
  Semaphore = {r, s}
  MaxValue = 2
INVARIANTS
  TypeOK
  QueueSound
  NoLostWakeup
  HaltMeansNoUnit
PROPERTIES
  Implements
