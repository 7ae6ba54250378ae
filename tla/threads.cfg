\* nachos -rs: main and two threads it may fork, a timer with random periods,
\* and device interrupts that wake sleepers.
SPECIFICATION FairSpec
CONSTANTS
  Thread = {main, a, b}
  Main = main
  NULL = NULL
  MaxTimer = 2
  MaxDevices = 2
INVARIANTS
  TypeOK
  ReadyListSound
  CarcassSafe
  LevelKept
  InterruptsOffInScheduler
  HaltedIsQuiet
PROPERTIES
  NoOvertaking
  ReadyRuns
