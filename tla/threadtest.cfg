\* nachos with -rs, under preemption at random, and without it.
SPECIFICATION FairSpec
CONSTANTS
  Thread = {main, one, two}
  Main = main
  One = one
  Two = two
  NULL = NULL
  MaxTimer = 3
  MaxDevices = 0
  Lock = {l}
  locktest1 = l
  Loops = 5
INVARIANTS
  AllDone
  PingPong
PROPERTIES
  TestCompletes
