\* Three threads on each of three hosts; stacks that just hold the deepest frames.
SPECIFICATION Spec
CONSTANTS
  Thread = {main, a, b}
  Main = main
  StackSize = 40
INVARIANTS
  ContextKept
  EntersProcedure
  InBounds
PROPERTIES
  ReturnsToCaller
