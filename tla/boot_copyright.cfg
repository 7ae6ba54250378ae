\* nachos -z
SPECIFICATION Spec
CONSTANTS
  MaxArgs = 1
  NULL = NULL
INVARIANTS
  CopyrightPrinted
