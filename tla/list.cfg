\* Up to four elements on a list at once, one of the items a null pointer.
SPECIFICATION Spec
CONSTANTS
  Element = {e1, e2, e3, e4}
  Item = {i, NULL}
  Key = {0, 1, 2}
  NULL = NULL
SYMMETRY Symmetry
INVARIANTS
  WellLinked
  StaysSorted
PROPERTIES
  Implements
  
