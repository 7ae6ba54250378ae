\* Three threads on one synchronized list of up to two items, null ones among them.
SPECIFICATION FairSpec
CONSTANTS
  Thread = {main, a, b}
  Main = main
  NULL = NULL
  MaxTimer = 2
  MaxDevices = 0
  lock = lk
  Item = {x, y}
  MaxItems = 2
INVARIANTS
  TypeOK
  NobodyStuck
PROPERTIES
  MapcarUndisturbed
  Implements
