\* A thread removes an item from an empty list.
SPECIFICATION Spec
CONSTANTS
  Thread = {main, a}
  Main = main
  NULL = NULL
  MaxTimer = 2
  MaxDevices = 0
  lock = lk
  Item = {x}
  MaxItems = 1
PROPERTIES
  RemoveWaits
