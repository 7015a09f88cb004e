CONSTANTS
  a = a
  b = b
  c = c
  d = d
  Ids <- MCIds
  MaxSubtasks = 4
  MaxListed = 5
SPECIFICATION Spec
CHECK_DEADLOCK FALSE
SYMMETRY Symmetry
INVARIANTS
  AcceptsExactly
  NeverStuck
  LayersInOrder
