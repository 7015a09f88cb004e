CONSTANTS
  a = a
  b = b
  c = c
  f1 = f1
  f2 = f2
  base = base
  this = this
  that = that
  Tasks = {a, b, c}
  Order <- MCOrder
  Hunks = {f1, f2}
  Versions = {base, this, that}
  Base <- MCBase
  Markers = markers
  Absent = absent
SPECIFICATION Spec
CHECK_DEADLOCK FALSE
INVARIANTS
  Provenance
  Delivered
