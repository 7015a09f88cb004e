CONSTANTS
  Procs <- MCProcs
  Cap = 2
  Ceiling = 3
  Projection = 2
  MaxForced = 0
  MaxMisses = 1
  Tasks = 2
SPECIFICATION BenchSpec
CHECK_DEADLOCK FALSE
INVARIANTS
  OvershootBounded
  RealSpendBounded
  StopsWhenExhausted
  PatchIsBilled
PROPERTIES
  DriverEnds
