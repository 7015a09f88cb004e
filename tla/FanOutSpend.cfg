CONSTANTS
  t1 = t1
  t2 = t2
  t3 = t3
  t4 = t4
  Tasks <- MCTasks
  Deps <- MCDeps
  MaxConcurrency = 2
  MaxTurns = 2
  Retries = 1
  Ceiling = 4
  Costs = {1}
  Contended <- MCContended
SPECIFICATION Spec
CHECK_DEADLOCK FALSE
INVARIANT SpendRecordedIsFinal
