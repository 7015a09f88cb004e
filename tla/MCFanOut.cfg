CONSTANTS
  t1 = t1
  t2 = t2
  t3 = t3
  t4 = t4
  Tasks <- MCTasks
  Deps <- MCDeps
  MaxConcurrency = 2
  MaxTurns = 1
  Retries = 1
  Ceiling = 2
  Costs = {0, 1}
  Contended <- MCContended
SPECIFICATION FairSpec
CHECK_DEADLOCK FALSE
INVARIANTS
  IInv
  ConcurrencyBound
  PaidCallsHaveARow
  AccountsBalance
  StuckRowsAreOrphans
  OverspendBounded
  DependencyOrder
PROPERTIES
  Exits
