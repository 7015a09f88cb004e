CONSTANTS
  t1 = t1
  t2 = t2
  Tasks <- MCTasks
  Options <- MCOptions
  MaxPlanRevisions = 1
  CapSet = TRUE
  Committers <- MCCommitters
SPECIFICATION FairSpec
CHECK_DEADLOCK FALSE
INVARIANTS
  IInv
  MergeNeedsShip
  ExitIsTruthful
  SpendAlwaysRecorded
PROPERTIES
  ImplementsRunSpec
  Terminates
