CONSTANTS
  t1 = t1
  t2 = t2
  Tasks <- MCTasks
  Options <- MCOptions
  MaxPlanRevisions = 1
  CapSet = TRUE
  Committers = {}
SPECIFICATION Spec
CHECK_DEADLOCK FALSE
INVARIANT ShippedIsDelivered
