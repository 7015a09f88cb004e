CONSTANTS
  t1 = t1
  t2 = t2
  shared = shared
  new = new
  Tasks <- MCTasks
  Order <- MCOrder
  Options <- MCOptions
  MaxPlanRevisions = 0
  CapSet = FALSE
  Committers <- MCTasks
  Known <- MCKnown
  Fresh <- MCFresh
  Pinned = FALSE
  Named = {"ship", "iterate"}
  Nobody = nobody
  Markers = markers
  Absent = absent
SPECIFICATION FairSpec
CHECK_DEADLOCK FALSE
INVARIANTS
  BranchIsJudged
PROPERTIES
  ImplementsPipeline
