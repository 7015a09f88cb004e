CONSTANTS
  w1 = w1
  w2 = w2
  w3 = w3
  NoWorker = NoWorker
  Workers <- MCWorkers
  Costs <- MCCosts
  Ceiling = 3
  MaxCharges = 2
SPECIFICATION FairGovernor
CHECK_DEADLOCK FALSE
INVARIANTS
  CeilingRespected
  ReportConsistent
PROPERTIES
  ImplementsBudget
  ChargeAnswered
