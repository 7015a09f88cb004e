CONSTANTS
  Retries = 2
  Allowance = 4
  Prices = {1, 2}
SPECIFICATION JsonSpec
CHECK_DEADLOCK FALSE
INVARIANTS
  RequestsBounded
  ReturnedIsExact
  LossIsLast
