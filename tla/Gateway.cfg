CONSTANTS
  r1 = r1
  r2 = r2
  Requests = {r1, r2}
  Kinds <- MCKinds
  Chain = 2
  MaxAttempts = 3
  RunMax = 5
  RunCost = 2
  MaxMeasured = 3
  MaxMishaps = 2
SPECIFICATION Spec
INVARIANTS
  
  
  PaidOnce
CHECK_DEADLOCK FALSE
