SPECIFICATION Spec
CONSTANTS
  k1 = k1
  k2 = k2
  Caller = {k1, k2}
  Failure <- MCFailure
  DurationLimit = 40
  Surroundings <- MCSurroundings
  Amount <- MCAmount
SYMMETRY Same
INVARIANTS LayersAgree RetryPolicy
CHECK_DEADLOCK FALSE
