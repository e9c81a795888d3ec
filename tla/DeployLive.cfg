CONSTANTS
  d1 = d1
  d2 = d2
  w1 = w1
  w2 = w2
  Old = Old
  Nothing = Nothing
  Deployments = {d1}
  Workers = {w1, w2}
  Commands = {1, 2}
  MaxMishaps = 1
  MaxErrors = 0
  MaxCancels = 1
  MaxDoubled = 1
SPECIFICATION FairSpec
PROPERTIES
  ResumedEnds
  CancelledIsUntouched
CHECK_DEADLOCK FALSE
