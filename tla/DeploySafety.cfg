CONSTANTS
  d1 = d1
  d2 = d2
  w1 = w1
  w2 = w2
  Old = Old
  Nothing = Nothing
  Deployments = {d1, d2}
  Workers = {w1, w2}
  Commands = {1, 2}
  MaxMishaps = 1
  MaxErrors = 1
  MaxCancels = 0
  MaxDoubled = 0
SPECIFICATION Spec
SYMMETRY BothSymmetry
PROPERTIES
  MutatesUnderLock
  HandsOverWhatItSays
  TerminalIsFinal
CHECK_DEADLOCK FALSE
