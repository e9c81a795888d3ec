CONSTANTS
  t1 = t1
  t2 = t2
  Sockets = {t1, t2}
  MaxRuns = 2
  MaxRunners = 2
  MaxRounds = 2
  MaxFaults = 1
SPECIFICATION FairSpec
INVARIANTS
  WaitingIsAnswerable
  
PROPERTIES
  EveryStartIsAnswered
