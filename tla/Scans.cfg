CONSTANTS
  a = a
  b = b
  page = page
  Nobody = Nobody
  Servers = {a, b}
  Hosts <- MCHosts
  Sockets = {page}
  MaxRuns = 2
  MaxNotes = 1
  Replay = 1
  MaxMishaps = 2
SPECIFICATION FairSpec
INVARIANTS
  WorkersHoldLease
  ReplayIsWhole
  CompletedIsWhole
PROPERTIES
  InterruptedStays
  StatusSettles
CHECK_DEADLOCK FALSE
