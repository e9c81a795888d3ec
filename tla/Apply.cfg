CONSTANTS
  preview = preview
  deploy = deploy
  NoOne = NoOne
  Requests = {preview, deploy}
  Confirmed = {deploy}
  Saved = {preview, deploy}
  Rounds = 2
  MaxMishaps = 2
SPECIFICATION FairSpec
INVARIANTS
  ConfirmGate
  LeaseExcludes
  DoneMeansApplied

  
CHECK_DEADLOCK FALSE
