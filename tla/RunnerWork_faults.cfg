SPECIFICATION FairSpec
CONSTANTS
  Runners = {r1}
  Jobs = {j1}
  Trials = {}
  NoLease = NoLease
  SharedCache = TRUE
  MaxDeliveries = 2
  MaxLeases = 3
  MaxLost = 1
  MaxAway = 1
  MaxForgets = 1
  MaxCrashes = 1
  MaxRevoked = 0
INVARIANTS
  OutageIsNeverAFailure
  KeptOnlyWhileHeld
PROPERTIES
  AnswerCarried
  HeldComesBack
CHECK_DEADLOCK FALSE
