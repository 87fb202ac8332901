SPECIFICATION LongWaitsSpec
CONSTANTS
  Runners = {r1}
  Jobs = {j1}
  Trials = {}
  NoLease = NoLease
  SharedCache = TRUE
  MaxDeliveries = 2
  MaxLeases = 2
  MaxLost = 0
  MaxAway = 0
  MaxForgets = 0
  MaxCrashes = 0
  MaxRevoked = 0
PROPERTIES
  StoppedJobGoesBack
CHECK_DEADLOCK FALSE
