SPECIFICATION LongWaitsSpec
CONSTANTS
  Runners = {r1}
  Jobs = {j1}
  Trials = {t1}
  NoLease = NoLease
  SharedCache = FALSE
  MaxDeliveries = 2
  MaxLeases = 1
  MaxLost = 1
  MaxAway = 1
  MaxForgets = 1
  MaxCrashes = 0
  MaxRevoked = 1
PROPERTIES
  StopIsHeard
  StoppedJobGoesBack
CHECK_DEADLOCK FALSE
