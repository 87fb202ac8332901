SPECIFICATION Spec
CONSTANTS
  Runners = {r1, r2}
  Jobs = {j1}
  Trials = {}
  NoLease = NoLease
  SharedCache = TRUE
  MaxDeliveries = 2
  MaxLeases = 2
  MaxLost = 1
  MaxAway = 0
  MaxForgets = 0
  MaxCrashes = 1
  MaxRevoked = 0
SYMMETRY Interchangeable
INVARIANTS
  AttachedBeforeReported
PROPERTIES
  QueueSpec
CHECK_DEADLOCK FALSE
