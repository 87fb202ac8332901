SPECIFICATION Spec
CONSTANTS
  Runners = {r1}
  Jobs = {j1}
  Trials = {}
  NoLease = NoLease
  SharedCache = FALSE
  MaxDeliveries = 2
  MaxLeases = 1
  MaxLost = 0
  MaxAway = 0
  MaxForgets = 1
  MaxCrashes = 0
  MaxRevoked = 0
PROPERTIES
  AnswerSurvivesRestart
CHECK_DEADLOCK FALSE
