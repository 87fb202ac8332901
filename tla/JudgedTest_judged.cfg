SPECIFICATION FairSpec
CONSTANTS
  Problems <- Ordinary
  Grain = 3
  Horizon = 120
INVARIANTS
  AcceptedIsEarned
  BlameIsEarned
  ErrorsHaveCauses
  NothingOutlives
  TestIsBounded
PROPERTIES
  TestEnds
CHECK_DEADLOCK FALSE
