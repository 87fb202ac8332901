SPECIFICATION FairSpec
CONSTANTS
  N = 4
  LaneCount = 3
  Flaws <- AtMostTwo
INVARIANTS
  OneTestPerLane
  NoLaneIsLost
PROPERTIES
  JudgedInTurn
  Answered
CHECK_DEADLOCK FALSE
