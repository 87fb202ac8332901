SPECIFICATION RulesSpec
CONSTANTS
  Asked = 120
  Shortest = 12
  Longest = 720
  Floor = 1
  Prompt = 1
  Hang = 12
  MaxMisses = 3
  Rules = {"lease", "reap", "start", "score", "limits", "tests", "compare", "strip", "report", "lanes"}
  MaxLimit = 2
  Untimed = 4
  Images = {"ours", "theirs"}
  Operators = {"theirs"}
  MaxStarts = 3
  MaxForgets = 1
  MaxSource = 7
  MostTests = 2
INVARIANTS
  TwoMissesAreSafe
  ReapedWithCause
  ScoreIsEarned
  LimitsHold
  TestsAreCounted
  ComparedAsWhole
  StrippedInPlace
  
  LanesAreCut
  OneIdentity
  NothingClaimedUnproven
CHECK_DEADLOCK FALSE
