SPECIFICATION Spec
CONSTANTS
  Models = 2
  Tests <- TwoGroups
  MaxTime = 1
  MaxMemory = 1
INVARIANTS
  MemoryIsMeasured
CHECK_DEADLOCK FALSE
