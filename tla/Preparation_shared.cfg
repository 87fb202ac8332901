SPECIFICATION FairSpec
CONSTANTS
  Runners = {r1, r2}
  r1 = r1
  r2 = r2
  Keys = {1, 2}
  Extracted = Extracted
  Nobody = Nobody
  NoDir = NoDir
  Dirs = {11, 12, 13, 14, 15, 16, 17, 18, 19}
  FirstImage = 1
  MaxRepublish = 1
  MaxCrashes = 1
INVARIANTS
  RecordedIsWhole
  MountedStays
PROPERTIES
  LockIsReleased
