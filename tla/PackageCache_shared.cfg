SPECIFICATION Spec
CONSTANTS
  Runners = {r1, r2}
  Packages = {p1, p2}
  r1 = r1
  r2 = r2
  p1 = p1
  p2 = p2
  NoPackage = NoPackage
  MaxCrashes = 1
INVARIANTS
  FileIsWhole
  NoStaleMarker
PROPERTIES
  ReadingIsNeverEvicted
SYMMETRY Interchangeable
