SPECIFICATION Spec
CONSTANTS
  Runners = {A, B}
  Lanes = {0}
  Runs = {r1, r2}
  NoRun = NoRun
  NoRunner = NoRunner
  Kinds = {"judged", "build", "checker"}
  MaxTroubles = 4
  MaxTogether = 1
CONSTRAINT FewTroubles
SYMMETRY Alike
INVARIANTS
  OutcomeFits
  NothingHidden
  ReadingIsAlone
  NothingLeftBehind
  WaitIsServed
CHECK_DEADLOCK FALSE
