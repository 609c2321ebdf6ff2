\* Two racing requests, two database failures, a crash, and rows deleted meanwhile.
SPECIFICATION Spec
CONSTANTS
  Requests = {r1, r2}
  Files = {f1, f2}
  Unparseable = {f2}
  CwdFiles = {f1}
  MaxFaults = 2
  MaxCrashes = 1
  AmbiguousCommit = FALSE
  RmtreeMayFail = FALSE
  RowsMayVanish = TRUE
SYMMETRY RequestSymmetry
INVARIANTS
  RepoJobInStep StageMatchesStatus ReadyHasFiles UnsettledHasWorker CloneDirsOwned
PROPERTIES
  StatusMovesForward
CHECK_DEADLOCK FALSE
