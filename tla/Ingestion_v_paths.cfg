\* Every file of the clone is parseable; one of them does not exist in the working directory.
SPECIFICATION Spec
CONSTANTS
  Requests = {r1, r2}
  Files = {f1, f2}
  Unparseable = {}
  CwdFiles = {f1}
  MaxFaults = 0
  MaxCrashes = 0
  AmbiguousCommit = FALSE
  RmtreeMayFail = FALSE
  RowsMayVanish = FALSE
INVARIANTS
  DiscoveredFilesParsed
CHECK_DEADLOCK FALSE
