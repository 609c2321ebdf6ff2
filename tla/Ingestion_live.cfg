\* Fair processes, one commit or statement that fails, stored or not, one crash.
SPECIFICATION FairSpec
CONSTANTS
  Requests = {r1, r2}
  Files = {f1, f2}
  Unparseable = {f2}
  CwdFiles = {f1}
  MaxFaults = 1
  MaxCrashes = 1
  AmbiguousCommit = TRUE
  RmtreeMayFail = TRUE
  RowsMayVanish = FALSE
INVARIANTS
  SomeoneIsAccepted
PROPERTIES
  AcceptedSettles RequestsAnswered ImplementsLifecycle
CHECK_DEADLOCK FALSE
