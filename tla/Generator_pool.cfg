\* Two requests share one worker; each may retry once.
SPECIFICATION FairSpec
CONSTANTS
  Requests = {r1, r2}
  Workers = 1
  MaxRetries = 1
  ClientErrors = {"rate_limit", "timeout"}
  ClientMayFail = TRUE
INVARIANTS
  ResultIsLastAttempts WorkersAccounted
PROPERTIES
  OnlyWantedInvoked GenerateReturns
CHECK_DEADLOCK FALSE
