\* Every plan of three steps, with cycles, forward references and an absent id.
SPECIFICATION FairSpec
CONSTANTS
  NumSteps = 3
  Absent = {0}
  Strategies = {"bm25", "hybrid"}
  RouterMayRaise = TRUE
INVARIANTS
  DependenciesFirst CycleIffKnot ContextForwarded SkippedAfterRetry
PROPERTIES
  ExecuteReturns
CHECK_DEADLOCK FALSE
