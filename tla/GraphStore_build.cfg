\* Repositories of two and three files, built and persisted with failures.
SPECIFICATION Spec
CONSTANTS
  Files <- MCFiles
  Repos <- MCRepos
  BatchSize = 2
  ConnectRetries = 2
  Depth = 2
INVARIANTS
  ChainsAreCycles CyclesFound FallbackAnswersAlike MethodsInherited BuildersAgree
PROPERTIES
  PersistsTheGraph
