\* Two files of classes and functions: are the edges of their calls stored?
SPECIFICATION Spec
CONSTANTS
  Files <- MCFiles
  Repos <- MCRepos
  BatchSize = 2
  ConnectRetries = 2
  Depth = 2
INVARIANTS
  CallsStored
