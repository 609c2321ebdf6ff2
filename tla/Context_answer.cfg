\* Two searches over two files, budgets from too small for the rules to ample.
SPECIFICATION Spec
CONSTANTS
  ChunkTokens = 4
  Continued = 3
  Newline = 1
  RrfConstant = 60
  MaxRank = 3
  Sources <- MCSources
  Budgets = {3, 13, 30}
  TopK = 2
  MaxContext = 3
  Rules = 3
  Examples = 2
  Prior = 1
  Marker = 3
  MaxRounds = 5
  MaxSteps = 2
  MaxHybrid = 1
  MaxHits = 3
INVARIANTS
  PromptFits CitationsSound NothingLostInChunks FusionIsFair
