SPECIFICATION RefSpec
CONSTANTS
  Blocks <- TableBlocks
  NSets = 2
  NWays = 3
  BlockWords = 2
  NO_SEED_LOADING = TRUE
  CntrMax = 4
  MaxWords = 6
INVARIANTS
  PredictionIsRight
  CountersAgree
