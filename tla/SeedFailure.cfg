SPECIFICATION FairSpec
CONSTANTS
  Blocks <- OneBlock
  NSets = 2
  NWays = 2
  BlockWords = 1
  NumBlocks = 2
  NO_SEED_LOADING = FALSE
  FwWrites = {"SET_INIT", "SET_CACHE_ACTIVE"}
  CpuOps = {"RD"}
  Events = {"OK", "ERR"}
  Faults = {}
  Disturbances = {"LP_RESET", "LP_IN_ERASE"}
PROPERTIES
  ReadsAreAnswered
