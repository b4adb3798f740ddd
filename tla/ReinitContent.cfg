SPECIFICATION Spec
CONSTANTS
  Blocks <- OneBlock
  NSets = 2
  NWays = 2
  BlockWords = 1
  NumBlocks = 2
  NO_SEED_LOADING = TRUE
  FwWrites = {"SET_INIT", "SET_CACHE_ACTIVE", "SINC_REINIT"}
  CpuOps = {"RD"}
  Events = {"OK"}
  Faults = {}
  Disturbances = {}
PROPERTIES
  ReinitKeepsCache
