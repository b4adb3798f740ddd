SPECIFICATION Spec
CONSTANTS
  Blocks <- FirstAndLast
  NSets = 8
  NWays = 1
  BlockWords = 1
  NumBlocks = 2
  NO_SEED_LOADING = TRUE
  FwWrites = {"SET_INIT", "SET_CACHE_ACTIVE", "SINC_RESET"}
  CpuOps = {"RD"}
  Events = {"OK"}
  Faults = {"GLITCH"}
  Disturbances = {}
INVARIANTS
  NoResidueOutsideCache
