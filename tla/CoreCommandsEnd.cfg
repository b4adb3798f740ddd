SPECIFICATION FairSpec
CONSTANTS
  Blocks <- OneBlock
  NSets = 2
  NWays = 2
  BlockWords = 1
  NumBlocks = 2
  NO_SEED_LOADING = TRUE
  FwWrites = {"SET_INIT", "SET_CACHE_ACTIVE", "SINC_RESET", "SINC_REINIT"}
  CpuOps = {"RD", "WR"}
  Events = {"OK", "ERR"}
  Faults = {}
  Disturbances = {"TAMPER", "LP_RESET", "LP_IN_ERASE", "MPU"}
PROPERTIES
  CommandsEnd
  FailedCanBeReset
