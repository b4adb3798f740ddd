SPECIFICATION FairSpec
CONSTANTS
  Blocks <- OneBlock
  NSets = 2
  NWays = 2
  BlockWords = 1
  NumBlocks = 2
  NO_SEED_LOADING = TRUE
  FwWrites = {"SET_INIT"}
  CpuOps = {"RD"}
  Events = {"OK", "ERR"}
  Faults = {}
  Disturbances = {"MPU"}
PROPERTIES
  PendingIsRefused
