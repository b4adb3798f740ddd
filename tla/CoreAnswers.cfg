SPECIFICATION FairSpec
CONSTANTS
  Blocks <- TwoBlocks
  NSets = 2
  NWays = 2
  BlockWords = 1
  NumBlocks = 2
  NO_SEED_LOADING = TRUE
  FwWrites = {"SET_INIT", "SET_CACHE_ACTIVE"}
  CpuOps = {"RD", "WR"}
  Events = {"OK"}
  Faults = {}
  Disturbances = {"TAMPER", "MPU"}
PROPERTIES
  ReadsAreAnswered
  PendingIsServed
