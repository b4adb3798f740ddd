SPECIFICATION Spec
CONSTANTS
  Blocks <- MCBlocks
  NSets = 2
  NWays = 2
  BlockWords = 1
  NumBlocks = 2
  NO_SEED_LOADING = TRUE
  FwWrites = {"SET_INIT", "SET_CACHE_ACTIVE", "SINC_RESET", "SINC_REINIT"}
  CpuOps = {"RD", "WR"}
  Events = {"OK", "ERR"}
  Faults = {}
  Disturbances = {"TAMPER", "MPU", "LP_RESET", "LP_IN_ERASE"}
INVARIANTS
  TypeOK
  ActiveReadsAreAuthentic
  NoResidueOutsideCache
  FetchRequestIsHeard
  FetchServesTheMiss
  TagsAreUnique
  TaggedLinesHoldTheirBlock
