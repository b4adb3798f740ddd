SPECIFICATION Spec
CONSTANTS
  Blocks <- TwoBlocks
  NSets = 2
  NWays = 1
  BlockWords = 1
  NumBlocks = 2
  NO_SEED_LOADING = TRUE
  FwWrites = {"SET_INIT", "SET_CACHE_ACTIVE", "SINC_RESET", "SINC_REINIT"}
  CpuOps = {"RD"}
  Events = {"OK", "ERR"}
  Faults = {"GLITCH", "ECC", "PARITY"}
  Disturbances = {"TAMPER", "CR_ERASE", "LP_RESET", "LP_IN_ERASE"}
INVARIANTS
  ActiveReadsAreAuthentic
  NoResidueOnceErased
  FetchRequestIsHeard
  TrackedFetchIsServed
