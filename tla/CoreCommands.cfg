SPECIFICATION Spec
CONSTANTS
  Blocks <- OneBlock
  NSets = 2
  NWays = 2
  BlockWords = 1
  NumBlocks = 2
  NO_SEED_LOADING = FALSE
  FwWrites = {"SET_INIT", "SET_CACHE_ACTIVE", "SINC_RESET", "SINC_REINIT", "ENCR_BLOCK", "DIS_RESET", "AES_TEST", "NONE"}
  CpuOps = {"RD"}
  Events = {"OK", "ERR", "WERR"}
  Faults = {}
  Disturbances = {"AES_ERR", "LP_RESET", "LP_IN_ERASE"}
INVARIANTS
  CryptoInStep
  InProgressIsReal
  KeyIsLoaded
