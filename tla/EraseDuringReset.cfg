SPECIFICATION FairSpec
CONSTANTS
  Blocks <- OneBlock
  NSets = 2
  NWays = 2
  BlockWords = 1
  NumBlocks = 2
  NO_SEED_LOADING = TRUE
  FwWrites = {"SET_INIT", "SINC_RESET"}
  CpuOps = {}
  Events = {"OK"}
  Faults = {}
  Disturbances = {"CR_ERASE"}
PROPERTIES
  CommandsEnd
