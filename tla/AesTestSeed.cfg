SPECIFICATION FairSpec
CONSTANTS
  Blocks <- OneBlock
  NSets = 2
  NWays = 2
  BlockWords = 1
  NumBlocks = 2
  NO_SEED_LOADING = FALSE
  FwWrites = {"AES_TEST"}
  CpuOps = {}
  Events = {"OK"}
  Faults = {}
  Disturbances = {}
PROPERTIES
  AesTestGetsItsSeed
