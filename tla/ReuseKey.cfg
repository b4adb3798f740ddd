SPECIFICATION FwSpec
CONSTANTS
  Blocks <- ExtBlocks
  NSets = 2
  NWays = 2
  BlockWords = 3
  NO_SEED_LOADING = FALSE
  CntrMax = 1000
  MaxWords = 1000
  Accesses = 1
  DefectsOf <- NoDefect
  Jobs <- ReuseJobs
PROPERTIES
  TestsEnd
CHECK_DEADLOCK FALSE
