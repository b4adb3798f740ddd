SPECIFICATION FwSpec
CONSTANTS
  Blocks <- ExtBlocks
  NSets = 2
  NWays = 2
  BlockWords = 3
  NO_SEED_LOADING = FALSE
  CntrMax = 1000
  MaxWords = 1000
  Accesses = 5
  DefectsOf <- FoundBy
  Jobs <- AllJobs
INVARIANTS
  ChecksHold
  NoLostWrite
  DefectIsReported
PROPERTIES
  LifecycleUntilReset
  TestsEnd
CHECK_DEADLOCK FALSE
