SPECIFICATION Spec
CONSTANTS
  Blocks <- MCBlocks
  NSets = 2
  NWays = 2
  BlockWords = 1
  CWrapErrs <- MCErrs
  NO_SEED_LOADING = FALSE
INVARIANTS
  CmuTypeOK
  CommandRunsInItsMode
PROPERTIES
  DisablesAreFinal
  ImplementsLifecycle
