SPECIFICATION DmaSpec
CONSTANTS
  Lens = {1, 2}
  LenMod = 4
  MinGap = 2
INVARIANTS
  RequestIsHeard
  BeatCountsAgree
PROPERTIES
  TransfersEnd
