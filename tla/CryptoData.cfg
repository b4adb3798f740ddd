SPECIFICATION DataSpec
CONSTANTS
  Ratio = 2
  AesBlocks = 3
  Nums = {0, 1, 2, 3}
  CntMod = 4
INVARIANTS
  NoBeatIsLost
  OutputInOrder
  TagIsOfTheBlock
  CleanStart
  AllBlocksWritten
PROPERTIES
  CommandsFinish
