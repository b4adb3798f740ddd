SPECIFICATION FifoSpec
CONSTANTS
  Data <- Words
  Zero = 0
  Depth = 2
  Ratio = 2
  PushWide = FALSE
INVARIANTS
  FlagsAgree
PROPERTIES
  ImplementsQueue
