\* Seven blocks over a map of three blocks.
CONSTANTS
  Capacity = 7
  Inds <- TwoAndSix
  WordsPerBlock = 3
  Vals <- ZeroOrPath
  Zero = 0
  Requests <- FirstWord
  Paths <- TwoPaths
  MaxPosMap = 4
  ClientMaxPath = 4
  BlocksPerNode = 1
  FlushThreshRoot = 1
  Junk <- OneJunk
SPECIFICATION Spec
INVARIANTS
  OneSlotOnLabelledPath
  CountersAgree
PROPERTIES
  FlushSinks
  ImplementsORAM
