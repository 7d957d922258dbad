\* Four of six blocks over a map of two blocks; the second is the last entry of the
\* enclave's map.
CONSTANTS
  Capacity = 6
  Requests <- FirstWord
  Inds <- FirstFour
  WordsPerBlock = 3
  Vals <- ZeroOrPath
  Zero = 0
  Paths <- TwoPaths
  MaxPosMap = 2
  BlocksPerNode = 1
  StashCap = 2
  Junk <- OnlyOne
SPECIFICATION Spec
CONSTRAINT NothingSpilled
INVARIANTS
  TypeOK
  MapsLeadToBlocks
PROPERTY
  ImplementsORAM
