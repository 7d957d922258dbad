\* Blocks 0 and 1: the swap of entry 0 replaces entry 1, here by zero.
CONSTANTS
  Inds <- FirstTwo
  WordsPerBlock = 1
  Vals <- Bit
  Zero = 0
  Height = 2
  Paths <- TwoPaths
  MaxPosMap = 3
  BlocksPerNode = 1
  StashCap = 3
  Junk <- NoJunk
SPECIFICATION NSpec
INVARIANT OldContentLoaded
