\* Two blocks whose labels share one block of the ORAM below, and no bound on what the
\* evictions leave in the stash.
CONSTANTS
  Capacity = 4
  Requests <- Writes01
  Inds <- FirstTwo
  WordsPerBlock = 2
  Vals <- ZeroOrPath
  Zero = 0
  Paths <- TwoPaths
  MaxPosMap = 2
  BlocksPerNode = 1
  StashCap = 4
  Junk <- OnlyOne
SPECIFICATION SSpec
INVARIANT OldContentLoaded
