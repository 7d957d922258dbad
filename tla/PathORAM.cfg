\* Three blocks and a stash of two contend for three buckets of one block; a fourth has
\* the last entry of the map.
CONSTANTS
  Inds <- FourSparseInds
  WordsPerBlock = 1
  Vals <- OneBit
  Zero = 0
  Height = 3
  Paths <- ThreeLevelPaths
  MaxPosMap = 7
  BlocksPerNode = 1
  StashCap = 2
  Junk <- JustPath
SPECIFICATION Spec
INVARIANTS
  TypeOK
  OneCopy
  OnLabelledPath
  NothingLost
  StashLoadExact
  StashOnlyWhenRootFull
  WorkingSetFits
PROPERTY
  ImplementsORAM
