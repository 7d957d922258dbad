\* Four blocks and more in a stash of three slots, and the last entry of the map: the
\* abnormal ends.
CONSTANTS
  Inds <- FiveApart
  WordsPerBlock = 1
  Vals <- JustZero
  Zero = 0
  Height = 2
  Paths <- TwoPaths
  MaxPosMap = 9
  BlocksPerNode = 1
  ClientMaxPath = 3
  Junk <- OneJunk
SPECIFICATION Spec
PROPERTIES
  ImplementsPathORAM
