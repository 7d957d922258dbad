\* Buckets of two: first-fit slots, emptied slots that keep their keys.
CONSTANTS
  Inds <- ThreeApart
  WordsPerBlock = 1
  Vals <- Bit
  Zero = 0
  Height = 2
  Paths <- TwoPaths
  MaxPosMap = 6
  BlocksPerNode = 2
  ClientMaxPath = 3
  Junk <- OneJunk
SPECIFICATION Spec
INVARIANTS
  CountersAgree
  KeysMarkPresence
  BuffersOwned
PROPERTIES
  ImplementsPathORAM
