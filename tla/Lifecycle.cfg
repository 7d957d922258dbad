\* Two objects of any of many sizes, made, used and deleted in any order.
CONSTANTS
  Capacities <- UpTo40
  Widths <- OneToFour
  MaxPosMap = 3
  ClientMaxPath = 5
  BlocksPerNode = 2
  MaxObjects = 2
  MaxAccesses = 6
SPECIFICATION ObjectsSpec
INVARIANTS
  ClientServesAll
  MapsCoverBlocks
  MemoryReturned
