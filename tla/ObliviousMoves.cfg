CONSTANTS
  Length = 3
  Val <- SmallValues
  Contents <- SomeContents
  Junk = 0
SPECIFICATION Spec
INVARIANTS
  SameTrace
  MovesAsAsked
  SwapsPair
