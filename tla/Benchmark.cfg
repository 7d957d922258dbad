\* Three rounds of each loop, in a build with assertions and in one without.
CONSTANTS
  x1 = x1
  x2 = x2
  x3 = x3
  NumBlocks <- ShortAndLong
  Rounds = 3
  Addrs <- ThreeChunks
SPECIFICATION Spec
INVARIANT PointerValid
