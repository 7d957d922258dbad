CONSTANTS
  Arrays <- EdgeArrays
SPECIFICATION FairSpec
INVARIANT
  RoundTrip
PROPERTY
  CodecEnds
