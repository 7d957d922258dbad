----------------------------- MODULE MCPathORAM -----------------------------
(***************************************************************************)
(* Instances of PathORAM for TLC.  The block ids of a configuration are    *)
(* chosen among these sets; ids are apart by two or more except where the  *)
(* point is what happens when they are not (module MCNeighbours).          *)
(***************************************************************************)
EXTENDS PathORAM

OneBit == {0, 1}
ThreeLevelPaths == {1, 3, 4}
FourSparseInds == {0, 2, 4, 6}
JustPath == {1}
=============================================================================
