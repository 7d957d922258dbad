------------------------------ MODULE TreePath ------------------------------
(***************************************************************************)
(* The binary tree of buckets a path label walks through.  A label is a    *)
(* nonzero random word; the walk starts at the root and takes, at each     *)
(* level, the child its next lowest bit names, so the node a label meets   *)
(* at level h is determined by its h lowest bits.                          *)
(*                                                                         *)
(* A node is named by its level and those bits.  The code numbers the same *)
(* nodes addr * 2 + 1 + bit, which is a function of the same two.          *)
(***************************************************************************)
EXTENDS OramShape

CONSTANTS
  Height,  \* the number of levels, ComputeTreeHeight(capacity_)
  Paths    \* the labels GenerateMyRand can draw: nonzero words

ASSUME TreeAssumption ==
  /\ Height \in Nat \ {0}
  /\ Paths \subseteq Nat \ {0}
  /\ Paths # {}

Levels == 0 .. Height - 1

(***************************************************************************)
(* path_mask = (leading_one << h) - 1, and the bits of a label under it.   *)
(***************************************************************************)
Masked(p, h) == p % TwoTo[h]
SamePrefix(p, q, h) == Masked(p, h) = Masked(q, h)

NodeAt(p, h) == <<h, Masked(p, h)>>
PathNodes(p) == {NodeAt(p, h) : h \in Levels}
Nodes == UNION {PathNodes(p) : p \in Paths}

Root == <<0, 0>>
=============================================================================
