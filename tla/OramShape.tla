----------------------------- MODULE OramShape -----------------------------
(***************************************************************************)
(* How large an ORAM and the ORAMs of its position maps are: pure          *)
(* arithmetic of the constructors.  Powers of two are a recursive function *)
(* because the provers cannot unfold 2 ^ n.                                *)
(***************************************************************************)
EXTENDS Integers

\* 1 << n.
TwoTo[n \in Nat] == IF n = 0 THEN 1 ELSE 2 * TwoTo[n - 1]

\* The levels of a tree for cap blocks: the binary digits of cap.
ComputeTreeHeight[cap \in Nat] ==
  IF cap = 0 THEN 0 ELSE 1 + ComputeTreeHeight[cap \div 2]

\* The blocks of labels that cap labels take, w to a block.
HigherCapacityFloor(cap, w) == cap \div w
HigherCapacity(cap, w) == (cap + w - 1) \div w

\* Label i is a word of block MapInd(i, w).
MapInd(i, w) == i \div w
MapInds(T, w) == {MapInd(i, w) : i \in T}

(***************************************************************************)
(* The chain of ORAMs below an object: capacities and block ids, a number  *)
(* of steps down, and how far down it goes, to the first ORAM whose labels *)
(* fit a map of max entries.                                               *)
(***************************************************************************)
CapacitiesBelow(cap, w) ==
  LET At[d \in Nat] == IF d = 0 THEN cap ELSE HigherCapacity(At[d - 1], w)
  IN  At
DepthsBelow(cap, w, max) ==
  {d \in 0 .. cap : \A e \in 0 .. d - 1 : CapacitiesBelow(cap, w)[e] > max}
IndsBelow(inds, w) ==
  LET At[d \in Nat] == IF d = 0 THEN inds ELSE MapInds(At[d - 1], w)
  IN  At
=============================================================================
