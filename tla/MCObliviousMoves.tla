-------------------------- MODULE MCObliviousMoves --------------------------
(***************************************************************************)
(* Two calls of each routine over arrays of four units, all different or   *)
(* in part the same.                                                       *)
(***************************************************************************)
EXTENDS ObliviousMoves

SmallValues == 0 .. 8
SomeContents ==
  {[u \in 0 .. 3 |-> u + 1], [u \in 0 .. 3 |-> u + 5], [u \in 0 .. 3 |-> u % 2]}
=============================================================================
