----------------------------- MODULE MCTreeWalk -----------------------------
(***************************************************************************)
(* Walks of every pair of labels of a small tree.                          *)
(***************************************************************************)
EXTENDS TreeWalk

AllLabels == [Levels -> Bit]
=============================================================================
