---------------------------- MODULE MCBenchmark ----------------------------
(***************************************************************************)
(* Instances of Benchmark for TLC.                                         *)
(***************************************************************************)
EXTENDS Benchmark

CONSTANTS x1, x2, x3   \* heap addresses

ThreeChunks == {x1, x2, x3}
ShortAndLong == {20, 61, 62}
=============================================================================
