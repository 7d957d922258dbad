---------------------------- MODULE MCLifecycle ----------------------------
(***************************************************************************)
(* Instances of Lifecycle for TLC.                                         *)
(***************************************************************************)
EXTENDS Lifecycle

UpTo40 == 1 .. 40
OneToFour == 1 .. 4
=============================================================================
