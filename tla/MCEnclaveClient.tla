-------------------------- MODULE MCEnclaveClient --------------------------
(***************************************************************************)
(* EnclaveClient for TLC, on block ids apart by two.                       *)
(***************************************************************************)
EXTENDS EnclaveClient

Bit == {0, 1}
TwoPaths == {1, 2}
ThreeApart == {0, 2, 4}
FiveApart == {0, 2, 4, 6, 8}
JustZero == {0}
OneJunk == {1}
=============================================================================
