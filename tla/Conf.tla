-------------------------------- MODULE Conf --------------------------------
(***************************************************************************)
(* What Include/Conf.h fixes for the application and the enclave alike.    *)
(***************************************************************************)
EXTENDS Integers

CONSTANT BlocksPerNode  \* BLOCKS_PER_NODE, the slots of a node

ASSUME NodeAssumption == BlocksPerNode \in Nat \ {0}
=============================================================================
