---------------------------- MODULE MCNeighbours ----------------------------
(***************************************************************************)
(* PathORAM with callers that use neighbouring block ids, beside the       *)
(* memory those callers believe in.                                        *)
(***************************************************************************)
EXTENDS PathORAM

VARIABLES
  ram,     \* what the writes so far should have left in each block
  answer   \* what the access in progress should leave in the buffer

Bit == {0, 1}
TwoPaths == {1, 2}
FirstTwo == {0, 1}
NoJunk == {0}

NInit ==
  /\ Init
  /\ ram = [i \in Inds |-> ZeroBlock]
  /\ answer = ZeroBlock

NNext ==
  /\ Next
  /\ IF pc = "fetch"
     THEN /\ ram' = [ram EXCEPT ![req.ind] = Stored(req, @)]
          /\ answer' = Loaded(req, ram[req.ind])
     ELSE UNCHANGED <<ram, answer>>

NSpec == NInit /\ [][NNext]_<<vars, ram, answer>>

(***************************************************************************)
(* "Write the content of block into ORAM.  And load the old content into   *)
(* block." (PathORAM.h): the caller's buffer ends up with what the last    *)
(* write to that block stored.                                             *)
(***************************************************************************)
OldContentLoaded == pc \in {"put", "evict"} => req.buf = answer
=============================================================================
