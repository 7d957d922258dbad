--------------------------- MODULE MCSharedClient ---------------------------
(***************************************************************************)
(* An ORAM with a recursive position map, beside the memory its caller     *)
(* believes in.                                                            *)
(***************************************************************************)
EXTENDS MCRecursivePathORAM

VARIABLES
  ram,     \* what the writes so far should have left in each block
  answer   \* what the access in progress should leave in the buffer

SInit ==
  /\ Init
  /\ ram = [i \in Inds |-> ZeroBlock]
  /\ answer = ZeroBlock

SNext ==
  /\ Next
  /\ IF acc[Top].pc = "fetch"
     THEN LET r == acc[Top].req
          IN  /\ ram' = [ram EXCEPT ![r.ind] = Stored(r, @)]
              /\ answer' = Loaded(r, ram[r.ind])
     ELSE UNCHANGED <<ram, answer>>

SSpec == SInit /\ [][SNext]_<<vars, ram, answer>>

(***************************************************************************)
(* "Write the content of block into ORAM.  And load the old content into   *)
(* block." (PathORAM.h:31-32): the caller's buffer ends up with what the   *)
(* last write to that block stored.                                        *)
(***************************************************************************)
OldContentLoaded ==
  acc[Top].pc \in {"put", "evict"} => acc[Top].req.buf = answer
=============================================================================
