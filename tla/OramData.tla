------------------------------ MODULE OramData ------------------------------
(***************************************************************************)
(* The data every ORAM of this code base moves about: block contents, the  *)
(* requests a caller makes of ORAM::read and ORAM::write, and the exchange *)
(* of bytes between the caller's buffer and the fetched block.             *)
(*                                                                         *)
(* A content is a function from word offsets to values; the all-zero       *)
(* content is what an ORAM returns for a block that was never written.     *)
(***************************************************************************)
EXTENDS Integers

CONSTANTS
  Inds,           \* block ids the callers use (ind in ORAM.h)
  WordsPerBlock,  \* block_size_, counted in words
  Vals,           \* the values a word can hold
  Zero            \* the word a memset(..., 0, ...) leaves

ASSUME DataAssumption ==
  /\ Inds \subseteq Nat
  /\ Inds # {}
  /\ WordsPerBlock \in Nat \ {0}
  /\ Zero \in Vals

Words == 0 .. WordsPerBlock - 1
Contents == [Words -> Vals]
ZeroBlock == [w \in Words |-> Zero]

(***************************************************************************)
(* A request: the block, the word offsets it writes (none for a read), and *)
(* the caller's buffer.  A write covers a contiguous range, write_offset   *)
(* up to write_offset + write_size.  A read has a fresh buffer, whose      *)
(* contents nobody looks at.                                               *)
(***************************************************************************)
Request == [ind : Inds, ws : SUBSET Words, buf : Contents]

ReadRequests == [ind : Inds, ws : {{}}, buf : {ZeroBlock}]
WriteRanges == {lo .. hi : lo \in Words, hi \in Words} \ {{}}
WriteRequests ==
  {r \in [ind : Inds, ws : WriteRanges, buf : Contents] :
      \A w \in Words \ r.ws : r.buf[w] = Zero}

(***************************************************************************)
(* The three memcpy calls of an access: the block takes the words written, *)
(* the buffer takes what the block held there (all of it, for a read).     *)
(***************************************************************************)
Stored(r, content) ==
  [w \in Words |-> IF w \in r.ws THEN r.buf[w] ELSE content[w]]

Loaded(r, content) ==
  [w \in Words |-> IF r.ws = {} \/ w \in r.ws THEN content[w] ELSE r.buf[w]]

=============================================================================
