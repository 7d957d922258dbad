------------------------ MODULE MCRecursivePathORAM ------------------------
(***************************************************************************)
(* Instances of RecursivePathORAM for TLC.                                 *)
(***************************************************************************)
EXTENDS RecursivePathORAM

FirstTwo == {0, 1}
FirstFour == {0, 1, 2, 3}
TwoPaths == {1, 2}
ZeroOrPath == {0, 1, 2}
OnlyOne == {1}

\* A caller that writes the word 1 to the start of a block, and one that
\* writes any words 0 and 1.
FirstWord ==
  ReadRequests \cup {r \in WriteRequests : r.ws = {0} /\ r.buf[0] = 1}
Writes01 ==
  ReadRequests \cup {r \in WriteRequests : \A w \in r.ws : r.buf[w] \in {0, 1}}
=============================================================================
