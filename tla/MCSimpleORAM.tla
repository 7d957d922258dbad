---------------------------- MODULE MCSimpleORAM ----------------------------
(***************************************************************************)
(* SimpleORAM for TLC: a tree of three levels over one of two.             *)
(* Block 2 and the map block of block 6 have the same key.                 *)
(***************************************************************************)
EXTENDS SimpleORAM

TwoPaths == {1, 4}
ZeroOrPath == {0, 1, 4}
OneJunk == {1}
TwoAndSix == {2, 6}
FirstWord ==
  ReadRequests \cup {r \in WriteRequests : r.ws = {0} /\ r.buf[0] = 1}
=============================================================================
