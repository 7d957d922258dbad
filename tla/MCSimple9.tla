----------------------------- MODULE MCSimple9 -----------------------------
(***************************************************************************)
(* Arrays at the edges of the code words: every short mixture of item      *)
(* widths; runs about as long as a word with one wider item in them; and   *)
(* runs whose count takes one byte or two.                                 *)
(***************************************************************************)
EXTENDS Simple9

\* The least and the greatest number of some widths, and one too wide.
Edges == {0, 1, 2, 3, 31, 32, 511, 512, 16384, MaxValue}

Short == UNION {[1 .. n -> Edges] : n \in 1 .. 3}
Run(n, v) == [i \in 1 .. n |-> v]
OneWider == {[Run(n, 1) EXCEPT ![i] = v] : n \in {14, 27, 28, 29}, i \in {1, 2, 13, 14}, v \in {3, 512}}
Long == {Run(n, v) : n \in {127, 128, 130}, v \in {1, 31}}
TooWide == {<<MaxValue + 1>>, <<1, 1, MaxValue + 1>>, [Run(29, 1) EXCEPT ![29] = MaxValue + 1]}

EdgeArrays == Short \cup OneWider \cup Long \cup TooWide
=============================================================================
