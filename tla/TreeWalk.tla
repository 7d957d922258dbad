------------------------------ MODULE TreeWalk ------------------------------
(***************************************************************************)
(* The numbering of the buckets in memory.  All enclave calls find the     *)
(* nodes of a label by the same walk, addr = addr * 2 + 1 + bit, but the   *)
(* eviction decides with a bit mask which blocks may stay on a level.  The *)
(* other modules name a node by its level and the bits under the mask      *)
(* (TreePath); here the two are shown to be the same thing.                *)
(*                                                                         *)
(* One eviction along label p, a block labelled q in the stash, and the    *)
(* download of the access that next looks for that block.  A label is the  *)
(* function from bit numbers to bits that tree_path % 2, tree_path /= 2    *)
(* enumerates.                                                             *)
(***************************************************************************)
EXTENDS Integers

CONSTANTS
  Height,  \* the number of levels of the tree
  Labels   \* the labels, bit by bit

Levels == 0 .. Height - 1
Bit == {0, 1}

\* An address array has 32 entries, and one more of them is written than
\* there are levels.
ASSUME WalkAssumption ==
  /\ Height \in 1 .. 31
  /\ Labels \subseteq [Levels -> Bit]

VARIABLES
  p, q,   \* the label evicted along; the label of the block
  pc, h,  \* the loop that runs and its counter
  addr,   \* the eviction's array of addresses
  kept,   \* the levels on whose node the block may be put
  seen,   \* the addresses the download reads; seen[h] is its variable addr
  first   \* the number of nodes above each level: the array's 2^l - 1

vars == <<p, q, pc, h, addr, kept, seen, first>>

\* A mistake in the address and one in the mask.
NextAddrTwo(a, bit) == a * 2 + 2 + bit
SamePrefixShort(a, b, l) == \A i \in 0 .. l - 2 : a[i] = b[i]

NextAddr(a, bit) == a * 2 + 1 + bit

\* (p & path_mask) == (q & path_mask), path_mask = (1 << l) - 1
SamePrefix(a, b, l) == \A i \in 0 .. l - 1 : a[i] = b[i]

Zeros == [l \in 0 .. Height |-> 0]

Init ==
  /\ p \in Labels /\ q \in Labels
  /\ pc = "addresses" /\ h = 0
  /\ addr = Zeros /\ seen = Zeros /\ first = Zeros
  /\ kept = {}

\* One iteration of the loop that fills addr.
Address ==
  /\ pc = "addresses" /\ h < Height
  /\ addr' = [addr EXCEPT ![h + 1] = NextAddr(addr[h], p[h])]
  /\ first' = [first EXCEPT ![h + 1] = first[h] * 2 + 1]
  /\ h' = h + 1
  /\ UNCHANGED <<p, q, pc, kept, seen>>

StartEvict ==
  /\ pc = "addresses" /\ h = Height
  /\ pc' = "evict" /\ h' = Height - 1
  /\ UNCHANGED <<p, q, addr, kept, seen, first>>

\* One iteration of the loop from the leaf to the root.
EvictLevel ==
  /\ pc = "evict" /\ h >= 0
  /\ kept' = IF SamePrefix(p, q, h) THEN kept \cup {h} ELSE kept
  /\ h' = h - 1
  /\ UNCHANGED <<p, q, pc, addr, seen, first>>

StartDownload ==
  /\ pc = "evict" /\ h = -1
  /\ pc' = "download" /\ h' = 0
  /\ UNCHANGED <<p, q, addr, kept, seen, first>>

\* The download reads node addr and steps to a child.
DownloadLevel ==
  /\ pc = "download" /\ h < Height
  /\ seen' = [seen EXCEPT ![h + 1] = NextAddr(seen[h], q[h])]
  /\ h' = h + 1
  /\ UNCHANGED <<p, q, pc, addr, kept, first>>

Finished == pc = "download" /\ h = Height

Done == Finished /\ UNCHANGED vars

Next == Address \/ StartEvict \/ EvictLevel \/ StartDownload \/ DownloadLevel \/ Done

Spec == Init /\ [][Next]_vars

-----------------------------------------------------------------------------
TypeOK ==
  /\ p \in Labels /\ q \in Labels
  /\ pc \in {"addresses", "evict", "download"}
  /\ h \in -1 .. Height
  /\ addr \in [0 .. Height -> Nat]
  /\ seen \in [0 .. Height -> Nat]
  /\ first \in [0 .. Height -> Nat]
  /\ kept \subseteq Levels

\* Every node that is read or written is one of the nodes the tree was
\* allocated with, and lies on the level the loop is at: neither the
\* eviction's array nor the download's variable leaves the tree
\* (InitializeMemTree allocates 1 << height nodes).
NodesOfTheTree ==
  Finished => \A l \in Levels :
                /\ first[l] =< addr[l] /\ addr[l] < first[l + 1] /\ addr[l] < first[Height]
                /\ first[l] =< seen[l] /\ seen[l] < first[l + 1] /\ seen[l] < first[Height]

\* Of the nodes on the evicted path, the mask admits the block to exactly
\* those that the download along the block's own label reads: no block is
\* put where its next access does not look, and no level is given away.
MaskAdmitsSharedNodes ==
  Finished => {addr[l] : l \in kept} = {addr[l] : l \in Levels} \cap {seen[l] : l \in Levels}

-----------------------------------------------------------------------------
(***************************************************************************)
(* The inductive invariant.                                                *)
(***************************************************************************)
\* How many levels the address array and the download have got to.
Known == IF pc = "addresses" THEN h ELSE Height
Read == IF pc = "download" THEN h ELSE 0

CounterOK ==
  /\ pc # "evict" => h >= 0
  /\ pc = "evict" => h < Height

\* The levels follow one another in the array ...
LevelsDisjoint ==
  /\ \A l \in 0 .. Known : first[l] =< addr[l] /\ addr[l] =< 2 * first[l]
  /\ \A l \in 0 .. Read : first[l] =< seen[l] /\ seen[l] =< 2 * first[l]
  /\ \A l, m \in 0 .. Known : l < m => 2 * first[l] < first[m]

\* ... the block is admitted where the prefixes agree ...
KeptByPrefix ==
  /\ pc = "addresses" => kept = {}
  /\ pc = "evict" => kept = {l \in h + 1 .. Height - 1 : SamePrefix(p, q, l)}
  /\ pc = "download" => kept = {l \in Levels : SamePrefix(p, q, l)}

\* ... and these are the levels on which the two walks meet.
SameNodeSamePrefix == \A l \in 0 .. Read : SamePrefix(p, q, l) <=> seen[l] = addr[l]

\* The array holds the walk along p.
AddrIsWalk ==
  /\ addr[0] = 0 /\ seen[0] = 0
  /\ \A l \in Levels : l < Known => addr[l + 1] = NextAddr(addr[l], p[l])
                                    /\ first[l + 1] = 2 * first[l] + 1

IInv ==
  /\ TypeOK /\ CounterOK
  /\ LevelsDisjoint /\ KeptByPrefix /\ SameNodeSamePrefix /\ AddrIsWalk

=============================================================================
