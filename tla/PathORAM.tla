------------------------------ MODULE PathORAM ------------------------------
(***************************************************************************)
(* PathORAM::AccessPathORAM with a position map that fits the enclave      *)
(* (capacity_ =< MAX_POS_MAP), in the build Conf.h selects: AES_ENC and    *)
(* PATH_ORAM defined, assertions compiled in.                              *)
(*                                                                         *)
(* An access is a straight sequence of enclave calls, each an action here: *)
(*                                                                         *)
(*   StartAccess     draw a label, swap it into the position map           *)
(*   DownloadPath    load the buckets of the old path into the stash       *)
(*   ObliviousFetch  take the block out of the stash, exchange bytes       *)
(*   PutToStash      put the block back, under the new label               *)
(*   EvictPath       refill the buckets of the old path, leaves first      *)
(*                                                                         *)
(* Buckets and stash are sets of blocks here.  The slots they are kept in, *)
(* the presence bits and the node counters are not part of this module;    *)
(* which eligible blocks the greedy scan of an eviction picks depends on   *)
(* slot order, and is any choice of the right number of them.              *)
(*                                                                         *)
(* ObliviousPickAndSwap32 moves 64 bits at a 32-bit stride.  Swapping      *)
(* entry ind therefore also replaces entry ind + 1, by the four bytes that *)
(* follow the caller's BlockPath on the heap (Junk: never initialised),    *)
(* and past the last entry it replaces half of the pointer client->path.   *)
(***************************************************************************)
EXTENDS Conf, OramData, TreePath, FiniteSets

CONSTANTS
  MaxPosMap,  \* MAX_POS_MAP, the entries of client->path_mm
  StashCap,   \* CLIENT_MAX_PATH * BLOCKS_PER_NODE, the slots of the stash
  Junk        \* words the heap may hold behind a BlockPath

ASSUME PathORAMAssumption ==
  /\ MaxPosMap \in Nat
  /\ Inds \subseteq 0 .. MaxPosMap - 1
  /\ StashCap \in Nat \ {0}
  /\ Junk \subseteq Paths \cup {0}
  /\ Junk # {}

VARIABLES
  posmap,     \* client->path_mm; 0 stands for a block never accessed
  tree,       \* the blocks of each bucket of MemTree
  stash,      \* the blocks of client->path and client->path_stash
  stashLoad,  \* client->stash_load
  pc,         \* the next step of the access in progress
  req,        \* the caller's request, and its buffer
  path,       \* *block_path: the label that was in the position map
  newPath,    \* new_block_path: the label the block gets
  fetched     \* fetched_block_

vars == <<posmap, tree, stash, stashLoad, pc, req, path, newPath, fetched>>

BlockKey(ind) == ind + 1
Block == [key : {BlockKey(i) : i \in Inds}, path : Paths, data : Contents]

Init ==
  /\ posmap = [i \in 0 .. MaxPosMap - 1 |-> 0]
  /\ tree = [n \in Nodes |-> {}]
  /\ stash = {}
  /\ stashLoad = 0
  /\ pc = "idle"
  /\ req \in ReadRequests
  /\ path = 0
  /\ newPath = 0
  /\ fetched = ZeroBlock

-----------------------------------------------------------------------------
(***************************************************************************)
(* ObliviousPickAndSwap32: what the position map holds after the swap.     *)
(***************************************************************************)
Swapped(ind, label, behind) ==
  [i \in DOMAIN posmap |->
     IF i = ind THEN label ELSE IF i = ind + 1 THEN behind ELSE posmap[i]]

StartAccess(r) ==
  /\ pc = "idle"
  /\ req' = r
  /\ newPath' \in Paths
  /\ \E behind \in Junk : posmap' = Swapped(r.ind, newPath', behind)
  /\ IF posmap[r.ind] = 0 THEN path' \in Paths ELSE path' = posmap[r.ind]
  /\ pc' = IF r.ind + 1 = MaxPosMap THEN "wild" ELSE "download"
  /\ UNCHANGED <<tree, stash, stashLoad, fetched>>

(***************************************************************************)
(* client->path points nowhere: the next use of it is undefined, and the   *)
(* outcome modelled is the fault that ends the enclave and, by the checked *)
(* status, the process.                                                    *)
(***************************************************************************)
Abort ==
  /\ pc' = "aborted"
  /\ UNCHANGED <<posmap, tree, stash, stashLoad, req, path, newPath, fetched>>

PathPointerFault == pc = "wild" /\ Abort

-----------------------------------------------------------------------------
(***************************************************************************)
(* The buckets keep their blocks while these are in the stash; only the    *)
(* eviction rewrites them.  A stash without room is a failed assertion.    *)
(***************************************************************************)
FitsOffByOne(n) == n < StashCap
Fits(n) == n =< StashCap

OnPath == UNION {tree[NodeAt(path, h)] : h \in Levels}
SlotsOnPath ==
  {s \in Levels \X OnPath : s[2] \in tree[NodeAt(path, s[1])]}

DownloadPath ==
  /\ pc = "download"
  /\ Fits(Cardinality(stash) + Cardinality(SlotsOnPath))
  /\ stash' = stash \cup OnPath
  /\ stashLoad' = stashLoad + Cardinality(SlotsOnPath)
  /\ pc' = "fetch"
  /\ UNCHANGED <<posmap, tree, req, path, newPath, fetched>>

DownloadOverflow ==
  /\ pc = "download"
  /\ ~ Fits(Cardinality(stash) + Cardinality(SlotsOnPath))
  /\ Abort

-----------------------------------------------------------------------------
(***************************************************************************)
(* The fetch looks through the nodes of the stash up to the first that     *)
(* holds the key and takes every copy that node has; the block is zero     *)
(* when there is none.  The three memcpy follow it.                        *)
(***************************************************************************)
InStash(key) == {b \in stash : b.key = key}

LeftInStashCopied(taken) == stash
LeftInStash(taken) == stash \ taken

LoadAfterFetchUncounted(taken) == stashLoad
LoadAfterFetch(taken) == IF taken = {} THEN stashLoad ELSE stashLoad - 1

\* The block and the buffer after the exchange, content being what was found.
BlockAfter(content) == Stored(req, content)
BufferAfter(content) == Loaded(req, content)

ObliviousFetch ==
  /\ pc = "fetch"
  /\ \E taken \in SUBSET InStash(BlockKey(req.ind)) :
       /\ taken = {} => InStash(BlockKey(req.ind)) = {}
       /\ stash' = LeftInStash(taken)
       /\ stashLoad' = LoadAfterFetch(taken)
       /\ \E content \in Contents :
            /\ IF taken = {} THEN content = ZeroBlock
                             ELSE \E b \in taken : content = b.data
            /\ fetched' = BlockAfter(content)
            /\ req' = [req EXCEPT !.buf = BufferAfter(content)]
  /\ pc' = "put"
  /\ UNCHANGED <<posmap, tree, path, newPath>>

(***************************************************************************)
(* The block goes back under the label the position map now holds.         *)
(***************************************************************************)
PutLabel == newPath

PutBlock ==
  [key |-> BlockKey(req.ind), path |-> PutLabel, data |-> fetched]

PutToStash ==
  /\ pc = "put"
  /\ Cardinality(stash) < StashCap
  /\ stash' = stash \cup {PutBlock}
  /\ stashLoad' = stashLoad + 1
  /\ pc' = "evict"
  /\ UNCHANGED <<posmap, tree, req, path, newPath, fetched>>

PutOverflow ==
  /\ pc = "put"
  /\ Cardinality(stash) >= StashCap
  /\ Abort

-----------------------------------------------------------------------------
(***************************************************************************)
(* The eviction walks the buckets of the downloaded path from the leaf to  *)
(* the root and moves into each as many of the blocks still in the stash   *)
(* as are eligible there and fit.  An assignment lv gives each block of    *)
(* the stash the level it goes to, or Height when it stays.                *)
(***************************************************************************)
EvictedPathNew == newPath
EvictedPath == path

EvictedLevelsNoRoot == 1 .. Height - 1
EvictedLevels == Levels

Placed(lv, h) == {b \in stash : lv[b] = h}
StillThere(lv, h) == {b \in stash : lv[b] =< h \/ lv[b] = Height}
EligibleShortMask(lv, h) ==
  {b \in StillThere(lv, h) : h = 0 \/ SamePrefix(b.path, EvictedPath, h - 1)}
Eligible(lv, h) ==
  {b \in StillThere(lv, h) : SamePrefix(b.path, EvictedPath, h)}

FilledUnbounded(lv, h) == Placed(lv, h) = Eligible(lv, h)
FilledGreedily(lv, h) ==
  /\ Placed(lv, h) \subseteq Eligible(lv, h)
  /\ Cardinality(Placed(lv, h)) =< BlocksPerNode
  /\ \/ Placed(lv, h) = Eligible(lv, h)
     \/ Cardinality(Placed(lv, h)) = BlocksPerNode

IsEviction(lv) ==
  /\ \A b \in stash : lv[b] \in EvictedLevels \cup {Height}
  /\ \A h \in EvictedLevels : FilledGreedily(lv, h)

Refilled(lv) ==
  [n \in Nodes |-> IF n \in PathNodes(EvictedPath) THEN Placed(lv, n[1])
                   ELSE tree[n]]

LeftoverDropped(lv) == {}
Leftover(lv) == Placed(lv, Height)

EvictPath ==
  /\ pc = "evict"
  /\ \E lv \in [stash -> Levels \cup {Height}] :
       /\ IsEviction(lv)
       /\ tree' = Refilled(lv)
       /\ stash' = Leftover(lv)
       /\ stashLoad' = stashLoad - Cardinality(stash \ Placed(lv, Height))
  /\ path' = 0
  /\ newPath' = 0
  /\ pc' = "idle"
  /\ UNCHANGED <<posmap, req, fetched>>

\* A process that aborted does nothing more.
Aborted == pc = "aborted" /\ UNCHANGED vars

Step ==
  \/ PathPointerFault
  \/ DownloadPath
  \/ DownloadOverflow
  \/ ObliviousFetch
  \/ PutToStash
  \/ PutOverflow
  \/ EvictPath

Next ==
  \/ \E r \in ReadRequests \cup WriteRequests : StartAccess(r)
  \/ Step
  \/ Aborted

Spec == Init /\ [][Next]_vars

-----------------------------------------------------------------------------
(***************************************************************************)
(* Where the blocks are.  Between the download and the eviction of a path  *)
(* its buckets still hold what the stash took from them: the copies there  *)
(* are dead, and everything else is live.                                  *)
(***************************************************************************)
Shadowed == IF pc \in {"fetch", "put", "evict"} THEN PathNodes(path) ELSE {}
LiveNodes == Nodes \ Shadowed
LiveTree == UNION {tree[n] : n \in LiveNodes}
Live == stash \cup LiveTree

\* The label block i travels under: until it is taken out of the stash, an
\* accessed block still carries the label the position map gave up.
Label(i) ==
  IF i = req.ind /\ pc \in {"wild", "download", "fetch"} THEN path ELSE posmap[i]

\* Callers that never use two neighbouring block ids.
NoNeighbours == \A i \in Inds : i + 1 \notin Inds

(***************************************************************************)
(* The variables hold what they should, no bucket and no stash holds more  *)
(* than it has slots for, and an access in progress has its two labels.    *)
(***************************************************************************)
TypeOK ==
  /\ posmap \in [0 .. MaxPosMap - 1 -> Paths \cup {0}]
  /\ tree \in [Nodes -> SUBSET Block]
  /\ \A n \in Nodes : IsFiniteSet(tree[n]) /\ Cardinality(tree[n]) =< BlocksPerNode
  /\ stash \in SUBSET Block
  /\ IsFiniteSet(stash) /\ Cardinality(stash) =< StashCap
  /\ stashLoad \in Int
  /\ pc \in {"idle", "download", "fetch", "put", "evict", "wild", "aborted"}
  /\ req \in Request
  /\ path \in Paths \cup {0}
  /\ newPath \in Paths \cup {0}
  /\ pc \notin {"idle", "aborted"} => path \in Paths /\ newPath \in Paths
  /\ fetched \in Contents

(***************************************************************************)
(* A block has one live copy: never one in the stash and another in the    *)
(* tree, nor two in different buckets, and while an access holds its block *)
(* outside the stash there is none.  (Download leaves the buckets of the   *)
(* path uncleared; put adds a copy without looking for an older one.)      *)
(***************************************************************************)
OneCopy ==
  pc # "aborted" =>
    /\ \A b, c \in Live : b.key = c.key => b = c
    /\ stash \cap LiveTree = {}
    /\ \A m, n \in LiveNodes : m # n => tree[m] \cap tree[n] = {}
    /\ pc = "put" => \A b \in Live : b.key # BlockKey(req.ind)

(***************************************************************************)
(* Every live block carries the label the position map (or the access that *)
(* just swapped it out) has for it, and a block in the tree is in a bucket *)
(* on the path of that label: the next access will find it.                *)
(***************************************************************************)
OnLabelledPath ==
  pc # "aborted" =>
    /\ \A b \in Live : b.path = Label(b.key - 1)
    /\ \A n \in LiveNodes : \A b \in tree[n] : n \in PathNodes(b.path)

\* The label an access drew is the one the position map has for its block,
\* up to the moment the block goes back with it.
LabelInHand ==
  pc \in {"wild", "download", "fetch", "put"} => posmap[req.ind] = newPath

\* The inductive invariant behind OneCopy and OnLabelledPath.
IInv == TypeOK /\ OneCopy /\ OnLabelledPath /\ LabelInHand

(***************************************************************************)
(* A block the position map knows has a live copy, wherever the evictions  *)
(* of other blocks moved it, or is the block the access in progress has in *)
(* hand.                                                                   *)
(***************************************************************************)
NothingLost ==
  pc # "aborted" =>
    \A i \in Inds :
      \/ posmap[i] = 0
      \/ i = req.ind /\ pc \in {"wild", "download", "fetch", "put"}
      \/ \E b \in Live : b.key = BlockKey(i)

(***************************************************************************)
(* stash_load, kept up to date by increments in four places, is the number *)
(* of blocks in the stash.                                                 *)
(***************************************************************************)
StashLoadExact == pc # "aborted" => stashLoad = Cardinality(stash)

(***************************************************************************)
(* Between accesses blocks are left in the stash only when the root bucket *)
(* is full: the eviction never keeps a block that any path could take.     *)
(***************************************************************************)
StashOnlyWhenRootFull ==
  pc \in {"idle", "wild", "download"} /\ stash # {} =>
    Cardinality(tree[Root]) = BlocksPerNode

(***************************************************************************)
(* The assertions on the stash cannot fail before more blocks are in use   *)
(* than it has slots, even though the slots of a whole path are loaded on  *)
(* top of what the stash already holds; and nothing else ends the process  *)
(* but an access to the last entry of the map.                             *)
(***************************************************************************)
InUse == {i \in Inds : posmap[i] # 0}

WorkingSetFits ==
  pc = "aborted" => Cardinality(InUse) > StashCap \/ MaxPosMap - 1 \in InUse

(***************************************************************************)
(* The memory a caller sees: the live copy of a block, or the one in hand. *)
(***************************************************************************)
MemBar ==
  [i \in Inds |->
     IF pc = "aborted" THEN ZeroBlock
     ELSE IF pc = "put" /\ i = req.ind THEN fetched
     ELSE IF \E b \in Live : b.key = BlockKey(i)
          THEN (CHOOSE b \in Live : b.key = BlockKey(i)).data
     ELSE ZeroBlock]

PhaseBar ==
  CASE pc = "idle" -> "idle"
    [] pc \in {"wild", "download", "fetch"} -> "called"
    [] pc \in {"put", "evict"} -> "served"
    [] pc = "aborted" -> "crashed"

RAM == INSTANCE ORAM WITH mem <- MemBar, phase <- PhaseBar

\* The accesses of PathORAM are the reads and writes of a memory: what an
\* access loads is what the last write to that block stored, or zeroes,
\* whatever labels were drawn and wherever evictions left the blocks.
ImplementsORAM == RAM!Spec
=============================================================================
