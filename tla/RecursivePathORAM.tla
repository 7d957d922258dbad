------------------------- MODULE RecursivePathORAM -------------------------
(***************************************************************************)
(* A PathORAM object whose position map does not fit the enclave.          *)
(*                                                                         *)
(* The constructor of an ORAM with more than MAX_POS_MAP blocks makes a    *)
(* second ORAM for its labels, as many to a block as fit, and so on until  *)
(* the labels fit client->path_mm.  An access first writes its new label   *)
(* into the ORAM below, which is a whole access of that ORAM, and gets the *)
(* old label back in the same buffer (PathORAM.cpp:126-131).               *)
(*                                                                         *)
(* There is one enclave client for all of them.  Its stash does not know   *)
(* which tree a block belongs to: keys are ind + 1 in every ORAM, a fetch  *)
(* takes the first block with its key, an eviction moves any block whose   *)
(* label agrees into the tree at hand.  Blocks carry the tree they were    *)
(* put for in a field the code does not have (own); only properties read   *)
(* it.  Two copies in the stash that agree in all fields are one here.     *)
(*                                                                         *)
(* Trees are numbered from the object the caller made, 0, downwards.       *)
(* What one call does to one tree is module PathORAM's, instantiated per   *)
(* tree over the shared position map and stash.                            *)
(***************************************************************************)
EXTENDS Conf, OramData, OramShape, FiniteSets

CONSTANTS
  Capacity,   \* capacity_ of the caller's object
  Requests,   \* the requests callers make
  Paths,      \* the labels GenerateMyRand can draw
  MaxPosMap,  \* MAX_POS_MAP
  StashCap,   \* CLIENT_MAX_PATH * BLOCKS_PER_NODE
  Junk        \* words the heap may hold behind a BlockPath

ASSUME RecursionAssumption ==
  /\ Capacity \in Nat \ {0}
  /\ Inds \subseteq 0 .. Capacity - 1
  /\ Requests \subseteq ReadRequests \cup WriteRequests
  /\ WordsPerBlock > 1
  /\ Paths \subseteq Nat \ {0} /\ Paths # {}
  /\ MaxPosMap \in Nat \ {0}
  /\ StashCap \in Nat \ {0}
  /\ Zero = 0
  /\ Vals = Paths \cup {0}
  /\ Junk \subseteq Paths \cup {0} /\ Junk # {}

-----------------------------------------------------------------------------
(***************************************************************************)
(* The constructor: the ORAMs below the object, their sizes and heights.   *)
(***************************************************************************)
CapacityAt == CapacitiesBelow(Capacity, WordsPerBlock)
MapInEnclave(k) == CapacityAt[k] =< MaxPosMap
Trees == DepthsBelow(Capacity, WordsPerBlock, MaxPosMap)
Top == 0
MapOf(k) == k + 1

\* The label of block i is a word of block i \div WordsPerBlock of the map.
MapWordFirst(i) == 0
MapWord(i) == i % WordsPerBlock

IndsAt == [k \in Trees |-> IndsBelow(Inds, WordsPerBlock)[k]]

VARIABLES
  posmap,     \* client->path_mm
  buckets,    \* buckets[k]: the blocks of each bucket of tree k
  stash,      \* the blocks of client->path and client->path_stash
  stashLoad,  \* client->stash_load
  acc,        \* acc[k]: the access of tree k in progress
  alive       \* FALSE when an assertion or a fault ended the process

vars == <<posmap, buckets, stash, stashLoad, acc, alive>>

\* The calls on tree k, over the shared client.
P(k) == INSTANCE PathORAM WITH
          Inds <- IndsAt[k],
          Height <- ComputeTreeHeight[CapacityAt[k]],
          tree <- buckets[k],
          pc <- acc[k].pc,
          req <- acc[k].req,
          path <- acc[k].path,
          newPath <- acc[k].newPath,
          fetched <- acc[k].fetched

\* The local state of AccessPathORAM: where it is, its arguments, *block_path,
\* new_block_path and the object's fetched_block_.
Access(pc, r, path, newPath) ==
  [pc |-> pc, req |-> r, path |-> path, newPath |-> newPath, fetched |-> ZeroBlock]
NoRequest(k) ==
  [ind |-> CHOOSE i \in IndsAt[k] : TRUE, ws |-> {}, buf |-> ZeroBlock]
NoAccess(k) == Access("idle", NoRequest(k), 0, 0)

Init ==
  /\ posmap = [i \in 0 .. MaxPosMap - 1 |-> 0]
  /\ buckets = [k \in Trees |-> [n \in P(k)!Nodes |-> {}]]
  /\ stash = {}
  /\ stashLoad = 0
  /\ acc = [k \in Trees |-> NoAccess(k)]
  /\ alive = TRUE

-----------------------------------------------------------------------------
(***************************************************************************)
(* The first half of AccessPathORAM: draw a label, and swap it with the    *)
(* old one, in the enclave or (later, see AskMap) in the ORAM below.       *)
(***************************************************************************)
OldOrFresh(label) == IF label = 0 THEN Paths ELSE {label}

Begin(k, r, others) ==
  \E label \in Paths :
    IF MapInEnclave(k)
    THEN /\ \E behind \in Junk : posmap' = P(k)!Swapped(r.ind, label, behind)
         /\ \E path \in OldOrFresh(posmap[r.ind]) :
              acc' = [others EXCEPT ![k] =
                        Access(IF r.ind + 1 = MaxPosMap THEN "wild" ELSE "download",
                               r, path, label)]
    ELSE /\ acc' = [others EXCEPT ![k] = Access("map", r, label, label)]
         /\ UNCHANGED posmap

StartAccess(r) ==
  /\ alive
  /\ \A k \in Trees : acc[k].pc = "idle"
  /\ Begin(Top, r, acc)
  /\ UNCHANGED <<buckets, stash, stashLoad, alive>>

\* pos_map_->write(block_index, block_path, sizeof(BlockPath), block_offset)
MapWrite(k) ==
  LET i == acc[k].req.ind
  IN  [ind |-> MapInd(i, WordsPerBlock), ws |-> {MapWord(i)},
       buf |-> [w \in Words |-> IF w = MapWord(i) THEN acc[k].path ELSE Zero]]

AskMap(k) ==
  /\ alive
  /\ acc[k].pc = "map"
  /\ Begin(MapOf(k), MapWrite(k), [acc EXCEPT ![k].pc = "wait"])
  /\ UNCHANGED <<buckets, stash, stashLoad, alive>>

OldLabelKept(k) == acc[k].path
OldLabel(k) == acc[MapOf(k)].req.buf[MapWord(acc[k].req.ind)]

MapAnswered(k) ==
  /\ alive
  /\ acc[k].pc = "wait"
  /\ acc[MapOf(k)].pc = "answered"
  /\ \E path \in OldOrFresh(OldLabel(k)) :
       acc' = [acc EXCEPT ![k].pc = "download", ![k].path = path,
                          ![MapOf(k)] = NoAccess(MapOf(k))]
  /\ UNCHANGED <<posmap, buckets, stash, stashLoad, alive>>

-----------------------------------------------------------------------------
(***************************************************************************)
(* The four enclave calls, on the tree at hand and the shared stash.       *)
(***************************************************************************)
Crash ==
  /\ alive' = FALSE
  /\ UNCHANGED <<posmap, buckets, stash, stashLoad, acc>>

PathPointerFault(k) == alive /\ acc[k].pc = "wild" /\ Crash

PathFits(k) ==
  P(k)!Fits(Cardinality(stash) + Cardinality(P(k)!SlotsOnPath))

DownloadPath(k) ==
  /\ alive
  /\ acc[k].pc = "download"
  /\ PathFits(k)
  /\ stash' = stash \cup P(k)!OnPath
  /\ stashLoad' = stashLoad + Cardinality(P(k)!SlotsOnPath)
  /\ acc' = [acc EXCEPT ![k].pc = "fetch"]
  /\ UNCHANGED <<posmap, buckets, alive>>

DownloadOverflow(k) ==
  alive /\ acc[k].pc = "download" /\ ~ PathFits(k) /\ Crash

ObliviousFetch(k) ==
  /\ alive
  /\ acc[k].pc = "fetch"
  /\ LET hits == P(k)!InStash(P(k)!BlockKey(acc[k].req.ind))
     IN  \E taken \in SUBSET hits :
           /\ taken = {} => hits = {}
           /\ stash' = P(k)!LeftInStash(taken)
           /\ stashLoad' = P(k)!LoadAfterFetch(taken)
           /\ \E content \in IF taken = {} THEN {ZeroBlock} ELSE {b.data : b \in taken} :
                acc' = [acc EXCEPT ![k].pc = "put",
                                   ![k].fetched = P(k)!BlockAfter(content),
                                   ![k].req.buf = P(k)!BufferAfter(content)]
  /\ UNCHANGED <<posmap, buckets, alive>>

PutBlock(k) ==
  [key |-> P(k)!BlockKey(acc[k].req.ind), path |-> acc[k].newPath,
   data |-> acc[k].fetched, own |-> k]

PutToStash(k) ==
  /\ alive
  /\ acc[k].pc = "put"
  /\ Cardinality(stash) < StashCap
  /\ stash' = stash \cup {PutBlock(k)}
  /\ stashLoad' = stashLoad + 1
  /\ acc' = [acc EXCEPT ![k].pc = "evict"]
  /\ UNCHANGED <<posmap, buckets, alive>>

PutOverflow(k) ==
  alive /\ acc[k].pc = "put" /\ Cardinality(stash) >= StashCap /\ Crash

EvictPath(k) ==
  /\ alive
  /\ acc[k].pc = "evict"
  /\ LET h == ComputeTreeHeight[CapacityAt[k]]
     IN  \E lv \in [stash -> 0 .. h] :
           /\ P(k)!IsEviction(lv)
           /\ buckets' = [buckets EXCEPT ![k] = P(k)!Refilled(lv)]
           /\ stash' = P(k)!Leftover(lv)
           /\ stashLoad' = stashLoad - Cardinality({b \in stash : lv[b] # h})
  /\ acc' = [acc EXCEPT ![k] =
               Access(IF k = Top THEN "idle" ELSE "answered", @.req, 0, 0)]
  /\ UNCHANGED <<posmap, alive>>

Ended == ~ alive /\ UNCHANGED vars

Step ==
  \E k \in Trees :
    \/ AskMap(k)
    \/ MapAnswered(k)
    \/ PathPointerFault(k)
    \/ DownloadPath(k)
    \/ DownloadOverflow(k)
    \/ ObliviousFetch(k)
    \/ PutToStash(k)
    \/ PutOverflow(k)
    \/ EvictPath(k)

Next ==
  \/ \E r \in Requests : StartAccess(r)
  \/ Step
  \/ Ended

Spec == Init /\ [][Next]_vars

-----------------------------------------------------------------------------
IsBlock(b) ==
  \E k \in Trees :
    b \in [key : {i + 1 : i \in IndsAt[k]}, path : Paths, data : Contents, own : {k}]
Steps == {"idle", "map", "wait", "wild", "download", "fetch", "put", "evict", "answered"}

\* The variables hold what they should; no bucket has more than its slots.
TypeOK ==
  /\ posmap \in [0 .. MaxPosMap - 1 -> Paths \cup {0}]
  /\ \A k \in Trees : \A n \in P(k)!Nodes :
       /\ \A b \in buckets[k][n] : IsBlock(b)
       /\ Cardinality(buckets[k][n]) =< BlocksPerNode
  /\ \A b \in stash : IsBlock(b)
  /\ Cardinality(stash) =< StashCap
  /\ stashLoad \in Int
  /\ \A k \in Trees : acc[k].pc \in Steps
  /\ alive \in BOOLEAN

\* The block of tree k that is not dead, and its label in the ORAM below.
LiveOf(k, i) == {b \in P(k)!Live : b.own = k /\ b.key = i + 1}
DataOf(k, i) ==
  IF LiveOf(k, i) = {} THEN ZeroBlock ELSE (CHOOSE b \in LiveOf(k, i) : TRUE).data
LabelOf(k, i) ==
  IF MapInEnclave(k) THEN posmap[i] ELSE DataOf(MapOf(k), MapInd(i, WordsPerBlock))[MapWord(i)]

(***************************************************************************)
(* Between accesses every block of every tree lies in a bucket on the path *)
(* of the label which the tree below stores for it, in a block that is     *)
(* itself where its own label says: following the maps down from any block *)
(* and up again finds it.                                                  *)
(***************************************************************************)
MapsLeadToBlocks ==
  alive /\ (\A k \in Trees : acc[k].pc = "idle") =>
    \A k \in Trees : \A i \in IndsAt[k] : \A b \in LiveOf(k, i) :
      /\ b.path = LabelOf(k, i)
      /\ b \notin stash =>
           \E n \in P(k)!PathNodes(LabelOf(k, i)) : b \in buckets[k][n]
      /\ Cardinality(LiveOf(k, i)) = 1

\* No eviction left a block behind: what is in the stash, the access at hand has
\* downloaded or put there.
NothingSpilled ==
  (\A k \in Trees : acc[k].pc \notin {"fetch", "put", "evict"}) => stash = {}

-----------------------------------------------------------------------------
(***************************************************************************)
(* The memory the caller sees.                                             *)
(***************************************************************************)
PhaseBar ==
  LET pc == acc[Top].pc
  IN  CASE pc = "idle" -> "idle"
        [] pc # "idle" /\ ~ alive -> "crashed"
        [] pc \in {"map", "wait", "wild", "download", "fetch"} /\ alive -> "called"
        [] pc \in {"put", "evict"} /\ alive -> "served"

MemBar ==
  [i \in Inds |->
     IF PhaseBar = "crashed" THEN ZeroBlock
     ELSE IF acc[Top].pc = "put" /\ i = acc[Top].req.ind THEN acc[Top].fetched
     ELSE DataOf(Top, i)]

RAM == INSTANCE ORAM WITH mem <- MemBar, req <- acc[Top].req, phase <- PhaseBar

\* An ORAM with a recursive position map is the same memory of blocks that an
\* ORAM with a map in the enclave is (PathORAM.cpp:126-131).
ImplementsORAM == RAM!Spec
=============================================================================
