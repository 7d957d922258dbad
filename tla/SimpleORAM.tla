----------------------------- MODULE SimpleORAM -----------------------------
(***************************************************************************)
(* SimpleORAM::AccessSimpleORAM, with the position map in the enclave or,  *)
(* when it does not fit there, in a second SimpleORAM, and so on           *)
(* (SimpleORAM.cpp:48-62).                                                 *)
(*                                                                         *)
(* An access swaps its new label for the old one, in the enclave or by a   *)
(* write to the ORAM below; downloads the old path, takes the block out    *)
(* and writes the path back; puts the block into the root bucket under its *)
(* new label; and flushes a random path, which moves blocks down as far as *)
(* they can go.  A root bucket without room is a failed assertion.         *)
(*                                                                         *)
(* All trees are worked on in the same client->path, and a tree uses as    *)
(* many of its nodes as it has levels: what a higher tree had in the nodes *)
(* below stays there, and the fetch looks at it.  Tree d is d ORAMs below  *)
(* the object the caller made; what a call does to it is SimpleTree's.     *)
(***************************************************************************)
EXTENDS ClientNode, OramShape

CONSTANTS
  Capacity,         \* capacity_ of the object the caller made
  Requests,         \* the requests callers make
  Paths,            \* the labels GenerateMyRand can draw
  MaxPosMap,        \* MAX_POS_MAP
  ClientMaxPath,    \* CLIENT_MAX_PATH
  FlushThreshRoot,  \* FLUSH_THRESH_ROOT
  Junk              \* words the heap may hold behind a BlockPath

ASSUME SimpleORAMAssumption ==
  /\ Capacity \in Nat \ {0}
  /\ Inds \subseteq 0 .. Capacity - 1
  /\ Requests \subseteq ReadRequests \cup WriteRequests
  /\ WordsPerBlock > 1
  /\ MaxPosMap \in Nat \ {0}
  /\ ClientMaxPath \in Nat
  /\ ComputeTreeHeight[Capacity] < ClientMaxPath
  /\ FlushThreshRoot \in Nat
  /\ Zero = 0
  /\ Paths \subseteq Nat \ {0}
  /\ Vals = Paths \cup {0}
  /\ Junk \subseteq Paths \cup {0}
  /\ \E p \in Paths : p % TwoTo[ComputeTreeHeight[Capacity] - 1] = 0

CapacityAt == CapacitiesBelow(Capacity, WordsPerBlock)
Trees == DepthsBelow(Capacity, WordsPerBlock, MaxPosMap)
MapInEnclave(k) == CapacityAt[k] =< MaxPosMap
BlockKey(ind) == ind + 1

\* The last entry of client->path_mm, whose swap overwrites client->path, is left
\* to module PathORAM: the maps here are smaller.
ASSUME LastEntryUnused == \A k \in Trees : CapacityAt[k] # MaxPosMap

IndsAt == [k \in Trees |-> IndsBelow(Inds, WordsPerBlock)[k]]

MapWord(i) == i % WordsPerBlock

VARIABLES
  posmap,   \* client->path_mm
  buckets,  \* buckets[k]: the nodes of tree k
  client,   \* client->path and client->path_stash
  acc,      \* acc[k]: the access of tree k in progress
  alive     \* FALSE when an assertion ended the process

vars == <<posmap, buckets, client, acc, alive>>

\* The calls on tree k, over the shared client.
S(k) == INSTANCE SimpleTree WITH
          Height <- ComputeTreeHeight[CapacityAt[k]],
          buckets <- buckets[k],
          path <- acc[k].path

Access(pc, r, path, newPath) ==
  [pc |-> pc, req |-> r, path |-> path, newPath |-> newPath, fetched |-> ZeroBlock]
NoRequest(k) ==
  [ind |-> CHOOSE i \in IndsAt[k] : TRUE, ws |-> {}, buf |-> ZeroBlock]
NoAccess(k) == Access("idle", NoRequest(k), 0, 0)

Init ==
  /\ posmap = [i \in 0 .. MaxPosMap - 1 |-> 0]
  /\ buckets = [k \in Trees |-> [n \in S(k)!Nodes |-> EmptyNode]]
  /\ client = [d \in 0 .. ClientMaxPath - 1 |-> EmptyNode]
  /\ acc = [k \in Trees |-> NoAccess(k)]
  /\ alive = TRUE

-----------------------------------------------------------------------------
\* ObliviousPickAndSwap32, 64 bits wide (module ObliviousMoves).
Swapped(ind, label, behind) ==
  [i \in DOMAIN posmap |->
     IF i = ind THEN label ELSE IF i = ind + 1 THEN behind ELSE posmap[i]]

(***************************************************************************)
(* The label: swapped in the enclave, or asked of the ORAM below.  An old  *)
(* label of zero is not drawn again, the fetch walks path 0.               *)
(***************************************************************************)
Begin(k, r, others) ==
  \E label \in Paths :
    IF MapInEnclave(k)
    THEN /\ \E behind \in Junk : posmap' = Swapped(r.ind, label, behind)
         /\ acc' = [others EXCEPT ![k] =
                      Access("download", r, posmap[r.ind], label)]
    ELSE /\ acc' = [others EXCEPT ![k] = Access("map", r, label, label)]
         /\ UNCHANGED posmap

StartAccess(r) ==
  /\ alive
  /\ \A k \in Trees : acc[k].pc = "idle"
  /\ Begin(0, r, acc)
  /\ UNCHANGED <<buckets, client, alive>>

MapWrite(k) ==
  LET i == acc[k].req.ind
  IN  [ind |-> MapInd(i, WordsPerBlock), ws |-> {MapWord(i)},
       buf |-> [w \in Words |-> IF w = MapWord(i) THEN acc[k].path ELSE Zero]]

AskMap(k) ==
  /\ acc[k].pc = "map"
  /\ Begin(k + 1, MapWrite(k), [acc EXCEPT ![k].pc = "wait"])
  /\ UNCHANGED <<buckets, client, alive>>

OldLabelKept(k) == acc[k].path
OldLabel(k) == acc[k + 1].req.buf[MapWord(acc[k].req.ind)]

MapAnswered(k) ==
  /\ acc[k].pc = "wait"
  /\ acc[k + 1].pc = "answered"
  /\ acc' = [acc EXCEPT ![k].pc = "download", ![k].path = OldLabel(k),
                        ![k + 1] = NoAccess(k + 1)]
  /\ UNCHANGED <<posmap, buckets, client, alive>>

-----------------------------------------------------------------------------
(***************************************************************************)
(* The calls of one access, on the tree at hand and the shared client.     *)
(***************************************************************************)
Goes(k, pc) == acc' = [acc EXCEPT ![k].pc = pc]

\* Both downloads: for the fetch along the old label, for the flush along
\* the random path.
DownloadPath(k) ==
  /\ acc[k].pc \in {"download", "flushdown"}
  /\ client' = S(k)!WithPath
  /\ Goes(k, IF acc[k].pc = "download" THEN "fetch" ELSE "flush")
  /\ UNCHANGED <<posmap, buckets, alive>>

ObliviousFetch(k) ==
  /\ acc[k].pc = "fetch"
  /\ LET key == BlockKey(acc[k].req.ind)
     IN  /\ client' = S(k)!FetchTakes(key)
         /\ acc' = [acc EXCEPT ![k].pc = "update", ![k].fetched = S(k)!FetchedContent(key)]
  /\ UNCHANGED <<posmap, buckets, alive>>

UpdatePath(k) ==
  /\ acc[k].pc = "update"
  /\ buckets' = [buckets EXCEPT ![k] = S(k)!UpdatedPath]
  /\ acc' = [acc EXCEPT ![k].pc = "put",
                        ![k].fetched = Stored(acc[k].req, @),
                        ![k].req.buf = Loaded(acc[k].req, acc[k].fetched)]
  /\ UNCHANGED <<posmap, client, alive>>

RootHasRoom(k) == S(k)!RootHasRoom(BlockKey(acc[k].req.ind))

PutLabel(k) == acc[k].newPath
RootWithBlock(k) ==
  S(k)!RootWithBlock(BlockKey(acc[k].req.ind), PutLabel(k), acc[k].fetched)

\* Where an access of tree k returns to.
Return(k) == Access(IF k = 0 THEN "idle" ELSE "answered", acc[k].req, 0, 0)

PutToRoot(k) ==
  /\ acc[k].pc = "put"
  /\ RootHasRoom(k)
  /\ buckets' = [buckets EXCEPT ![k][S(k)!Root] = RootWithBlock(k)]
  /\ client' = [client EXCEPT ![0] = RootWithBlock(k)]
  /\ IF RootWithBlock(k).num >= FlushThreshRoot
     THEN \E p \in Paths \cup {0} :
            acc' = [acc EXCEPT ![k] = Access("flushdown", acc[k].req, p, 0)]
     ELSE acc' = [acc EXCEPT ![k] = Return(k)]
  /\ UNCHANGED <<posmap, alive>>

Flush(k) ==
  /\ acc[k].pc = "flush"
  /\ client' = S(k)!Flushed
  /\ Goes(k, "flushup")
  /\ UNCHANGED <<posmap, buckets, alive>>

UpdateFlushed(k) ==
  /\ acc[k].pc = "flushup"
  /\ buckets' = [buckets EXCEPT ![k] = S(k)!UpdatedPath]
  /\ acc' = [acc EXCEPT ![k] = Return(k)]
  /\ UNCHANGED <<posmap, client, alive>>

RootOverflow(k) ==
  /\ acc[k].pc = "put"
  /\ ~ RootHasRoom(k)
  /\ alive' = FALSE
  /\ UNCHANGED <<posmap, buckets, client, acc>>

Ended == ~ alive /\ UNCHANGED vars

Step ==
  alive /\ \E k \in Trees :
    \/ AskMap(k)
    \/ MapAnswered(k)
    \/ DownloadPath(k)
    \/ ObliviousFetch(k)
    \/ UpdatePath(k)
    \/ PutToRoot(k)
    \/ Flush(k)
    \/ UpdateFlushed(k)
    \/ RootOverflow(k)

Next ==
  \/ \E r \in Requests : StartAccess(r)
  \/ Step
  \/ Ended

Spec == Init /\ [][Next]_vars

-----------------------------------------------------------------------------
(***************************************************************************)
(* The slots that count: those of the tree, except that a path changed in  *)
(* client->path and not yet written back counts from there.                *)
(***************************************************************************)
View(k, n) ==
  IF acc[k].pc \in {"update", "flushup"} /\ n \in S(k)!PathNodes(acc[k].path)
  THEN client[n[1]] ELSE buckets[k][n]

Held(k, i) ==
  {s \in S(k)!Nodes \X Slots :
     View(k, s[1]).presence[s[2]] > 0 /\ View(k, s[1]).keys[s[2]] = BlockKey(i)}

DataOf(k, i) ==
  IF Held(k, i) = {} THEN ZeroBlock
  ELSE LET s == CHOOSE s \in Held(k, i) : TRUE IN View(k, s[1]).contents[s[2]]

LabelOf(k, i) ==
  IF MapInEnclave(k) THEN posmap[i]
  ELSE DataOf(k + 1, MapInd(i, WordsPerBlock))[MapWord(i)]

(***************************************************************************)
(* Between accesses no block of any tree is in two slots, and the slot it  *)
(* is in is in a bucket on the path of the label that the tree below (or   *)
(* the position map) has for it: the next access will find it there.       *)
(***************************************************************************)
OneSlotOnLabelledPath ==
  alive /\ (\A k \in Trees : acc[k].pc = "idle") =>
    \A k \in Trees : \A i \in IndsAt[k] :
      /\ Cardinality(Held(k, i)) =< 1
      /\ \A s \in Held(k, i) :
           /\ View(k, s[1]).paths[s[2]] = LabelOf(k, i)
           /\ s[1] \in S(k)!PathNodes(LabelOf(k, i))

(***************************************************************************)
(* num_blocks, which decides whether a node has room, agrees with the      *)
(* presence bits, which decide where; in the trees and in client->path.    *)
(***************************************************************************)
CountersAgree ==
  \A node \in (UNION {{buckets[k][n] : n \in S(k)!Nodes} : k \in Trees})
              \cup {client[d] : d \in DOMAIN client} :
    node.num = Cardinality({i \in DOMAIN node.presence : node.presence[i] > 0})

(***************************************************************************)
(* A flush loses no block and lifts none towards the root: whatever the    *)
(* tree had in client->path is there afterwards, unchanged, where it was   *)
(* or deeper, and within the levels of the tree.  (A node is chosen by its *)
(* counter and written by its presence bits; the slot left is cleared on   *)
(* the word of the write that it took the block.)                          *)
(***************************************************************************)
FlushSinks ==
  [][\A k \in Trees : acc[k].pc = "flush" =>
       \A i \in S(k)!Levels, j \in Slots :
         client[i].presence[j] > 0 =>
           \E d \in S(k)!Levels, l \in Slots :
             /\ d >= i
             /\ client'[d].presence[l] > 0
             /\ client'[d].keys[l] = client[i].keys[j]
             /\ client'[d].paths[l] = client[i].paths[j]
             /\ client'[d].contents[l] = client[i].contents[j]]_vars

(***************************************************************************)
(* The memory the caller sees.                                             *)
(***************************************************************************)
PhaseBar ==
  LET pc == acc[0].pc
  IN  CASE pc = "idle" -> "idle"
        [] pc # "idle" /\ ~ alive -> "crashed"
        [] pc \in {"map", "wait", "download", "fetch", "update"} /\ alive -> "called"
        [] pc \in {"put", "flushdown", "flush", "flushup"} /\ alive -> "served"

MemBar ==
  [i \in Inds |->
     IF PhaseBar = "crashed" THEN ZeroBlock
     ELSE IF acc[0].pc \in {"update", "put"} /\ i = acc[0].req.ind THEN acc[0].fetched
     ELSE DataOf(0, i)]

RAM == INSTANCE ORAM WITH mem <- MemBar, req <- acc[0].req, phase <- PhaseBar

\* A SimpleORAM with a recursive position map is a memory of blocks, stale
\* nodes or not: no label that comes from a stale node is one a block has.
ImplementsORAM == RAM!Spec
=============================================================================
