----------------------------- MODULE Lifecycle -----------------------------
(***************************************************************************)
(* Construction and destruction of PathORAM and SimpleORAM objects (the    *)
(* two classes have the same constructor and destructor), and the one      *)
(* enclave client they share: made by the object with id 1, of that        *)
(* object's sizes, and destroyed with it.                                  *)
(*                                                                         *)
(* An object with a large position map makes the ORAM below it in its own  *)
(* constructor, before the client exists when it is the first, and deletes *)
(* it in its destructor.  A constructor runs to its end or to an assertion *)
(* that ends the process, so a chain of objects comes and goes in a step.  *)
(*                                                                         *)
(* Chunks of memory are counted: those of the objects and of the client,   *)
(* what accesses allocate, and a buffer of the callers.  read frees the    *)
(* buffer it is given and allocates another that its caller never learns   *)
(* of.  Callers here know that, and take a buffer they have read into for  *)
(* gone (module Benchmark has one that does not).                          *)
(*                                                                         *)
(* The specification is ObjectsSpec: Benchmark, of the same process, has   *)
(* the plain names, and App_proofs extends both.                           *)
(***************************************************************************)
EXTENDS Conf, OramShape, FiniteSets, FiniteSetsExt

CONSTANTS
  Capacities,     \* what callers ask for
  Widths,         \* BlockPath words in a block, block_size / sizeof(BlockPath)
  MaxPosMap,      \* MAX_POS_MAP
  ClientMaxPath,  \* CLIENT_MAX_PATH
  MaxObjects,     \* bound: objects callers make
  MaxAccesses     \* bound: accesses they make

ASSUME LifecycleAssumption ==
  /\ Capacities \subseteq Nat \ {0}
  /\ Widths \subseteq Nat \ {0}
  /\ MaxPosMap \in Nat \ {0}
  /\ ClientMaxPath \in Nat
  /\ MaxObjects \in Nat
  /\ MaxAccesses \in Nat

VARIABLES
  nextId,    \* next_ORAM_id_
  objects,   \* the objects that live
  client,    \* the enclave client, or what is left of it
  chunks,    \* chunks of memory allocated and not freed
  made,      \* objects callers made
  buffer,    \* the callers' buffer: "none", "held" or, freed by read, "gone"
  accesses,  \* accesses made, each level's counted
  reads,     \* reads callers made
  fate       \* "alive", or what ended the process

objectVars == <<nextId, objects, client, chunks, made, buffer, accesses, reads, fate>>

NoClient == [state |-> "none", width |-> 0]

ObjectsInit ==
  /\ nextId = 1
  /\ objects = {}
  /\ client = NoClient
  /\ chunks = 0
  /\ made = 0
  /\ buffer = "none"
  /\ accesses = 0
  /\ reads = 0
  /\ fate = "alive"

-----------------------------------------------------------------------------
(***************************************************************************)
(* The objects a constructor makes: one whose map fits, or one on top of   *)
(* those of the next smaller capacity.  Ids go from the outermost inwards. *)
(***************************************************************************)
Below(o) == o.capacity > MaxPosMap

Chain(capacity, width) ==
  LET cap == CapacitiesBelow(capacity, width)
  IN  {[id |-> nextId + d, depth |-> d, capacity |-> cap[d], width |-> width,
        height |-> ComputeTreeHeight[cap[d]], top |-> nextId] :
          d \in DepthsBelow(capacity, width, MaxPosMap)}

InnerOf(o) == {i \in objects : i.top = o.top /\ i.depth = o.depth + 1}

\* InitializeMemTree and the two block buffers; FreeMemTree and the rest.
TreeChunks(o) == 1 + TwoTo[o.height] * BlocksPerNode
FreedTreeChunksShort(o) == 1 + (TwoTo[o.height] - 1) * BlocksPerNode
FreedTreeChunks(o) == 1 + TwoTo[o.height] * BlocksPerNode
Allocates(o) == TreeChunks(o) + 3
Frees(o) == FreedTreeChunks(o) + 3

\* struct Client, path, temp_node, dummy_block; two arrays per node and a
\* content per slot; the scratch contents.
ClientChunks == 4 + ClientMaxPath * (2 + BlocksPerNode) + BlocksPerNode

\* assert(block_size_ % sizeof(BlockPath) == 0 && num_paths_per_block > 1) and
\* assert(block_size % 8 == 0), a BlockPath being four bytes.
WidthAllowed(capacity, width) ==
  /\ capacity > MaxPosMap => width > 1
  /\ width % 2 = 0
\* assert(height < CLIENT_MAX_PATH), by the object with id 1 only.
AnyHeight(o) == TRUE
HeightAllowed(o) == o.id = 1 => o.height < ClientMaxPath

Die(why) ==
  /\ fate' = why
  /\ UNCHANGED <<nextId, objects, client, chunks, made, buffer, accesses, reads>>

NewChain(chain) ==
  /\ objects' = objects \cup chain
  /\ nextId' = nextId + Cardinality(chain)
  /\ client' = IF nextId = 1
               THEN [state |-> "live", width |-> (CHOOSE o \in chain : o.depth = 0).width]
               ELSE client
  /\ chunks' = chunks + MapThenSumSet(Allocates, chain)
                 + IF nextId = 1 THEN ClientChunks ELSE 0
  /\ made' = made + 1
  /\ UNCHANGED <<buffer, accesses, reads, fate>>

New(capacity, width) ==
  /\ fate = "alive"
  /\ made < MaxObjects
  /\ IF WidthAllowed(capacity, width) /\ \A o \in Chain(capacity, width) : HeightAllowed(o)
     THEN NewChain(Chain(capacity, width))
     ELSE Die("assertion")

(***************************************************************************)
(* calloc finds no room for the nodes of one tree, and InitializeMemTree   *)
(* writes the encrypted empty nodes through the null pointer.              *)
(***************************************************************************)
NewShortOfMemory(capacity, width) ==
  /\ fate = "alive"
  /\ made < MaxObjects
  /\ WidthAllowed(capacity, width)
  /\ \A o \in Chain(capacity, width) : HeightAllowed(o)
  /\ Die("no memory")

(***************************************************************************)
(* The destructor: the client goes first, then the ORAMs below, the tree   *)
(* and the buffers.                                                        *)
(***************************************************************************)
ClientAfter(o) == IF o.id = 1 THEN [client EXCEPT !.state = "freed"] ELSE client

Delete(o) ==
  /\ fate = "alive"
  /\ o \in objects
  /\ o.depth = 0
  /\ LET gone == {i \in objects : i.top = o.top}
     IN  /\ objects' = objects \ gone
         /\ chunks' = chunks - MapThenSumSet(Frees, gone)
                        - IF ClientAfter(o) # client THEN ClientChunks ELSE 0
  /\ client' = ClientAfter(o)
  /\ UNCHANGED <<nextId, made, buffer, accesses, reads, fate>>

(***************************************************************************)
(* The callers' buffer.  A null pointer is legal for read only.            *)
(***************************************************************************)
AllocateBuffer ==
  /\ fate = "alive"
  /\ buffer # "held"
  /\ buffer' = "held"
  /\ chunks' = chunks + 1
  /\ UNCHANGED <<nextId, objects, client, made, accesses, reads, fate>>

FreeBuffer ==
  /\ fate = "alive"
  /\ buffer = "held"
  /\ buffer' = "none"
  /\ chunks' = chunks - 1
  /\ UNCHANGED <<nextId, objects, client, made, accesses, reads, fate>>

(***************************************************************************)
(* An access goes down the maps and back.  On each level it makes a        *)
(* BlockPath it does not delete.  Without a live client, a path array as   *)
(* long as the tree is high and block buffers as wide as the blocks it     *)
(* goes through a pointer that is dangling or out of bounds.               *)
(***************************************************************************)
Serves(o) ==
  client.state = "live" /\ o.height =< ClientMaxPath /\ o.width =< client.width

Used(o) == {i \in objects : i.top = o.top}

Access(o, allocated) ==
  IF \A i \in Used(o) : Serves(i)
  THEN /\ chunks' = chunks + allocated + Cardinality(Used(o))
       /\ accesses' = accesses + Cardinality(Used(o))
       /\ UNCHANGED <<nextId, objects, client, made, fate>>
  ELSE /\ fate' = "fault"
       /\ chunks' = chunks + allocated
       /\ UNCHANGED <<nextId, objects, client, made, accesses>>

CanAccess(o) ==
  /\ fate = "alive"
  /\ o \in objects
  /\ o.depth = 0
  /\ accesses < MaxAccesses

\* assert(block != nullptr), and a caller does not write from a buffer it lost.
WriteObject(o) ==
  /\ CanAccess(o)
  /\ buffer # "gone"
  /\ IF buffer = "held"
     THEN Access(o, 0) /\ UNCHANGED <<buffer, reads>>
     ELSE Die("assertion")

\* if (block != nullptr) free(block), and block = malloc(block_size_).
ReadAllocates == 1
ReadFrees == IF buffer = "held" THEN 1 ELSE 0

ReadObject(o) ==
  /\ CanAccess(o)
  /\ Access(o, ReadAllocates - ReadFrees)
  /\ buffer' = IF buffer = "held" THEN "gone" ELSE buffer
  /\ reads' = reads + 1

Ended == fate # "alive" /\ UNCHANGED objectVars

ObjectsNext ==
  \/ \E c \in Capacities, w \in Widths : New(c, w) \/ NewShortOfMemory(c, w)
  \/ \E o \in objects : Delete(o) \/ WriteObject(o) \/ ReadObject(o)
  \/ AllocateBuffer
  \/ FreeBuffer
  \/ Ended

ObjectsSpec == ObjectsInit /\ [][ObjectsNext]_objectVars

-----------------------------------------------------------------------------
(***************************************************************************)
(* As long as the first object lives, it, the ORAMs below it and the       *)
(* objects made later that are no larger have a client to work with: its   *)
(* path array is as long as their trees are high and its block buffers are *)
(* as wide as their blocks.  Only the first object is checked against the  *)
(* array, and only its sizes make the buffers.  So an access of a process  *)
(* with one object never fails for want of the client.                     *)
(***************************************************************************)
ClientServesAll ==
  /\ fate = "alive" =>
       \A f \in {o \in objects : o.id = 1} : \A o \in objects :
         o.top = 1 \/ (o.height =< f.height /\ o.width =< f.width) => Serves(o)
  /\ fate = "fault" => made > 1

(***************************************************************************)
(* The maps hold a label for every block: the index an object writes to is *)
(* within the ORAM below it, for each block id it accepts, and the last of *)
(* them fits the enclave.                                                  *)
(***************************************************************************)
MapsCoverBlocks ==
  \A o \in objects :
    IF Below(o)
    THEN /\ Cardinality(InnerOf(o)) = 1
         /\ \A i \in InnerOf(o) : \A ind \in 0 .. o.capacity - 1 :
              MapInd(ind, o.width) < i.capacity
    ELSE InnerOf(o) = {}

(***************************************************************************)
(* When the callers have deleted the objects they made, all memory is      *)
(* returned but the buffer they hold and what no pointer leads to any      *)
(* more: a BlockPath for each access on each level and, because the block  *)
(* that read allocates stays with the callee, a block for each read,       *)
(* whether it was given a buffer or a null pointer.                        *)
(***************************************************************************)
MemoryReturned ==
  fate = "alive" /\ objects = {} =>
    chunks = accesses + reads + IF buffer = "held" THEN 1 ELSE 0
=============================================================================
