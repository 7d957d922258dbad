------------------------ MODULE EnclaveClient_proofs ------------------------
(***************************************************************************)
(* Invariants of EnclaveClient, slot by slot, and its refinement of        *)
(* PathORAM: the enclave's routines do to the nodes and buckets what       *)
(* PathORAM says of their sets of blocks, as long as no caller uses two    *)
(* neighbouring block ids.                                                 *)
(*                                                                         *)
(* The argument counts.  As many slots are taken as there are blocks, so   *)
(* no two slots hold the same block: a stash of distinct blocks overflows  *)
(* when and only when its slots are used up, and what a scan moves to a    *)
(* bucket is gone from the stash.                                          *)
(***************************************************************************)
EXTENDS EnclaveClient, Common_proofs

-----------------------------------------------------------------------------
(* The data of EnclaveClient and of its instance of PathORAM are the same. *)

LEMMA SameData ==
  /\ P!Contents = Contents /\ P!Request = Request /\ P!ZeroBlock = ZeroBlock
  /\ P!ReadRequests = ReadRequests /\ P!WriteRequests = WriteRequests
  /\ P!Levels = Levels /\ P!Nodes = Nodes
  /\ \A p, h : P!NodeAt(p, h) = NodeAt(p, h)
  /\ \A p : P!PathNodes(p) = PathNodes(p)
  /\ \A p, q, h : P!SamePrefix(p, q, h) = SamePrefix(p, q, h)
  /\ \A r, c : P!Stored(r, c) = Stored(r, c) /\ P!Loaded(r, c) = Loaded(r, c)
<1>1. P!Words = Words /\ P!Levels = Levels
  BY DEF P!Words, Words, P!Levels, Levels
<1>2. P!Contents = Contents /\ P!ZeroBlock = ZeroBlock
  BY <1>1 DEF P!Contents, Contents, P!ZeroBlock, ZeroBlock
<1>3. P!WriteRanges = WriteRanges
  BY <1>1 DEF P!WriteRanges, WriteRanges
<1>4. P!Request = Request /\ P!ReadRequests = ReadRequests
  BY <1>1, <1>2 DEF P!Request, Request, P!ReadRequests, ReadRequests
<1>5. P!WriteRequests = WriteRequests
  BY <1>1, <1>2, <1>3 DEF P!WriteRequests, WriteRequests
<1>6. \A p, h : P!Masked(p, h) = Masked(p, h)
  <2>1. P!TwoTo = TwoTo
    BY DEF P!TwoTo, TwoTo
  <2>. QED BY <2>1 DEF P!Masked, Masked
<1>7. \A p, h : P!NodeAt(p, h) = NodeAt(p, h)
  BY <1>6 DEF P!NodeAt, NodeAt
<1>8. \A p, q, h : P!SamePrefix(p, q, h) = SamePrefix(p, q, h)
  BY <1>6 DEF P!SamePrefix, SamePrefix
<1>9. \A p : P!PathNodes(p) = PathNodes(p)
  BY <1>1, <1>7 DEF P!PathNodes, PathNodes
<1>10. P!Nodes = Nodes
  BY <1>9 DEF P!Nodes, Nodes
<1>11. \A r, c : P!Stored(r, c) = Stored(r, c) /\ P!Loaded(r, c) = Loaded(r, c)
  BY <1>1 DEF P!Stored, Stored, P!Loaded, Loaded
<1>. QED
  BY <1>1, <1>2, <1>4, <1>5, <1>7, <1>8, <1>9, <1>10, <1>11

-----------------------------------------------------------------------------
(* What every node and bucket is.  A slot of client->path that is taken    *)
(* has a key; a slot of a bucket has one exactly when it is taken, and     *)
(* points to the buffer InitializeMemTree gave it.                         *)

KeyedNode ==
  {node \in SoundNode : \A i \in Slots : node.presence[i] > 0 => node.keys[i] # 0}
FreshNode ==
  {node \in SoundNode : \A i \in Slots : node.keys[i] # 0 <=> node.presence[i] > 0}

OwnBuffers(n) == [i \in Slots |-> <<n, i>>]
SoundBucket(n) == {Bucket(node, OwnBuffers(n)) : node \in FreshNode}
SoundBuckets ==
  {f \in [Nodes -> UNION {SoundBucket(n) : n \in Nodes}] :
     \A n \in Nodes : f[n] \in SoundBucket(n)}

AppTypeOK ==
  /\ posmap \in [0 .. MaxPosMap - 1 -> Paths \cup {0}]
  /\ pc \in {"idle", "download", "fetch", "put", "evict", "wild", "aborted"}
  /\ req \in Request
  /\ path \in Paths \cup {0}
  /\ newPath \in Paths \cup {0}
  /\ pc \notin {"idle", "aborted"} => path \in Paths /\ newPath \in Paths
  /\ fetched \in Contents

BackupOK ==
  pc \in {"fetch", "put", "evict"} =>
    \A h \in Levels : backup[h] = OwnBuffers(NodeAt(path, h))

SlotInv ==
  /\ AppTypeOK
  /\ client \in [Depths -> KeyedNode]
  /\ buckets \in SoundBuckets
  /\ buffers \in [Addresses -> Contents]
  /\ load \in Int
  /\ BackupOK

\* What a bucket of the tree is, field by field.
LEMMA BucketFields ==
  ASSUME NEW f \in SoundBuckets, NEW n \in Nodes
  PROVE  \E node \in FreshNode :
           /\ f[n].num = node.num /\ f[n].keys = node.keys
           /\ f[n].paths = node.paths /\ f[n].presence = node.presence
           /\ f[n].addr = OwnBuffers(n)
BY DEF SoundBuckets, SoundBucket, Bucket

LEMMA EmptyIsFresh == EmptyNode \in FreshNode /\ EmptyNode \in KeyedNode
BY EmptyIsSound DEF FreshNode, KeyedNode, EmptyNode

\* A path of the tree meets nodes of the tree.
LEMMA PathInTree ==
  ASSUME NEW p \in Paths, NEW h \in Levels
  PROVE  NodeAt(p, h) \in Nodes
BY DEF Nodes, PathNodes

\* A block written to a node keeps its taken slots keyed.
LEMMA FilledKeyed ==
  ASSUME NEW node \in KeyedNode, NEW i \in FreeSlots(node),
         NEW key \in Nat \ {0}, NEW p \in Nat, NEW content \in Contents
  PROVE  Filled(node, i, key, p, content) \in KeyedNode
<1> DEFINE new == Filled(node, i, key, p, content)
<1>1. node \in SoundNode /\ i \in Slots /\ key \in Nat
  BY DEF KeyedNode, FreeSlots
<1>2. new \in SoundNode /\ new.keys[i] = key
  BY <1>1, FilledSound
<1>3. ASSUME NEW j \in Slots \ {i}
      PROVE  new.keys[j] = node.keys[j] /\ new.presence[j] = node.presence[j]
  BY <1>1, FilledSound
<1> HIDE DEF new
<1>4. new \in KeyedNode
  BY <1>2, <1>3 DEF KeyedNode
<1>. QED BY <1>4 DEF new

LEMMA FilledFresh ==
  ASSUME NEW node \in FreshNode, NEW i \in FreeSlots(node),
         NEW key \in Nat \ {0}, NEW p \in Nat, NEW content \in Contents
  PROVE  Filled(node, i, key, p, content) \in FreshNode
<1> DEFINE new == Filled(node, i, key, p, content)
<1>1. node \in SoundNode /\ i \in Slots
  BY DEF FreshNode, FreeSlots
<1>2. /\ new \in SoundNode
      /\ new.keys[i] = key
      /\ Taken(new) = Taken(node) \cup {i}
      /\ \A j \in Slots \ {i} : new.keys[j] = node.keys[j]
                                  /\ new.presence[j] = node.presence[j]
  BY <1>1, FilledSound
<1> HIDE DEF new
<1>3. new \in FreshNode
  BY <1>1, <1>2 DEF FreshNode, Taken
<1>. QED BY <1>3 DEF new

-----------------------------------------------------------------------------
(* The slots of the nodes of client->path, by node and index.              *)

TakenIn(nodes) == {x \in Depths \X Slots : nodes[x[1]].presence[x[2]] > 0}
FreeIn(nodes) == {x \in Depths \X Slots : nodes[x[1]].presence[x[2]] = 0}

\* Writing a block into a free slot.
PutAt(nodes, x, key, label, content) ==
  [nodes EXCEPT ![x[1]] = Filled(nodes[x[1]], x[2], key, label, content)]

LEMMA PutAtKeyed ==
  ASSUME NEW nodes \in [Depths -> KeyedNode], NEW x \in FreeIn(nodes),
         NEW key \in Nat \ {0}, NEW label \in Nat, NEW content \in Contents
  PROVE  PutAt(nodes, x, key, label, content) \in [Depths -> KeyedNode]
<1>1. x[1] \in Depths /\ x[2] \in FreeSlots(nodes[x[1]])
  BY DEF FreeIn, FreeSlots
<1>2. Filled(nodes[x[1]], x[2], key, label, content) \in KeyedNode
  BY <1>1, FilledKeyed
<1>. QED BY <1>1, <1>2 DEF PutAt

\* ObliviousNodeWrite, tried on the nodes in turn: with room, the block goes to
\* a free slot of some node; else nothing changes.
LEMMA StashWrite ==
  ASSUME NEW nodes \in [Depths -> KeyedNode],
         NEW key \in Nat, NEW label \in Nat, NEW content \in Contents
  PROVE  IF NoRoom(nodes, key) THEN WriteToStash(nodes, key, label, content) = nodes
         ELSE /\ key # 0
              /\ \E x \in FreeIn(nodes) :
                   WriteToStash(nodes, key, label, content)
                     = PutAt(nodes, x, key, label, content)
<1> DEFINE room == {d \in Depths : CanWrite(nodes[d], key)}
<1>1. CASE NoRoom(nodes, key)
  <2>1. room = {}
    BY <1>1 DEF NoRoom
  <2>. QED BY <1>1, <2>1 DEF WriteToStash
<1>2. CASE ~ NoRoom(nodes, key)
  <2>1. room # {} /\ key # 0
    BY <1>2 DEF NoRoom, CanWrite
  <2>2. room \in SUBSET Nat
    BY ClientAssumption DEF Depths
  <2>3. Min(room) \in room
    BY <2>1, <2>2, MinOf
  <2> DEFINE d == Min(room)
  <2>4. d \in Depths /\ CanWrite(nodes[d], key) /\ nodes[d] \in SoundNode
    BY <2>3 DEF KeyedNode
  <2>5. WriteToStash(nodes, key, label, content)
          = [nodes EXCEPT ![d] = NodeWrite(nodes[d], key, label, content)]
    BY <2>1 DEF WriteToStash
  <2> HIDE DEF d, room
  <2>6. PICK i \in FreeSlots(nodes[d]) :
          NodeWrite(nodes[d], key, label, content)
            = Filled(nodes[d], i, key, label, content)
    BY <2>4, WriteSound
  <2>7. <<d, i>> \in FreeIn(nodes)
    BY <2>4 DEF FreeIn, FreeSlots
  <2>8. WriteToStash(nodes, key, label, content)
          = PutAt(nodes, <<d, i>>, key, label, content)
    BY <2>5, <2>6 DEF PutAt
  <2>. QED BY <1>2, <2>1, <2>7, <2>8
<1>. QED BY <1>1, <1>2

LEMMA StashWriteKeyed ==
  ASSUME NEW nodes \in [Depths -> KeyedNode],
         NEW key \in Nat, NEW label \in Nat, NEW content \in Contents
  PROVE  WriteToStash(nodes, key, label, content) \in [Depths -> KeyedNode]
<1>1. CASE NoRoom(nodes, key)
  BY <1>1, StashWrite
<1>2. CASE ~ NoRoom(nodes, key)
  <2>1. key \in Nat \ {0}
    BY <1>2, StashWrite
  <2>2. PICK x \in FreeIn(nodes) : WriteToStash(nodes, key, label, content)
                                     = PutAt(nodes, x, key, label, content)
    BY <1>2, StashWrite
  <2>. QED BY <2>1, <2>2, PutAtKeyed
<1>. QED BY <1>1, <1>2

-----------------------------------------------------------------------------
(* The download, slot by slot.                                             *)

LoadStates == [client : [Depths -> KeyedNode], load : Int, failed : BOOLEAN]
LoadStart == [client |-> client, load |-> load, failed |-> FALSE]

\* A round of the download has what it needs.
LEMMA LoadSlotSound ==
  ASSUME SlotInv, path \in Paths,
         NEW state \in LoadStates, NEW slot \in Levels \X Slots
  PROVE  LoadSlot(state, slot) \in LoadStates
<1> DEFINE n == NodeAt(path, slot[1])
<1>1. n \in Nodes /\ slot[2] \in Slots
  BY PathInTree
<1>2. PICK node \in FreshNode :
        /\ buckets[n].keys = node.keys /\ buckets[n].paths = node.paths
        /\ buckets[n].addr = OwnBuffers(n)
  BY <1>1, BucketFields DEF SlotInv
<1> DEFINE key == buckets[n].keys[slot[2]]
           label == buckets[n].paths[slot[2]]
           content == buffers[buckets[n].addr[slot[2]]]
<1>3. key \in Nat /\ label \in Nat
  BY <1>1, <1>2 DEF FreshNode, SoundNode, Node
<1>4. content \in Contents
  <2>1. buckets[n].addr[slot[2]] \in Addresses
    BY <1>1, <1>2 DEF OwnBuffers, Addresses
  <2>. QED BY <2>1 DEF SlotInv
<1>5. state.client \in [Depths -> KeyedNode] /\ state.load \in Int /\ state.failed \in BOOLEAN
  BY DEF LoadStates
<1>6. WriteToStash(state.client, key, label, content) \in [Depths -> KeyedNode]
  BY <1>3, <1>4, <1>5, StashWriteKeyed
<1> HIDE DEF n
<1>7. state.load + (IF key # 0 THEN 1 ELSE 0) \in Int
  BY <1>5
<1>8. (state.failed \/ (key # 0 /\ NoRoom(state.client, key))) \in BOOLEAN
  OBVIOUS
<1>. QED BY <1>6, <1>7, <1>8 DEF LoadSlot, LoadStates, n

\* The rounds of the download.
LEMMA LoadingRounds ==
  ASSUME SlotInv, path \in Paths
  PROVE  LET n == Height * BlocksPerNode
         IN /\ n \in Nat
            /\ Loading \in [0 .. n -> LoadStates]
            /\ Loading[0] = LoadStart
            /\ \A k \in 1 .. n : Loading[k] = LoadSlot(Loading[k - 1], SlotAt(k))
<1> DEFINE n == Height * BlocksPerNode
           step == [z \in LoadStates \X (1 .. n) |-> LoadSlot(z[1], SlotAt(z[2]))]
           F(f) == [k \in 0 .. n |->
                      IF k = 0 THEN LoadStart ELSE LoadSlot(f[k - 1], SlotAt(k))]
<1>1. /\ n \in Nat
      /\ \A k \in 1 .. n : SlotAt(k) \in Levels \X Slots
  BY TreeAssumption, ScanOrder DEF Levels
<1>2. LoadStart \in LoadStates
  BY DEF SlotInv, LoadStart, LoadStates
<1> HIDE DEF n
<1>3. step \in LoopSteps(LoadStates, n)
  BY <1>1, LoadSlotSound DEF LoopSteps
<1>4. PICK f : IsLoop(f, LoadStates, n, LoadStart, step)
  <2> HIDE DEF step
  <2>. QED BY <1>1, <1>2, <1>3, LoopExists
<1>5. \A k \in 1 .. n : f[k] = LoadSlot(f[k - 1], SlotAt(k))
  <2> SUFFICES ASSUME NEW k \in 1 .. n PROVE f[k] = LoadSlot(f[k - 1], SlotAt(k))
    OBVIOUS
  <2>1. <<f[k - 1], k>> \in LoadStates \X (1 .. n)
    BY <1>1, <1>4 DEF IsLoop
  <2>. QED BY <1>4, <2>1 DEF IsLoop
<1> HIDE DEF step
<1>6. f = F(f)
  BY <1>1, <1>4, <1>5 DEF IsLoop
<1>7. Loading = F(Loading)
  BY <1>6 DEF Loading, LoadStart, n
<1>8. /\ Loading[0] = LoadStart
      /\ \A k \in 1 .. n : Loading[k] = LoadSlot(Loading[k - 1], SlotAt(k))
  BY <1>1, <1>7
<1>9. \A k \in 0 .. n : Loading[k] \in LoadStates
  <2> DEFINE G == {k \in 0 .. n : Loading[k] \in LoadStates}
  <2>1. 0 \in G
    BY <1>1, <1>2, <1>8
  <2>2. ASSUME NEW k \in 1 .. n, k - 1 \in G PROVE k \in G
    <3>1. LoadSlot(Loading[k - 1], SlotAt(k)) \in LoadStates
      BY <1>1, <2>2, LoadSlotSound
    <3>. QED BY <1>1, <1>8, <3>1
  <2>3. \A k \in 0 .. n : k \in G
    <3> HIDE DEF G
    <3>. QED BY <1>1, <2>1, <2>2, UpTo
  <2>. QED BY <2>3
<1>10. Loading \in [0 .. n -> LoadStates]
  BY <1>7, <1>9
<1>. QED BY <1>1, <1>8, <1>10 DEF n

-----------------------------------------------------------------------------
(* The scan of an eviction for one level.                                  *)

ScanStates == [client : [Depths -> KeyedNode], load : Int, temp : FreshNode]
ScanStart(nodes, count) == [client |-> nodes, load |-> count, temp |-> EmptyNode]

\* Taking the block out of a slot.
TakeFrom(nodes, x) == [nodes EXCEPT ![x[1]] = Vacated(nodes[x[1]], x[2])]

LEMMA TakeFromKeyed ==
  ASSUME NEW nodes \in [Depths -> KeyedNode], NEW x \in TakenIn(nodes)
  PROVE  /\ TakeFrom(nodes, x) \in [Depths -> KeyedNode]
         /\ LET old == nodes[x[1]]
                new == Vacated(old, x[2])
            IN /\ Taken(new) = Taken(old) \ {x[2]}
               /\ new.keys = old.keys /\ new.paths = old.paths
               /\ new.contents = old.contents
<1> DEFINE old == nodes[x[1]]
           new == Vacated(old, x[2])
<1>1. x[1] \in Depths /\ old \in KeyedNode /\ old \in SoundNode /\ x[2] \in Taken(old)
  BY DEF TakenIn, Taken, KeyedNode
<1>2. /\ new \in SoundNode
      /\ Taken(new) = Taken(old) \ {x[2]}
      /\ new.keys = old.keys /\ new.paths = old.paths /\ new.contents = old.contents
  BY <1>1, EmptiedSound DEF Vacated, VacatedUncounted
<1> HIDE DEF new
<1>3. new \in KeyedNode
  BY <1>1, <1>2 DEF KeyedNode, Taken
<1>4. TakeFrom(nodes, x) \in [Depths -> KeyedNode]
  BY <1>1, <1>3 DEF TakeFrom, new
<1>. QED BY <1>2, <1>4 DEF new

\* A round moves the block of the slot to a free slot of the node for the
\* level, or nothing.
LEMMA MoveSlotMoves ==
  ASSUME NEW h, NEW state \in ScanStates, NEW x \in Depths \X Slots
  PROVE  LET node == state.client[x[1]]
         IN IF ~ Moves(node, x[2], state.temp, h) THEN MoveSlot(h, state, x) = state
            ELSE /\ x \in TakenIn(state.client)
                 /\ node.keys[x[2]] \in Nat \ {0} /\ node.paths[x[2]] \in Nat
                 /\ node.contents[x[2]] \in Contents
                 /\ \E j \in FreeSlots(state.temp) :
                      MoveSlot(h, state, x) =
                        [client |-> TakeFrom(state.client, x),
                         load |-> state.load - 1,
                         temp |-> Filled(state.temp, j, node.keys[x[2]],
                                         node.paths[x[2]], node.contents[x[2]])]
<1> DEFINE node == state.client[x[1]]
           key == node.keys[x[2]]
           label == node.paths[x[2]]
           content == node.contents[x[2]]
<1>1. CASE ~ Moves(node, x[2], state.temp, h)
  BY <1>1 DEF MoveSlot
<1>2. CASE Moves(node, x[2], state.temp, h)
  <2>1. /\ state.client \in [Depths -> KeyedNode] /\ state.temp \in FreshNode
        /\ state.temp \in SoundNode /\ x[1] \in Depths /\ x[2] \in Slots
    BY DEF ScanStates, FreshNode
  <2>2. node \in KeyedNode /\ node \in Node
    BY <2>1 DEF KeyedNode, SoundNode
  <2>3. state.temp.num < BlocksPerNode /\ node.presence[x[2]] > 0
    BY <1>2 DEF Moves
  <2>4. x \in TakenIn(state.client)
    BY <2>3 DEF TakenIn
  <2>5. key \in Nat \ {0} /\ label \in Nat /\ content \in Contents
    BY <2>1, <2>2, <2>3 DEF KeyedNode, Node
  <2>6. PICK j \in FreeSlots(state.temp) :
          NodeTransfer(state.temp, key, label, content)
            = Filled(state.temp, j, key, label, content)
    BY <2>1, <2>3, <2>5, TransferSound
  <2>7. MoveSlot(h, state, x) =
          [client |-> TakeFrom(state.client, x), load |-> state.load - 1,
           temp |-> NodeTransfer(state.temp, key, label, content)]
    BY <1>2 DEF MoveSlot, TakeFrom
  <2> HIDE DEF key, label, content
  <2>8. MoveSlot(h, state, x) =
          [client |-> TakeFrom(state.client, x), load |-> state.load - 1,
           temp |-> Filled(state.temp, j, key, label, content)]
    BY <2>6, <2>7
  <2>. QED BY <1>2, <2>4, <2>5, <2>8 DEF key, label, content
<1>. QED BY <1>1, <1>2

LEMMA MoveSlotSound ==
  ASSUME NEW h, NEW state \in ScanStates, NEW x \in Depths \X Slots
  PROVE  MoveSlot(h, state, x) \in ScanStates
<1> DEFINE node == state.client[x[1]]
<1>1. CASE ~ Moves(node, x[2], state.temp, h)
  BY <1>1, MoveSlotMoves
<1>2. CASE Moves(node, x[2], state.temp, h)
  <2>1. x \in TakenIn(state.client) /\ node.keys[x[2]] \in Nat \ {0}
        /\ node.paths[x[2]] \in Nat /\ node.contents[x[2]] \in Contents
    BY <1>2, MoveSlotMoves
  <2>2. PICK j \in FreeSlots(state.temp) :
          MoveSlot(h, state, x) =
            [client |-> TakeFrom(state.client, x), load |-> state.load - 1,
             temp |-> Filled(state.temp, j, node.keys[x[2]],
                             node.paths[x[2]], node.contents[x[2]])]
    BY <1>2, MoveSlotMoves
  <2>3. /\ state.client \in [Depths -> KeyedNode] /\ state.temp \in FreshNode
        /\ state.load \in Int
    BY DEF ScanStates
  <2>4. TakeFrom(state.client, x) \in [Depths -> KeyedNode]
    BY <2>1, <2>3, TakeFromKeyed
  <2>5. Filled(state.temp, j, node.keys[x[2]], node.paths[x[2]], node.contents[x[2]])
          \in FreshNode
    BY <2>1, <2>3, FilledFresh
  <2>6. state.load - 1 \in Int
    BY <2>3
  <2>. QED BY <2>2, <2>4, <2>5, <2>6 DEF ScanStates
<1>. QED BY <1>1, <1>2

\* The rounds of the scan.
LEMMA ScanningRounds ==
  ASSUME NEW h, NEW nodes \in [Depths -> KeyedNode], NEW count \in Int, NEW temp
  PROVE  LET n == ClientMaxPath * BlocksPerNode
             scan == Scanning(h, nodes, count, temp)
         IN /\ n \in Nat
            /\ scan \in [0 .. n -> ScanStates]
            /\ scan[0] = ScanStart(nodes, count)
            /\ \A k \in 1 .. n : scan[k] = MoveSlot(h, scan[k - 1], SlotAt(k))
<1> DEFINE n == ClientMaxPath * BlocksPerNode
           scan == Scanning(h, nodes, count, temp)
           start == ScanStart(nodes, count)
           step == [z \in ScanStates \X (1 .. n) |-> MoveSlot(h, z[1], SlotAt(z[2]))]
           F(f) == [k \in 0 .. n |->
                      IF k = 0 THEN start ELSE MoveSlot(h, f[k - 1], SlotAt(k))]
<1>1. /\ n \in Nat
      /\ \A k \in 1 .. n : SlotAt(k) \in Depths \X Slots
  BY ClientAssumption, ScanOrder DEF Depths
<1>2. start \in ScanStates
  BY EmptyIsFresh DEF ScanStart, ScanStates
<1> HIDE DEF n, start
<1>3. step \in LoopSteps(ScanStates, n)
  BY <1>1, MoveSlotSound DEF LoopSteps
<1>4. PICK f : IsLoop(f, ScanStates, n, start, step)
  <2> HIDE DEF step
  <2>. QED BY <1>1, <1>2, <1>3, LoopExists
<1>5. \A k \in 1 .. n : f[k] = MoveSlot(h, f[k - 1], SlotAt(k))
  <2> SUFFICES ASSUME NEW k \in 1 .. n PROVE f[k] = MoveSlot(h, f[k - 1], SlotAt(k))
    OBVIOUS
  <2>1. <<f[k - 1], k>> \in ScanStates \X (1 .. n)
    BY <1>1, <1>4 DEF IsLoop
  <2>. QED BY <1>4, <2>1 DEF IsLoop
<1> HIDE DEF step
<1>6. f = F(f)
  BY <1>1, <1>4, <1>5 DEF IsLoop
<1>7. scan = F(scan)
  BY <1>6 DEF Scanning, Cleared, ScanStart, start, n
<1> HIDE DEF scan
<1>8. /\ scan[0] = start
      /\ \A k \in 1 .. n : scan[k] = MoveSlot(h, scan[k - 1], SlotAt(k))
  BY <1>1, <1>7
<1>9. \A k \in 0 .. n : scan[k] \in ScanStates
  <2> DEFINE G == {k \in 0 .. n : scan[k] \in ScanStates}
  <2>1. 0 \in G
    BY <1>1, <1>2, <1>8
  <2>2. ASSUME NEW k \in 1 .. n, k - 1 \in G PROVE k \in G
    <3>1. MoveSlot(h, scan[k - 1], SlotAt(k)) \in ScanStates
      BY <1>1, <2>2, MoveSlotSound
    <3>. QED BY <1>1, <1>8, <3>1
  <2>3. \A k \in 0 .. n : k \in G
    <3> HIDE DEF G
    <3>. QED BY <1>1, <2>1, <2>2, UpTo
  <2>. QED BY <2>3
<1>10. scan \in [0 .. n -> ScanStates]
  BY <1>7, <1>9
<1>. QED BY <1>1, <1>8, <1>10 DEF n, scan, start

-----------------------------------------------------------------------------
(* The levels of an eviction.                                              *)

EvictStates ==
  [client : [Depths -> KeyedNode], load : Int, temp : FreshNode,
   buckets : SoundBuckets, buffers : [Addresses -> Contents]]
EvictStart ==
  [client |-> client, load |-> load, temp |-> EmptyNode,
   buckets |-> buckets, buffers |-> buffers]

\* What is written to the buffers of a bucket, and to no other.
LEMMA EncryptedBuffers ==
  ASSUME NEW bufs \in [Addresses -> Contents], NEW n \in Nodes, NEW temp \in FreshNode
  PROVE  LET new == Encrypted(bufs, OwnBuffers(n), temp)
         IN /\ new \in [Addresses -> Contents]
            /\ \A i \in Slots : temp.presence[i] > 0 => new[<<n, i>>] = temp.contents[i]
            /\ \A m \in Nodes \ {n}, i \in Slots : new[<<m, i>>] = bufs[<<m, i>>]
<1> DEFINE own == OwnBuffers(n)
           new == Encrypted(bufs, own, temp)
           Slot(a) == CHOOSE i \in Slots : a = own[i]
<1>1. \A i \in Slots : own[i] = <<n, i>>
  BY DEF OwnBuffers
<1>2. temp \in Node
  BY DEF FreshNode, SoundNode
<1>3. ZeroBlock \in Contents
  BY DataTyping
<1>4. ASSUME NEW a \in Addresses PROVE new[a] \in Contents
  <2>1. CASE \E i \in Slots : a = own[i]
    <3>1. Slot(a) \in Slots
      BY <2>1
    <3>2. temp.contents[Slot(a)] \in Contents
      BY <1>2, <3>1 DEF Node
    <3>3. new[a] = IF temp.presence[Slot(a)] = 1 THEN temp.contents[Slot(a)] ELSE ZeroBlock
      BY <2>1 DEF Encrypted
    <3>. QED BY <1>3, <3>2, <3>3
  <2>2. CASE ~ \E i \in Slots : a = own[i]
    BY <2>2 DEF Encrypted
  <2>. QED BY <2>1, <2>2
<1>5. new \in [Addresses -> Contents]
  <2>1. new = [a \in Addresses |-> new[a]]
    BY DEF Encrypted
  <2> HIDE DEF new
  <2>. QED BY <1>4, <2>1
<1>6. ASSUME NEW i \in Slots, temp.presence[i] > 0
      PROVE  new[<<n, i>>] = temp.contents[i]
  <2>1. <<n, i>> \in Addresses /\ \E j \in Slots : <<n, i>> = own[j]
    BY <1>1 DEF Addresses
  <2>2. Slot(<<n, i>>) \in Slots /\ <<n, i>> = own[Slot(<<n, i>>)]
    BY <2>1
  <2>3. Slot(<<n, i>>) = i
    BY <1>1, <2>2
  <2>4. temp.presence[i] = 1
    BY <1>2, <1>6 DEF Node
  <2>. QED BY <2>1, <2>3, <2>4 DEF Encrypted
<1>7. ASSUME NEW m \in Nodes \ {n}, NEW i \in Slots
      PROVE  new[<<m, i>>] = bufs[<<m, i>>]
  <2>1. <<m, i>> \in Addresses /\ ~ \E j \in Slots : <<m, i>> = own[j]
    BY <1>1 DEF Addresses
  <2>. QED BY <2>1 DEF Encrypted
<1> HIDE DEF new
<1>. QED BY <1>5, <1>6, <1>7 DEF new

\* The scan for a level ends in nodes that are sound.
LEMMA ScannedSound ==
  ASSUME NEW h, NEW nodes \in [Depths -> KeyedNode], NEW count \in Int, NEW temp
  PROVE  Scanned(h, nodes, count, temp) \in ScanStates
<1> DEFINE n == ClientMaxPath * BlocksPerNode
           scan == Scanning(h, nodes, count, temp)
<1>1. n \in Nat /\ scan \in [0 .. n -> ScanStates]
  BY ScanningRounds
<1> HIDE DEF n, scan
<1>2. scan[n] \in ScanStates
  BY <1>1
<1>. QED BY <1>2 DEF Scanned, n, scan

LEMMA EvictLevelSound ==
  ASSUME NEW state \in EvictStates, NEW h \in Levels, path \in Paths,
         backup[h] = OwnBuffers(NodeAt(path, h))
  PROVE  EvictLevel(state, h) \in EvictStates
<1> DEFINE scanned == Scanned(h, state.client, state.load, state.temp)
           n == NodeAt(path, h)
           new == [state.buckets EXCEPT ![n] = Bucket(scanned.temp, OwnBuffers(n))]
           bufs == Encrypted(state.buffers, OwnBuffers(n), scanned.temp)
<1>1. /\ state.client \in [Depths -> KeyedNode] /\ state.load \in Int
      /\ state.buckets \in SoundBuckets /\ state.buffers \in [Addresses -> Contents]
  BY DEF EvictStates
<1>2. scanned \in ScanStates
  BY <1>1, ScannedSound
<1>3. n \in Nodes
  BY PathInTree
<1> HIDE DEF scanned, n
<1>4. /\ scanned.client \in [Depths -> KeyedNode] /\ scanned.load \in Int
      /\ scanned.temp \in FreshNode
  BY <1>2 DEF ScanStates
<1>5. Bucket(scanned.temp, OwnBuffers(n)) \in SoundBucket(n)
  BY <1>4 DEF SoundBucket
<1>6. new \in SoundBuckets
  BY <1>1, <1>3, <1>5 DEF SoundBuckets
<1>7. bufs \in [Addresses -> Contents]
  BY <1>1, <1>3, <1>4, EncryptedBuffers
<1> HIDE DEF new, bufs
<1>8. EvictLevel(state, h) =
        [client |-> scanned.client, load |-> scanned.load, temp |-> scanned.temp,
         buckets |-> new, buffers |-> bufs]
  BY DEF EvictLevel, Restored, scanned, n, new, bufs
<1>. QED BY <1>4, <1>6, <1>7, <1>8 DEF EvictStates

\* The levels of an eviction, from the leaf to the root.
LEMMA EvictingRounds ==
  ASSUME SlotInv, path \in Paths,
         \A h \in Levels : backup[h] = OwnBuffers(NodeAt(path, h))
  PROVE  /\ Evicting \in [0 .. Height -> EvictStates]
         /\ Evicting[0] = EvictStart
         /\ \A k \in 1 .. Height :
              Evicting[k] = EvictLevel(Evicting[k - 1], Height - k)
<1> DEFINE step == [z \in EvictStates \X (1 .. Height) |-> EvictLevel(z[1], Height - z[2])]
           F(f) == [k \in 0 .. Height |->
                      IF k = 0 THEN EvictStart ELSE EvictLevel(f[k - 1], Height - k)]
<1>1. Height \in Nat /\ \A k \in 1 .. Height : Height - k \in Levels
  BY TreeAssumption DEF Levels
<1>2. EvictStart \in EvictStates
  BY EmptyIsFresh DEF SlotInv, EvictStart, EvictStates
<1>3. step \in LoopSteps(EvictStates, Height)
  BY <1>1, EvictLevelSound DEF LoopSteps
<1>4. PICK f : IsLoop(f, EvictStates, Height, EvictStart, step)
  <2> HIDE DEF step
  <2>. QED BY <1>1, <1>2, <1>3, LoopExists
<1>5. \A k \in 1 .. Height : f[k] = EvictLevel(f[k - 1], Height - k)
  <2> SUFFICES ASSUME NEW k \in 1 .. Height
               PROVE  f[k] = EvictLevel(f[k - 1], Height - k)
    OBVIOUS
  <2>1. <<f[k - 1], k>> \in EvictStates \X (1 .. Height)
    BY <1>1, <1>4 DEF IsLoop
  <2>. QED BY <1>4, <2>1 DEF IsLoop
<1> HIDE DEF step
<1>6. f = F(f)
  BY <1>1, <1>4, <1>5 DEF IsLoop
<1>7. Evicting = F(Evicting)
  BY <1>6 DEF Evicting, EvictStart
<1>8. /\ Evicting[0] = EvictStart
      /\ \A k \in 1 .. Height : Evicting[k] = EvictLevel(Evicting[k - 1], Height - k)
  BY <1>1, <1>7
<1>9. \A k \in 0 .. Height : Evicting[k] \in EvictStates
  <2> DEFINE G == {k \in 0 .. Height : Evicting[k] \in EvictStates}
  <2>1. 0 \in G
    BY <1>1, <1>2, <1>8
  <2>2. ASSUME NEW k \in 1 .. Height, k - 1 \in G PROVE k \in G
    <3>1. EvictLevel(Evicting[k - 1], Height - k) \in EvictStates
      BY <1>1, <2>2, EvictLevelSound
    <3>. QED BY <1>1, <1>8, <3>1
  <2>3. \A k \in 0 .. Height : k \in G
    <3> HIDE DEF G
    <3>. QED BY <1>1, <2>1, <2>2, UpTo
  <2>. QED BY <2>3
<1>10. Evicting \in [0 .. Height -> EvictStates]
  BY <1>7, <1>9
<1>. QED BY <1>8, <1>10

-----------------------------------------------------------------------------
(* Every step keeps the slots sound.                                       *)

LEMMA KeyIsPositive ==
  ASSUME NEW r \in Request
  PROVE  r.ind \in Inds /\ P!BlockKey(r.ind) \in Nat \ {0}
<1>1. r.ind \in Inds /\ r.ind \in Nat
  BY DataAssumption DEF Request
<1>. QED BY <1>1 DEF P!BlockKey

LEMMA SlotInit == Init => SlotInv
<1> SUFFICES ASSUME Init PROVE SlotInv
  OBVIOUS
<1>1. P!Init
  BY DEF Init
<1>2. AppTypeOK
  <2>1. req \in Request /\ fetched \in Contents
    BY <1>1, SameData, DataTyping DEF P!Init
  <2>2. posmap \in [0 .. MaxPosMap - 1 -> Paths \cup {0}]
    BY <1>1 DEF P!Init
  <2>. QED BY <1>1, <2>1, <2>2 DEF P!Init, AppTypeOK
<1>3. client \in [Depths -> KeyedNode]
  BY EmptyIsFresh DEF Init
<1>4. buckets \in SoundBuckets
  <2>1. \A n \in Nodes : Bucket(EmptyNode, OwnBuffers(n)) \in SoundBucket(n)
    BY EmptyIsFresh DEF SoundBucket
  <2>2. buckets = [n \in Nodes |-> Bucket(EmptyNode, OwnBuffers(n))]
    BY DEF Init, OwnBuffers
  <2>. QED BY <2>1, <2>2 DEF SoundBuckets
<1>5. buffers \in [Addresses -> Contents] /\ load \in Int
  BY DataTyping DEF Init
<1>6. BackupOK
  BY <1>1 DEF P!Init, BackupOK
<1>. QED BY <1>2, <1>3, <1>4, <1>5, <1>6 DEF SlotInv

LEMMA SlotStart ==
  ASSUME SlotInv, NEW r \in ReadRequests \cup WriteRequests, StartAccess(r)
  PROVE  SlotInv'
<1>1. P!StartAccess(r) /\ UNCHANGED enclaveVars
  BY DEF StartAccess
<1>2. AppTypeOK
  BY DEF SlotInv
<1>3. req' \in Request
  BY <1>1, DataTyping DEF P!StartAccess
<1>4. newPath' \in Paths /\ path' \in Paths
  <2>1. r \in Request
    BY DataTyping
  <2>2. r.ind \in 0 .. MaxPosMap - 1
    BY <2>1, ClientAssumption DEF Request
  <2>3. posmap[r.ind] \in Paths \cup {0}
    BY <1>2, <2>2 DEF AppTypeOK
  <2>. QED BY <1>1, <2>3 DEF P!StartAccess
<1>5. posmap' \in [0 .. MaxPosMap - 1 -> Paths \cup {0}]
  <2>1. PICK behind \in Junk : posmap' = P!Swapped(r.ind, newPath', behind)
    BY <1>1 DEF P!StartAccess
  <2>2. behind \in Paths \cup {0} /\ DOMAIN posmap = 0 .. MaxPosMap - 1
    BY <1>2, ClientAssumption DEF AppTypeOK
  <2>. QED BY <1>2, <1>4, <2>1, <2>2 DEF AppTypeOK, P!Swapped
<1>6. pc' \in {"wild", "download"} /\ fetched' = fetched
  BY <1>1 DEF P!StartAccess
<1>7. AppTypeOK'
  BY <1>2, <1>3, <1>4, <1>5, <1>6 DEF AppTypeOK
<1>8. BackupOK'
  BY <1>6 DEF BackupOK
<1>. QED BY <1>1, <1>7, <1>8 DEF SlotInv, enclaveVars

LEMMA SlotDownload == SlotInv /\ DownloadPath => SlotInv'
<1> SUFFICES ASSUME SlotInv, DownloadPath PROVE SlotInv'
  OBVIOUS
<1> DEFINE n == Height * BlocksPerNode
<1>1. AppTypeOK /\ path \in Paths
  BY DEF SlotInv, AppTypeOK, DownloadPath
<1>2. n \in Nat /\ Loading \in [0 .. n -> LoadStates]
  BY <1>1, LoadingRounds
<1> HIDE DEF n
<1>3. Loading[n] \in LoadStates
  BY <1>2
<1>4. client' \in [Depths -> KeyedNode] /\ load' \in Int
  BY <1>3 DEF DownloadPath, Downloaded, LoadStates, n
<1>5. BackupOK'
  <2>1. \A h \in Levels : NodeAt(path, h) \in Nodes
    BY <1>1, PathInTree
  <2>2. \A h \in Levels : buckets[NodeAt(path, h)].addr = OwnBuffers(NodeAt(path, h))
    BY <2>1, BucketFields DEF SlotInv
  <2>. QED BY <2>2 DEF DownloadPath, BackupOK
<1>6. AppTypeOK'
  BY <1>1 DEF DownloadPath, AppTypeOK
<1>. QED BY <1>4, <1>5, <1>6 DEF SlotInv, DownloadPath

\* Where the fetch finds a block.
LEMMA FetchReads ==
  ASSUME NEW nodes \in [Depths -> KeyedNode], NEW key \in Nat
  PROVE  LET having == {d \in Depths : Hits(nodes[d], key) # {}}
             d == Min(having)
         IN having # {} =>
              /\ d \in Depths /\ Hits(nodes[d], key) # {}
              /\ Max(Hits(nodes[d], key)) \in Hits(nodes[d], key)
              /\ ReadContent(nodes[d], key) \in Contents
              /\ [nodes EXCEPT ![d] = NodeRead(nodes[d], key)] \in [Depths -> KeyedNode]
<1> DEFINE having == {d \in Depths : Hits(nodes[d], key) # {}}
           d == Min(having)
<1> SUFFICES ASSUME having # {}
             PROVE  /\ d \in Depths /\ Hits(nodes[d], key) # {}
                    /\ Max(Hits(nodes[d], key)) \in Hits(nodes[d], key)
                    /\ ReadContent(nodes[d], key) \in Contents
                    /\ [nodes EXCEPT ![d] = NodeRead(nodes[d], key)]
                         \in [Depths -> KeyedNode]
  OBVIOUS
<1>1. having \in SUBSET Nat
  BY ClientAssumption DEF Depths
<1>2. d \in having
  BY <1>1, MinOf
<1>3. d \in Depths /\ Hits(nodes[d], key) # {}
  BY <1>2
<1> HIDE DEF d, having
<1> DEFINE node == nodes[d]
           new == NodeRead(node, key)
<1>4. node \in KeyedNode /\ node \in SoundNode /\ node \in Node
  BY <1>3 DEF KeyedNode, SoundNode
<1>5. Max(Hits(node, key)) \in Hits(node, key)
  <2>1. BlocksPerNode - 1 \in Nat /\ Hits(node, key) \in SUBSET (0 .. BlocksPerNode - 1)
    BY NodeAssumption DEF Hits, Slots
  <2>. QED BY <1>3, <2>1, MaxOf
<1>6. ReadContent(node, key) \in Contents
  BY <1>4, <1>5 DEF ReadContent, Hits, Node
<1>7. /\ new \in SoundNode
      /\ Taken(new) = Taken(node) \ Hits(node, key)
      /\ \A j \in Slots \ Hits(node, key) : new.keys[j] = node.keys[j]
  BY <1>4, ReadSound
<1> HIDE DEF new
<1>8. new \in KeyedNode
  BY <1>4, <1>7 DEF KeyedNode, Taken
<1>9. [nodes EXCEPT ![d] = new] \in [Depths -> KeyedNode]
  BY <1>8
<1>. QED BY <1>3, <1>5, <1>6, <1>9 DEF new

LEMMA SlotFetch == SlotInv /\ ObliviousFetch => SlotInv'
<1> SUFFICES ASSUME SlotInv, ObliviousFetch PROVE SlotInv'
  OBVIOUS
<1> DEFINE key == P!BlockKey(req.ind)
           having == {d \in Depths : Hits(client[d], key) # {}}
           d == Min(having)
           content == IF having = {} THEN ZeroBlock ELSE ReadContent(client[d], key)
<1>1. AppTypeOK /\ path \in Paths /\ newPath \in Paths
  BY DEF SlotInv, AppTypeOK, ObliviousFetch
<1>2. client \in [Depths -> KeyedNode] /\ key \in Nat /\ load \in Int
  BY <1>1, KeyIsPositive DEF SlotInv, AppTypeOK
<1>3. having # {} => /\ ReadContent(client[d], key) \in Contents
                     /\ [client EXCEPT ![d] = NodeRead(client[d], key)]
                          \in [Depths -> KeyedNode]
  BY <1>2, FetchReads
<1>4. content \in Contents
  BY <1>3, DataTyping
<1>5. client' \in [Depths -> KeyedNode] /\ load' \in Int
  <2>1. CASE having = {}
    BY <2>1, <1>2 DEF ObliviousFetch
  <2>2. CASE having # {}
    <3>1. client' = [client EXCEPT ![d] = NodeRead(client[d], key)] /\ load' = load - 1
      BY <2>2 DEF ObliviousFetch
    <3>. QED BY <2>2, <3>1, <1>2, <1>3
  <2>. QED BY <2>1, <2>2
<1>6. fetched' = Stored(req, content) /\ req' = [req EXCEPT !.buf = Loaded(req, content)]
      /\ pc' = "put" /\ UNCHANGED <<posmap, path, newPath, buckets, buffers, backup>>
  BY DEF ObliviousFetch
<1> HIDE DEF content
<1>7. fetched' \in Contents /\ req' \in Request
  <2>1. req \in Request
    BY <1>1 DEF AppTypeOK
  <2>2. Stored(req, content) \in Contents /\ Loaded(req, content) \in Contents
    BY <1>4, <2>1, DataTyping
  <2>. QED BY <1>6, <2>1, <2>2 DEF Request
<1>8. AppTypeOK'
  BY <1>1, <1>6, <1>7 DEF AppTypeOK
<1>9. BackupOK'
  BY <1>6 DEF BackupOK, SlotInv, ObliviousFetch
<1>. QED BY <1>5, <1>6, <1>8, <1>9 DEF SlotInv

LEMMA SlotPut == SlotInv /\ PutToStash => SlotInv'
<1> SUFFICES ASSUME SlotInv, PutToStash PROVE SlotInv'
  OBVIOUS
<1>1. AppTypeOK /\ path \in Paths /\ newPath \in Paths /\ newPath \in Nat
  BY TreeAssumption DEF SlotInv, AppTypeOK, PutToStash
<1>2. P!BlockKey(req.ind) \in Nat /\ fetched \in Contents
  BY <1>1, KeyIsPositive DEF AppTypeOK
<1>3. client' \in [Depths -> KeyedNode] /\ load' \in Int
  BY <1>1, <1>2, StashWriteKeyed DEF SlotInv, PutToStash
<1>4. AppTypeOK'
  BY <1>1 DEF PutToStash, AppTypeOK
<1>5. BackupOK'
  BY DEF BackupOK, SlotInv, PutToStash
<1>. QED BY <1>3, <1>4, <1>5 DEF SlotInv, PutToStash

LEMMA SlotEvict == SlotInv /\ EvictPath => SlotInv'
<1> SUFFICES ASSUME SlotInv, EvictPath PROVE SlotInv'
  OBVIOUS
<1>1. AppTypeOK /\ path \in Paths
  BY DEF SlotInv, AppTypeOK, EvictPath
<1>2. \A h \in Levels : backup[h] = OwnBuffers(NodeAt(path, h))
  BY DEF SlotInv, BackupOK, EvictPath
<1>3. Height \in Nat /\ Evicting \in [0 .. Height -> EvictStates]
  BY <1>1, <1>2, EvictingRounds, TreeAssumption
<1>4. Evicting[Height] \in EvictStates
  BY <1>3
<1>5. /\ client' \in [Depths -> KeyedNode] /\ load' \in Int
      /\ buckets' \in SoundBuckets /\ buffers' \in [Addresses -> Contents]
  BY <1>4 DEF EvictPath, EvictStates
<1>6. AppTypeOK'
  BY <1>1 DEF EvictPath, AppTypeOK
<1>7. BackupOK'
  BY DEF EvictPath, BackupOK
<1>. QED BY <1>5, <1>6, <1>7 DEF SlotInv

LEMMA SlotAbort == SlotInv /\ (Abort \/ PathPointerFault) => SlotInv'
<1> SUFFICES ASSUME SlotInv, Abort \/ PathPointerFault PROVE SlotInv'
  OBVIOUS
<1>1. pc' = "aborted" /\ UNCHANGED <<posmap, req, path, newPath, fetched, enclaveVars>>
  BY DEF Abort, PathPointerFault, P!PathPointerFault, P!Abort
<1>2. AppTypeOK' /\ BackupOK'
  BY <1>1 DEF SlotInv, AppTypeOK, BackupOK
<1>. QED BY <1>1, <1>2 DEF SlotInv, enclaveVars

LEMMA SlotStep == SlotInv /\ [Next]_vars => SlotInv'
<1> SUFFICES ASSUME SlotInv, [Next]_vars PROVE SlotInv'
  OBVIOUS
<1>1. ASSUME NEW r \in ReadRequests \cup WriteRequests, StartAccess(r)
      PROVE  SlotInv'
  BY <1>1, SlotStart
<1>2. CASE DownloadPath
  BY <1>2, SlotDownload
<1>3. CASE ObliviousFetch
  BY <1>3, SlotFetch
<1>4. CASE PutToStash
  BY <1>4, SlotPut
<1>5. CASE EvictPath
  BY <1>5, SlotEvict
<1>6. CASE PathPointerFault \/ DownloadOverflow \/ PutOverflow
  BY <1>6, SlotAbort DEF DownloadOverflow, PutOverflow
<1>7. CASE UNCHANGED vars
  BY <1>7 DEF vars, appVars, enclaveVars, SlotInv, AppTypeOK, BackupOK
<1>. QED
  BY <1>1, <1>2, <1>3, <1>4, <1>5, <1>6, <1>7 DEF Next, Aborted

-----------------------------------------------------------------------------
(* What follows for the buckets.                                           *)

\* Whatever is accessed, every node and bucket stays sound: the counters agree
\* with the presence bits, and the slots of the buckets keep their buffers.
THEOREM SlotsSound == Spec => []SlotInv
BY SlotInit, SlotStep, PTL DEF Spec

\* A slot of a bucket has a key exactly when it is taken.
THEOREM KeysGoByPresence == Spec => []KeysMarkPresence
<1>1. SlotInv => KeysMarkPresence
  <2> SUFFICES ASSUME SlotInv, NEW n \in Nodes, NEW i \in Slots
               PROVE  buckets[n].keys[i] # 0 <=> buckets[n].presence[i] > 0
    BY DEF KeysMarkPresence
  <2>. QED BY BucketFields DEF SlotInv, FreshNode
<1>. QED BY <1>1, SlotsSound, PTL

\* No buffer belongs to two slots.
THEOREM BuffersStayOwned == Spec => []BuffersOwned
<1>1. SlotInv => BuffersOwned
  <2> SUFFICES ASSUME SlotInv, NEW n \in Nodes, NEW m \in Nodes,
                      NEW i \in Slots, NEW j \in Slots,
                      buckets[n].addr[i] = buckets[m].addr[j]
               PROVE  n = m /\ i = j
    BY DEF BuffersOwned
  <2>1. buckets[n].addr = OwnBuffers(n) /\ buckets[m].addr = OwnBuffers(m)
    BY BucketFields DEF SlotInv
  <2>. QED BY <2>1 DEF OwnBuffers
<1>. QED BY <1>1, SlotsSound, PTL

-----------------------------------------------------------------------------
(* The refinement.                                                         *)

\* PathORAM again, with what is proved of it.
PP == INSTANCE PathORAM_proofs
        WITH tree <- TreeBar, stash <- StashBar, stashLoad <- load,
             StashCap <- ClientMaxPath * BlocksPerNode

-----------------------------------------------------------------------------
(* Counting.                                                               *)

\* The values of a function on a finite set: as many as arguments, unless two
\* arguments have the same.
LEMMA ImageCount ==
  ASSUME NEW S, IsFiniteSet(S), NEW g, g = [x \in S |-> g[x]],
         NEW T, T = {g[x] : x \in S}
  PROVE  /\ IsFiniteSet(T)
         /\ Cardinality(T) \in Nat /\ Cardinality(S) \in Nat
         /\ Cardinality(T) =< Cardinality(S)
         /\ Cardinality(T) = Cardinality(S) <=> \A x, y \in S : g[x] = g[y] => x = y
<1>1. g \in Surjection(S, T)
  BY DEF Surjection
<1>2. /\ IsFiniteSet(T) /\ Cardinality(T) =< Cardinality(S)
      /\ Cardinality(T) = Cardinality(S) <=> g \in Injection(S, T)
  BY <1>1, FS_Surjection
<1>3. Cardinality(T) \in Nat /\ Cardinality(S) \in Nat
  BY <1>2, FS_CardinalityType
<1>4. g \in Injection(S, T) <=> \A x, y \in S : g[x] = g[y] => x = y
  BY DEF Injection, IsInjective
<1>. QED BY <1>2, <1>3, <1>4

\* The slots of client->path, by number.
StashSlots == ClientMaxPath * BlocksPerNode

LEMMA SlotNumbers ==
  /\ StashSlots \in Nat \ {0}
  /\ IsFiniteSet(Depths \X Slots)
  /\ Cardinality(Depths \X Slots) = StashSlots
<1>1. ClientMaxPath \in Nat \ {0} /\ BlocksPerNode \in Nat \ {0}
  BY ClientAssumption, NodeAssumption, TreeAssumption
<1>2. \A a, b \in Nat \ {0} : a * b \in Nat \ {0}
  OBVIOUS
<1>3. StashSlots \in Nat \ {0}
  BY <1>1, <1>2 DEF StashSlots
<1>4. IsFiniteSet(Depths) /\ Cardinality(Depths) = ClientMaxPath
  BY <1>1, FS_Interval DEF Depths
<1>5. IsFiniteSet(Slots) /\ Cardinality(Slots) = BlocksPerNode
  BY SlotsCounted
<1>. QED BY <1>3, <1>4, <1>5, FS_Product DEF StashSlots

\* What the theorems of PathORAM assume of its constants.
LEMMA Assumed ==
  /\ MaxPosMap \in Nat
  /\ Inds \subseteq 0 .. MaxPosMap - 1
  /\ BlocksPerNode \in Nat \ {0}
  /\ ClientMaxPath * BlocksPerNode \in Nat \ {0}
  /\ Junk \subseteq Paths \cup {0}
  /\ Junk # {}
BY SlotNumbers, ClientAssumption, NodeAssumption DEF StashSlots

LEMMA SameCounts ==
  \A S : P!Cardinality(S) = Cardinality(S) /\ PP!Cardinality(S) = Cardinality(S)
BY DEF P!Cardinality, PP!Cardinality, Cardinality

-----------------------------------------------------------------------------
(* The blocks in the slots of nodes.                                       *)

BlockOf(node, i) ==
  [key |-> node.keys[i], path |-> node.paths[i], data |-> node.contents[i]]
BlocksOf(node) == {BlockOf(node, i) : i \in Taken(node)}
BlockIn(nodes, x) == BlockOf(nodes[x[1]], x[2])
BlocksIn(nodes) == {BlockIn(nodes, x) : x \in TakenIn(nodes)}

LEMMA StashBlocks == StashBar = BlocksIn(client)
<1>1. ASSUME NEW b \in StashBar PROVE b \in BlocksIn(client)
  <2>1. PICK d \in Depths : b \in BlocksAt(client[d].keys, client[d].paths,
                                           client[d].presence, client[d].contents)
    BY DEF StashBar
  <2>2. PICK i \in Slots : client[d].presence[i] > 0 /\ b = BlockOf(client[d], i)
    BY <2>1 DEF BlocksAt, BlockOf
  <2>3. <<d, i>> \in TakenIn(client) /\ b = BlockIn(client, <<d, i>>)
    BY <2>2 DEF TakenIn, BlockIn
  <2>. QED BY <2>3 DEF BlocksIn
<1>2. ASSUME NEW b \in BlocksIn(client) PROVE b \in StashBar
  <2>1. PICK x \in TakenIn(client) : b = BlockIn(client, x)
    BY DEF BlocksIn
  <2>2. /\ x[1] \in Depths /\ x[2] \in Slots /\ client[x[1]].presence[x[2]] > 0
        /\ b = BlockOf(client[x[1]], x[2])
    BY <2>1 DEF TakenIn, BlockIn
  <2>3. b \in BlocksAt(client[x[1]].keys, client[x[1]].paths,
                       client[x[1]].presence, client[x[1]].contents)
    BY <2>2 DEF BlocksAt, BlockOf
  <2>. QED BY <2>2, <2>3 DEF StashBar
<1>. QED BY <1>1, <1>2

\* No more slots are taken than there are, and no more blocks are in them.
LEMMA NodesCounted ==
  ASSUME NEW nodes \in [Depths -> KeyedNode]
  PROVE  /\ IsFiniteSet(TakenIn(nodes)) /\ IsFiniteSet(BlocksIn(nodes))
         /\ Cardinality(TakenIn(nodes)) \in 0 .. StashSlots
         /\ Cardinality(BlocksIn(nodes)) \in 0 .. Cardinality(TakenIn(nodes))
         /\ Cardinality(BlocksIn(nodes)) = Cardinality(TakenIn(nodes)) <=>
              \A x, y \in TakenIn(nodes) :
                BlockIn(nodes, x) = BlockIn(nodes, y) => x = y
<1> DEFINE S == TakenIn(nodes)
           g == [x \in S |-> BlockIn(nodes, x)]
<1>1. S \subseteq Depths \X Slots
  BY DEF TakenIn
<1>2. IsFiniteSet(S) /\ Cardinality(S) =< StashSlots
  BY <1>1, SlotNumbers, FS_Subset
<1>3. g = [x \in S |-> g[x]] /\ BlocksIn(nodes) = {g[x] : x \in S}
  BY DEF BlocksIn
<1>4. \A x, y \in S : g[x] = g[y] <=> BlockIn(nodes, x) = BlockIn(nodes, y)
  OBVIOUS
<1> HIDE DEF S, g
<1>5. /\ IsFiniteSet(BlocksIn(nodes))
      /\ Cardinality(BlocksIn(nodes)) \in Nat /\ Cardinality(S) \in Nat
      /\ Cardinality(BlocksIn(nodes)) =< Cardinality(S)
      /\ Cardinality(BlocksIn(nodes)) = Cardinality(S) <=>
           \A x, y \in S : g[x] = g[y] => x = y
  BY <1>2, <1>3, ImageCount
<1>6. Cardinality(BlocksIn(nodes)) = Cardinality(S) <=>
        \A x, y \in S : BlockIn(nodes, x) = BlockIn(nodes, y) => x = y
  BY <1>4, <1>5
<1>7. StashSlots \in Nat
  BY SlotNumbers
<1>. QED BY <1>2, <1>5, <1>6, <1>7 DEF S

LEMMA NodeCounted ==
  ASSUME NEW node \in SoundNode
  PROVE  /\ IsFiniteSet(Taken(node)) /\ IsFiniteSet(BlocksOf(node))
         /\ node.num = Cardinality(Taken(node)) /\ node.num \in 0 .. BlocksPerNode
         /\ Cardinality(BlocksOf(node)) \in 0 .. node.num
         /\ Cardinality(BlocksOf(node)) = node.num =>
              \A i, j \in Taken(node) : BlockOf(node, i) = BlockOf(node, j) => i = j
<1> DEFINE S == Taken(node)
           g == [i \in S |-> BlockOf(node, i)]
<1>1. /\ IsFiniteSet(S) /\ node.num = Cardinality(S)
      /\ node.num \in 0 .. BlocksPerNode
  BY FreeOrFull DEF SoundNode, Filling
<1>2. g = [i \in S |-> g[i]] /\ BlocksOf(node) = {g[i] : i \in S}
  BY DEF BlocksOf
<1>3. \A i, j \in S : g[i] = g[j] <=> BlockOf(node, i) = BlockOf(node, j)
  OBVIOUS
<1> HIDE DEF S, g
<1>4. /\ IsFiniteSet(BlocksOf(node))
      /\ Cardinality(BlocksOf(node)) \in Nat
      /\ Cardinality(BlocksOf(node)) =< Cardinality(S)
      /\ Cardinality(BlocksOf(node)) = Cardinality(S) =>
           \A i, j \in S : g[i] = g[j] => i = j
  BY <1>1, <1>2, ImageCount
<1>5. Cardinality(BlocksOf(node)) = Cardinality(S) =>
        \A i, j \in S : BlockOf(node, i) = BlockOf(node, j) => i = j
  BY <1>3, <1>4
<1>. QED BY <1>1, <1>4, <1>5 DEF S

\* There is room exactly as long as not all slots are taken.
LEMMA RoomByCount ==
  ASSUME NEW nodes \in [Depths -> KeyedNode], NEW key \in Nat \ {0}
  PROVE  NoRoom(nodes, key) <=> Cardinality(TakenIn(nodes)) = StashSlots
<1>1. \A d \in Depths : CanWrite(nodes[d], key) <=> FreeSlots(nodes[d]) # {}
  <2> SUFFICES ASSUME NEW d \in Depths
               PROVE  CanWrite(nodes[d], key) <=> FreeSlots(nodes[d]) # {}
    OBVIOUS
  <2>1. nodes[d] \in Node /\ nodes[d].num = Filling(nodes[d])
    BY DEF KeyedNode, SoundNode
  <2>. QED BY <2>1, FreeOrFull DEF CanWrite
<1>2. NoRoom(nodes, key) <=> TakenIn(nodes) = Depths \X Slots
  <2>1. \A d \in Depths, i \in Slots : nodes[d].presence[i] \in {0, 1}
    BY DEF KeyedNode, SoundNode, Node
  <2>2. NoRoom(nodes, key) <=> \A d \in Depths, i \in Slots : nodes[d].presence[i] > 0
    BY <1>1, <2>1 DEF NoRoom, FreeSlots
  <2>3. TakenIn(nodes) = Depths \X Slots
          <=> \A d \in Depths, i \in Slots : nodes[d].presence[i] > 0
    <3>1. \A d \in Depths, i \in Slots :
            <<d, i>> \in TakenIn(nodes) <=> nodes[d].presence[i] > 0
      BY DEF TakenIn
    <3>2. \A x \in Depths \X Slots :
            x \in TakenIn(nodes) <=> nodes[x[1]].presence[x[2]] > 0
      BY DEF TakenIn
    <3>3. TakenIn(nodes) \subseteq Depths \X Slots
      BY DEF TakenIn
    <3>4. ASSUME TakenIn(nodes) = Depths \X Slots, NEW d \in Depths, NEW i \in Slots
          PROVE  nodes[d].presence[i] > 0
      BY <3>1, <3>4
    <3>5. ASSUME \A d \in Depths, i \in Slots : nodes[d].presence[i] > 0
          PROVE  TakenIn(nodes) = Depths \X Slots
      BY <3>2, <3>3, <3>5
    <3>. QED BY <3>4, <3>5
  <2>. QED BY <2>2, <2>3
<1>3. TakenIn(nodes) \subseteq Depths \X Slots
  BY DEF TakenIn
<1>. QED BY <1>2, <1>3, SlotNumbers, FS_Subset

\* A block put into a free slot.
LEMMA PutAtBlocks ==
  ASSUME NEW nodes \in [Depths -> KeyedNode], NEW x \in FreeIn(nodes),
         NEW key \in Nat, NEW label \in Nat, NEW content \in Contents
  PROVE  LET new == PutAt(nodes, x, key, label, content)
         IN /\ TakenIn(new) = TakenIn(nodes) \cup {x} /\ x \notin TakenIn(nodes)
            /\ BlocksIn(new) = BlocksIn(nodes)
                                 \cup {[key |-> key, path |-> label, data |-> content]}
            /\ Cardinality(TakenIn(new)) = Cardinality(TakenIn(nodes)) + 1
<1> DEFINE new == PutAt(nodes, x, key, label, content)
           d == x[1]
           i == x[2]
           old == nodes[d]
           filled == Filled(old, i, key, label, content)
           block == [key |-> key, path |-> label, data |-> content]
<1>1. /\ x = <<d, i>> /\ d \in Depths /\ i \in Slots
      /\ old \in SoundNode /\ i \in FreeSlots(old)
  BY DEF FreeIn, FreeSlots, KeyedNode
<1>2. /\ Taken(filled) = Taken(old) \cup {i} /\ i \notin Taken(old)
      /\ filled.keys[i] = key /\ filled.paths[i] = label /\ filled.contents[i] = content
      /\ \A j \in Slots \ {i} :
           /\ filled.keys[j] = old.keys[j] /\ filled.paths[j] = old.paths[j]
           /\ filled.contents[j] = old.contents[j]
  BY <1>1, FilledSound
<1>3. new[d] = filled /\ \A c \in Depths \ {d} : new[c] = nodes[c]
  BY <1>1 DEF PutAt
<1> HIDE DEF new, filled, d, i
<1>4. \A y \in Depths \X Slots : y[1] = d => (y \in TakenIn(new) <=> y[2] \in Taken(filled))
  BY <1>3 DEF TakenIn, Taken
<1>5. \A y \in Depths \X Slots : y[1] # d => (y \in TakenIn(new) <=> y \in TakenIn(nodes))
  BY <1>3 DEF TakenIn
<1>6. \A y \in Depths \X Slots : y[1] = d => (y \in TakenIn(nodes) <=> y[2] \in Taken(old))
  BY DEF TakenIn, Taken
<1>7. TakenIn(new) \subseteq Depths \X Slots /\ TakenIn(nodes) \subseteq Depths \X Slots
  BY DEF TakenIn
<1>8. TakenIn(new) = TakenIn(nodes) \cup {x} /\ x \notin TakenIn(nodes)
  <2>1. \A y \in Depths \X Slots : y \in TakenIn(new) <=> y \in TakenIn(nodes) \/ y = x
    BY <1>1, <1>2, <1>4, <1>5, <1>6
  <2>2. x \notin TakenIn(nodes) /\ x \in Depths \X Slots
    BY <1>1, <1>2, <1>6
  <2>. QED BY <1>7, <2>1, <2>2
<1>9. BlockIn(new, x) = block
  BY <1>1, <1>2, <1>3 DEF BlockIn, BlockOf
<1>10. \A y \in TakenIn(nodes) : BlockIn(new, y) = BlockIn(nodes, y)
  <2> SUFFICES ASSUME NEW y \in TakenIn(nodes) PROVE BlockIn(new, y) = BlockIn(nodes, y)
    OBVIOUS
  <2>1. y \in Depths \X Slots /\ y # x
    BY <1>7, <1>8
  <2>2. CASE y[1] = d
    <3>1. y[2] \in Slots \ {i}
      BY <1>1, <2>1, <2>2
    <3>. QED BY <1>2, <1>3, <2>2, <3>1 DEF BlockIn, BlockOf
  <2>3. CASE y[1] # d
    BY <1>3, <2>1, <2>3 DEF BlockIn
  <2>. QED BY <2>2, <2>3
<1>11. BlocksIn(new) = BlocksIn(nodes) \cup {block}
  <2> HIDE DEF block
  <2>1. ASSUME NEW b \in BlocksIn(new) PROVE b \in BlocksIn(nodes) \cup {block}
    <3>1. PICK y \in TakenIn(new) : b = BlockIn(new, y)
      BY DEF BlocksIn
    <3>2. CASE y = x
      BY <1>9, <3>1, <3>2
    <3>3. CASE y # x
      BY <1>8, <1>10, <3>1, <3>3 DEF BlocksIn
    <3>. QED BY <3>2, <3>3
  <2>2. ASSUME NEW b \in BlocksIn(nodes) PROVE b \in BlocksIn(new)
    BY <1>8, <1>10 DEF BlocksIn
  <2>3. block \in BlocksIn(new)
    BY <1>8, <1>9 DEF BlocksIn
  <2>. QED BY <2>1, <2>2, <2>3
<1>12. Cardinality(TakenIn(new)) = Cardinality(TakenIn(nodes)) + 1
  <2>1. IsFiniteSet(TakenIn(nodes))
    BY NodesCounted
  <2>. QED BY <1>8, <2>1, FS_AddElement
<1>. QED BY <1>8, <1>11, <1>12 DEF new

\* A block taken out of its slot, whatever its node's key becomes there.
LEMMA TakeOutBlocks ==
  ASSUME NEW nodes \in [Depths -> KeyedNode], NEW x \in TakenIn(nodes), NEW node,
         Taken(node) = Taken(nodes[x[1]]) \ {x[2]},
         \A j \in Taken(node) : BlockOf(node, j) = BlockOf(nodes[x[1]], j)
  PROVE  LET new == [nodes EXCEPT ![x[1]] = node]
         IN /\ TakenIn(new) = TakenIn(nodes) \ {x}
            /\ \A y \in TakenIn(new) : BlockIn(new, y) = BlockIn(nodes, y)
            /\ BlocksIn(new) \cup {BlockIn(nodes, x)} = BlocksIn(nodes)
            /\ Cardinality(TakenIn(new)) = Cardinality(TakenIn(nodes)) - 1
<1> DEFINE d == x[1]
           new == [nodes EXCEPT ![d] = node]
<1>1. d \in Depths /\ x[2] \in Slots /\ x = <<d, x[2]>>
  BY DEF TakenIn
<1>2. new[d] = node /\ \A c \in Depths \ {d} : new[c] = nodes[c]
  BY <1>1
<1> HIDE DEF new, d
<1>3. ASSUME NEW y \in Depths \X Slots, y[1] = d
      PROVE  /\ y \in TakenIn(new) <=> y[2] \in Taken(node)
             /\ y \in TakenIn(nodes) <=> y[2] \in Taken(nodes[d])
  BY <1>2, <1>3 DEF TakenIn, Taken
<1>4. \A y \in Depths \X Slots : y[1] # d => (y \in TakenIn(new) <=> y \in TakenIn(nodes))
  BY <1>2 DEF TakenIn
<1>5. TakenIn(new) \subseteq Depths \X Slots /\ TakenIn(nodes) \subseteq Depths \X Slots
  BY DEF TakenIn
<1>6. TakenIn(new) = TakenIn(nodes) \ {x}
  <2>1. \A y \in Depths \X Slots : y = x <=> y[1] = d /\ y[2] = x[2]
    BY <1>1
  <2>2. ASSUME NEW y \in Depths \X Slots
        PROVE  y \in TakenIn(new) <=> y \in TakenIn(nodes) /\ y # x
    <3>1. Taken(node) = Taken(nodes[d]) \ {x[2]}
      BY DEF d
    <3>2. CASE y[1] = d
      BY <1>3, <2>1, <3>1, <3>2
    <3>3. CASE y[1] # d
      BY <1>4, <2>1, <3>3
    <3>. QED BY <3>2, <3>3
  <2>. QED BY <1>5, <2>2
<1>7. \A y \in TakenIn(new) : BlockIn(new, y) = BlockIn(nodes, y)
  <2> SUFFICES ASSUME NEW y \in TakenIn(new) PROVE BlockIn(new, y) = BlockIn(nodes, y)
    OBVIOUS
  <2>1. CASE y[1] = d
    <3>1. y[2] \in Taken(node)
      BY <1>3, <1>5, <2>1
    <3>. QED BY <1>2, <2>1, <3>1 DEF BlockIn, d
  <2>2. CASE y[1] # d
    BY <1>2, <1>5, <2>2 DEF BlockIn
  <2>. QED BY <2>1, <2>2
<1>8. BlocksIn(new) \cup {BlockIn(nodes, x)} = BlocksIn(nodes)
  BY <1>6, <1>7 DEF BlocksIn
<1>9. Cardinality(TakenIn(new)) = Cardinality(TakenIn(nodes)) - 1
  BY <1>6, NodesCounted, FS_RemoveElement
<1>. QED BY <1>6, <1>7, <1>8, <1>9 DEF new, d

-----------------------------------------------------------------------------
(* The blocks in the slots of buckets.                                     *)

BucketBlock(bks, bufs, n, i) ==
  [key |-> bks[n].keys[i], path |-> bks[n].paths[i], data |-> bufs[bks[n].addr[i]]]
BucketBlocks(bks, bufs, n) == {BucketBlock(bks, bufs, n, i) : i \in Taken(bks[n])}

\* No two slots of a bucket hold the same block.
Distinct(bks, bufs, n) ==
  \A i, j \in Taken(bks[n]) :
    BucketBlock(bks, bufs, n, i) = BucketBlock(bks, bufs, n, j) => i = j
BucketsDistinct == \A n \in Nodes : Distinct(buckets, buffers, n)

\* stash_load is the number of presence bits in client->path.
LoadCounts == load = Cardinality(TakenIn(client))

LEMMA TreeBlocks ==
  ASSUME NEW n \in Nodes
  PROVE  TreeBar[n] = BucketBlocks(buckets, buffers, n)
<1> DEFINE b == buckets[n]
           content == [i \in Slots |-> buffers[b.addr[i]]]
<1>1. TreeBar[n] = BlocksAt(b.keys, b.paths, b.presence, content)
  BY DEF TreeBar
<1>2. \A i \in Slots : content[i] = buffers[b.addr[i]]
  OBVIOUS
<1> HIDE DEF b, content
<1>3. BlocksAt(b.keys, b.paths, b.presence, content)
        = {[key |-> b.keys[i], path |-> b.paths[i], data |-> buffers[b.addr[i]]] :
             i \in Taken(b)}
  BY <1>2 DEF BlocksAt, Taken
<1>. QED BY <1>1, <1>3 DEF BucketBlocks, BucketBlock, b

-----------------------------------------------------------------------------
(* The download.                                                           *)

\* The slots of the path that carry a block, as far as they are visited.
KeyAt(x) == buckets[NodeAt(path, x[1])].keys[x[2]]
BlockAt(x) == BucketBlock(buckets, buffers, NodeAt(path, x[1]), x[2])
Carried(k) == {x \in Visited(k) : KeyAt(x) # 0}

\* What a round of the download has done: all blocks so far are in the stash,
\* each in a slot of its own, or there were more of them than slots.
LoadedSoFar(k) ==
  LET s == Loading[k]
      n == Cardinality(TakenIn(client)) + Cardinality(Carried(k))
  IN /\ IsFiniteSet(Carried(k))
     /\ s.failed => n > StashSlots
     /\ ~ s.failed => /\ BlocksIn(s.client) = BlocksIn(client) \cup {BlockAt(x) : x \in Carried(k)}
                      /\ Cardinality(TakenIn(s.client)) = n
                      /\ s.load = load + Cardinality(Carried(k))

LEMMA SlotTyping ==
  ASSUME SlotInv, path \in Paths, NEW x \in Levels \X Slots
  PROVE  /\ NodeAt(path, x[1]) \in Nodes
         /\ KeyAt(x) \in Nat /\ BlockAt(x).path \in Nat /\ BlockAt(x).data \in Contents
<1> DEFINE n == NodeAt(path, x[1])
<1>1. n \in Nodes /\ x[2] \in Slots
  BY PathInTree
<1>2. PICK node \in FreshNode :
        /\ buckets[n].keys = node.keys /\ buckets[n].paths = node.paths
        /\ buckets[n].addr = OwnBuffers(n)
  BY <1>1, BucketFields DEF SlotInv
<1>3. node.keys[x[2]] \in Nat /\ node.paths[x[2]] \in Nat
  BY <1>1 DEF FreshNode, SoundNode, Node
<1>4. buffers[buckets[n].addr[x[2]]] \in Contents
  <2>1. buckets[n].addr[x[2]] \in Addresses
    BY <1>1, <1>2 DEF OwnBuffers, Addresses
  <2>. QED BY <2>1 DEF SlotInv
<1> HIDE DEF n
<1>. QED BY <1>1, <1>2, <1>3, <1>4 DEF KeyAt, BlockAt, BucketBlock, n

LEMMA LoadingCounts ==
  ASSUME SlotInv, path \in Paths
  PROVE  \A k \in 0 .. Height * BlocksPerNode : LoadedSoFar(k)
<1> DEFINE n == Height * BlocksPerNode
           start == Cardinality(TakenIn(client))
<1>1. /\ n \in Nat
      /\ \A k \in 1 .. n : SlotAt(k) \in Levels \X Slots
      /\ Visited(0) = {}
      /\ \A k \in 1 .. n : /\ Visited(k) = Visited(k - 1) \cup {SlotAt(k)}
                           /\ SlotAt(k) \notin Visited(k - 1)
  BY TreeAssumption, ScanOrder DEF Levels
<1>2. /\ Loading \in [0 .. n -> LoadStates]
      /\ Loading[0] = LoadStart
      /\ \A k \in 1 .. n : Loading[k] = LoadSlot(Loading[k - 1], SlotAt(k))
  BY LoadingRounds
<1> HIDE DEF n
<1>3. start \in Nat
  BY NodesCounted DEF SlotInv
<1>4. LoadedSoFar(0)
  <2>1. Carried(0) = {}
    BY <1>1 DEF Carried
  <2>2. IsFiniteSet({}) /\ Cardinality({}) = 0 /\ {BlockAt(x) : x \in {}} = {}
    BY FS_EmptySet
  <2>3. load \in Int
    BY DEF SlotInv
  <2>4. /\ Loading[0].client = client /\ Loading[0].load = load
        /\ ~ Loading[0].failed
    BY <1>2 DEF LoadStart
  <2>5. /\ start = start + Cardinality(Carried(0))
        /\ load = load + Cardinality(Carried(0))
    BY <1>3, <2>1, <2>2, <2>3
  <2>6. BlocksIn(client) = BlocksIn(client) \cup {BlockAt(x) : x \in Carried(0)}
    BY <2>1
  <2>7. IsFiniteSet(Carried(0))
    BY <2>1, <2>2
  <2> HIDE DEF start
  <2>. QED BY <2>4, <2>5, <2>6, <2>7 DEF LoadedSoFar, start
<1>5. ASSUME NEW k \in 1 .. n, LoadedSoFar(k - 1) PROVE LoadedSoFar(k)
  <2> DEFINE x == SlotAt(k)
             p == Loading[k - 1]
             s == Loading[k]
             c == Carried(k - 1)
             key == KeyAt(x)
             label == BlockAt(x).path
             content == BlockAt(x).data
  <2>1. x \in Levels \X Slots /\ x \notin Visited(k - 1)
    BY <1>1
  <2>2. key \in Nat /\ label \in Nat /\ content \in Contents
        /\ BlockAt(x) = [key |-> key, path |-> label, data |-> content]
    BY <2>1, SlotTyping DEF BlockAt, BucketBlock, KeyAt
  <2>3. p \in LoadStates
    BY <1>1, <1>2
  <2>4. /\ p.client \in [Depths -> KeyedNode] /\ p.load \in Int /\ p.failed \in BOOLEAN
    BY <2>3 DEF LoadStates
  <2>5. s = [client |-> WriteToStash(p.client, key, label, content),
             load |-> p.load + (IF key # 0 THEN 1 ELSE 0),
             failed |-> p.failed \/ (key # 0 /\ NoRoom(p.client, key))]
    BY <1>2 DEF LoadSlot, KeyAt, BlockAt, BucketBlock
  <2>6. /\ IsFiniteSet(c) /\ Cardinality(c) \in Nat
        /\ p.failed => start + Cardinality(c) > StashSlots
        /\ ~ p.failed => /\ BlocksIn(p.client) = BlocksIn(client) \cup {BlockAt(y) : y \in c}
                         /\ Cardinality(TakenIn(p.client)) = start + Cardinality(c)
                         /\ p.load = load + Cardinality(c)
    BY <1>5, FS_CardinalityType DEF LoadedSoFar
  <2>7. StashSlots \in Nat /\ load \in Int
    BY SlotNumbers DEF SlotInv
  <2> HIDE DEF x, p, s, c, key, label, content, start
  <2>8. CASE key = 0
    <3>1. Carried(k) = c
      BY <1>1, <2>8 DEF Carried, c, x, key
    <3>2. NoRoom(p.client, key)
      BY <2>8 DEF NoRoom, CanWrite
    <3>3. s = p
      <4>1. WriteToStash(p.client, key, label, content) = p.client
        BY <2>2, <2>4, <3>2, StashWrite
      <4>2. p = [client |-> p.client, load |-> p.load, failed |-> p.failed]
        BY <2>3 DEF LoadStates
      <4>. QED BY <2>4, <2>5, <2>8, <4>1, <4>2
    <3>. QED BY <2>6, <3>1, <3>3 DEF LoadedSoFar, s, start
  <2>9. CASE key # 0
    <3>1. Carried(k) = c \cup {x} /\ x \notin c
      BY <1>1, <2>1, <2>9 DEF Carried, c, x, key
    <3>2. IsFiniteSet(Carried(k)) /\ Cardinality(Carried(k)) = Cardinality(c) + 1
      BY <2>6, <3>1, FS_AddElement
    <3>3. NoRoom(p.client, key) <=> Cardinality(TakenIn(p.client)) = StashSlots
      BY <2>2, <2>4, <2>9, RoomByCount
    <3>4. s.load = p.load + 1 /\ s.failed = (p.failed \/ NoRoom(p.client, key))
          /\ s.client = WriteToStash(p.client, key, label, content)
      BY <2>5, <2>9
    <3>5. CASE s.failed
      <4>1. start + Cardinality(Carried(k)) > StashSlots
        <5>1. CASE p.failed
          BY <1>3, <2>6, <2>7, <3>2, <5>1
        <5>2. CASE ~ p.failed
          <6>1. NoRoom(p.client, key)
            BY <3>4, <3>5, <5>2
          <6>2. start + Cardinality(c) = StashSlots
            BY <2>6, <3>3, <5>2, <6>1
          <6>. QED BY <1>3, <2>6, <2>7, <3>2, <6>2
        <5>. QED BY <5>1, <5>2
      <4>. QED BY <3>2, <3>5, <4>1 DEF LoadedSoFar, s, start
    <3>6. CASE ~ s.failed
      <4>1. ~ p.failed /\ ~ NoRoom(p.client, key)
        BY <3>4, <3>6
      <4>2. PICK y \in FreeIn(p.client) :
              s.client = PutAt(p.client, y, key, label, content)
        BY <2>2, <2>4, <3>4, <4>1, StashWrite
      <4>3. /\ BlocksIn(s.client) = BlocksIn(p.client) \cup {BlockAt(x)}
            /\ Cardinality(TakenIn(s.client)) = Cardinality(TakenIn(p.client)) + 1
        BY <2>2, <2>4, <4>2, PutAtBlocks
      <4>4. {BlockAt(w) : w \in Carried(k)} = {BlockAt(w) : w \in c} \cup {BlockAt(x)}
        BY <3>1
      <4>5. BlocksIn(s.client) = BlocksIn(client) \cup {BlockAt(w) : w \in Carried(k)}
        BY <2>6, <4>1, <4>3, <4>4
      <4>6. Cardinality(TakenIn(s.client)) = start + Cardinality(Carried(k))
        BY <1>3, <2>6, <3>2, <4>1, <4>3
      <4>7. s.load = load + Cardinality(Carried(k))
        BY <2>6, <2>7, <3>2, <3>4, <4>1
      <4>. QED BY <3>2, <3>6, <4>5, <4>6, <4>7 DEF LoadedSoFar, s, start
    <3>. QED BY <3>5, <3>6
  <2>. QED BY <2>2, <2>8, <2>9
<1> DEFINE G == {k \in 0 .. n : LoadedSoFar(k)}
<1>6. 0 \in G
  BY <1>1, <1>4
<1>7. ASSUME NEW k \in 1 .. n, k - 1 \in G PROVE k \in G
  BY <1>1, <1>5, <1>7
<1>8. \A k \in 0 .. n : k \in G
  <2> HIDE DEF G
  <2>. QED BY <1>1, <1>6, <1>7, UpTo
<1>. QED BY <1>8 DEF n

\* What the download finds on the path: the blocks PathORAM names, and as many
\* slots.
LEMMA PathSlots ==
  ASSUME SlotInv, path \in Paths, BucketsDistinct
  PROVE  LET all == Carried(Height * BlocksPerNode)
         IN /\ {BlockAt(x) : x \in all} = P!OnPath
            /\ Cardinality(all) = P!Cardinality(P!SlotsOnPath)
<1> DEFINE n == Height * BlocksPerNode
           all == Carried(n)
           g == [x \in all |-> <<x[1], BlockAt(x)>>]
           T == {g[x] : x \in all}
<1>1. n \in 0 .. n /\ Visited(n) = Levels \X Slots
  BY TreeAssumption, ScanOrder DEF Levels
<1>2. IsFiniteSet(all)
  <2> HIDE DEF n
  <2>1. LoadedSoFar(n)
    BY <1>1, LoadingCounts DEF n
  <2>. QED BY <2>1 DEF LoadedSoFar
<1> HIDE DEF n
<1>3. ASSUME NEW h \in Levels
      PROVE  /\ NodeAt(path, h) \in Nodes
             /\ TreeBar[P!NodeAt(path, h)] = {BlockAt(<<h, i>>) : i \in Taken(buckets[NodeAt(path, h)])}
             /\ \A i \in Slots : <<h, i>> \in all <=> i \in Taken(buckets[NodeAt(path, h)])
  <2> DEFINE m == NodeAt(path, h)
  <2>1. m \in Nodes
    BY PathInTree
  <2>2. TreeBar[m] = {BlockAt(<<h, i>>) : i \in Taken(buckets[m])}
    BY <2>1, TreeBlocks DEF BucketBlocks, BlockAt
  <2>3. \A i \in Slots : buckets[m].keys[i] # 0 <=> buckets[m].presence[i] > 0
    BY <2>1, BucketFields DEF SlotInv, FreshNode
  <2>4. \A i \in Slots : <<h, i>> \in all <=> buckets[m].keys[i] # 0
    BY <1>1 DEF Carried, KeyAt
  <2> HIDE DEF m
  <2>5. \A i \in Slots : <<h, i>> \in all <=> i \in Taken(buckets[m])
    BY <2>3, <2>4 DEF Taken
  <2>. QED BY <2>1, <2>2, <2>5, SameData DEF m
<1>4. \A x \in all : /\ x[1] \in Levels /\ x[2] \in Slots /\ x = <<x[1], x[2]>>
                     /\ x[2] \in Taken(buckets[NodeAt(path, x[1])])
  <2>1. \A x \in all : x[1] \in Levels /\ x[2] \in Slots /\ x = <<x[1], x[2]>>
    BY <1>1 DEF Carried
  <2>. QED BY <1>3, <2>1
<1>5. ASSUME NEW x \in all PROVE BlockAt(x) \in TreeBar[P!NodeAt(path, x[1])]
  <2>1. PICK h \in Levels, i \in Slots : x = <<h, i>> /\ i \in Taken(buckets[NodeAt(path, h)])
    BY <1>4
  <2>2. BlockAt(<<h, i>>) \in TreeBar[P!NodeAt(path, h)]
    BY <1>3, <2>1
  <2>. QED BY <2>1, <2>2
<1>6. P!OnPath = UNION {TreeBar[P!NodeAt(path, h)] : h \in Levels}
  BY SameData DEF P!OnPath
<1>7. {BlockAt(x) : x \in all} = P!OnPath
  <2>1. ASSUME NEW x \in all PROVE BlockAt(x) \in P!OnPath
    <3>1. BlockAt(x) \in TreeBar[P!NodeAt(path, x[1])]
      BY <1>5
    <3>. QED BY <1>4, <1>6, <3>1
  <2>2. ASSUME NEW b \in P!OnPath PROVE b \in {BlockAt(x) : x \in all}
    <3>1. PICK h \in Levels : b \in TreeBar[P!NodeAt(path, h)]
      BY <1>6
    <3>2. PICK i \in Taken(buckets[NodeAt(path, h)]) : b = BlockAt(<<h, i>>)
      BY <1>3, <3>1
    <3>3. <<h, i>> \in all
      BY <1>3 DEF Taken
    <3>. QED BY <3>2, <3>3
  <2>. QED BY <2>1, <2>2
<1>8. T = P!SlotsOnPath
  <2>1. P!SlotsOnPath = {s \in Levels \X P!OnPath : s[2] \in TreeBar[P!NodeAt(path, s[1])]}
    BY SameData DEF P!SlotsOnPath
  <2>2. ASSUME NEW x \in all PROVE g[x] \in P!SlotsOnPath
    <3>1. BlockAt(x) \in TreeBar[P!NodeAt(path, x[1])] /\ BlockAt(x) \in P!OnPath
      BY <1>7, <1>5
    <3>. QED BY <1>4, <2>1, <3>1
  <2>3. ASSUME NEW s \in P!SlotsOnPath PROVE s \in T
    <3>1. s[1] \in Levels /\ s = <<s[1], s[2]>> /\ s[2] \in TreeBar[P!NodeAt(path, s[1])]
      BY <2>1
    <3>2. PICK i \in Taken(buckets[NodeAt(path, s[1])]) : s[2] = BlockAt(<<s[1], i>>)
      BY <1>3, <3>1
    <3>3. <<s[1], i>> \in all
      BY <1>3, <3>1 DEF Taken
    <3>4. g[<<s[1], i>>] = s
      BY <3>1, <3>2, <3>3
    <3>. QED BY <3>3, <3>4
  <2>. QED BY <2>2, <2>3
<1>9. \A x, y \in all : g[x] = g[y] => x = y
  <2> SUFFICES ASSUME NEW x \in all, NEW y \in all, g[x] = g[y] PROVE x = y
    OBVIOUS
  <2>1. x[1] = y[1] /\ BlockAt(x) = BlockAt(y)
    OBVIOUS
  <2>2. /\ x[2] \in Taken(buckets[NodeAt(path, x[1])])
        /\ y[2] \in Taken(buckets[NodeAt(path, x[1])])
        /\ NodeAt(path, x[1]) \in Nodes
    BY <1>3, <1>4, <2>1
  <2>3. x[2] = y[2]
    BY <2>1, <2>2 DEF BucketsDistinct, Distinct, BlockAt
  <2>. QED BY <1>4, <2>1, <2>3
<1>10. Cardinality(T) = Cardinality(all)
  <2>1. g = [x \in all |-> g[x]]
    OBVIOUS
  <2> HIDE DEF g, all
  <2>. QED BY <1>2, <1>9, <2>1, ImageCount
<1>. QED BY <1>7, <1>8, <1>10, SameCounts DEF n

-----------------------------------------------------------------------------
(* The invariant that carries the refinement, and the steps one by one.    *)

ImageInv ==
  /\ SlotInv /\ PP!IInv /\ PP!StashLoadExact
  /\ LoadCounts /\ BucketsDistinct

\* As many slots of client->path are taken as it holds blocks.
LEMMA EachBlockOnce ==
  ASSUME ImageInv, pc # "aborted"
  PROVE  /\ client \in [Depths -> KeyedNode]
         /\ StashBar = BlocksIn(client)
         /\ IsFiniteSet(StashBar) /\ Cardinality(StashBar) \in Nat
         /\ load = Cardinality(StashBar)
         /\ load = Cardinality(TakenIn(client))
         /\ \A x, y \in TakenIn(client) :
              BlockIn(client, x) = BlockIn(client, y) => x = y
<1>1. client \in [Depths -> KeyedNode] /\ StashBar = BlocksIn(client)
  BY StashBlocks DEF ImageInv, SlotInv
<1>2. load = Cardinality(StashBar)
  BY SameCounts DEF ImageInv, PP!StashLoadExact
<1>3. load = Cardinality(TakenIn(client))
  BY DEF ImageInv, LoadCounts
<1>4. IsFiniteSet(StashBar) /\ Cardinality(StashBar) \in Nat
  BY <1>1, NodesCounted
<1>. QED BY <1>1, <1>2, <1>3, <1>4, NodesCounted

StashIsBlocks == StashBar = BlocksIn(client)
TreeIsBlocks == \A n \in Nodes : TreeBar[n] = BucketBlocks(buckets, buffers, n)

LEMMA StashBlocksNext == StashBar' = BlocksIn(client')
<1>1. StashIsBlocks
  BY StashBlocks DEF StashIsBlocks
<1>2. StashIsBlocks'
  BY <1>1, PTL
<1>. QED BY <1>2 DEF StashIsBlocks

LEMMA TreeBlocksNext ==
  ASSUME NEW n \in Nodes PROVE TreeBar'[n] = BucketBlocks(buckets', buffers', n)
<1>1. TreeIsBlocks
  BY TreeBlocks DEF TreeIsBlocks
<1>2. TreeIsBlocks'
  BY <1>1, PTL
<1>. QED BY <1>2 DEF TreeIsBlocks

LEMMA SameTree ==
  ASSUME UNCHANGED <<buckets, buffers>>
  PROVE  TreeBar' = TreeBar /\ (BucketsDistinct => BucketsDistinct')
BY DEF TreeBar, BucketsDistinct, Distinct

LEMMA SameStash == ASSUME UNCHANGED client PROVE StashBar' = StashBar
BY DEF StashBar

LEMMA DownloadRefines ==
  ASSUME ImageInv, DownloadPath
  PROVE  P!DownloadPath /\ LoadCounts' /\ BucketsDistinct'
<1> DEFINE n == Height * BlocksPerNode
           all == Carried(n)
           s == Loading[n]
<1>1. SlotInv /\ path \in Paths /\ BucketsDistinct /\ pc = "download"
  BY DEF ImageInv, SlotInv, AppTypeOK, DownloadPath
<1>2. n \in 0 .. n
  BY TreeAssumption, ScanOrder
<1>3. s \in LoadStates
  BY <1>1, <1>2, LoadingRounds
<1> HIDE DEF n
<1>4. LoadedSoFar(n)
  BY <1>1, <1>2, LoadingCounts DEF n
<1>5. ~ s.failed /\ client' = s.client /\ load' = s.load
  BY DEF DownloadPath, Downloaded, n
<1> HIDE DEF s
<1>6. /\ IsFiniteSet(all) /\ Cardinality(all) \in Nat
      /\ BlocksIn(client') = BlocksIn(client) \cup {BlockAt(x) : x \in all}
      /\ Cardinality(TakenIn(client')) = Cardinality(TakenIn(client)) + Cardinality(all)
      /\ load' = load + Cardinality(all)
  BY <1>4, <1>5, FS_CardinalityType DEF LoadedSoFar, s
<1>7. /\ {BlockAt(x) : x \in all} = P!OnPath
      /\ Cardinality(all) = P!Cardinality(P!SlotsOnPath)
  BY <1>1, PathSlots DEF n
<1> HIDE DEF all
<1>8. /\ StashBar = BlocksIn(client) /\ load = Cardinality(StashBar)
      /\ load = Cardinality(TakenIn(client))
  BY <1>1, EachBlockOnce
<1>9. client' \in [Depths -> KeyedNode]
  BY <1>3, <1>5 DEF LoadStates, s
<1>10. Cardinality(TakenIn(client')) =< ClientMaxPath * BlocksPerNode
  BY <1>9, NodesCounted, SlotNumbers DEF StashSlots
<1>11. P!Fits(P!Cardinality(StashBar) + P!Cardinality(P!SlotsOnPath))
  BY <1>6, <1>7, <1>8, <1>10, SameCounts DEF P!Fits
<1>12. StashBar' = StashBar \cup P!OnPath
  BY <1>6, <1>7, <1>8, StashBlocksNext
<1>13. TreeBar' = TreeBar /\ BucketsDistinct'
  BY <1>1, SameTree DEF DownloadPath
<1>14. LoadCounts'
  BY <1>6, <1>8 DEF LoadCounts
<1>15. P!DownloadPath
  BY <1>6, <1>7, <1>11, <1>12, <1>13 DEF DownloadPath, P!DownloadPath
<1>. QED BY <1>13, <1>14, <1>15

LEMMA OverflowRefines ==
  ASSUME ImageInv, DownloadOverflow
  PROVE  P!DownloadOverflow
<1> DEFINE n == Height * BlocksPerNode
           s == Loading[n]
<1>1. SlotInv /\ path \in Paths /\ BucketsDistinct /\ pc = "download"
  BY DEF ImageInv, SlotInv, AppTypeOK, DownloadOverflow
<1>2. n \in 0 .. n
  BY TreeAssumption, ScanOrder
<1> HIDE DEF n
<1>3. LoadedSoFar(n)
  BY <1>1, <1>2, LoadingCounts DEF n
<1>4. s.failed
  BY DEF DownloadOverflow, Downloaded, n
<1>5. Cardinality(TakenIn(client)) + Cardinality(Carried(n)) > StashSlots
  BY <1>3, <1>4 DEF LoadedSoFar
<1>6. Cardinality(Carried(n)) = P!Cardinality(P!SlotsOnPath) /\ IsFiniteSet(Carried(n))
  BY <1>1, <1>3, PathSlots DEF n, LoadedSoFar
<1>7. Cardinality(Carried(n)) \in Nat
  BY <1>6, FS_CardinalityType
<1>8. /\ P!Cardinality(StashBar) = Cardinality(TakenIn(client))
      /\ P!Cardinality(StashBar) \in Nat
  BY <1>1, EachBlockOnce, SameCounts
<1>9. ~ P!Fits(P!Cardinality(StashBar) + P!Cardinality(P!SlotsOnPath))
  BY <1>5, <1>6, <1>7, <1>8, SlotNumbers DEF P!Fits, StashSlots
<1>10. UNCHANGED <<TreeBar, StashBar>>
  BY SameTree, SameStash DEF DownloadOverflow, Abort, enclaveVars
<1>. QED
  BY <1>9, <1>10 DEF DownloadOverflow, Abort, enclaveVars, P!DownloadOverflow, P!Abort

LEMMA FetchRefines ==
  ASSUME ImageInv, ObliviousFetch
  PROVE  P!ObliviousFetch /\ LoadCounts' /\ BucketsDistinct'
<1> DEFINE key == P!BlockKey(req.ind)
           having == {d \in Depths : Hits(client[d], key) # {}}
           d == Min(having)
           content == IF having = {} THEN ZeroBlock ELSE ReadContent(client[d], key)
<1>1. SlotInv /\ pc = "fetch" /\ BucketsDistinct /\ PP!IInv /\ req \in Request
  BY DEF ImageInv, SlotInv, AppTypeOK, ObliviousFetch
<1>2. /\ client \in [Depths -> KeyedNode] /\ StashBar = BlocksIn(client)
      /\ load = Cardinality(TakenIn(client))
      /\ \A x, y \in TakenIn(client) : BlockIn(client, x) = BlockIn(client, y) => x = y
  BY <1>1, EachBlockOnce
<1>3. key \in Nat
  BY <1>1, KeyIsPositive
<1>4. \A b, c \in StashBar : b.key = key /\ c.key = key => b = c
  <2>1. \A b, c \in PP!InStash(PP!BlockKey(req.ind)) : b = c
    BY <1>1, PP!FetchFinds, Assumed, DataAssumption, TreeAssumption
  <2>. QED BY <2>1 DEF PP!InStash, PP!BlockKey, P!BlockKey
<1>5. \A x \in TakenIn(client) : BlockIn(client, x) \in StashBar
  BY <1>2 DEF BlocksIn
<1>6. \A x \in Depths \X Slots :
        x[2] \in Hits(client[x[1]], key) <=> x \in TakenIn(client) /\ BlockIn(client, x).key = key
  BY DEF Hits, TakenIn, BlockIn, BlockOf
<1>7. /\ pc' = "put" /\ fetched' = Stored(req, content)
      /\ req' = [req EXCEPT !.buf = Loaded(req, content)]
      /\ UNCHANGED <<posmap, path, newPath, buckets, buffers>>
      /\ having = {} => UNCHANGED <<client, load>>
      /\ having # {} => /\ client' = [client EXCEPT ![d] = NodeRead(client[d], key)]
                        /\ load' = load - 1
  BY DEF ObliviousFetch
<1>8. TreeBar' = TreeBar /\ BucketsDistinct'
  BY <1>1, <1>7, SameTree
<1>9. ASSUME NEW taken \in SUBSET P!InStash(key),
             taken = {} => P!InStash(key) = {},
             StashBar' = StashBar \ taken,
             load' = IF taken = {} THEN load ELSE load - 1,
             content \in Contents,
             IF taken = {} THEN content = ZeroBlock ELSE \E b \in taken : content = b.data
      PROVE  P!ObliviousFetch
  <2> HIDE DEF content, having, d
  <2>1. content \in P!Contents /\ P!ZeroBlock = ZeroBlock
        /\ P!Stored(req, content) = Stored(req, content)
        /\ P!Loaded(req, content) = Loaded(req, content)
    BY <1>9, SameData
  <2>. QED BY <1>1, <1>7, <1>8, <1>9, <2>1
           DEF P!ObliviousFetch, P!LeftInStash, P!LoadAfterFetch, P!BlockAfter, P!BufferAfter
<1>10. CASE having = {}
  <2>1. content = ZeroBlock /\ content \in Contents
    BY <1>10, DataTyping
  <2>2. P!InStash(key) = {}
    <3> SUFFICES ASSUME NEW b \in StashBar, b.key = key PROVE FALSE
      BY DEF P!InStash
    <3>1. PICK x \in TakenIn(client) : b = BlockIn(client, x)
      BY <1>2 DEF BlocksIn
    <3>2. x[1] \in Depths /\ x[2] \in Hits(client[x[1]], key)
      BY <1>6, <3>1 DEF TakenIn
    <3>. QED BY <1>10, <3>2
  <2>3. StashBar' = StashBar \ {} /\ load' = load /\ LoadCounts'
    BY <1>2, <1>7, <1>10, SameStash DEF LoadCounts
  <2> HIDE DEF content
  <2>4. P!ObliviousFetch
    BY <1>9, <2>1, <2>2, <2>3
  <2>. QED BY <1>8, <2>3, <2>4
<1>11. CASE having # {}
  <2> DEFINE j == Max(Hits(client[d], key))
             x == <<d, j>>
             b == BlockIn(client, x)
             node == NodeRead(client[d], key)
  <2>1. /\ d \in Depths /\ j \in Hits(client[d], key)
        /\ ReadContent(client[d], key) \in Contents
    BY <1>2, <1>3, <1>11, FetchReads
  <2>2. content = client[d].contents[j] /\ content \in Contents
    BY <1>11, <2>1 DEF ReadContent
  <2> HIDE DEF d, having, content, j
  <2>3. x \in Depths \X Slots /\ x \in TakenIn(client) /\ b.key = key /\ b \in StashBar
    BY <1>5, <1>6, <2>1 DEF Hits
  <2>4. b.data = content
    BY <2>2 DEF BlockIn, BlockOf
  <2>5. Hits(client[d], key) = {j}
    <3>1. ASSUME NEW i \in Hits(client[d], key) PROVE i = j
      <4>1. <<d, i>> \in TakenIn(client) /\ BlockIn(client, <<d, i>>).key = key
        BY <1>6, <2>1, <3>1 DEF Hits
      <4>2. BlockIn(client, <<d, i>>) = b
        BY <1>4, <1>5, <2>3, <4>1
      <4>. QED BY <1>2, <2>3, <4>1, <4>2
    <3>. QED BY <2>1, <3>1
  <2>6. /\ Taken(node) = Taken(client[d]) \ {j}
        /\ \A i \in Taken(node) : BlockOf(node, i) = BlockOf(client[d], i)
    <3>1. client[d] \in SoundNode
      BY <1>2, <2>1 DEF KeyedNode
    <3>2. /\ Taken(node) = Taken(client[d]) \ {j}
          /\ node.paths = client[d].paths /\ node.contents = client[d].contents
          /\ \A i \in Slots \ {j} : node.keys[i] = client[d].keys[i]
      BY <1>3, <2>5, <3>1, ReadSound
    <3> HIDE DEF node
    <3>. QED BY <3>2 DEF BlockOf, Taken
  <2> HIDE DEF node
  <2>7. client' = [client EXCEPT ![x[1]] = node] /\ load' = load - 1
    BY <1>7, <1>11 DEF node
  <2>8. /\ Taken(node) = Taken(client[x[1]]) \ {x[2]}
        /\ \A i \in Taken(node) : BlockOf(node, i) = BlockOf(client[x[1]], i)
    BY <2>6
  <2> HIDE DEF x, b
  <2> DEFINE new == [client EXCEPT ![x[1]] = node]
  <2>9. /\ TakenIn(new) = TakenIn(client) \ {x}
        /\ \A y \in TakenIn(new) : BlockIn(new, y) = BlockIn(client, y)
        /\ BlocksIn(new) \cup {BlockIn(client, x)} = BlocksIn(client)
        /\ Cardinality(TakenIn(new)) = Cardinality(TakenIn(client)) - 1
    BY <1>2, <2>3, <2>8, TakeOutBlocks
  <2>10. client' = new
    BY <2>7
  <2> HIDE DEF new
  <2>11. /\ TakenIn(client') = TakenIn(client) \ {x}
         /\ \A y \in TakenIn(client') : BlockIn(client', y) = BlockIn(client, y)
         /\ BlocksIn(client') \cup {b} = BlocksIn(client)
         /\ Cardinality(TakenIn(client')) = Cardinality(TakenIn(client)) - 1
    BY <2>9, <2>10 DEF b
  <2>12. b \notin BlocksIn(client')
    <3> SUFFICES ASSUME NEW y \in TakenIn(client'), BlockIn(client', y) = b PROVE FALSE
      BY DEF BlocksIn
    <3>. QED BY <1>2, <2>3, <2>11 DEF b
  <2>13. StashBar' = StashBar \ {b}
    BY <1>2, <2>11, <2>12, StashBlocksNext
  <2>14. LoadCounts'
    BY <1>2, <2>7, <2>11 DEF LoadCounts
  <2>15. P!ObliviousFetch
    <3>1. {b} \in SUBSET P!InStash(key) /\ {b} # {}
      BY <2>3 DEF P!InStash
    <3>2. \E c \in {b} : content = c.data
      BY <2>4
    <3>. QED BY <1>9, <2>2, <2>7, <2>13, <3>1, <3>2
  <2>. QED BY <1>8, <2>14, <2>15
<1>. QED BY <1>10, <1>11

LEMMA PutRefines ==
  ASSUME ImageInv, PutToStash
  PROVE  P!PutToStash /\ LoadCounts' /\ BucketsDistinct'
<1> DEFINE key == P!BlockKey(req.ind)
<1>1. SlotInv /\ pc = "put" /\ BucketsDistinct /\ req \in Request
      /\ newPath \in Nat /\ fetched \in Contents
  BY TreeAssumption DEF ImageInv, SlotInv, AppTypeOK, PutToStash
<1>2. /\ client \in [Depths -> KeyedNode] /\ StashBar = BlocksIn(client)
      /\ load = Cardinality(StashBar) /\ load = Cardinality(TakenIn(client))
  BY <1>1, EachBlockOnce
<1>3. key \in Nat \ {0}
  BY <1>1, KeyIsPositive
<1>4. /\ ~ NoRoom(client, key) /\ load' = load + 1 /\ pc' = "evict"
      /\ client' = WriteToStash(client, key, newPath, fetched)
      /\ UNCHANGED <<posmap, req, path, newPath, fetched, buckets, buffers>>
  BY DEF PutToStash
<1>5. P!PutBlock = [key |-> key, path |-> newPath, data |-> fetched]
  BY DEF P!PutBlock, P!PutLabel
<1> HIDE DEF key
<1>6. P!Cardinality(StashBar) < ClientMaxPath * BlocksPerNode
  <2>1. Cardinality(TakenIn(client)) # StashSlots
    BY <1>2, <1>3, <1>4, RoomByCount
  <2>2. Cardinality(TakenIn(client)) \in 0 .. StashSlots
    BY <1>2, NodesCounted
  <2>3. P!Cardinality(StashBar) = Cardinality(TakenIn(client))
    BY <1>2, SameCounts
  <2>4. P!Cardinality(StashBar) < StashSlots
    BY <2>1, <2>2, <2>3, SlotNumbers
  <2>. QED BY <2>4 DEF StashSlots
<1>7. PICK x \in FreeIn(client) : client' = PutAt(client, x, key, newPath, fetched)
  BY <1>1, <1>2, <1>3, <1>4, StashWrite
<1>8. /\ BlocksIn(client') = BlocksIn(client) \cup {P!PutBlock}
      /\ Cardinality(TakenIn(client')) = Cardinality(TakenIn(client)) + 1
  BY <1>1, <1>2, <1>3, <1>5, <1>7, PutAtBlocks
<1>9. StashBar' = StashBar \cup {P!PutBlock} /\ LoadCounts'
  BY <1>2, <1>4, <1>8, StashBlocksNext DEF LoadCounts
<1>10. TreeBar' = TreeBar /\ BucketsDistinct'
  BY <1>1, <1>4, SameTree
<1>11. P!PutToStash
  BY <1>1, <1>4, <1>6, <1>9, <1>10 DEF P!PutToStash
<1>. QED BY <1>9, <1>10, <1>11

LEMMA PutOverflowRefines ==
  ASSUME ImageInv, PutOverflow
  PROVE  P!PutOverflow
<1>1. SlotInv /\ pc = "put" /\ req \in Request
  BY DEF ImageInv, SlotInv, AppTypeOK, PutOverflow
<1>2. /\ client \in [Depths -> KeyedNode]
      /\ P!Cardinality(StashBar) = Cardinality(TakenIn(client))
  BY <1>1, EachBlockOnce, SameCounts
<1>3. Cardinality(TakenIn(client)) = StashSlots
  BY <1>1, <1>2, KeyIsPositive, RoomByCount DEF PutOverflow
<1>4. P!Cardinality(StashBar) >= ClientMaxPath * BlocksPerNode
  BY <1>2, <1>3, SlotNumbers DEF StashSlots
<1>5. UNCHANGED <<TreeBar, StashBar>>
  BY SameTree, SameStash DEF PutOverflow, Abort, enclaveVars
<1>. QED BY <1>4, <1>5 DEF PutOverflow, Abort, enclaveVars, P!PutOverflow, P!Abort

-----------------------------------------------------------------------------
(* The scan of an eviction for one level.                                  *)

\* A block put into a free slot of a node.
LEMMA FilledBlocks ==
  ASSUME NEW node \in SoundNode, NEW i \in FreeSlots(node),
         NEW key \in Nat, NEW label \in Nat, NEW content \in Contents
  PROVE  LET new == Filled(node, i, key, label, content)
         IN /\ BlocksOf(new) = BlocksOf(node)
                                 \cup {[key |-> key, path |-> label, data |-> content]}
            /\ new.num = node.num + 1
<1> DEFINE new == Filled(node, i, key, label, content)
           block == [key |-> key, path |-> label, data |-> content]
<1>1. /\ new.num = node.num + 1
      /\ Taken(new) = Taken(node) \cup {i} /\ i \notin Taken(node)
      /\ new.keys[i] = key /\ new.paths[i] = label /\ new.contents[i] = content
      /\ \A j \in Slots \ {i} :
           /\ new.keys[j] = node.keys[j] /\ new.paths[j] = node.paths[j]
           /\ new.contents[j] = node.contents[j]
  BY FilledSound
<1> HIDE DEF new
<1>2. BlockOf(new, i) = block
  BY <1>1 DEF BlockOf
<1>3. \A j \in Taken(node) : BlockOf(new, j) = BlockOf(node, j)
  BY <1>1 DEF BlockOf, Taken
<1>4. BlocksOf(new) = BlocksOf(node) \cup {block}
  BY <1>1, <1>2, <1>3 DEF BlocksOf
<1>. QED BY <1>1, <1>4 DEF new

\* What the scan for level h has done after k rounds: the blocks are those it
\* started with, some of them moved to the node for the level; all of those may
\* go there, and unless the node is full no slot visited has another such block.
ScanSoFar(h, nodes, count, s, k) ==
  /\ BlocksIn(s.client) \cup BlocksOf(s.temp) = BlocksIn(nodes)
  /\ Cardinality(TakenIn(s.client)) + s.temp.num = Cardinality(TakenIn(nodes))
  /\ s.load = count - s.temp.num
  /\ \A b \in BlocksOf(s.temp) : SamePrefix(b.path, path, h)
  /\ \/ s.temp.num = BlocksPerNode
     \/ \A x \in Visited(k) \cap TakenIn(s.client) :
          ~ SamePrefix(BlockIn(s.client, x).path, path, h)

LEMMA ScanRound ==
  ASSUME NEW h, NEW nodes, NEW count \in Int, NEW k, NEW p \in ScanStates,
         Cardinality(TakenIn(nodes)) \in Nat,
         SlotAt(k) \in Depths \X Slots,
         Visited(k) = Visited(k - 1) \cup {SlotAt(k)},
         ScanSoFar(h, nodes, count, p, k - 1)
  PROVE  ScanSoFar(h, nodes, count, MoveSlot(h, p, SlotAt(k)), k)
<1> DEFINE x == SlotAt(k)
           node == p.client[x[1]]
           s == MoveSlot(h, p, x)
           b == BlockIn(p.client, x)
<1>1. /\ p.client \in [Depths -> KeyedNode] /\ p.temp \in SoundNode /\ p.load \in Int
      /\ p.temp.num \in 0 .. BlocksPerNode
  BY NodeCounted DEF ScanStates, FreshNode
<1>2. b.path = node.paths[x[2]]
  BY DEF BlockIn, BlockOf
<1>3. CASE ~ Moves(node, x[2], p.temp, h)
  <2>1. s = p
    BY <1>3, MoveSlotMoves
  <2>2. x \in TakenIn(p.client) => \/ ~ SamePrefix(b.path, path, h)
                                   \/ p.temp.num = BlocksPerNode
    BY <1>1, <1>2, <1>3, NodeAssumption DEF Moves, TakenIn
  <2> HIDE DEF b, x, node, s
  <2>3. \/ p.temp.num = BlocksPerNode
        \/ \A y \in Visited(k) \cap TakenIn(p.client) :
             ~ SamePrefix(BlockIn(p.client, y).path, path, h)
    BY <2>2 DEF ScanSoFar, b, x
  <2>. QED BY <2>1, <2>3 DEF ScanSoFar, s, x
<1>4. CASE Moves(node, x[2], p.temp, h)
  <2>1. /\ x \in TakenIn(p.client)
        /\ node.keys[x[2]] \in Nat \ {0} /\ node.paths[x[2]] \in Nat
        /\ node.contents[x[2]] \in Contents
    BY <1>4, MoveSlotMoves
  <2>2. PICK j \in FreeSlots(p.temp) :
          s = [client |-> TakeFrom(p.client, x), load |-> p.load - 1,
               temp |-> Filled(p.temp, j, node.keys[x[2]], node.paths[x[2]],
                               node.contents[x[2]])]
    BY <1>4, MoveSlotMoves
  <2>3. b = [key |-> node.keys[x[2]], path |-> node.paths[x[2]],
             data |-> node.contents[x[2]]]
    BY DEF BlockIn, BlockOf
  <2>4. SamePrefix(b.path, path, h) /\ p.temp.num < BlocksPerNode
    BY <1>2, <1>4 DEF Moves
  <2>5. /\ BlocksOf(s.temp) = BlocksOf(p.temp) \cup {b}
        /\ s.temp.num = p.temp.num + 1
        /\ s.load = p.load - 1 /\ s.client = TakeFrom(p.client, x)
    <3> DEFINE new == Filled(p.temp, j, node.keys[x[2]], node.paths[x[2]],
                             node.contents[x[2]])
    <3>1. BlocksOf(new) = BlocksOf(p.temp) \cup {b} /\ new.num = p.temp.num + 1
      <4> HIDE DEF b, s, node, x
      <4>. QED BY <1>1, <2>1, <2>3, FilledBlocks
    <3>2. s.temp = new /\ s.load = p.load - 1 /\ s.client = TakeFrom(p.client, x)
      BY <2>2
    <3> HIDE DEF new, b, s
    <3>. QED BY <3>1, <3>2
  <2> DEFINE empty == Vacated(node, x[2])
  <2>6. /\ Taken(empty) = Taken(node) \ {x[2]}
        /\ \A i \in Taken(empty) : BlockOf(empty, i) = BlockOf(node, i)
    <3>1. /\ Taken(empty) = Taken(node) \ {x[2]}
          /\ empty.keys = node.keys /\ empty.paths = node.paths
          /\ empty.contents = node.contents
      BY <1>1, <2>1, TakeFromKeyed
    <3> HIDE DEF empty
    <3>. QED BY <3>1 DEF BlockOf
  <2>7. TakeFrom(p.client, x) = [p.client EXCEPT ![x[1]] = empty]
    BY DEF TakeFrom
  <2> HIDE DEF empty
  <2>8. /\ TakenIn(s.client) = TakenIn(p.client) \ {x}
        /\ \A y \in TakenIn(s.client) : BlockIn(s.client, y) = BlockIn(p.client, y)
        /\ BlocksIn(s.client) \cup {b} = BlocksIn(p.client)
        /\ Cardinality(TakenIn(s.client)) = Cardinality(TakenIn(p.client)) - 1
    <3> DEFINE new == [p.client EXCEPT ![x[1]] = empty]
    <3>1. /\ TakenIn(new) = TakenIn(p.client) \ {x}
          /\ \A y \in TakenIn(new) : BlockIn(new, y) = BlockIn(p.client, y)
          /\ BlocksIn(new) \cup {BlockIn(p.client, x)} = BlocksIn(p.client)
          /\ Cardinality(TakenIn(new)) = Cardinality(TakenIn(p.client)) - 1
      BY <1>1, <2>1, <2>6, TakeOutBlocks
    <3>2. s.client = new
      BY <2>5, <2>7
    <3> HIDE DEF new
    <3>. QED BY <3>1, <3>2
  <2>9. Cardinality(TakenIn(p.client)) \in Nat
    BY <1>1, NodesCounted
  <2> HIDE DEF b, x, node, s
  <2>10. BlocksIn(s.client) \cup BlocksOf(s.temp) = BlocksIn(nodes)
    BY <2>5, <2>8 DEF ScanSoFar
  <2>11. Cardinality(TakenIn(s.client)) + s.temp.num = Cardinality(TakenIn(nodes))
    BY <1>1, <2>5, <2>8, <2>9 DEF ScanSoFar
  <2>12. s.load = count - s.temp.num
    BY <1>1, <2>5 DEF ScanSoFar
  <2>13. \A c \in BlocksOf(s.temp) : SamePrefix(c.path, path, h)
    BY <2>4, <2>5 DEF ScanSoFar
  <2>14. \A y \in Visited(k) \cap TakenIn(s.client) :
           ~ SamePrefix(BlockIn(s.client, y).path, path, h)
    <3>1. p.temp.num # BlocksPerNode
      BY <1>1, <2>4, NodeAssumption
    <3>2. \A y \in Visited(k - 1) \cap TakenIn(p.client) :
            ~ SamePrefix(BlockIn(p.client, y).path, path, h)
      BY <3>1 DEF ScanSoFar
    <3>. QED BY <2>8, <3>2 DEF x
  <2>. QED BY <2>10, <2>11, <2>12, <2>13, <2>14 DEF ScanSoFar, s, x
<1>. QED BY <1>3, <1>4

\* The whole scan, from nodes that hold every block once: the stash and the node
\* share its blocks.
LEMMA ScanSplits ==
  ASSUME NEW h, NEW nodes \in [Depths -> KeyedNode], NEW count \in Int, NEW temp,
         Cardinality(BlocksIn(nodes)) = Cardinality(TakenIn(nodes))
  PROVE  LET s == Scanned(h, nodes, count, temp)
             moved == BlocksOf(s.temp)
         IN /\ BlocksIn(s.client) = BlocksIn(nodes) \ moved
            /\ moved \subseteq BlocksIn(nodes)
            /\ IsFiniteSet(moved)
            /\ Cardinality(moved) \in 0 .. BlocksPerNode
            /\ Cardinality(BlocksIn(s.client)) = Cardinality(TakenIn(s.client))
            /\ Cardinality(TakenIn(s.client)) = Cardinality(TakenIn(nodes)) - Cardinality(moved)
            /\ s.load = count - Cardinality(moved)
            /\ Cardinality(moved) = s.temp.num
            /\ \A b \in moved : SamePrefix(b.path, path, h)
            /\ \/ Cardinality(moved) = BlocksPerNode
               \/ \A b \in BlocksIn(s.client) : ~ SamePrefix(b.path, path, h)
<1> DEFINE n == ClientMaxPath * BlocksPerNode
           scan == Scanning(h, nodes, count, temp)
           s == Scanned(h, nodes, count, temp)
           moved == BlocksOf(s.temp)
<1>1. /\ n \in Nat
      /\ \A k \in 1 .. n : SlotAt(k) \in Depths \X Slots
      /\ Visited(0) = {} /\ Visited(n) = Depths \X Slots
      /\ \A k \in 1 .. n : Visited(k) = Visited(k - 1) \cup {SlotAt(k)}
  BY ClientAssumption, ScanOrder DEF Depths
<1>2. /\ scan \in [0 .. n -> ScanStates]
      /\ scan[0] = ScanStart(nodes, count)
      /\ \A k \in 1 .. n : scan[k] = MoveSlot(h, scan[k - 1], SlotAt(k))
  BY ScanningRounds
<1>3. s = scan[n]
  BY DEF Scanned
<1> HIDE DEF n, scan, s
<1>4. ScanSoFar(h, nodes, count, scan[0], 0)
  <2>1. /\ scan[0].client = nodes /\ scan[0].load = count /\ scan[0].temp = EmptyNode
    BY <1>2 DEF ScanStart
  <2>2. BlocksOf(EmptyNode) = {} /\ EmptyNode.num = 0
    BY EmptyIsSound DEF BlocksOf, EmptyNode
  <2>3. Cardinality(TakenIn(nodes)) \in Nat
    BY NodesCounted
  <2>4. count = count - 0 /\ Cardinality(TakenIn(nodes)) + 0 = Cardinality(TakenIn(nodes))
    BY <2>3
  <2>. QED BY <1>1, <2>1, <2>2, <2>4 DEF ScanSoFar
<1>5. \A k \in 0 .. n : ScanSoFar(h, nodes, count, scan[k], k)
  <2> DEFINE G == {k \in 0 .. n : ScanSoFar(h, nodes, count, scan[k], k)}
  <2>1. 0 \in G
    BY <1>1, <1>4
  <2>2. ASSUME NEW k \in 1 .. n, k - 1 \in G PROVE k \in G
    <3>1. scan[k - 1] \in ScanStates /\ Cardinality(TakenIn(nodes)) \in Nat
      BY <1>1, <1>2, NodesCounted
    <3>2. ScanSoFar(h, nodes, count, MoveSlot(h, scan[k - 1], SlotAt(k)), k)
      BY <1>1, <2>2, <3>1, ScanRound
    <3>. QED BY <1>1, <1>2, <3>2
  <2>3. \A k \in 0 .. n : k \in G
    <3> HIDE DEF G
    <3>. QED BY <1>1, <2>1, <2>2, UpTo
  <2>. QED BY <2>3
<1>6. ScanSoFar(h, nodes, count, s, n) /\ s \in ScanStates
  BY <1>1, <1>2, <1>3, <1>5
<1>7. s.client \in [Depths -> KeyedNode] /\ s.temp \in SoundNode
  BY <1>6 DEF ScanStates, FreshNode
<1> DEFINE left == BlocksIn(s.client)
           slots == Cardinality(TakenIn(s.client))
<1>8. /\ IsFiniteSet(left) /\ Cardinality(left) \in 0 .. slots /\ slots \in Nat
      /\ IsFiniteSet(moved) /\ Cardinality(moved) \in 0 .. s.temp.num
      /\ s.temp.num \in 0 .. BlocksPerNode
  BY <1>7, NodesCounted, NodeCounted
<1>9. left \cup moved = BlocksIn(nodes) /\ slots + s.temp.num = Cardinality(TakenIn(nodes))
  BY <1>6 DEF ScanSoFar
<1> HIDE DEF left, moved, slots
<1>10. /\ Cardinality(left \cup moved)
            = Cardinality(left) + Cardinality(moved) - Cardinality(left \cap moved)
       /\ IsFiniteSet(left \cap moved) /\ Cardinality(left \cap moved) \in Nat
  BY <1>8, FS_Union, FS_Intersection, FS_CardinalityType
<1>11. /\ Cardinality(left) = slots /\ Cardinality(moved) = s.temp.num
       /\ Cardinality(left \cap moved) = 0
  <2>1. Cardinality(left \cup moved) = slots + s.temp.num
    BY <1>9
  <2>2. \A a, m, c, u, v \in Nat : a =< u /\ m =< v /\ u + v = a + m - c
                                   => a = u /\ m = v /\ c = 0
    OBVIOUS
  <2>3. /\ Cardinality(left) \in Nat /\ Cardinality(left) =< slots /\ slots \in Nat
        /\ Cardinality(moved) \in Nat /\ Cardinality(moved) =< s.temp.num
        /\ s.temp.num \in Nat
    BY <1>8, NodeAssumption
  <2>. QED BY <1>10, <2>1, <2>2, <2>3
<1>12. left \cap moved = {}
  BY <1>10, <1>11, FS_EmptySet
<1>13. left = BlocksIn(nodes) \ moved /\ moved \subseteq BlocksIn(nodes)
  BY <1>9, <1>12
<1>14. \A b \in moved : SamePrefix(b.path, path, h)
  BY <1>6 DEF ScanSoFar, moved
<1>15. s.temp.num = BlocksPerNode \/ \A b \in left : ~ SamePrefix(b.path, path, h)
  BY <1>1, <1>6 DEF ScanSoFar, left, BlocksIn, TakenIn
<1>16. s.load = count - s.temp.num
  BY <1>6 DEF ScanSoFar
<1>17. slots = Cardinality(TakenIn(nodes)) - s.temp.num
  BY <1>8, <1>9
<1>. QED
  BY <1>8, <1>11, <1>13, <1>14, <1>15, <1>16, <1>17 DEF left, moved, slots, s

-----------------------------------------------------------------------------
(* The levels of an eviction.                                              *)

\* A bucket replaced by the node filled for it, and its buffers with it.
LEMMA BucketReplaced ==
  ASSUME NEW bks \in SoundBuckets, NEW bufs \in [Addresses -> Contents],
         NEW n \in Nodes, NEW temp \in FreshNode
  PROVE  LET nb == [bks EXCEPT ![n] = Bucket(temp, OwnBuffers(n))]
             nf == Encrypted(bufs, OwnBuffers(n), temp)
         IN /\ BucketBlocks(nb, nf, n) = BlocksOf(temp)
            /\ Taken(nb[n]) = Taken(temp)
            /\ \A i \in Taken(temp) : BucketBlock(nb, nf, n, i) = BlockOf(temp, i)
            /\ \A m \in Nodes \ {n} :
                 /\ BucketBlocks(nb, nf, m) = BucketBlocks(bks, bufs, m)
                 /\ Distinct(bks, bufs, m) => Distinct(nb, nf, m)
<1> DEFINE nb == [bks EXCEPT ![n] = Bucket(temp, OwnBuffers(n))]
           nf == Encrypted(bufs, OwnBuffers(n), temp)
<1>1. /\ \A i \in Slots : temp.presence[i] > 0 => nf[<<n, i>>] = temp.contents[i]
      /\ \A m \in Nodes \ {n}, i \in Slots : nf[<<m, i>>] = bufs[<<m, i>>]
  BY EncryptedBuffers
<1>2. /\ nb[n] = Bucket(temp, OwnBuffers(n))
      /\ \A m \in Nodes \ {n} : nb[m] = bks[m]
  BY DEF SoundBuckets
<1> HIDE DEF nb, nf
<1>3. /\ nb[n].keys = temp.keys /\ nb[n].paths = temp.paths
      /\ nb[n].presence = temp.presence /\ \A i \in Slots : nb[n].addr[i] = <<n, i>>
  BY <1>2 DEF Bucket, OwnBuffers
<1>4. Taken(nb[n]) = Taken(temp)
  BY <1>3 DEF Taken
<1>5. \A i \in Taken(temp) : BucketBlock(nb, nf, n, i) = BlockOf(temp, i)
  BY <1>1, <1>3 DEF BucketBlock, BlockOf, Taken
<1>6. BucketBlocks(nb, nf, n) = BlocksOf(temp)
  BY <1>4, <1>5 DEF BucketBlocks, BlocksOf
<1>7. ASSUME NEW m \in Nodes \ {n}
      PROVE  /\ BucketBlocks(nb, nf, m) = BucketBlocks(bks, bufs, m)
             /\ Distinct(bks, bufs, m) => Distinct(nb, nf, m)
  <2>1. \A i \in Slots : bks[m].addr[i] = <<m, i>>
    <3>1. bks[m].addr = OwnBuffers(m)
      BY BucketFields
    <3>. QED BY <3>1 DEF OwnBuffers
  <2>2. \A i \in Slots : BucketBlock(nb, nf, m, i) = BucketBlock(bks, bufs, m, i)
    <3> SUFFICES ASSUME NEW i \in Slots
                 PROVE  BucketBlock(nb, nf, m, i) = BucketBlock(bks, bufs, m, i)
      OBVIOUS
    <3>1. nb[m] = bks[m] /\ bks[m].addr[i] = <<m, i>> /\ nf[<<m, i>>] = bufs[<<m, i>>]
      BY <1>1, <1>2, <2>1
    <3>. QED BY <3>1, Zenon DEF BucketBlock
  <2>3. Taken(nb[m]) = Taken(bks[m]) /\ Taken(bks[m]) \subseteq Slots
    BY <1>2 DEF Taken
  <2>4. BucketBlocks(nb, nf, m) = BucketBlocks(bks, bufs, m)
    BY <2>2, <2>3 DEF BucketBlocks
  <2>5. Distinct(bks, bufs, m) => Distinct(nb, nf, m)
    BY <2>2, <2>3 DEF Distinct
  <2>. QED BY <2>4, <2>5
<1>. QED BY <1>4, <1>5, <1>6, <1>7 DEF nb, nf

\* The levels below a depth, and the buckets of the path there.
Done(k) == {h \in Levels : h >= Height - k}

\* An eviction of the k lowest levels: the blocks it gives a level are in the
\* bucket of that level, all others are still in the stash.
LevelsFilled(e, lv, k) ==
  /\ BlocksIn(e.client) = P!Placed(lv, Height)
  /\ \A b \in StashBar : lv[b] >= Height - k
  /\ \A h \in Done(k) :
       /\ P!FilledGreedily(lv, h)
       /\ BucketBlocks(e.buckets, e.buffers, NodeAt(path, h)) = P!Placed(lv, h)

EvictedSoFar(k) ==
  LET e == Evicting[k]
  IN /\ Cardinality(BlocksIn(e.client)) = Cardinality(TakenIn(e.client))
     /\ e.load = Cardinality(TakenIn(e.client))
     /\ \E lv \in [StashBar -> Levels \cup {Height}] : LevelsFilled(e, lv, k)
     /\ \A n \in Nodes : (\A h \in Done(k) : n # NodeAt(path, h)) =>
          BucketBlocks(e.buckets, e.buffers, n) = BucketBlocks(buckets, buffers, n)
     /\ \A n \in Nodes : Distinct(e.buckets, e.buffers, n)

\* One more level, h, and the blocks moved to it.
LEMMA NextLevel ==
  ASSUME NEW lv \in [StashBar -> Levels \cup {Height}],
         NEW k \in 1 .. Height, NEW h, h = Height - k,
         \A b \in StashBar : lv[b] >= Height - (k - 1),
         \A g \in Done(k - 1) : P!FilledGreedily(lv, g),
         NEW moved \in SUBSET P!Placed(lv, Height),
         Cardinality(moved) \in 0 .. BlocksPerNode,
         \A b \in moved : SamePrefix(b.path, path, h),
         \/ Cardinality(moved) = BlocksPerNode
         \/ \A b \in P!Placed(lv, Height) \ moved : ~ SamePrefix(b.path, path, h)
  PROVE  LET new == [b \in StashBar |-> IF b \in moved THEN h ELSE lv[b]]
         IN /\ new \in [StashBar -> Levels \cup {Height}]
            /\ P!Placed(new, Height) = P!Placed(lv, Height) \ moved
            /\ P!Placed(new, h) = moved
            /\ \A b \in StashBar : new[b] >= Height - k
            /\ \A g \in Done(k - 1) : P!Placed(new, g) = P!Placed(lv, g)
            /\ \A g \in Done(k) : P!FilledGreedily(new, g)
<1> DEFINE new == [b \in StashBar |-> IF b \in moved THEN h ELSE lv[b]]
<1>1. /\ Height \in Nat /\ h \in Levels /\ h \in Int /\ h < Height
      /\ \A g \in Levels : g \in Int /\ g < Height
      /\ Done(k) = Done(k - 1) \cup {h}
      /\ \A g \in Done(k - 1) : g \in Levels /\ g > h
  BY TreeAssumption DEF Levels, Done
<1>2. \A b \in StashBar : lv[b] \in Int /\ lv[b] > h
  <2> SUFFICES ASSUME NEW b \in StashBar PROVE lv[b] \in Int /\ lv[b] > h
    OBVIOUS
  <2>1. lv[b] \in Levels \cup {Height} /\ lv[b] >= Height - (k - 1)
    OBVIOUS
  <2>2. Height - (k - 1) = h + 1
    BY <1>1
  <2>3. lv[b] \in Int
    <3>1. Height \in Int
      BY <1>1
    <3>2. lv[b] = Height \/ lv[b] \in Levels
      BY <2>1
    <3>. QED BY <1>1, <3>1, <3>2, Zenon
  <2>4. lv[b] >= h + 1
    BY <2>1, <2>2
  <2>. QED BY <1>1, <2>3, <2>4
<1>3. moved \subseteq StashBar /\ \A b \in moved : lv[b] = Height
  BY DEF P!Placed
<1>4. \A b \in StashBar : new[b] = IF b \in moved THEN h ELSE lv[b]
  OBVIOUS
<1>5. new \in [StashBar -> Levels \cup {Height}]
  BY <1>1
<1> HIDE DEF new
<1>6. P!Placed(new, Height) = P!Placed(lv, Height) \ moved
  BY <1>1, <1>4 DEF P!Placed
<1>7. P!Placed(new, h) = moved
  BY <1>2, <1>3, <1>4 DEF P!Placed
<1>8. \A b \in StashBar : new[b] >= Height - k
  BY <1>1, <1>2, <1>4
<1>9. ASSUME NEW g \in Done(k - 1)
      PROVE  P!Placed(new, g) = P!Placed(lv, g) /\ P!Eligible(new, g) = P!Eligible(lv, g)
  <2>1. g \in Int /\ g > h /\ g < Height
    BY <1>1
  <2>2. \A b \in StashBar : /\ new[b] = g <=> lv[b] = g
                            /\ new[b] =< g \/ new[b] = Height <=> lv[b] =< g \/ lv[b] = Height
    BY <1>1, <1>3, <1>4, <2>1
  <2>. QED BY <2>2 DEF P!Placed, P!Eligible, P!StillThere
<1>10. \A g \in Done(k - 1) : P!FilledGreedily(new, g)
  BY <1>9 DEF P!FilledGreedily
<1>11. P!FilledGreedily(new, h)
  <2>1. P!Eligible(new, h)
          = {b \in StashBar : (new[b] =< h \/ new[b] = Height) /\ SamePrefix(b.path, path, h)}
    BY SameData DEF P!Eligible, P!StillThere, P!EvictedPath
  <2>2. \A b \in moved : new[b] = h
    BY <1>3, <1>4
  <2>3. moved \subseteq P!Eligible(new, h)
    BY <1>1, <1>3, <2>1, <2>2
  <2>4. ASSUME NEW b \in P!Eligible(new, h), b \notin moved
        PROVE  b \in P!Placed(lv, Height) \ moved /\ SamePrefix(b.path, path, h)
    BY <1>2, <1>4, <2>1, <2>4 DEF P!Placed
  <2>5. P!Eligible(new, h) = moved \/ Cardinality(moved) = BlocksPerNode
    BY <2>3, <2>4
  <2>6. Cardinality(moved) =< BlocksPerNode
    BY NodeAssumption
  <2>. QED BY <1>7, <2>3, <2>5, <2>6, SameCounts DEF P!FilledGreedily
<1>. QED BY <1>1, <1>5, <1>6, <1>7, <1>8, <1>9, <1>10, <1>11 DEF new

LEMMA EvictRound ==
  ASSUME ImageInv, pc = "evict", NEW k \in 1 .. Height, EvictedSoFar(k - 1)
  PROVE  EvictedSoFar(k)
<1> DEFINE h == Height - k
           p == Evicting[k - 1]
           e == Evicting[k]
           s == Scanned(h, p.client, p.load, p.temp)
           moved == BlocksOf(s.temp)
           n == NodeAt(path, h)
<1>1. /\ SlotInv /\ path \in Paths
      /\ \A g \in Levels : backup[g] = OwnBuffers(NodeAt(path, g))
  BY DEF ImageInv, SlotInv, AppTypeOK, BackupOK
<1>2. /\ h \in Levels /\ Done(k) = Done(k - 1) \cup {h} /\ h \notin Done(k - 1)
      /\ Done(k - 1) \subseteq Levels
  BY TreeAssumption DEF Levels, Done
<1>3. p \in EvictStates /\ e = EvictLevel(p, h)
  BY <1>1, EvictingRounds, TreeAssumption
<1>4. n \in Nodes /\ \A g \in Levels : NodeAt(path, g) = n <=> g = h
  BY <1>1, <1>2, PathInTree DEF NodeAt
<1>5. /\ p.client \in [Depths -> KeyedNode] /\ p.load \in Int
      /\ p.buckets \in SoundBuckets /\ p.buffers \in [Addresses -> Contents]
  BY <1>3 DEF EvictStates
<1>6. s \in ScanStates
  BY <1>5, ScannedSound
<1>7. s.temp \in FreshNode /\ s.temp \in SoundNode
  BY <1>6 DEF ScanStates, FreshNode
<1>8. /\ e.client = s.client /\ e.load = s.load
      /\ e.buckets = [p.buckets EXCEPT ![n] = Bucket(s.temp, OwnBuffers(n))]
      /\ e.buffers = Encrypted(p.buffers, OwnBuffers(n), s.temp)
  BY <1>1, <1>2, <1>3 DEF EvictLevel, Restored
<1>9. /\ Cardinality(BlocksIn(p.client)) = Cardinality(TakenIn(p.client))
      /\ p.load = Cardinality(TakenIn(p.client))
      /\ \A m \in Nodes : (\A g \in Done(k - 1) : m # NodeAt(path, g)) =>
           BucketBlocks(p.buckets, p.buffers, m) = BucketBlocks(buckets, buffers, m)
      /\ \A m \in Nodes : Distinct(p.buckets, p.buffers, m)
  BY DEF EvictedSoFar
<1>10. PICK lv \in [StashBar -> Levels \cup {Height}] : LevelsFilled(p, lv, k - 1)
  BY DEF EvictedSoFar
<1>11. /\ BlocksIn(s.client) = BlocksIn(p.client) \ moved
       /\ moved \subseteq BlocksIn(p.client)
       /\ Cardinality(moved) \in 0 .. BlocksPerNode
       /\ Cardinality(BlocksIn(s.client)) = Cardinality(TakenIn(s.client))
       /\ Cardinality(TakenIn(s.client)) = Cardinality(TakenIn(p.client)) - Cardinality(moved)
       /\ s.load = p.load - Cardinality(moved)
       /\ Cardinality(moved) = s.temp.num
       /\ \A b \in moved : SamePrefix(b.path, path, h)
       /\ \/ Cardinality(moved) = BlocksPerNode
          \/ \A b \in BlocksIn(s.client) : ~ SamePrefix(b.path, path, h)
  <2> HIDE DEF h, p
  <2>. QED BY <1>5, <1>9, ScanSplits
<1> HIDE DEF h, p, e, s, n
<1>12. /\ BucketBlocks(e.buckets, e.buffers, n) = moved
       /\ Distinct(e.buckets, e.buffers, n)
       /\ \A m \in Nodes \ {n} :
            /\ BucketBlocks(e.buckets, e.buffers, m) = BucketBlocks(p.buckets, p.buffers, m)
            /\ Distinct(e.buckets, e.buffers, m)
  <2> DEFINE nb == [p.buckets EXCEPT ![n] = Bucket(s.temp, OwnBuffers(n))]
             nf == Encrypted(p.buffers, OwnBuffers(n), s.temp)
  <2>1. /\ BucketBlocks(nb, nf, n) = moved
        /\ Taken(nb[n]) = Taken(s.temp)
        /\ \A i \in Taken(s.temp) : BucketBlock(nb, nf, n, i) = BlockOf(s.temp, i)
        /\ \A m \in Nodes \ {n} :
             /\ BucketBlocks(nb, nf, m) = BucketBlocks(p.buckets, p.buffers, m)
             /\ Distinct(p.buckets, p.buffers, m) => Distinct(nb, nf, m)
    BY <1>4, <1>5, <1>7, BucketReplaced
  <2>2. e.buckets = nb /\ e.buffers = nf
    BY <1>8
  <2> HIDE DEF nb, nf
  <2>3. \A i, j \in Taken(s.temp) : BlockOf(s.temp, i) = BlockOf(s.temp, j) => i = j
    BY <1>7, <1>11, NodeCounted
  <2>4. Distinct(nb, nf, n)
    BY <2>1, <2>3 DEF Distinct
  <2>. QED BY <1>9, <2>1, <2>2, <2>4
<1> HIDE DEF moved
<1> DEFINE new == [b \in StashBar |-> IF b \in moved THEN h ELSE lv[b]]
<1>13. /\ new \in [StashBar -> Levels \cup {Height}]
       /\ P!Placed(new, Height) = P!Placed(lv, Height) \ moved
       /\ P!Placed(new, h) = moved
       /\ \A b \in StashBar : new[b] >= Height - k
       /\ \A g \in Done(k - 1) : P!Placed(new, g) = P!Placed(lv, g)
       /\ \A g \in Done(k) : P!FilledGreedily(new, g)
  <2>1. h = Height - k
    BY DEF h
  <2>2. BlocksIn(p.client) = P!Placed(lv, Height)
    BY <1>10 DEF LevelsFilled
  <2>3. /\ \A b \in StashBar : lv[b] >= Height - (k - 1)
        /\ \A g \in Done(k - 1) : P!FilledGreedily(lv, g)
    BY <1>10 DEF LevelsFilled
  <2>4. moved \in SUBSET P!Placed(lv, Height)
    BY <1>11, <2>2
  <2>5. \/ Cardinality(moved) = BlocksPerNode
        \/ \A b \in P!Placed(lv, Height) \ moved : ~ SamePrefix(b.path, path, h)
    BY <1>11, <2>2
  <2>. QED BY <1>11, <2>1, <2>3, <2>4, <2>5, NextLevel
<1> HIDE DEF new
<1>14. LevelsFilled(e, new, k)
  <2>1. BlocksIn(e.client) = P!Placed(new, Height)
    BY <1>8, <1>10, <1>11, <1>13 DEF LevelsFilled
  <2>2. ASSUME NEW g \in Done(k)
        PROVE  BucketBlocks(e.buckets, e.buffers, NodeAt(path, g)) = P!Placed(new, g)
    <3>1. CASE g = h
      BY <1>12, <1>13, <3>1 DEF n
    <3>2. CASE g # h
      <4>1. g \in Done(k - 1) /\ NodeAt(path, g) \in Nodes \ {n}
        BY <1>1, <1>2, <1>4, <3>2, PathInTree
      <4>2. BucketBlocks(p.buckets, p.buffers, NodeAt(path, g)) = P!Placed(lv, g)
        BY <1>10, <4>1 DEF LevelsFilled
      <4>. QED BY <1>12, <1>13, <4>1, <4>2
    <3>. QED BY <3>1, <3>2
  <2>. QED BY <1>13, <2>1, <2>2 DEF LevelsFilled
<1>15. ASSUME NEW m \in Nodes, \A g \in Done(k) : m # NodeAt(path, g)
       PROVE  BucketBlocks(e.buckets, e.buffers, m) = BucketBlocks(buckets, buffers, m)
  <2>1. m \in Nodes \ {n} /\ \A g \in Done(k - 1) : m # NodeAt(path, g)
    BY <1>2, <1>15 DEF n
  <2>. QED BY <1>9, <1>12, <2>1
<1>16. \A m \in Nodes : Distinct(e.buckets, e.buffers, m)
  BY <1>12
<1>17. /\ Cardinality(BlocksIn(e.client)) = Cardinality(TakenIn(e.client))
       /\ e.load = Cardinality(TakenIn(e.client))
  BY <1>8, <1>9, <1>11
<1>. QED BY <1>13, <1>14, <1>15, <1>16, <1>17 DEF EvictedSoFar, e

LEMMA EvictedAll == ASSUME ImageInv, pc = "evict" PROVE EvictedSoFar(Height)
<1>1. /\ Evicting[0] = EvictStart /\ Height \in Nat /\ Done(0) = {}
  <2>1. /\ SlotInv /\ path \in Paths
        /\ \A g \in Levels : backup[g] = OwnBuffers(NodeAt(path, g))
    BY DEF ImageInv, SlotInv, AppTypeOK, BackupOK
  <2>. QED BY <2>1, EvictingRounds, TreeAssumption DEF Done, Levels
<1>2. EvictedSoFar(0)
  <2> DEFINE lv == [b \in StashBar |-> Height]
  <2>1. /\ StashBar = BlocksIn(client) /\ load = Cardinality(StashBar)
        /\ load = Cardinality(TakenIn(client))
    BY EachBlockOnce
  <2>2. /\ Evicting[0].client = client /\ Evicting[0].load = load
        /\ Evicting[0].buckets = buckets /\ Evicting[0].buffers = buffers
    BY <1>1 DEF EvictStart
  <2>3. lv \in [StashBar -> Levels \cup {Height}] /\ P!Placed(lv, Height) = StashBar
    BY DEF P!Placed
  <2>4. \A b \in StashBar : lv[b] >= Height - 0
    BY <1>1
  <2> HIDE DEF lv
  <2>5. LevelsFilled(Evicting[0], lv, 0)
    BY <1>1, <2>1, <2>2, <2>3, <2>4 DEF LevelsFilled
  <2>6. \A n \in Nodes : Distinct(buckets, buffers, n)
    BY DEF ImageInv, BucketsDistinct
  <2>. QED BY <2>1, <2>2, <2>3, <2>5, <2>6 DEF EvictedSoFar
<1> DEFINE G == {k \in 0 .. Height : EvictedSoFar(k)}
<1>3. 0 \in G
  BY <1>1, <1>2
<1>4. ASSUME NEW k \in 1 .. Height, k - 1 \in G PROVE k \in G
  BY <1>1, <1>4, EvictRound
<1>5. \A k \in 0 .. Height : k \in G
  <2> HIDE DEF G
  <2>. QED BY <1>1, <1>3, <1>4, UpTo
<1>. QED BY <1>1, <1>5

LEMMA EvictRefines ==
  ASSUME ImageInv, EvictPath
  PROVE  P!EvictPath /\ LoadCounts' /\ BucketsDistinct'
<1> DEFINE e == Evicting[Height]
<1>1. /\ pc = "evict" /\ path \in Paths
  BY DEF ImageInv, SlotInv, AppTypeOK, EvictPath
<1>2. /\ client' = e.client /\ load' = e.load
      /\ buckets' = e.buckets /\ buffers' = e.buffers
  BY DEF EvictPath
<1>3. EvictedSoFar(Height)
  BY <1>1, EvictedAll
<1>4. Height \in Nat /\ Height \notin Levels /\ Done(Height) = Levels
  BY TreeAssumption DEF Done, Levels
<1>5. PICK lv \in [StashBar -> Levels \cup {Height}] : LevelsFilled(e, lv, Height)
  BY <1>3 DEF EvictedSoFar
<1>6. /\ Cardinality(BlocksIn(e.client)) = Cardinality(TakenIn(e.client))
      /\ e.load = Cardinality(TakenIn(e.client))
      /\ \A n \in Nodes : (\A h \in Levels : n # NodeAt(path, h)) =>
           BucketBlocks(e.buckets, e.buffers, n) = BucketBlocks(buckets, buffers, n)
      /\ \A n \in Nodes : Distinct(e.buckets, e.buffers, n)
  BY <1>3, <1>4 DEF EvictedSoFar
<1> HIDE DEF e
<1>7. /\ BlocksIn(e.client) = P!Placed(lv, Height)
      /\ \A h \in Levels :
           /\ P!FilledGreedily(lv, h)
           /\ BucketBlocks(e.buckets, e.buffers, NodeAt(path, h)) = P!Placed(lv, h)
  BY <1>4, <1>5 DEF LevelsFilled
<1>8. P!IsEviction(lv)
  BY <1>7, SameData DEF P!IsEviction, P!EvictedLevels
<1>9. TreeBar' = P!Refilled(lv)
  <2>1. ASSUME NEW n \in Nodes
        PROVE  TreeBar'[n] = IF n \in PathNodes(path) THEN P!Placed(lv, n[1]) ELSE TreeBar[n]
    <3>1. TreeBar'[n] = BucketBlocks(e.buckets, e.buffers, n)
      BY <1>2, TreeBlocksNext
    <3>2. CASE n \in PathNodes(path)
      <4>1. n[1] \in Levels /\ n = NodeAt(path, n[1])
        BY <3>2 DEF PathNodes, NodeAt
      <4>. QED BY <1>7, <3>1, <3>2, <4>1
    <3>3. CASE n \notin PathNodes(path)
      <4>1. \A h \in Levels : n # NodeAt(path, h)
        BY <3>3 DEF PathNodes
      <4>. QED BY <1>6, <3>1, <3>3, <4>1, TreeBlocks
    <3>. QED BY <3>2, <3>3
  <2>2. TreeBar' = [n \in Nodes |-> TreeBar'[n]]
    BY DEF TreeBar
  <2>3. P!Refilled(lv) = [n \in Nodes |-> IF n \in PathNodes(path) THEN P!Placed(lv, n[1])
                                          ELSE TreeBar[n]]
    BY SameData DEF P!Refilled, P!EvictedPath
  <2>. QED BY <2>1, <2>2, <2>3
<1>10. StashBar' = P!Leftover(lv)
  BY <1>2, <1>7, StashBlocksNext DEF P!Leftover
<1>11. load' = load - P!Cardinality(StashBar \ P!Placed(lv, Height))
  <2> DEFINE left == P!Placed(lv, Height)
  <2>1. IsFiniteSet(StashBar) /\ Cardinality(StashBar) \in Nat /\ load = Cardinality(StashBar)
    BY <1>1, EachBlockOnce
  <2>2. left \subseteq StashBar
    BY DEF P!Placed
  <2>3. load' = Cardinality(left)
    BY <1>2, <1>6, <1>7
  <2> HIDE DEF left
  <2>4. /\ Cardinality(StashBar \ left) = Cardinality(StashBar) - Cardinality(StashBar \cap left)
        /\ StashBar \cap left = left
    BY <2>1, <2>2, FS_Difference
  <2>5. IsFiniteSet(left)
    BY <2>1, <2>2, FS_Subset
  <2>6. Cardinality(left) \in Nat
    BY <2>5, FS_CardinalityType
  <2>7. load' = load - Cardinality(StashBar \ left)
    BY <2>1, <2>3, <2>4, <2>6
  <2>. QED BY <2>7, SameCounts DEF left
<1>12. P!EvictPath
  <2>1. lv \in [StashBar -> P!Levels \cup {Height}]
    BY SameData
  <2>. QED BY <1>8, <1>9, <1>10, <1>11, <2>1 DEF EvictPath, P!EvictPath
<1>13. LoadCounts'
  BY <1>2, <1>6 DEF LoadCounts
<1>14. BucketsDistinct'
  BY <1>2, <1>6 DEF BucketsDistinct
<1>. QED BY <1>12, <1>13, <1>14

-----------------------------------------------------------------------------
(* The refinement.                                                         *)

\* The calls that leave the nodes and buckets alone.
LEMMA OutsideRefines ==
  ASSUME ImageInv, UNCHANGED enclaveVars
  PROVE  /\ UNCHANGED <<TreeBar, StashBar, load>>
         /\ LoadCounts' /\ BucketsDistinct'
<1>1. UNCHANGED <<TreeBar, StashBar, load>> /\ BucketsDistinct'
  BY SameTree, SameStash DEF ImageInv, enclaveVars
<1>2. LoadCounts'
  BY DEF ImageInv, LoadCounts, enclaveVars
<1>. QED BY <1>1, <1>2

LEMMA StepRefines ==
  ASSUME ImageInv, [Next]_vars
  PROVE  [P!Next]_(P!vars) /\ LoadCounts' /\ BucketsDistinct'
<1>1. ASSUME NEW r \in ReadRequests \cup WriteRequests, StartAccess(r)
      PROVE  [P!Next]_(P!vars) /\ LoadCounts' /\ BucketsDistinct'
  <2>1. UNCHANGED enclaveVars /\ P!StartAccess(r)
    BY <1>1 DEF StartAccess
  <2>2. r \in P!ReadRequests \cup P!WriteRequests
    BY SameData
  <2>. QED BY <2>1, <2>2, OutsideRefines DEF P!Next
<1>2. CASE PathPointerFault
  BY <1>2, OutsideRefines DEF PathPointerFault, P!Next, P!Step
<1>3. CASE DownloadPath
  BY <1>3, DownloadRefines DEF P!Next, P!Step
<1>4. CASE DownloadOverflow
  <2>1. LoadCounts' /\ BucketsDistinct'
    BY <1>4, OutsideRefines DEF DownloadOverflow, Abort
  <2>. QED BY <1>4, <2>1, OverflowRefines DEF P!Next, P!Step
<1>5. CASE ObliviousFetch
  BY <1>5, FetchRefines DEF P!Next, P!Step
<1>6. CASE PutToStash
  BY <1>6, PutRefines DEF P!Next, P!Step
<1>7. CASE PutOverflow
  <2>1. LoadCounts' /\ BucketsDistinct'
    BY <1>7, OutsideRefines DEF PutOverflow, Abort
  <2>. QED BY <1>7, <2>1, PutOverflowRefines DEF P!Next, P!Step
<1>8. CASE EvictPath
  BY <1>8, EvictRefines DEF P!Next, P!Step
<1>9. CASE UNCHANGED vars
  <2>1. UNCHANGED <<TreeBar, StashBar, load>> /\ LoadCounts' /\ BucketsDistinct'
    BY <1>9, OutsideRefines DEF vars
  <2>. QED BY <1>9, <2>1 DEF vars, appVars, P!vars
<1>. QED
  BY <1>1, <1>2, <1>3, <1>4, <1>5, <1>6, <1>7, <1>8, <1>9 DEF Next, Aborted

LEMMA InitRefines == Init => P!Init /\ LoadCounts /\ BucketsDistinct
<1> SUFFICES ASSUME Init PROVE P!Init /\ LoadCounts /\ BucketsDistinct
  OBVIOUS
<1>1. \A i \in Slots : EmptyNode.presence[i] = 0
  BY DEF EmptyNode
<1>2. TakenIn(client) = {} /\ \A n \in Nodes : Taken(buckets[n]) = {}
  BY <1>1 DEF Init, TakenIn, Taken, Bucket
<1>3. LoadCounts
  BY <1>2, FS_EmptySet DEF Init, LoadCounts
<1>. QED BY <1>2, <1>3 DEF Init, BucketsDistinct, Distinct

\* The two instances of PathORAM say the same.
LEMMA SameSteps == /\ P!Init => PP!Init
                   /\ [P!Next]_(P!vars) => [PP!Next]_(PP!vars)
                   /\ P!vars' = P!vars => PP!vars' = PP!vars
<1>1. /\ PP!Contents = Contents /\ PP!ZeroBlock = ZeroBlock
      /\ PP!ReadRequests = ReadRequests /\ PP!WriteRequests = WriteRequests
      /\ PP!Levels = Levels /\ PP!Nodes = Nodes
      /\ \A p, h : PP!NodeAt(p, h) = NodeAt(p, h)
      /\ \A p : PP!PathNodes(p) = PathNodes(p)
      /\ \A p, q, h : PP!SamePrefix(p, q, h) = SamePrefix(p, q, h)
      /\ \A r, c : PP!Stored(r, c) = Stored(r, c) /\ PP!Loaded(r, c) = Loaded(r, c)
  <2>1. PP!Words = Words /\ PP!Levels = Levels
    BY DEF PP!Words, Words, PP!Levels, Levels
  <2>2. PP!Contents = Contents /\ PP!ZeroBlock = ZeroBlock
    BY <2>1 DEF PP!Contents, Contents, PP!ZeroBlock, ZeroBlock
  <2>3. PP!WriteRanges = WriteRanges
    BY <2>1 DEF PP!WriteRanges, WriteRanges
  <2>4. PP!ReadRequests = ReadRequests
    BY <2>1, <2>2 DEF PP!ReadRequests, ReadRequests
  <2>5. PP!WriteRequests = WriteRequests
    BY <2>1, <2>2, <2>3 DEF PP!WriteRequests, WriteRequests
  <2>6. \A p, h : PP!Masked(p, h) = Masked(p, h)
    <3>1. PP!TwoTo = TwoTo
      BY DEF PP!TwoTo, TwoTo
    <3>. QED BY <3>1 DEF PP!Masked, Masked
  <2>7. \A p, h : PP!NodeAt(p, h) = NodeAt(p, h)
    BY <2>6 DEF PP!NodeAt, NodeAt
  <2>8. \A p, q, h : PP!SamePrefix(p, q, h) = SamePrefix(p, q, h)
    BY <2>6 DEF PP!SamePrefix, SamePrefix
  <2>9. \A p : PP!PathNodes(p) = PathNodes(p)
    BY <2>1, <2>7 DEF PP!PathNodes, PathNodes
  <2>10. PP!Nodes = Nodes
    BY <2>9 DEF PP!Nodes, Nodes
  <2>11. \A r, c : PP!Stored(r, c) = Stored(r, c) /\ PP!Loaded(r, c) = Loaded(r, c)
    BY <2>1 DEF PP!Stored, Stored, PP!Loaded, Loaded
  <2>. QED
    BY <2>1, <2>2, <2>4, <2>5, <2>7, <2>8, <2>9, <2>10, <2>11
<1>2. P!Init => PP!Init
  BY <1>1, SameData DEF P!Init, PP!Init
<1>3. P!Abort => PP!Abort
  BY DEF P!Abort, PP!Abort
<1>4. ASSUME NEW r \in P!ReadRequests \cup P!WriteRequests, P!StartAccess(r)
      PROVE  PP!Next
  <2>1. PP!StartAccess(r)
    BY <1>4 DEF P!StartAccess, PP!StartAccess, P!Swapped, PP!Swapped
  <2>2. r \in PP!ReadRequests \cup PP!WriteRequests
    BY <1>1, SameData
  <2>. QED BY <2>1, <2>2 DEF PP!Next
<1>5. P!PathPointerFault => PP!PathPointerFault
  BY <1>3 DEF P!PathPointerFault, PP!PathPointerFault
<1>6. P!OnPath = PP!OnPath /\ P!SlotsOnPath = PP!SlotsOnPath
  <2>1. P!OnPath = PP!OnPath
    BY <1>1, SameData DEF P!OnPath, PP!OnPath
  <2>. QED BY <1>1, <2>1, SameData DEF P!SlotsOnPath, PP!SlotsOnPath
<1>7. \A n : P!Fits(n) = PP!Fits(n)
  BY DEF P!Fits, PP!Fits
<1>8. \A S : P!Cardinality(S) = PP!Cardinality(S)
  BY SameCounts
<1>9. P!DownloadPath => PP!DownloadPath
  BY <1>6, <1>7, <1>8 DEF P!DownloadPath, PP!DownloadPath
<1>10. P!DownloadOverflow => PP!DownloadOverflow
  BY <1>3, <1>6, <1>7, <1>8 DEF P!DownloadOverflow, PP!DownloadOverflow
<1>11. P!ObliviousFetch => PP!ObliviousFetch
  <2>1. P!BlockKey(req.ind) = PP!BlockKey(req.ind)
    BY DEF P!BlockKey, PP!BlockKey
  <2>2. \A key : P!InStash(key) = PP!InStash(key)
    BY DEF P!InStash, PP!InStash
  <2>3. \A taken : /\ P!LeftInStash(taken) = PP!LeftInStash(taken)
                   /\ P!LoadAfterFetch(taken) = PP!LoadAfterFetch(taken)
    BY DEF P!LeftInStash, PP!LeftInStash, P!LoadAfterFetch, PP!LoadAfterFetch
  <2>4. \A c : P!BlockAfter(c) = PP!BlockAfter(c) /\ P!BufferAfter(c) = PP!BufferAfter(c)
    BY <1>1, SameData DEF P!BlockAfter, PP!BlockAfter, P!BufferAfter, PP!BufferAfter
  <2>. QED BY <1>1, <2>1, <2>2, <2>3, <2>4, SameData DEF P!ObliviousFetch, PP!ObliviousFetch
<1>12. P!PutToStash => PP!PutToStash
  <2>1. P!PutBlock = PP!PutBlock
    BY DEF P!PutBlock, PP!PutBlock, P!PutLabel, PP!PutLabel, P!BlockKey, PP!BlockKey
  <2>. QED BY <1>8, <2>1 DEF P!PutToStash, PP!PutToStash
<1>13. P!PutOverflow => PP!PutOverflow
  BY <1>3, <1>8 DEF P!PutOverflow, PP!PutOverflow
<1>14. P!EvictPath => PP!EvictPath
  <2>1. \A lv, h : P!Placed(lv, h) = PP!Placed(lv, h)
    BY DEF P!Placed, PP!Placed
  <2>2. \A lv, h : P!Eligible(lv, h) = PP!Eligible(lv, h)
    BY <1>1, SameData DEF P!Eligible, PP!Eligible, P!StillThere, PP!StillThere,
                          P!EvictedPath, PP!EvictedPath
  <2>3. \A lv, h : P!FilledGreedily(lv, h) = PP!FilledGreedily(lv, h)
    BY <1>8, <2>1, <2>2 DEF P!FilledGreedily, PP!FilledGreedily
  <2>4. \A lv : P!IsEviction(lv) = PP!IsEviction(lv)
    BY <1>1, <2>3, SameData DEF P!IsEviction, PP!IsEviction, P!EvictedLevels, PP!EvictedLevels
  <2>5. \A lv : P!Refilled(lv) = PP!Refilled(lv) /\ P!Leftover(lv) = PP!Leftover(lv)
    BY <1>1, <2>1, SameData DEF P!Refilled, PP!Refilled, P!Leftover, PP!Leftover,
                                P!EvictedPath, PP!EvictedPath
  <2>. QED BY <1>1, <1>8, <2>1, <2>4, <2>5, SameData DEF P!EvictPath, PP!EvictPath
<1>15. P!Step => PP!Step
  BY <1>5, <1>9, <1>10, <1>11, <1>12, <1>13, <1>14 DEF P!Step, PP!Step
<1>16. P!vars' = P!vars => PP!vars' = PP!vars
  BY DEF P!vars, PP!vars
<1>17. P!Aborted => PP!Aborted
  BY <1>16 DEF P!Aborted, PP!Aborted
<1>18. P!Next => PP!Next
  BY <1>4, <1>15, <1>17 DEF P!Next, PP!Next
<1>. QED BY <1>2, <1>16, <1>18

LEMMA ImageInvInit == Init => ImageInv
<1> SUFFICES ASSUME Init PROVE ImageInv
  OBVIOUS
<1>1. PP!Init /\ LoadCounts /\ BucketsDistinct
  BY InitRefines, SameSteps
<1>2. PP!IInv
  BY <1>1, PP!IInvInit, Assumed, DataAssumption, TreeAssumption
<1>3. PP!StashLoadExact
  BY <1>1, SameCounts, FS_EmptySet DEF PP!Init, PP!StashLoadExact
<1>. QED BY <1>1, <1>2, <1>3, SlotInit DEF ImageInv

LEMMA ImageInvStep ==
  ASSUME P!NoNeighbours, ImageInv, [Next]_vars PROVE ImageInv'
<1>1. [PP!Next]_(PP!vars) /\ LoadCounts' /\ BucketsDistinct'
  BY StepRefines, SameSteps
<1>2. PP!IInv /\ PP!StashLoadExact /\ PP!NoNeighbours
  BY DEF ImageInv, P!NoNeighbours, PP!NoNeighbours
<1>3. PP!IInv'
  BY <1>1, <1>2, PP!IInvStep, Assumed, DataAssumption, TreeAssumption
<1>4. PP!StashLoadExact'
  BY <1>1, <1>2, PP!StashLoadStep, Assumed, DataAssumption, TreeAssumption
<1>. QED BY <1>1, <1>3, <1>4, SlotStep DEF ImageInv

\* As long as no caller uses two neighbouring block ids, the images of the slots
\* satisfy what PathORAM's blocks do, and the counters count.
THEOREM Invariant == ASSUME P!NoNeighbours PROVE Spec => []ImageInv
BY ImageInvInit, ImageInvStep, PTL DEF Spec

\* The counters agree with the presence bits, in the nodes, in the buckets, and in
\* client->stash_load.
THEOREM CountersStayExact == ASSUME P!NoNeighbours PROVE Spec => []CountersAgree
<1>1. ImageInv => CountersAgree
  <2> SUFFICES ASSUME ImageInv PROVE CountersAgree
    OBVIOUS
  <2>1. \A d \in Depths : client[d].num = Filling(client[d])
    BY DEF ImageInv, SlotInv, KeyedNode, SoundNode
  <2>2. ASSUME NEW n \in Nodes PROVE buckets[n].num = Filling(buckets[n])
    <3>1. PICK node \in FreshNode :
            buckets[n].num = node.num /\ buckets[n].presence = node.presence
      BY BucketFields DEF ImageInv, SlotInv
    <3>2. node.num = Filling(node)
      BY DEF FreshNode, SoundNode
    <3>. QED BY <3>1, <3>2 DEF Filling, Taken
  <2>3. load = Cardinality({x \in Depths \X Slots : client[x[1]].presence[x[2]] > 0})
    BY DEF ImageInv, LoadCounts, TakenIn
  <2>. QED BY <2>1, <2>2, <2>3 DEF CountersAgree
<1>. QED BY <1>1, Invariant, PTL

\* Slot by slot, the enclave's routines implement PathORAM.
THEOREM RefinesPathORAM ==
  ASSUME P!NoNeighbours PROVE Spec => ImplementsPathORAM
<1>1. Init => P!Init
  BY InitRefines
<1>2. ImageInv /\ [Next]_vars => [P!Next]_(P!vars)
  BY StepRefines
<1>. QED BY <1>1, <1>2, Invariant, PTL DEF Spec, ImplementsPathORAM, P!Spec

\* And so, through PathORAM, they implement a memory: what an access loads from
\* a block is what the last write to it stored.
THEOREM RefinesMemory ==
  ASSUME P!NoNeighbours PROVE Spec => PP!ImplementsORAM
<1>1. Init => PP!Init
  BY InitRefines, SameSteps
<1>2. ImageInv /\ [Next]_vars => [PP!Next]_(PP!vars)
  BY StepRefines, SameSteps
<1>3. Spec => PP!Spec
  BY <1>1, <1>2, Invariant, PTL DEF Spec, PP!Spec
<1>4. PP!NoNeighbours
  BY DEF P!NoNeighbours, PP!NoNeighbours
<1>5. PP!Spec => PP!ImplementsORAM
  BY <1>4, PP!RefinesORAM, Assumed, DataAssumption, TreeAssumption
<1>. QED BY <1>3, <1>5
=============================================================================
