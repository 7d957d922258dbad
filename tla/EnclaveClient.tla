--------------------------- MODULE EnclaveClient ---------------------------
(***************************************************************************)
(* The enclave's side of an access, slot by slot: the nodes and stash of   *)
(* the struct Client, the buckets of MemTree with the buffers their slots  *)
(* point to, and the enclave calls MemTree.cpp makes on them.              *)
(*                                                                         *)
(* The application's side, AccessPathORAM and the position map, is that of *)
(* PathORAM, which this module implements: a bucket stands for the blocks  *)
(* in its slots, the stash for the blocks in the slots of client->path.    *)
(* Encryption is left out: what encryptData wrote, decryptData reads.      *)
(***************************************************************************)
EXTENDS ClientNode, TreePath

CONSTANTS
  MaxPosMap,      \* MAX_POS_MAP
  ClientMaxPath,  \* CLIENT_MAX_PATH, the nodes of client->path
  Junk            \* words the heap may hold behind a BlockPath

ASSUME ClientAssumption ==
  /\ ClientMaxPath \in Nat
  /\ Height < ClientMaxPath
  /\ MaxPosMap \in Nat
  /\ Inds \subseteq 0 .. MaxPosMap - 1
  /\ Junk \subseteq Paths \cup {0}
  /\ Junk # {}

VARIABLES
  posmap, pc, req, path, newPath, fetched,  \* as in PathORAM
  buckets,  \* MemTree.nodes, decrypted
  buffers,  \* the encrypted contents, by address, decrypted
  client,   \* client->path and client->path_stash
  load,     \* client->stash_load
  backup    \* client->encrypted_data_addr_in_path

appVars == <<posmap, pc, req, path, newPath, fetched>>
enclaveVars == <<buckets, buffers, client, load, backup>>
vars == <<appVars, enclaveVars>>

Depths == 0 .. ClientMaxPath - 1
Addresses == Nodes \X Slots

\* A MemTreeNode as it is in a bucket: slots point to buffers.
Bucket(node, addr) ==
  [num |-> node.num, keys |-> node.keys, paths |-> node.paths,
   presence |-> node.presence, addr |-> addr]

-----------------------------------------------------------------------------
(* The blocks a bucket and the stash hold.                                 *)

BlocksAt(keys, paths, presence, content) ==
  {[key |-> keys[i], path |-> paths[i], data |-> content[i]] :
     i \in {j \in Slots : presence[j] > 0}}

TreeBar ==
  [n \in Nodes |->
     LET b == buckets[n]
     IN BlocksAt(b.keys, b.paths, b.presence,
                 [i \in Slots |-> buffers[b.addr[i]]])]

StashBar ==
  UNION {BlocksAt(client[d].keys, client[d].paths, client[d].presence,
                  client[d].contents) : d \in Depths}

P == INSTANCE PathORAM
       WITH tree <- TreeBar, stash <- StashBar, stashLoad <- load,
            StashCap <- ClientMaxPath * BlocksPerNode

Init ==
  /\ buckets = [n \in Nodes |->
                  Bucket(EmptyNode, [i \in Slots |-> <<n, i>>])]
  /\ buffers = [a \in Addresses |-> ZeroBlock]
  /\ client = [d \in Depths |-> EmptyNode]
  /\ load = 0
  /\ backup = [h \in Levels |-> [i \in Slots |-> <<>>]]
  /\ P!Init

\* The calls that leave the enclave's nodes alone.
StartAccess(r) == UNCHANGED enclaveVars /\ P!StartAccess(r)
PathPointerFault == UNCHANGED enclaveVars /\ P!PathPointerFault

\* A failed assertion, and the process with it.
Abort ==
  /\ pc' = "aborted"
  /\ UNCHANGED <<posmap, req, path, newPath, fetched, enclaveVars>>

-----------------------------------------------------------------------------
(***************************************************************************)
(* The download reads the buckets from the root down, slot by slot, and    *)
(* writes each block a key marks to the first node with room, at any       *)
(* depth.  It notes where the slots' buffers are.                          *)
(***************************************************************************)
WriteToStash(nodes, key, label, content) ==
  LET room == {d \in Depths : CanWrite(nodes[d], key)}
  IN IF room = {} THEN nodes
     ELSE [nodes EXCEPT ![Min(room)] = NodeWrite(@, key, label, content)]

NoRoomOnPath(nodes, key) == \A d \in Levels : ~ CanWrite(nodes[d], key)
NoRoom(nodes, key) == \A d \in Depths : ~ CanWrite(nodes[d], key)

LoadSlot(state, slot) ==
  LET bucket == buckets[NodeAt(path, slot[1])]
      key == bucket.keys[slot[2]]
  IN [client |-> WriteToStash(state.client, key, bucket.paths[slot[2]],
                              buffers[bucket.addr[slot[2]]]),
      load |-> state.load + (IF key # 0 THEN 1 ELSE 0),
      failed |-> state.failed \/ (key # 0 /\ NoRoom(state.client, key))]

Loading[k \in 0 .. Height * BlocksPerNode] ==
  IF k = 0 THEN [client |-> client, load |-> load, failed |-> FALSE]
           ELSE LoadSlot(Loading[k - 1], SlotAt(k))

Downloaded == Loading[Height * BlocksPerNode]

DownloadPath ==
  /\ pc = "download"
  /\ LET loaded == Downloaded
     IN /\ ~ loaded.failed
        /\ client' = loaded.client
        /\ load' = loaded.load
  /\ backup' = [h \in Levels |-> buckets[NodeAt(path, h)].addr]
  /\ pc' = "fetch"
  /\ UNCHANGED <<posmap, req, path, newPath, fetched, buckets, buffers>>

DownloadOverflow == pc = "download" /\ Downloaded.failed /\ Abort

-----------------------------------------------------------------------------
(***************************************************************************)
(* The fetch stops reading at the first node that has the key.             *)
(***************************************************************************)
ObliviousFetch ==
  /\ pc = "fetch"
  /\ LET key == P!BlockKey(req.ind)
         having == {d \in Depths : Hits(client[d], key) # {}}
         content == IF having = {} THEN ZeroBlock
                    ELSE ReadContent(client[Min(having)], key)
     IN /\ IF having = {} THEN UNCHANGED <<client, load>>
           ELSE /\ client' = [client EXCEPT ![Min(having)] = NodeRead(@, key)]
                /\ load' = load - 1
        /\ fetched' = Stored(req, content)
        /\ req' = [req EXCEPT !.buf = Loaded(req, content)]
  /\ pc' = "put"
  /\ UNCHANGED <<posmap, path, newPath, buckets, buffers, backup>>

(***************************************************************************)
(* The put looks for a node with room from depth 0.                        *)
(***************************************************************************)
PutToStash ==
  /\ pc = "put"
  /\ ~ NoRoom(client, P!BlockKey(req.ind))
  /\ client' = WriteToStash(client, P!BlockKey(req.ind), newPath, fetched)
  /\ load' = load + 1
  /\ pc' = "evict"
  /\ UNCHANGED <<posmap, req, path, newPath, fetched, buckets, buffers, backup>>

PutOverflow == pc = "put" /\ NoRoom(client, P!BlockKey(req.ind)) /\ Abort

-----------------------------------------------------------------------------
(***************************************************************************)
(* The eviction fills an empty node for each level, from the leaf up, by   *)
(* one scan of the slots of client->path, and puts it in place of the      *)
(* bucket: the slots it did not fill become dummies, and all of them       *)
(* point again to the buffers the bucket had.                              *)
(***************************************************************************)
MovesEmptied(node, slot, temp, h) ==
  /\ SamePrefix(node.paths[slot], path, h)
  /\ temp.num < BlocksPerNode
  /\ node.keys[slot] # 0
Moves(node, slot, temp, h) ==
  /\ SamePrefix(node.paths[slot], path, h)
  /\ temp.num < BlocksPerNode
  /\ node.presence[slot] > 0

\* A block moved out: the slot is free, its key and label stay behind.
VacatedUncounted(node, slot) == [node EXCEPT !.presence[slot] = 0]
Vacated(node, slot) == [VacatedUncounted(node, slot) EXCEPT !.num = @ - 1]

MoveSlot(h, state, slot) ==
  LET d == slot[1]  i == slot[2]  node == state.client[slot[1]]
  IN IF ~ Moves(node, i, state.temp, h) THEN state
     ELSE [client |-> [state.client EXCEPT ![d] = Vacated(@, i)],
           load |-> state.load - 1,
           temp |-> NodeTransfer(state.temp, node.keys[i], node.paths[i],
                                 node.contents[i])]

\* memset of client->temp_node.
ClearedBits(temp) ==
  [temp EXCEPT !.num = 0, !.presence = [i \in Slots |-> 0]]
Cleared(temp) == EmptyNode

\* The scan of client->path for the blocks that may go to level h.
Scanning(h, nodes, count, temp) ==
  LET scan[k \in 0 .. ClientMaxPath * BlocksPerNode] ==
        IF k = 0 THEN [client |-> nodes, load |-> count, temp |-> Cleared(temp)]
                 ELSE MoveSlot(h, scan[k - 1], SlotAt(k))
  IN  scan
Scanned(h, nodes, count, temp) ==
  Scanning(h, nodes, count, temp)[ClientMaxPath * BlocksPerNode]

\* The bucket is written, and with it the buffers its slots point to.
RestoredStale(h) == buckets[NodeAt(path, 0)].addr
Restored(h) == backup[h]

Encrypted(bufs, addr, temp) ==
  [a \in Addresses |->
     IF \E i \in Slots : a = addr[i]
     THEN LET i == CHOOSE i \in Slots : a = addr[i]
          IN IF temp.presence[i] = 1 THEN temp.contents[i] ELSE ZeroBlock
     ELSE bufs[a]]

EvictLevel(state, h) ==
  LET scanned == Scanned(h, state.client, state.load, state.temp)
  IN [client |-> scanned.client, load |-> scanned.load, temp |-> scanned.temp,
      buckets |-> [state.buckets EXCEPT ![NodeAt(path, h)] =
                                          Bucket(scanned.temp, Restored(h))],
      buffers |-> Encrypted(state.buffers, Restored(h), scanned.temp)]

Evicting[k \in 0 .. Height] ==
  IF k = 0 THEN [client |-> client, load |-> load, temp |-> EmptyNode,
                 buckets |-> buckets, buffers |-> buffers]
           ELSE EvictLevel(Evicting[k - 1], Height - k)

EvictPath ==
  /\ pc = "evict"
  /\ LET evicted == Evicting[Height]
     IN /\ client' = evicted.client
        /\ load' = evicted.load
        /\ buckets' = evicted.buckets
        /\ buffers' = evicted.buffers
  /\ path' = 0
  /\ newPath' = 0
  /\ pc' = "idle"
  /\ UNCHANGED <<posmap, req, fetched, backup>>

Aborted == pc = "aborted" /\ UNCHANGED vars

Next ==
  \/ \E r \in ReadRequests \cup WriteRequests : StartAccess(r)
  \/ PathPointerFault
  \/ DownloadPath
  \/ DownloadOverflow
  \/ ObliviousFetch
  \/ PutToStash
  \/ PutOverflow
  \/ EvictPath
  \/ Aborted

Spec == Init /\ [][Next]_vars

-----------------------------------------------------------------------------
(***************************************************************************)
(* num_blocks, by which the routines find room, agrees with the presence   *)
(* bits, by which they find a slot, in every node of the client and of the *)
(* tree; and stash_load with the presence bits of the client.              *)
(***************************************************************************)
CountersAgree ==
  /\ \A d \in Depths : client[d].num = Filling(client[d])
  /\ \A n \in Nodes : buckets[n].num = Filling(buckets[n])
  /\ load = Cardinality({x \in Depths \X Slots :
                                         client[x[1]].presence[x[2]] > 0})

(***************************************************************************)
(* In a bucket a slot has a key exactly when its presence bit is set: the  *)
(* download goes by the key, the eviction by the bit.  (In client->path    *)
(* it is not so: emptied slots keep their keys.)                           *)
(***************************************************************************)
KeysMarkPresence ==
  \A n \in Nodes, i \in Slots :
    buckets[n].keys[i] # 0 <=> buckets[n].presence[i] > 0

(***************************************************************************)
(* No two slots of the tree share a buffer, though every eviction builds   *)
(* its buckets from nodes that came with the pointers of other buckets.    *)
(* FreeMemTree frees what the slots point to, each buffer once.            *)
(***************************************************************************)
BuffersOwned ==
  \A n, m \in Nodes, i, j \in Slots :
    buckets[n].addr[i] = buckets[m].addr[j] => n = m /\ i = j

\* Slot by slot, the enclave calls do what PathORAM says of their sets.
ImplementsPathORAM == P!Spec
=============================================================================
