----------------------------- MODULE SimpleTree -----------------------------
(***************************************************************************)
(* What the enclave calls of SimpleORAM do to one tree and to the client:  *)
(* download, fetch, update, put to the root and flush, in the build that   *)
(* leaves PATH_ORAM undefined (with it, the null pointer these calls pass  *)
(* for the encrypted content would be written through).                    *)
(*                                                                         *)
(* A path comes to the first nodes of client->path, one for each level of  *)
(* the tree, and goes back from there.  The nodes below them keep what a   *)
(* higher tree left.  There is no stash.                                   *)
(***************************************************************************)
EXTENDS ClientNode, TreePath

CONSTANT ClientMaxPath  \* CLIENT_MAX_PATH, the nodes of client->path

VARIABLES
  buckets,  \* MemTree.nodes, decrypted, with the contents of the slots
  client,   \* client->path and client->path_stash
  path      \* the path at hand: *block_path, then rand_path

Depths == 0 .. ClientMaxPath - 1

WithPath ==
  [d \in Depths |-> IF d \in Levels THEN buckets[NodeAt(path, d)] ELSE client[d]]

UpdatedPath ==
  [n \in Nodes |-> IF n \in PathNodes(path) THEN client[n[1]] ELSE buckets[n]]

(***************************************************************************)
(* The fetch reads the nodes of client->path up to the first with the key, *)
(* those below the levels of this tree included.  What stays in an emptied *)
(* slot is never read again; its label and content are forgotten here.     *)
(***************************************************************************)
Forgotten(node) ==
  [num |-> node.num, keys |-> node.keys,
   paths |-> [i \in Slots |-> IF node.presence[i] = 0 THEN 0 ELSE node.paths[i]],
   presence |-> node.presence,
   contents |-> [i \in Slots |-> IF node.presence[i] = 0 THEN ZeroBlock
                                 ELSE node.contents[i]]]

FoundAt(key) == {d \in Depths : Hits(client[d], key) # {}}
FetchedContent(key) ==
  IF FoundAt(key) = {} THEN ZeroBlock ELSE ReadContent(client[Min(FoundAt(key))], key)

FetchTakes(key) ==
  IF FoundAt(key) = {} THEN client
  ELSE [client EXCEPT ![Min(FoundAt(key))] = Forgotten(NodeRead(@, key))]

\* The put works on the root bucket alone, downloaded anew.
RootHasRoom(key) == CanWrite(buckets[Root], key)
RootWithBlock(key, label, content) == NodeWrite(buckets[Root], key, label, content)

-----------------------------------------------------------------------------
(***************************************************************************)
(* The flush visits the slots of the path from the root down, leaves       *)
(* excepted.  A block goes to the first node below its own that has room,  *)
(* as long as its label and the path agree on every turn down to it; full  *)
(* nodes on the way are passed over.  Being visited again where it lands,  *)
(* it may sink further.                                                    *)
(***************************************************************************)
\* Bits i up to k - 1 of two labels agree.
SameTurnsLastOnly(p, q, i, k) ==
  (p \div TwoTo[k - 1]) % 2 = (q \div TwoTo[k - 1]) % 2
SameTurns(p, q, i, k) ==
  (p \div TwoTo[i]) % TwoTo[k - i] = (q \div TwoTo[i]) % TwoTo[k - i]

BelowFull(nodes, i, j) ==
  {k \in i + 1 .. Height - 1 : SameTurns(nodes[i].paths[j], path, i, k)}
Below(nodes, i, j) ==
  {k \in i + 1 .. Height - 1 :
     /\ SameTurns(nodes[i].paths[j], path, i, k)
     /\ CanWrite(nodes[k], nodes[i].keys[j])}

VacatedUncounted(node, j) == Forgotten([node EXCEPT !.presence[j] = 0])
Vacated(node, j) ==
  Forgotten([[node EXCEPT !.presence[j] = 0] EXCEPT !.num = @ - 1])

FlushSlot(nodes, slot) ==
  LET i == slot[1]  j == slot[2]  below == Below(nodes, i, j)
      node == nodes[i]
  IN IF node.presence[j] = 0 \/ below = {} THEN nodes
     ELSE [nodes EXCEPT
             ![i] = Vacated(@, j),
             ![Min(below)] = NodeWrite(@, node.keys[j], node.paths[j],
                                       node.contents[j])]

Flushing[k \in 0 .. (Height - 1) * BlocksPerNode] ==
  IF k = 0 THEN client ELSE FlushSlot(Flushing[k - 1], SlotAt(k))

Flushed == Flushing[(Height - 1) * BlocksPerNode]
=============================================================================
