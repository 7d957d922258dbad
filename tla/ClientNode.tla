----------------------------- MODULE ClientNode -----------------------------
(***************************************************************************)
(* The nodes of client->path and client->temp_node, with the contents of   *)
(* their slots beside them, and the three routines that work on one node:  *)
(* ObliviousNodeWrite, ObliviousNodeRead and ObliviousNodeTransfer.        *)
(*                                                                         *)
(* The routines touch every slot whatever they do and select by masks; a   *)
(* mask that is zero writes back what was read, so only the slots selected *)
(* are named here.  The pointers a node carries for the encrypted buffers  *)
(* of its slots travel through client->path but are never used from there, *)
(* and are left out.                                                       *)
(***************************************************************************)
EXTENDS Conf, OramData, FiniteSetsExt

Slots == 0 .. BlocksPerNode - 1

\* The slot a scan of all nodes visits k-th: node by node, slot by slot.
SlotAt(k) == <<(k - 1) \div BlocksPerNode, (k - 1) % BlocksPerNode>>

EmptyNode ==
  [num |-> 0, keys |-> [i \in Slots |-> 0], paths |-> [i \in Slots |-> 0],
   presence |-> [i \in Slots |-> 0], contents |-> [i \in Slots |-> ZeroBlock]]

FreeSlots(node) == {i \in Slots : node.presence[i] = 0}

Filled(node, i, key, path, content) ==
  [num |-> node.num + 1,
   keys |-> [node.keys EXCEPT ![i] = key],
   paths |-> [node.paths EXCEPT ![i] = path],
   presence |-> [node.presence EXCEPT ![i] = 1],
   contents |-> [node.contents EXCEPT ![i] = content]]

(***************************************************************************)
(* ObliviousNodeWrite fails without a key and on a full node; else the     *)
(* block goes to the first free slot.  The node is full by its counter and *)
(* a slot is free by its presence bit.                                     *)
(***************************************************************************)
CanWrite(node, key) == key # 0 /\ node.num < BlocksPerNode

NodeWrite(node, key, path, content) ==
  IF ~ CanWrite(node, key) THEN node
  ELSE IF FreeSlots(node) = {} THEN [node EXCEPT !.num = @ + 1]
  ELSE Filled(node, Min(FreeSlots(node)), key, path, content)

(***************************************************************************)
(* ObliviousNodeRead empties every slot that holds the key.  It takes from *)
(* the key stored there only what it shares with the sign, its lowest bit. *)
(* The content read is that of the last such slot.                         *)
(***************************************************************************)
Hits(node, key) ==
  {i \in Slots : node.keys[i] = key /\ node.presence[i] > 0}

NodeRead(node, key) ==
  LET hits == Hits(node, key)
  IN [num |-> node.num - Cardinality(hits),
      keys |-> [i \in Slots |-> IF i \in hits THEN node.keys[i] - (node.keys[i] % 2)
                                ELSE node.keys[i]],
      paths |-> node.paths,
      presence |-> [i \in Slots |-> IF i \in hits THEN 0 ELSE node.presence[i]],
      contents |-> node.contents]

ReadContent(node, key) == node.contents[Max(Hits(node, key))]

(***************************************************************************)
(* ObliviousNodeTransfer under a sign: into the first free slot.           *)
(***************************************************************************)
NodeTransfer(node, key, path, content) ==
  IF FreeSlots(node) = {} THEN node
  ELSE Filled(node, Min(FreeSlots(node)), key, path, content)

\* The slots taken, counted by their presence bits.
Taken(node) == {i \in Slots : node.presence[i] > 0}
Filling(node) == Cardinality(Taken(node))
=============================================================================
