------------------------- MODULE SimpleORAM_proofs -------------------------
(***************************************************************************)
(* Theorems about SimpleORAM, for every capacity, block and bucket size,   *)
(* with as many ORAMs below the caller's as its position map takes.        *)
(***************************************************************************)
EXTENDS SimpleORAM, Common_proofs

-----------------------------------------------------------------------------
(* The trees.                                                              *)

Depths == 0 .. ClientMaxPath - 1
HeightOf(k) == ComputeTreeHeight[CapacityAt[k]]
LevelsOf(k) == 0 .. HeightOf(k) - 1

LEMMA Capacities ==
  /\ CapacityAt \in [Nat -> Nat \ {0}]
  /\ CapacityAt[0] = Capacity
  /\ \A k \in Nat : CapacityAt[k + 1] = HigherCapacity(CapacityAt[k], WordsPerBlock)
BY CapacitiesDescend, DataAssumption, SimpleORAMAssumption DEF CapacityAt

\* No tree is higher than the caller's, which client->path has room for.
LEMMA HeightsFit ==
  ASSUME NEW k \in Nat
  PROVE  /\ HeightOf(k) \in Nat \ {0}
         /\ HeightOf(k) =< HeightOf(0)
         /\ HeightOf(0) < ClientMaxPath
         /\ LevelsOf(k) \subseteq Depths
         /\ 0 \in LevelsOf(k)
<1>1. HeightOf(k) \in Nat \ {0} /\ HeightOf(0) \in Nat \ {0}
  BY HeightsDescend, DataAssumption, SimpleORAMAssumption DEF HeightOf, CapacityAt
<1>2. HeightOf(0) = ComputeTreeHeight[Capacity]
  BY Capacities DEF HeightOf
<1>3. HeightOf(k) =< HeightOf(0)
  BY <1>2, HeightsDescend, DataAssumption, SimpleORAMAssumption DEF HeightOf, CapacityAt
<1>4. HeightOf(0) < ClientMaxPath
  BY <1>2, SimpleORAMAssumption
<1>. QED BY <1>1, <1>3, <1>4, SimpleORAMAssumption DEF LevelsOf, Depths

\* Every tree but the last has one below it.
LEMMA TreesDescend ==
  /\ Trees \subseteq Nat /\ 0 \in Trees
  /\ \A k \in Trees : ~ MapInEnclave(k) => k + 1 \in Trees
  /\ \A k \in Trees : \A j \in 0 .. k - 1 : j \in Trees /\ ~ MapInEnclave(j)
BY DepthsDescend, DataAssumption, SimpleORAMAssumption
   DEF Trees, MapInEnclave, CapacityAt

\* Each object is asked for blocks it has, and the map of an object for the
\* blocks that hold the labels of these.
LEMMA IndsFit ==
  /\ IndsAt[0] = Inds
  /\ \A k \in Trees : k + 1 \in Trees => IndsAt[k + 1] = MapInds(IndsAt[k], WordsPerBlock)
  /\ \A k \in Trees : IndsAt[k] # {} /\ IndsAt[k] \subseteq 0 .. CapacityAt[k] - 1
<1> DEFINE I == IndsBelow(Inds, WordsPerBlock)
<1>1. \A k \in Trees : k \in Nat /\ IndsAt[k] = I[k]
  BY TreesDescend DEF IndsAt
<1>2. /\ Capacity \in Nat \ {0} /\ WordsPerBlock \in Nat \ {0}
      /\ Inds \in SUBSET (0 .. Capacity - 1) /\ Inds # {}
  BY DataAssumption, SimpleORAMAssumption
<1>3. /\ I[0] = Inds
      /\ \A k \in Nat : I[k + 1] = MapInds(I[k], WordsPerBlock)
      /\ \A k \in Nat : I[k] # {} /\ I[k] \subseteq 0 .. CapacityAt[k] - 1
  BY <1>2, IndsDescend DEF CapacityAt
<1> HIDE DEF I
<1>. QED BY <1>1, <1>3, TreesDescend

-----------------------------------------------------------------------------
(* Walks.                                                                  *)

At(p, d) == <<d, p % TwoTo[d]>>
WalkOf(k, p) == {At(p, d) : d \in LevelsOf(k)}
NodesOf(k) == UNION {WalkOf(k, p) : p \in Paths}
Root == <<0, 0>>

\* What the instances of SimpleTree name the same.
LEMMA SameNames ==
  ASSUME NEW k
  PROVE  /\ S(k)!Levels = LevelsOf(k) /\ S(k)!Depths = Depths
         /\ S(k)!Slots = Slots /\ S(k)!Root = Root
         /\ \A p, d : S(k)!NodeAt(p, d) = At(p, d)
         /\ \A p : S(k)!PathNodes(p) = WalkOf(k, p)
         /\ S(k)!Nodes = NodesOf(k)
         /\ \A T : S(k)!Min(T) = Min(T)
         /\ \A n, c : S(k)!CanWrite(n, c) = CanWrite(n, c)
         /\ \A n, c, p, x : S(k)!NodeWrite(n, c, p, x) = NodeWrite(n, c, p, x)
         /\ \A n, c : S(k)!Hits(n, c) = Hits(n, c)
         /\ \A n, c : S(k)!NodeRead(n, c) = NodeRead(n, c)
         /\ \A n, c : S(k)!ReadContent(n, c) = ReadContent(n, c)
         /\ \A j : S(k)!SlotAt(j) = SlotAt(j)
         /\ S(k)!ZeroBlock = ZeroBlock
<1>1. S(k)!Levels = LevelsOf(k) /\ S(k)!Depths = Depths
  BY DEF S!Levels, S!Depths, LevelsOf, HeightOf, Depths
<1>2. S(k)!Slots = Slots /\ S(k)!Root = Root
  BY DEF S!Slots, Slots, S!Root, Root
<1>3. S(k)!TwoTo = TwoTo
  BY DEF S!TwoTo, TwoTo
<1>4. \A p, d : S(k)!NodeAt(p, d) = At(p, d)
  BY <1>3 DEF S!NodeAt, S!Masked, At
<1>5. \A p : S(k)!PathNodes(p) = WalkOf(k, p)
  BY <1>1, <1>4 DEF S!PathNodes, WalkOf
<1>6. S(k)!Nodes = NodesOf(k)
  BY <1>5 DEF S!Nodes, NodesOf
<1>7. \A T : S(k)!Min(T) = Min(T)
  BY DEF S!Min, Min
<1>8. \A T : S(k)!Max(T) = Max(T)
  BY DEF S!Max, Max
<1>9. \A n, c : S(k)!CanWrite(n, c) = CanWrite(n, c)
  BY DEF S!CanWrite, CanWrite
<1>10. \A n : S(k)!FreeSlots(n) = FreeSlots(n)
  BY <1>2 DEF S!FreeSlots, FreeSlots
<1>11. \A n, i, c, p, x : S(k)!Filled(n, i, c, p, x) = Filled(n, i, c, p, x)
  BY DEF S!Filled, Filled
<1>12. \A n, c, p, x : S(k)!NodeWrite(n, c, p, x) = NodeWrite(n, c, p, x)
  BY <1>7, <1>9, <1>10, <1>11 DEF S!NodeWrite, NodeWrite
<1>13. \A n, c : S(k)!Hits(n, c) = Hits(n, c)
  BY <1>2 DEF S!Hits, Hits
<1>14. \A T : S(k)!Cardinality(T) = Cardinality(T)
  BY DEF S!Cardinality, Cardinality
<1>15. \A n, c : S(k)!NodeRead(n, c) = NodeRead(n, c)
  BY <1>2, <1>13, <1>14 DEF S!NodeRead, NodeRead
<1>16. \A n, c : S(k)!ReadContent(n, c) = ReadContent(n, c)
  BY <1>8, <1>13 DEF S!ReadContent, ReadContent
<1>17. \A j : S(k)!SlotAt(j) = SlotAt(j)
  BY DEF S!SlotAt, SlotAt
<1>18. S(k)!ZeroBlock = ZeroBlock
  BY DEF S!ZeroBlock, ZeroBlock, S!Words, Words
<1>. QED BY <1>1, <1>2, <1>4, <1>5, <1>6, <1>7, <1>9, <1>12, <1>13, <1>15, <1>16, <1>17, <1>18

\* The nodes a label meets are nodes of the tree, those that path 0 walks
\* included, and the root is the first of them.
LEMMA WalksInTree ==
  ASSUME NEW k \in Nat, NEW p \in Paths \cup {0}
  PROVE  /\ \A d \in LevelsOf(k) : At(p, d) \in WalkOf(k, p)
         /\ WalkOf(k, p) \subseteq NodesOf(k)
         /\ At(p, 0) = Root /\ Root \in WalkOf(k, p)
<1>1. \A d \in LevelsOf(k) : At(p, d) \in WalkOf(k, p)
  BY DEF WalkOf
<1>2. At(p, 0) = Root
  <2>1. TwoTo[0] = 1 /\ p \in Nat
    BY PowersOfTwo, SimpleORAMAssumption
  <2>. QED BY <2>1 DEF At, Root
<1>3. ASSUME p = 0 PROVE \E q \in Paths : WalkOf(k, p) = WalkOf(k, q)
  <2> DEFINE top == HeightOf(0) - 1
  <2>1. top \in Nat
    BY HeightsFit
  <2>2. PICK q \in Paths : q % TwoTo[top] = 0
    BY SimpleORAMAssumption, Capacities DEF HeightOf
  <2> HIDE DEF top
  <2>3. q \in Nat /\ 0 \in Nat /\ 0 % TwoTo[top] = 0
    BY <2>1, SimpleORAMAssumption, PowersOfTwo
  <2>4. ASSUME NEW d \in LevelsOf(k) PROVE At(0, d) = At(q, d)
    <3>1. d \in 0 .. top
      BY HeightsFit DEF LevelsOf, top
    <3>2. 0 % TwoTo[d] = q % TwoTo[d]
      BY <2>1, <2>2, <2>3, <3>1, LowBits
    <3>. QED BY <3>2 DEF At
  <2>5. WalkOf(k, 0) = WalkOf(k, q)
    BY <2>4 DEF WalkOf
  <2>. QED BY <1>3, <2>5
<1>4. WalkOf(k, p) \subseteq NodesOf(k)
  BY <1>3 DEF NodesOf
<1>5. 0 \in LevelsOf(k)
  BY HeightsFit
<1>. QED BY <1>1, <1>2, <1>4, <1>5

-----------------------------------------------------------------------------
(* The slots of the nodes in client->path.                                 *)

NodeArrays == [Depths -> SoundNode]
InSlots(c) == {s \in Depths \X Slots : s[2] \in Taken(c[s[1]])}
Copy(c, s) == <<c[s[1]].keys[s[2]], c[s[1]].paths[s[2]], c[s[1]].contents[s[2]]>>

\* Forgetting what emptied slots hold leaves the others as they are.
LEMMA ForgottenSound ==
  ASSUME NEW k, NEW node \in SoundNode
  PROVE  LET new == S(k)!Forgotten(node)
         IN /\ new \in SoundNode
            /\ Taken(new) = Taken(node)
            /\ new.keys = node.keys
            /\ \A j \in Taken(node) :
                 new.paths[j] = node.paths[j] /\ new.contents[j] = node.contents[j]
<1> DEFINE new == S(k)!Forgotten(node)
<1>1. node \in Node /\ node.num = Filling(node)
  BY DEF SoundNode
<1>2. ZeroBlock \in Contents
  BY DataAssumption DEF ZeroBlock, Contents
<1>3. new = [num |-> node.num, keys |-> node.keys,
             paths |-> [i \in Slots |-> IF node.presence[i] = 0 THEN 0 ELSE node.paths[i]],
             presence |-> node.presence,
             contents |-> [i \in Slots |-> IF node.presence[i] = 0 THEN ZeroBlock
                                           ELSE node.contents[i]]]
  BY SameNames DEF S!Forgotten
<1> HIDE DEF new
<1>4. new \in Node
  <2>1. [i \in Slots |-> IF node.presence[i] = 0 THEN 0 ELSE node.paths[i]] \in [Slots -> Nat]
    BY <1>1 DEF Node
  <2>2. [i \in Slots |-> IF node.presence[i] = 0 THEN ZeroBlock ELSE node.contents[i]]
          \in [Slots -> Contents]
    BY <1>1, <1>2 DEF Node
  <2>. QED BY <1>1, <1>3, <2>1, <2>2 DEF Node
<1>5. new.num = node.num /\ new.keys = node.keys /\ new.presence = node.presence
  BY <1>3
<1>6. Taken(new) = Taken(node)
  BY <1>5 DEF Taken
<1>7. \A j \in Taken(node) :
        new.paths[j] = node.paths[j] /\ new.contents[j] = node.contents[j]
  <2> SUFFICES ASSUME NEW j \in Taken(node)
               PROVE  new.paths[j] = node.paths[j] /\ new.contents[j] = node.contents[j]
    OBVIOUS
  <2>1. j \in Slots /\ node.presence[j] # 0
    BY DEF Taken
  <2>. QED BY <1>3, <2>1
<1>8. new \in SoundNode
  BY <1>1, <1>4, <1>5, <1>6 DEF SoundNode, Filling
<1>. QED BY <1>5, <1>6, <1>7, <1>8 DEF new

\* Vacating a slot of a node.
LEMMA VacatedSound ==
  ASSUME NEW k, NEW node \in SoundNode, NEW j \in Taken(node)
  PROVE  LET new == S(k)!Vacated(node, j)
         IN /\ new \in SoundNode
            /\ Taken(new) = Taken(node) \ {j}
            /\ new.keys = node.keys
            /\ \A l \in Taken(new) :
                 new.paths[l] = node.paths[l] /\ new.contents[l] = node.contents[l]
<1> DEFINE mid == [[node EXCEPT !.presence[j] = 0] EXCEPT !.num = @ - 1]
           new == S(k)!Vacated(node, j)
<1>1. /\ mid \in SoundNode
      /\ Taken(mid) = Taken(node) \ {j}
      /\ mid.keys = node.keys /\ mid.paths = node.paths
      /\ mid.contents = node.contents
  BY EmptiedSound
<1>2. new = S(k)!Forgotten(mid)
  BY DEF S!Vacated
<1> HIDE DEF mid, new
<1>3. /\ new \in SoundNode
      /\ Taken(new) = Taken(mid)
      /\ new.keys = mid.keys
      /\ \A l \in Taken(mid) :
           new.paths[l] = mid.paths[l] /\ new.contents[l] = mid.contents[l]
  BY <1>1, <1>2, ForgottenSound
<1>. QED BY <1>1, <1>3 DEF new

-----------------------------------------------------------------------------
(* The flush.                                                              *)

\* From c to new the block in slot s went to slot t, which was free.
Moved(c, new, s, t) ==
  /\ s \in InSlots(c) /\ t \notin InSlots(c)
  /\ InSlots(new) = (InSlots(c) \ {s}) \cup {t}
  /\ Copy(new, t) = Copy(c, s)
  /\ \A u \in InSlots(c) \ {s} : Copy(new, u) = Copy(c, u)

\* Deeper, on the path that is flushed, for a block with this label.
Deeper(k, label, a, b) ==
  /\ a =< b
  /\ a \in LevelsOf(k) => b \in LevelsOf(k)
  /\ At(label, a) = At(acc[k].path, a) => At(label, b) = At(acc[k].path, b)

\* A visit of a slot leaves all blocks where they are, or moves the one in the
\* slot to a free slot below.
LEMMA FlushVisit ==
  ASSUME NEW k \in Nat, acc[k].path \in Nat, NEW c \in NodeArrays,
         NEW i \in 0 .. HeightOf(k) - 2, NEW j \in Slots
  PROVE  LET new == S(k)!FlushSlot(c, <<i, j>>)
         IN /\ new \in NodeArrays
            /\ \A d \in Depths \ LevelsOf(k) : new[d] = c[d]
            /\ \/ new = c
               \/ \E t \in Depths \X Slots :
                    /\ Moved(c, new, <<i, j>>, t)
                    /\ Deeper(k, c[i].paths[j], i, t[1])
<1> DEFINE new == S(k)!FlushSlot(c, <<i, j>>)
           label == c[i].paths[j]
           key == c[i].keys[j]
           content == c[i].contents[j]
           below == S(k)!Below(c, i, j)
           d == Min(below)
           vacated == S(k)!Vacated(c[i], j)
           written == NodeWrite(c[d], key, label, content)
<1>1. HeightOf(k) \in Nat /\ LevelsOf(k) \subseteq Depths /\ i \in Depths /\ i \in Nat
  <2>1. HeightOf(k) \in Nat /\ LevelsOf(k) \subseteq Depths
    BY HeightsFit
  <2>2. i \in LevelsOf(k)
    BY <2>1 DEF LevelsOf
  <2>. QED BY <2>1, <2>2
<1>2. c[i] \in SoundNode /\ c[i] \in Node
  BY <1>1 DEF NodeArrays, SoundNode
<1>3. key \in Nat /\ label \in Nat /\ content \in Contents
  BY <1>2 DEF Node
<1>4. new = IF c[i].presence[j] = 0 \/ below = {} THEN c
            ELSE [c EXCEPT ![i] = vacated, ![d] = written]
  <2>1. S(k)!Min(below) = d
    BY SameNames
  <2>2. S(k)!NodeWrite(c[d], key, label, content) = written
    BY SameNames
  <2>3. <<i, j>>[1] = i /\ <<i, j>>[2] = j
    OBVIOUS
  <2>4. new = IF c[i].presence[j] = 0 \/ below = {} THEN c
              ELSE [c EXCEPT ![i] = vacated,
                             ![S(k)!Min(below)] =
                               S(k)!NodeWrite(c[S(k)!Min(below)], key, label, content)]
    BY <2>3, Zenon DEF S!FlushSlot
  <2> HIDE DEF new, d, written, vacated, below, key, label, content
  <2>. QED BY <2>1, <2>2, <2>4
<1>5. below = {e \in i + 1 .. HeightOf(k) - 1 :
                 S(k)!SameTurns(label, acc[k].path, i, e) /\ CanWrite(c[e], key)}
  BY SameNames DEF S!Below, HeightOf
<1>6. CASE c[i].presence[j] = 0 \/ below = {}
  BY <1>4, <1>6 DEF new
<1>7. CASE c[i].presence[j] # 0 /\ below # {}
  <2>1. d \in below
    <3>1. below \in SUBSET Nat
      BY <1>1, <1>5
    <3> HIDE DEF below
    <3>. QED BY <1>7, <3>1, MinOf
  <2>2. /\ d \in i + 1 .. HeightOf(k) - 1 /\ CanWrite(c[d], key)
        /\ S(k)!SameTurns(label, acc[k].path, i, d)
    BY <1>5, <2>1
  <2>3. d \in LevelsOf(k) /\ d \in Depths /\ d # i /\ i < d /\ c[d] \in SoundNode
    BY <1>1, <2>2 DEF LevelsOf, NodeArrays
  <2>4. j \in Taken(c[i])
    BY <1>2, <1>7 DEF Taken, Node
  <2>5. /\ vacated \in SoundNode
        /\ Taken(vacated) = Taken(c[i]) \ {j}
        /\ vacated.keys = c[i].keys
        /\ \A l \in Taken(vacated) :
             vacated.paths[l] = c[i].paths[l] /\ vacated.contents[l] = c[i].contents[l]
    BY <1>2, <2>4, VacatedSound
  <2> HIDE DEF d
  <2>6. PICK l \in FreeSlots(c[d]) : written = Filled(c[d], l, key, label, content)
    BY <1>3, <2>2, <2>3, WriteSound
  <2>7. /\ written \in SoundNode
        /\ Taken(written) = Taken(c[d]) \cup {l} /\ l \notin Taken(c[d])
        /\ written.keys[l] = key /\ written.paths[l] = label /\ written.contents[l] = content
        /\ \A m \in Slots \ {l} :
             /\ written.keys[m] = c[d].keys[m] /\ written.paths[m] = c[d].paths[m]
             /\ written.contents[m] = c[d].contents[m]
    <3> HIDE DEF written, vacated, below, key, label, content
    <3>. QED BY <1>3, <2>3, <2>6, FilledSound
  <2>8. l \in Slots
    BY DEF FreeSlots
  <2> HIDE DEF vacated, written
  <2>9. /\ new \in NodeArrays
        /\ new[i] = vacated /\ new[d] = written
        /\ \A e \in Depths : e # i /\ e # d => new[e] = c[e]
    <3>1. new = [c EXCEPT ![i] = vacated, ![d] = written]
      BY <1>4, <1>7
    <3> HIDE DEF new
    <3>. QED BY <1>1, <2>3, <2>5, <2>7, <3>1 DEF NodeArrays
  <2> HIDE DEF new
  <2>10. Moved(c, new, <<i, j>>, <<d, l>>)
    <3>1. <<i, j>> \in InSlots(c) /\ <<d, l>> \notin InSlots(c)
      BY <1>1, <2>4, <2>7 DEF InSlots
    <3>2. ASSUME NEW u \in Depths \X Slots
          PROVE  /\ u \in InSlots(new) <=> u \in (InSlots(c) \ {<<i, j>>}) \cup {<<d, l>>}
                 /\ u \in InSlots(c) /\ u # <<i, j>> => Copy(new, u) = Copy(c, u)
      <4>1. u = <<u[1], u[2]>> /\ u[1] \in Depths /\ u[2] \in Slots
        OBVIOUS
      <4>2. CASE u[1] = i
        <5>1. u[2] \in Taken(new[u[1]]) <=> u[2] \in Taken(c[i]) /\ u[2] # j
          BY <2>5, <2>9, <4>2
        <5>2. u \in InSlots(c) /\ u # <<i, j>> => Copy(new, u) = Copy(c, u)
          BY <2>5, <2>9, <4>1, <4>2, <5>1 DEF InSlots, Copy
        <5>. QED BY <2>3, <4>1, <4>2, <5>1, <5>2 DEF InSlots
      <4>3. CASE u[1] = d
        <5>1. u[2] \in Taken(new[u[1]]) <=> u[2] \in Taken(c[d]) \/ u[2] = l
          BY <2>7, <2>9, <4>3
        <5>2. u \in InSlots(c) => u[2] # l
          BY <2>7, <4>3 DEF InSlots
        <5>3. u \in InSlots(c) /\ u # <<i, j>> => Copy(new, u) = Copy(c, u)
          BY <2>7, <2>9, <4>1, <4>3, <5>2 DEF Copy
        <5>. QED BY <2>3, <4>1, <4>3, <5>1, <5>3 DEF InSlots
      <4>4. CASE u[1] # i /\ u[1] # d
        <5>1. new[u[1]] = c[u[1]]
          BY <2>9, <4>1, <4>4
        <5>. QED BY <4>1, <4>4, <5>1 DEF InSlots, Copy
      <4>. QED BY <4>2, <4>3, <4>4
    <3>3. InSlots(new) = (InSlots(c) \ {<<i, j>>}) \cup {<<d, l>>}
      <4>1. /\ InSlots(new) \subseteq Depths \X Slots
            /\ (InSlots(c) \ {<<i, j>>}) \cup {<<d, l>>} \subseteq Depths \X Slots
        BY <2>3, <2>8 DEF InSlots
      <4>. QED BY <3>2, <4>1
    <3>4. Copy(new, <<d, l>>) = Copy(c, <<i, j>>)
      BY <2>7, <2>9 DEF Copy
    <3>5. \A u \in InSlots(c) \ {<<i, j>>} : Copy(new, u) = Copy(c, u)
      <4>1. InSlots(c) \subseteq Depths \X Slots
        BY DEF InSlots
      <4>. QED BY <3>2, <4>1
    <3>. QED BY <3>1, <3>3, <3>4, <3>5 DEF Moved
  <2>11. Deeper(k, label, i, d)
    <3>1. At(label, i) = At(acc[k].path, i) => At(label, d) = At(acc[k].path, d)
      <4>1. d \in Nat /\ i \in 0 .. d /\ acc[k].path \in Nat
        BY <1>1, <2>2
      <4>2. S(k)!TwoTo = TwoTo
        BY DEF S!TwoTo, TwoTo
      <4>3. (label \div TwoTo[i]) % TwoTo[d - i] = (acc[k].path \div TwoTo[i]) % TwoTo[d - i]
        BY <2>2, <4>2 DEF S!SameTurns
      <4> HIDE DEF label
      <4>. QED BY <1>3, <4>1, <4>3, LowBits DEF At
    <3>. QED BY <1>1, <2>3, <3>1 DEF Deeper
  <2>12. \A e \in Depths \ LevelsOf(k) : new[e] = c[e]
    <3>1. i \in LevelsOf(k)
      BY <1>1 DEF LevelsOf
    <3>. QED BY <2>3, <2>9, <3>1
  <2>. QED BY <2>3, <2>8, <2>9, <2>10, <2>11, <2>12 DEF new, label
<1>. QED BY <1>6, <1>7

\* The rounds of the flush.
LEMMA FlushingRounds ==
  ASSUME NEW k \in Nat, acc[k].path \in Nat, client \in NodeArrays
  PROVE  LET n == (HeightOf(k) - 1) * BlocksPerNode
         IN /\ n \in Nat
            /\ S(k)!Flushing \in [0 .. n -> NodeArrays]
            /\ S(k)!Flushing[0] = client
            /\ \A m \in 1 .. n :
                 /\ SlotAt(m) \in (0 .. HeightOf(k) - 2) \X Slots
                 /\ S(k)!Flushing[m] = S(k)!FlushSlot(S(k)!Flushing[m - 1], SlotAt(m))
            /\ S(k)!Flushed = S(k)!Flushing[n]
<1> DEFINE a == HeightOf(k) - 1
           n == a * BlocksPerNode
           run == S(k)!Flushing
           step == [z \in NodeArrays \X (1 .. n) |-> S(k)!FlushSlot(z[1], SlotAt(z[2]))]
           F(f) == [m \in 0 .. n |->
                      IF m = 0 THEN client ELSE S(k)!FlushSlot(f[m - 1], SlotAt(m))]
<1>1. a \in Nat /\ 0 .. a - 1 = 0 .. HeightOf(k) - 2
  <2>1. HeightOf(k) \in Nat \ {0}
    BY HeightsFit
  <2>2. a - 1 = HeightOf(k) - 2
    BY <2>1
  <2>. QED BY <2>1, <2>2
<1>2. /\ n \in Nat
      /\ \A m \in 1 .. n : SlotAt(m) \in (0 .. HeightOf(k) - 2) \X Slots
  <2> HIDE DEF a
  <2>1. /\ a * BlocksPerNode \in Nat
        /\ \A m \in 1 .. a * BlocksPerNode : SlotAt(m) \in (0 .. a - 1) \X Slots
    BY <1>1, ScanOrder
  <2>. QED BY <1>1, <2>1
<1>3. run = CHOOSE f : f = F(f)
  <2>1. \A j : S(k)!SlotAt(j) = SlotAt(j)
    BY SameNames
  <2>2. run = CHOOSE f : f = [m \in 0 .. n |->
                 IF m = 0 THEN client ELSE S(k)!FlushSlot(f[m - 1], S(k)!SlotAt(m))]
    BY DEF S!Flushing, HeightOf
  <2>3. \A f : F(f) = [m \in 0 .. n |->
                 IF m = 0 THEN client ELSE S(k)!FlushSlot(f[m - 1], S(k)!SlotAt(m))]
    <3> HIDE DEF n
    <3>. QED BY <2>1
  <2> HIDE DEF F, run, n
  <2>. QED BY <2>2, <2>3
<1>4. S(k)!Flushed = run[n]
  BY DEF S!Flushed, HeightOf
<1> HIDE DEF n, run
<1>5. step \in LoopSteps(NodeArrays, n)
  <2>1. ASSUME NEW z \in NodeArrays \X (1 .. n)
        PROVE  S(k)!FlushSlot(z[1], SlotAt(z[2])) \in NodeArrays
    <3>1. z[1] \in NodeArrays /\ SlotAt(z[2]) \in (0 .. HeightOf(k) - 2) \X Slots
      BY <1>2
    <3>2. SlotAt(z[2]) = <<SlotAt(z[2])[1], SlotAt(z[2])[2]>>
      BY <3>1
    <3>. QED BY <3>1, <3>2, FlushVisit
  <2>. QED BY <2>1 DEF LoopSteps
<1>6. PICK f : IsLoop(f, NodeArrays, n, client, step)
  <2> HIDE DEF step
  <2>. QED BY <1>2, <1>5, LoopExists
<1>7. \A m \in 1 .. n : f[m] = S(k)!FlushSlot(f[m - 1], SlotAt(m))
  <2> SUFFICES ASSUME NEW m \in 1 .. n PROVE f[m] = S(k)!FlushSlot(f[m - 1], SlotAt(m))
    OBVIOUS
  <2>1. <<f[m - 1], m>> \in NodeArrays \X (1 .. n)
    BY <1>2, <1>6 DEF IsLoop
  <2>. QED BY <1>6, <2>1 DEF IsLoop
<1> HIDE DEF step
<1>8. f = F(f)
  BY <1>2, <1>6, <1>7 DEF IsLoop
<1>9. run = F(run)
  <2> HIDE DEF F
  <2>. QED BY <1>3, <1>8
<1>10. /\ run[0] = client
       /\ \A m \in 1 .. n : run[m] = S(k)!FlushSlot(run[m - 1], SlotAt(m))
  <2>1. F(run)[0] = client
    BY <1>2
  <2>2. ASSUME NEW m \in 1 .. n
        PROVE  F(run)[m] = S(k)!FlushSlot(run[m - 1], SlotAt(m))
    <3>1. m \in 0 .. n /\ m # 0
      BY <1>2
    <3>. QED BY <3>1
  <2> HIDE DEF F
  <2>. QED BY <1>9, <2>1, <2>2
<1> DEFINE G == {m \in 0 .. n : run[m] \in NodeArrays}
<1>11. \A m \in 0 .. n : m \in G
  <2>1. 0 \in G
    BY <1>2, <1>10
  <2>2. ASSUME NEW m \in 1 .. n, m - 1 \in G PROVE m \in G
    <3>1. run[m - 1] \in NodeArrays
      BY <2>2
    <3>2. SlotAt(m) \in (0 .. HeightOf(k) - 2) \X Slots
      BY <1>2
    <3>3. SlotAt(m) = <<SlotAt(m)[1], SlotAt(m)[2]>>
      BY <3>2
    <3>4. S(k)!FlushSlot(run[m - 1], SlotAt(m)) \in NodeArrays
      BY <3>1, <3>2, <3>3, FlushVisit
    <3>. QED BY <1>2, <1>10, <3>4
  <2> HIDE DEF G
  <2>. QED BY <1>2, <2>1, <2>2, UpTo
<1>12. run \in [0 .. n -> NodeArrays]
  <2>1. run = [m \in 0 .. n |-> run[m]]
    BY <1>9
  <2>2. \A m \in 0 .. n : run[m] \in NodeArrays
    BY <1>11
  <2>. QED BY <2>1, <2>2
<1>. QED BY <1>2, <1>4, <1>10, <1>12 DEF n, run, a

\* f says where the flush of tree k has taken the blocks of c.
SunkTo(k, c, new, f) ==
  /\ f \in [InSlots(c) -> InSlots(new)]
  /\ \A s, t \in InSlots(c) : f[s] = f[t] => s = t
  /\ \A u \in InSlots(new) : \E s \in InSlots(c) : f[s] = u
  /\ \A s \in InSlots(c) :
       /\ Copy(new, f[s]) = Copy(c, s)
       /\ Deeper(k, c[s[1]].paths[s[2]], s[1], f[s][1])
  /\ \A d \in Depths \ LevelsOf(k) : new[d] = c[d]

\* A flush loses and doubles no block, and sinks each where it may go.
LEMMA FlushMoves ==
  ASSUME NEW k \in Nat, acc[k].path \in Nat, client \in NodeArrays
  PROVE  /\ S(k)!Flushed \in NodeArrays
         /\ \E f : SunkTo(k, client, S(k)!Flushed, f)
<1> DEFINE n == (HeightOf(k) - 1) * BlocksPerNode
           run == S(k)!Flushing
<1>1. /\ n \in Nat
      /\ run \in [0 .. n -> NodeArrays] /\ run[0] = client
      /\ \A m \in 1 .. n :
           /\ SlotAt(m) \in (0 .. HeightOf(k) - 2) \X Slots
           /\ run[m] = S(k)!FlushSlot(run[m - 1], SlotAt(m))
      /\ S(k)!Flushed = run[n]
  BY FlushingRounds
<1> HIDE DEF n, run
<1> DEFINE G == {m \in 0 .. n : \E f : SunkTo(k, client, run[m], f)}
<1>2. 0 \in G
  <2> DEFINE f == [s \in InSlots(client) |-> s]
  <2>1. \A s \in InSlots(client) : s[1] \in Nat
    BY DEF InSlots, Depths
  <2>2. SunkTo(k, client, client, f)
    BY <2>1 DEF SunkTo, Deeper
  <2> HIDE DEF f
  <2>. QED BY <1>1, <2>2
<1>3. ASSUME NEW m \in 1 .. n, m - 1 \in G PROVE m \in G
  <2> DEFINE c == run[m - 1]
             new == run[m]
             i == SlotAt(m)[1]
             j == SlotAt(m)[2]
  <2>1. c \in NodeArrays /\ new \in NodeArrays
    BY <1>1
  <2>2. i \in 0 .. HeightOf(k) - 2 /\ j \in Slots /\ SlotAt(m) = <<i, j>>
    BY <1>1
  <2>3. new = S(k)!FlushSlot(c, <<i, j>>)
    BY <1>1, <2>2
  <2>4. PICK f : SunkTo(k, client, c, f)
    BY <1>3
  <2> HIDE DEF c, new, i, j
  <2>5. /\ \A d \in Depths \ LevelsOf(k) : new[d] = c[d]
        /\ \/ new = c
           \/ \E t \in Depths \X Slots :
                Moved(c, new, <<i, j>>, t) /\ Deeper(k, c[i].paths[j], i, t[1])
    BY <2>1, <2>2, <2>3, FlushVisit
  <2>6. ASSUME new # c PROVE \E g : SunkTo(k, client, new, g)
    <3>1. PICK t \in Depths \X Slots :
             Moved(c, new, <<i, j>>, t) /\ Deeper(k, c[i].paths[j], i, t[1])
      BY <2>5, <2>6
    <3> DEFINE x == <<i, j>>
               D == InSlots(client)
               g == [s \in D |-> IF f[s] = x THEN t ELSE f[s]]
    <3>2. /\ x \in InSlots(c) /\ t \notin InSlots(c)
          /\ InSlots(new) = (InSlots(c) \ {x}) \cup {t}
          /\ Copy(new, t) = Copy(c, x)
          /\ \A u \in InSlots(c) \ {x} : Copy(new, u) = Copy(c, u)
      BY <3>1 DEF Moved
    <3>3. /\ f \in [D -> InSlots(c)]
          /\ \A s, r \in D : f[s] = f[r] => s = r
          /\ \A u \in InSlots(c) : \E s \in D : f[s] = u
          /\ \A s \in D : /\ Copy(c, f[s]) = Copy(client, s)
                          /\ Deeper(k, client[s[1]].paths[s[2]], s[1], f[s][1])
          /\ \A d \in Depths \ LevelsOf(k) : c[d] = client[d]
      BY <2>4 DEF SunkTo
    <3>4. x[1] = i /\ x[2] = j
      OBVIOUS
    <3> HIDE DEF x, D
    <3>5. \A s \in D : g[s] = IF f[s] = x THEN t ELSE f[s]
      OBVIOUS
    <3>6. g \in [D -> InSlots(new)]
      BY <3>2, <3>3
    <3> HIDE DEF g
    <3>7. ASSUME NEW s \in D, NEW r \in D, g[s] = g[r] PROVE s = r
      <4>1. f[s] \in InSlots(c) /\ f[r] \in InSlots(c)
        BY <3>3
      <4>2. f[s] = f[r]
        BY <3>2, <3>5, <3>7, <4>1
      <4>. QED BY <3>3, <4>2
    <3>8. ASSUME NEW u \in InSlots(new) PROVE \E s \in D : g[s] = u
      <4>1. CASE u = t
        <5>1. PICK s \in D : f[s] = x
          BY <3>2, <3>3
        <5>. QED BY <3>5, <4>1, <5>1
      <4>2. CASE u # t
        <5>1. u \in InSlots(c) /\ u # x
          BY <3>2, <4>2
        <5>2. PICK s \in D : f[s] = u
          BY <3>3, <5>1
        <5>. QED BY <3>5, <5>1, <5>2
      <4>. QED BY <4>1, <4>2
    <3>9. ASSUME NEW s \in D
          PROVE  /\ Copy(new, g[s]) = Copy(client, s)
                 /\ Deeper(k, client[s[1]].paths[s[2]], s[1], g[s][1])
      <4>1. /\ f[s] \in InSlots(c) /\ Copy(c, f[s]) = Copy(client, s)
            /\ Deeper(k, client[s[1]].paths[s[2]], s[1], f[s][1])
        BY <3>3
      <4>2. CASE f[s] = x
        <5>1. g[s] = t /\ Copy(new, t) = Copy(c, x)
          BY <3>2, <3>5, <4>2
        <5>2. c[i].paths[j] = client[s[1]].paths[s[2]]
          BY <3>4, <4>1, <4>2 DEF Copy
        <5>3. Deeper(k, client[s[1]].paths[s[2]], i, t[1])
          BY <3>1, <5>2
        <5>4. s[1] \in Nat /\ i \in Nat /\ t[1] \in Nat
          BY <2>2 DEF D, InSlots, Depths
        <5>5. Deeper(k, client[s[1]].paths[s[2]], s[1], i)
          BY <3>4, <4>1, <4>2
        <5>6. Deeper(k, client[s[1]].paths[s[2]], s[1], t[1])
          <6> DEFINE label == client[s[1]].paths[s[2]]
          <6> HIDE DEF label
          <6>. QED BY <5>3, <5>4, <5>5 DEF Deeper, label
        <5>. QED BY <4>1, <4>2, <5>1, <5>6
      <4>3. CASE f[s] # x
        <5>1. g[s] = f[s] /\ Copy(new, f[s]) = Copy(c, f[s])
          BY <3>2, <3>5, <4>1, <4>3
        <5>. QED BY <4>1, <5>1
      <4>. QED BY <4>2, <4>3
    <3>10. \A d \in Depths \ LevelsOf(k) : new[d] = client[d]
      BY <2>5, <3>3
    <3>. QED BY <3>6, <3>7, <3>8, <3>9, <3>10 DEF SunkTo, D
  <2>. QED BY <1>1, <2>4, <2>6 DEF c, new
<1> HIDE DEF G
<1>4. \A m \in 0 .. n : m \in G
  BY <1>1, <1>2, <1>3, UpTo
<1>5. \E f : SunkTo(k, client, run[n], f)
  BY <1>1, <1>4 DEF G
<1>. QED BY <1>1, <1>5

-----------------------------------------------------------------------------
(* What the variables hold, and where the accesses of the trees are.       *)

Labels == Paths \cup {0}
RequestOf(k) == [ind : IndsAt[k], ws : SUBSET Words, buf : Contents]
Working == {"download", "fetch", "update", "put", "flushdown", "flush", "flushup"}
AccessOf(k) ==
  [pc : Working \cup {"idle", "map", "wait", "answered"}, req : RequestOf(k),
   path : Labels, newPath : Labels, fetched : Contents]
Back(k) == IF k = 0 THEN "idle" ELSE "answered"

\* One tree is worked on; those above it wait, those below are idle.
AccInv ==
  /\ acc = [k \in Trees |-> acc[k]]
  /\ \A k \in Trees : acc[k] \in AccessOf(k)
  /\ \A k \in Trees : acc[k].pc \in {"map", "wait"} => ~ MapInEnclave(k)
  /\ \A k \in Trees : acc[k].pc = "wait" => acc[k + 1].pc # "idle"
  /\ \A k \in Trees : \A j \in 0 .. k - 1 : acc[k].pc # "idle" => acc[j].pc = "wait"
  /\ acc[0].pc # "answered"

TypeInv ==
  /\ posmap \in [0 .. MaxPosMap - 1 -> Labels]
  /\ buckets = [k \in Trees |-> buckets[k]]
  /\ \A k \in Trees : buckets[k] \in [NodesOf(k) -> SoundNode]
  /\ client \in NodeArrays
  /\ AccInv

LEMMA ContentTyping ==
  /\ ZeroBlock \in Contents
  /\ Labels = Vals /\ Labels \subseteq Nat
  /\ \A r, c : r.ws \in SUBSET Words /\ r.buf \in Contents /\ c \in Contents =>
       Stored(r, c) \in Contents /\ Loaded(r, c) \in Contents
<1>1. ZeroBlock \in Contents
  BY DataAssumption DEF ZeroBlock, Contents
<1>2. Labels = Vals /\ Labels \subseteq Nat
  BY SimpleORAMAssumption DEF Labels
<1>3. ASSUME NEW r, NEW c, r.ws \in SUBSET Words, r.buf \in Contents, c \in Contents
      PROVE  Stored(r, c) \in Contents /\ Loaded(r, c) \in Contents
  BY <1>3 DEF Stored, Loaded, Contents
<1>. QED BY <1>1, <1>2, <1>3

\* What callers may ask for, and what an ORAM asks of the one below.
LEMMA RequestTyping ==
  /\ Requests \subseteq RequestOf(0)
  /\ \A k \in Trees : NoRequest(k) \in RequestOf(k)
  /\ \A k \in Trees : acc[k] \in AccessOf(k) /\ ~ MapInEnclave(k) =>
       MapWrite(k) \in RequestOf(k + 1) /\ MapWord(acc[k].req.ind) \in Words
<1>1. ZeroBlock \in Contents
  BY ContentTyping
<1>2. ReadRequests \cup WriteRequests \subseteq RequestOf(0)
  <2>1. WriteRanges \subseteq SUBSET Words
    BY DataAssumption DEF WriteRanges, Words
  <2>2. IndsAt[0] = Inds
    BY IndsFit
  <2>. QED BY <1>1, <2>1, <2>2 DEF ReadRequests, WriteRequests, RequestOf
<1>3. ASSUME NEW k \in Trees PROVE NoRequest(k) \in RequestOf(k)
  <2>1. (CHOOSE i \in IndsAt[k] : TRUE) \in IndsAt[k]
    BY IndsFit
  <2>. QED BY <1>1, <2>1 DEF NoRequest, RequestOf
<1>4. ASSUME NEW k \in Trees, acc[k] \in AccessOf(k), ~ MapInEnclave(k)
      PROVE  MapWrite(k) \in RequestOf(k + 1) /\ MapWord(acc[k].req.ind) \in Words
  <2> DEFINE i == acc[k].req.ind
             w == MapWord(i)
             buf == [v \in Words |-> IF v = w THEN acc[k].path ELSE Zero]
  <2>1. k + 1 \in Trees /\ i \in IndsAt[k] /\ acc[k].path \in Vals
    BY <1>4, TreesDescend, ContentTyping DEF AccessOf, RequestOf
  <2>2. i \in Nat
    BY <2>1, IndsFit
  <2>3. MapInd(i, WordsPerBlock) \in IndsAt[k + 1]
    BY <2>1, IndsFit DEF MapInds
  <2>4. w \in Words
    BY <2>2, DataAssumption, Division DEF MapWord, Words
  <2>5. buf \in Contents
    BY <2>1, DataAssumption DEF Contents
  <2>6. MapWrite(k) = [ind |-> MapInd(i, WordsPerBlock), ws |-> {w}, buf |-> buf]
    BY DEF MapWrite
  <2> HIDE DEF i, w, buf
  <2>. QED BY <2>3, <2>4, <2>5, <2>6 DEF RequestOf, w, i
<1>. QED BY <1>2, <1>3, <1>4, SimpleORAMAssumption

LEMMA AccessTyping ==
  ASSUME NEW k \in Trees, NEW pc \in Working \cup {"idle", "map", "wait", "answered"},
         NEW r \in RequestOf(k), NEW p \in Labels, NEW q \in Labels
  PROVE  Access(pc, r, p, q) \in AccessOf(k)
BY ContentTyping DEF Access, AccessOf

\* While one tree is worked on, the others wait or are idle.
LEMMA OthersRest ==
  ASSUME AccInv, NEW k \in Trees, acc[k].pc \notin {"idle", "wait"}, NEW j \in Trees, j # k
  PROVE  acc[j].pc = IF j < k THEN "wait" ELSE "idle"
<1>1. j \in Nat /\ k \in Nat
  BY TreesDescend
<1>2. CASE j < k
  <2>1. j \in 0 .. k - 1
    BY <1>1, <1>2
  <2>. QED BY <1>2, <2>1 DEF AccInv
<1>3. CASE j > k
  <2>1. k \in 0 .. j - 1
    BY <1>1, <1>3
  <2>2. acc[j].pc # "idle" => acc[k].pc = "wait"
    BY <2>1 DEF AccInv
  <2>3. ~ (j < k)
    BY <1>1, <1>3
  <2>. QED BY <2>2, <2>3
<1>. QED BY <1>1, <1>2, <1>3

\* A step of the tree at hand.
LEMMA OwnStep ==
  ASSUME AccInv, NEW k \in Trees, acc[k].pc \in Working,
         acc' = [acc EXCEPT ![k] = acc'[k]],
         acc'[k] \in AccessOf(k), acc'[k].pc \in Working \cup {Back(k)}
  PROVE  AccInv' /\ \A j \in Trees : j # k => acc'[j] = acc[j]
<1>1. \A j \in Trees : j # k => acc'[j] = acc[j]
  BY DEF AccInv
<1>2. acc' = [j \in Trees |-> acc'[j]]
  BY DEF AccInv
<1>3. \A j \in Trees : acc'[j] \in AccessOf(j)
  BY <1>1 DEF AccInv
<1>4. acc'[k].pc \notin {"map", "wait"} /\ acc[k].pc \notin {"idle", "map", "wait", "answered"}
  BY DEF Working, Back
<1>5. \A j \in Trees : acc'[j].pc \in {"map", "wait"} => ~ MapInEnclave(j)
  BY <1>1, <1>4 DEF AccInv
<1>6. Trees \subseteq Nat /\ 0 \in Trees
  BY TreesDescend
<1>7. acc'[k].pc = "idle" => k = 0
  BY DEF Working, Back
<1>8. ASSUME NEW j \in Trees, acc'[j].pc = "wait" PROVE acc'[j + 1].pc # "idle"
  <2>1. j # k /\ acc[j].pc = "wait"
    BY <1>1, <1>4, <1>8
  <2>2. acc[j + 1].pc # "idle" /\ j + 1 \in Trees
    BY <2>1, TreesDescend DEF AccInv
  <2>3. CASE j + 1 = k
    BY <1>6, <1>7, <2>3
  <2>4. CASE j + 1 # k
    BY <1>1, <2>2, <2>4
  <2>. QED BY <2>3, <2>4
<1>9. ASSUME NEW j \in Trees, NEW i \in 0 .. j - 1, acc'[j].pc # "idle"
      PROVE  acc'[i].pc = "wait"
  <2>1. i \in Trees
    BY TreesDescend
  <2>2. CASE j = k
    <3>1. acc[i].pc = "wait"
      BY <1>4, <2>2 DEF AccInv
    <3>2. i # k
      BY <1>6, <2>2
    <3>. QED BY <1>1, <2>1, <3>1, <3>2
  <2>3. CASE j # k
    <3>1. acc[j].pc # "idle" /\ acc[i].pc = "wait"
      BY <1>1, <1>9, <2>3 DEF AccInv
    <3>. QED BY <1>1, <1>4, <2>1, <3>1
  <2>. QED BY <2>2, <2>3
<1>10. acc'[0].pc # "answered"
  BY <1>1, <1>6 DEF AccInv, Working, Back
<1>. QED BY <1>1, <1>2, <1>3, <1>5, <1>8, <1>9, <1>10 DEF AccInv
-----------------------------------------------------------------------------
(* Every step keeps to the types.                                          *)

\* The swap of labels, in the enclave or asked of the ORAM below.
LEMMA BeginTyping ==
  ASSUME TypeInv, NEW k \in Trees, NEW r \in RequestOf(k), NEW others,
         Begin(k, r, others)
  PROVE  /\ posmap' \in [0 .. MaxPosMap - 1 -> Labels]
         /\ \E a \in AccessOf(k) :
              /\ acc' = [others EXCEPT ![k] = a]
              /\ a.pc \in {"download", "map"}
              /\ a.pc = "map" => ~ MapInEnclave(k)
<1>1. /\ posmap \in [0 .. MaxPosMap - 1 -> Labels]
      /\ Junk \subseteq Labels /\ Paths \subseteq Labels
  BY SimpleORAMAssumption DEF TypeInv, Labels
<1>2. PICK label \in Paths :
        IF MapInEnclave(k)
        THEN /\ \E behind \in Junk : posmap' = Swapped(r.ind, label, behind)
             /\ acc' = [others EXCEPT ![k] = Access("download", r, posmap[r.ind], label)]
        ELSE /\ acc' = [others EXCEPT ![k] = Access("map", r, label, label)]
             /\ UNCHANGED posmap
  BY DEF Begin
<1>3. CASE MapInEnclave(k)
  <2>1. PICK behind \in Junk : posmap' = Swapped(r.ind, label, behind)
    BY <1>2, <1>3
  <2>2. posmap' \in [0 .. MaxPosMap - 1 -> Labels]
    BY <1>1, <1>2, <2>1 DEF Swapped
  <2>3. r.ind \in 0 .. MaxPosMap - 1
    <3>1. r.ind \in 0 .. CapacityAt[k] - 1
      BY IndsFit DEF RequestOf
    <3>2. CapacityAt[k] \in Nat /\ CapacityAt[k] =< MaxPosMap
      BY <1>3, Capacities, TreesDescend DEF MapInEnclave
    <3>3. MaxPosMap \in Nat
      BY SimpleORAMAssumption
    <3>. QED BY <3>1, <3>2, <3>3
  <2>4. Access("download", r, posmap[r.ind], label) \in AccessOf(k)
    <3>1. posmap[r.ind] \in Labels /\ label \in Labels
      BY <1>1, <1>2, <2>3
    <3>. QED BY <3>1, AccessTyping DEF Working
  <2>5. Access("download", r, posmap[r.ind], label).pc = "download"
    BY DEF Access
  <2>. QED BY <1>2, <1>3, <2>2, <2>4, <2>5
<1>4. CASE ~ MapInEnclave(k)
  <2>1. Access("map", r, label, label) \in AccessOf(k)
    BY <1>1, <1>2, AccessTyping
  <2>2. Access("map", r, label, label).pc = "map"
    BY DEF Access
  <2>. QED BY <1>1, <1>2, <1>4, <2>1, <2>2
<1>. QED BY <1>3, <1>4

LEMMA InitTyping ==
  ASSUME Init
  PROVE  TypeInv
<1>1. Trees \subseteq Nat /\ 0 \in Trees /\ EmptyNode \in SoundNode
  BY TreesDescend, EmptyIsSound
<1>2. posmap \in [0 .. MaxPosMap - 1 -> Labels]
  BY DEF Init, Labels
<1>3. buckets = [k \in Trees |-> buckets[k]]
  BY DEF Init
<1>4. ASSUME NEW k \in Trees PROVE buckets[k] \in [NodesOf(k) -> SoundNode]
  <2>1. buckets[k] = [n \in NodesOf(k) |-> EmptyNode]
    BY SameNames DEF Init
  <2>. QED BY <1>1, <2>1
<1>5. client \in NodeArrays
  BY <1>1 DEF Init, NodeArrays, Depths
<1>6. /\ acc = [k \in Trees |-> acc[k]]
      /\ \A k \in Trees : acc[k] = NoAccess(k)
  BY DEF Init
<1>7. \A k \in Trees : NoAccess(k) \in AccessOf(k) /\ NoAccess(k).pc = "idle"
  <2>1. \A k \in Trees : NoRequest(k) \in RequestOf(k)
    BY RequestTyping
  <2>2. \A k \in Trees : NoAccess(k) \in AccessOf(k)
    BY <2>1, AccessTyping DEF NoAccess, Labels
  <2>. QED BY <2>2 DEF NoAccess, Access
<1>8. \A k \in Trees : acc[k] \in AccessOf(k) /\ acc[k].pc = "idle"
  BY <1>6, <1>7
<1>9. AccInv
  BY <1>1, <1>6, <1>8 DEF AccInv
<1>. QED BY <1>2, <1>3, <1>4, <1>5, <1>9 DEF TypeInv

LEMMA StartTyping ==
  ASSUME TypeInv, NEW r \in Requests, StartAccess(r)
  PROVE  TypeInv'
<1>1. 0 \in Trees /\ Trees \subseteq Nat
  BY TreesDescend
<1>2. r \in RequestOf(0)
  BY RequestTyping
<1>3. Begin(0, r, acc) /\ UNCHANGED <<buckets, client>> /\ \A k \in Trees : acc[k].pc = "idle"
  BY DEF StartAccess
<1>4. /\ posmap' \in [0 .. MaxPosMap - 1 -> Labels]
      /\ \E a \in AccessOf(0) :
           /\ acc' = [acc EXCEPT ![0] = a]
           /\ a.pc \in {"download", "map"}
           /\ a.pc = "map" => ~ MapInEnclave(0)
  BY <1>1, <1>2, <1>3, BeginTyping
<1>5. PICK a \in AccessOf(0) :
        /\ acc' = [acc EXCEPT ![0] = a]
        /\ a.pc \in {"download", "map"}
        /\ a.pc = "map" => ~ MapInEnclave(0)
  BY <1>4
<1>6. AccInv
  BY DEF TypeInv
<1>7. /\ acc' = [k \in Trees |-> acc'[k]]
      /\ acc'[0] = a /\ \A k \in Trees : k # 0 => acc'[k] = acc[k]
  BY <1>1, <1>5, <1>6 DEF AccInv
<1>8. \A k \in Trees : acc'[k] \in AccessOf(k)
  BY <1>6, <1>7 DEF AccInv
<1>9. \A k \in Trees : k # 0 => acc'[k].pc = "idle"
  BY <1>3, <1>7
<1>10. \A k \in Trees : acc'[k].pc \in {"map", "wait"} => ~ MapInEnclave(k)
  BY <1>5, <1>7, <1>9
<1>11. \A k \in Trees : acc'[k].pc # "wait"
  BY <1>5, <1>7, <1>9
<1>12. \A k \in Trees : \A j \in 0 .. k - 1 : acc'[k].pc # "idle" => acc'[j].pc = "wait"
  <2>1. \A k \in Trees : acc'[k].pc # "idle" => k = 0
    BY <1>9
  <2>. QED BY <2>1
<1>13. AccInv'
  BY <1>5, <1>7, <1>8, <1>10, <1>11, <1>12 DEF AccInv
<1>. QED BY <1>3, <1>4, <1>13 DEF TypeInv

LEMMA AskTyping ==
  ASSUME TypeInv, NEW k \in Trees, AskMap(k)
  PROVE  TypeInv'
<1>1. Trees \subseteq Nat /\ 0 \in Trees /\ AccInv
  BY TreesDescend DEF TypeInv
<1>2. acc[k] \in AccessOf(k) /\ acc[k].pc = "map" /\ ~ MapInEnclave(k)
  BY <1>1 DEF AskMap, AccInv
<1>3. k + 1 \in Trees /\ k + 1 # k /\ k \in Nat
  BY <1>1, <1>2, TreesDescend
<1>4. MapWrite(k) \in RequestOf(k + 1)
  BY <1>2, RequestTyping
<1> DEFINE others == [acc EXCEPT ![k].pc = "wait"]
<1>5. Begin(k + 1, MapWrite(k), others) /\ UNCHANGED <<buckets, client>>
  BY DEF AskMap
<1>6. /\ posmap' \in [0 .. MaxPosMap - 1 -> Labels]
      /\ \E a \in AccessOf(k + 1) :
           /\ acc' = [others EXCEPT ![k + 1] = a]
           /\ a.pc \in {"download", "map"}
           /\ a.pc = "map" => ~ MapInEnclave(k + 1)
  <2> HIDE DEF others
  <2>. QED BY <1>3, <1>4, <1>5, BeginTyping
<1>7. PICK a \in AccessOf(k + 1) :
        /\ acc' = [others EXCEPT ![k + 1] = a]
        /\ a.pc \in {"download", "map"}
        /\ a.pc = "map" => ~ MapInEnclave(k + 1)
  BY <1>6
<1>8. /\ acc' = [j \in Trees |-> acc'[j]]
      /\ acc'[k + 1] = a /\ acc'[k] = [acc[k] EXCEPT !.pc = "wait"]
      /\ \A j \in Trees : j # k /\ j # k + 1 => acc'[j] = acc[j]
  BY <1>1, <1>3, <1>7 DEF AccInv
<1>9. [acc[k] EXCEPT !.pc = "wait"] \in AccessOf(k) /\ acc'[k].pc = "wait"
  BY <1>2, <1>8 DEF AccessOf
<1>10. \A j \in Trees : acc'[j] \in AccessOf(j)
  BY <1>1, <1>7, <1>8, <1>9 DEF AccInv
<1>11. \A j \in Trees : acc'[j].pc \in {"map", "wait"} => ~ MapInEnclave(j)
  BY <1>1, <1>2, <1>7, <1>8 DEF AccInv
<1>12. \A j \in Trees : j # k => acc[j].pc = IF j < k THEN "wait" ELSE "idle"
  BY <1>1, <1>2, OthersRest
<1>13. ASSUME NEW j \in Trees
       PROVE  /\ acc'[j].pc = "wait" <=> j =< k
              /\ acc'[j].pc # "idle" <=> j =< k + 1
  <2>1. j \in Nat
    BY <1>1
  <2>2. CASE j = k
    BY <1>3, <1>9, <2>2
  <2>3. CASE j = k + 1
    BY <1>3, <1>7, <1>8, <2>3
  <2>4. CASE j # k /\ j # k + 1
    <3>1. acc'[j].pc = IF j < k THEN "wait" ELSE "idle"
      BY <1>8, <1>12, <2>4
    <3>. QED BY <1>3, <2>1, <2>4, <3>1
  <2>. QED BY <2>2, <2>3, <2>4
<1>14. \A j \in Trees : acc'[j].pc # "idle" <=> j =< k + 1
  BY <1>13
<1>15. \A j \in Trees : acc'[j].pc = "wait" => acc'[j + 1].pc # "idle"
  <2>1. \A j \in Trees : acc'[j].pc = "wait" => j + 1 \in Trees
    BY <1>11, TreesDescend
  <2>. QED BY <1>1, <1>3, <1>13, <1>14, <2>1
<1>16. ASSUME NEW j \in Trees, NEW i \in 0 .. j - 1, acc'[j].pc # "idle"
       PROVE  acc'[i].pc = "wait"
  <2>1. i \in Trees
    BY TreesDescend
  <2>2. i =< k
    BY <1>1, <1>3, <1>14, <1>16
  <2>. QED BY <1>13, <2>1, <2>2
<1>17. acc'[0].pc # "answered"
  <2>1. acc'[0].pc = "wait"
    BY <1>1, <1>3, <1>13
  <2>. QED BY <2>1
<1>18. AccInv'
  BY <1>8, <1>10, <1>11, <1>15, <1>16, <1>17 DEF AccInv
<1>. QED BY <1>5, <1>6, <1>18 DEF TypeInv

LEMMA AnsweredTyping ==
  ASSUME TypeInv, NEW k \in Trees, MapAnswered(k)
  PROVE  TypeInv'
<1>1. Trees \subseteq Nat /\ 0 \in Trees /\ AccInv
  BY TreesDescend DEF TypeInv
<1>2. acc[k] \in AccessOf(k) /\ acc[k].pc = "wait" /\ ~ MapInEnclave(k)
  BY <1>1 DEF MapAnswered, AccInv
<1>3. k + 1 \in Trees /\ k + 1 # k /\ k \in Nat
  BY <1>1, <1>2, TreesDescend
<1>4. /\ acc[k + 1] \in AccessOf(k + 1) /\ acc[k + 1].pc = "answered"
      /\ acc' = [acc EXCEPT ![k].pc = "download", ![k].path = OldLabel(k),
                            ![k + 1] = NoAccess(k + 1)]
      /\ UNCHANGED <<posmap, buckets, client>>
  BY <1>1, <1>3 DEF MapAnswered, AccInv
<1>5. OldLabel(k) \in Labels
  <2>1. MapWord(acc[k].req.ind) \in Words
    BY <1>2, RequestTyping
  <2>. QED BY <1>4, <2>1, ContentTyping DEF OldLabel, AccessOf, RequestOf, Contents
<1>6. /\ acc' = [j \in Trees |-> acc'[j]]
      /\ acc'[k + 1] = NoAccess(k + 1)
      /\ acc'[k] = [acc[k] EXCEPT !.pc = "download", !.path = OldLabel(k)]
      /\ \A j \in Trees : j # k /\ j # k + 1 => acc'[j] = acc[j]
  BY <1>1, <1>3, <1>4 DEF AccInv
<1>7. NoAccess(k + 1) \in AccessOf(k + 1) /\ NoAccess(k + 1).pc = "idle"
  <2>1. NoRequest(k + 1) \in RequestOf(k + 1) /\ 0 \in Labels
    BY <1>3, RequestTyping DEF Labels
  <2>2. NoAccess(k + 1) \in AccessOf(k + 1)
    BY <1>3, <2>1, AccessTyping DEF NoAccess
  <2>. QED BY <2>2 DEF NoAccess, Access
<1>8. /\ [acc[k] EXCEPT !.pc = "download", !.path = OldLabel(k)] \in AccessOf(k)
      /\ acc'[k].pc = "download"
  BY <1>2, <1>5, <1>6 DEF AccessOf, Working
<1>9. \A j \in Trees : acc'[j] \in AccessOf(j)
  BY <1>1, <1>6, <1>7, <1>8 DEF AccInv
<1>10. \A j \in Trees : acc'[j].pc \in {"map", "wait"} => ~ MapInEnclave(j)
  BY <1>1, <1>6, <1>7, <1>8 DEF AccInv
<1>11. ASSUME NEW j \in Trees, j # k, j # k + 1
       PROVE  acc[j].pc = IF j < k THEN "wait" ELSE "idle"
  <2>1. acc[j].pc = IF j < k + 1 THEN "wait" ELSE "idle"
    BY <1>1, <1>3, <1>4, <1>11, OthersRest
  <2>2. j < k + 1 <=> j < k
    BY <1>1, <1>3, <1>11
  <2>. QED BY <2>1, <2>2
<1>12. ASSUME NEW j \in Trees
       PROVE  /\ acc'[j].pc = "wait" <=> j < k
              /\ acc'[j].pc # "idle" <=> j =< k
  <2>1. j \in Nat
    BY <1>1
  <2>2. CASE j = k
    BY <1>3, <1>8, <2>2
  <2>3. CASE j = k + 1
    BY <1>3, <1>6, <1>7, <2>3
  <2>4. CASE j # k /\ j # k + 1
    <3>1. acc'[j].pc = IF j < k THEN "wait" ELSE "idle"
      BY <1>6, <1>11, <2>4
    <3>. QED BY <1>3, <2>1, <2>4, <3>1
  <2>. QED BY <2>2, <2>3, <2>4
<1>13. \A j \in Trees : acc'[j].pc # "idle" <=> j =< k
  BY <1>12
<1>14. \A j \in Trees : acc'[j].pc = "wait" => acc'[j + 1].pc # "idle"
  <2>1. \A j \in Trees : acc'[j].pc = "wait" => j + 1 \in Trees
    BY <1>10, TreesDescend
  <2>. QED BY <1>1, <1>3, <1>12, <1>13, <2>1
<1>15. ASSUME NEW j \in Trees, NEW i \in 0 .. j - 1, acc'[j].pc # "idle"
       PROVE  acc'[i].pc = "wait"
  <2>1. i \in Trees
    BY TreesDescend
  <2>2. j \in Nat /\ j =< k
    BY <1>1, <1>13, <1>15
  <2>3. i < k
    BY <1>3, <2>2
  <2>. QED BY <1>12, <2>1, <2>3
<1>16. acc'[0].pc # "answered"
  <2>1. CASE k = 0
    BY <1>8, <2>1
  <2>2. CASE k # 0
    BY <1>1, <1>3, <1>12, <2>2
  <2>. QED BY <2>1, <2>2
<1>17. AccInv'
  BY <1>6, <1>9, <1>10, <1>14, <1>15, <1>16 DEF AccInv
<1>. QED BY <1>4, <1>17 DEF TypeInv
\* A path downloaded, and one written back.
LEMMA PathSound ==
  ASSUME TypeInv, NEW k \in Trees
  PROVE  /\ S(k)!WithPath = [d \in Depths |-> IF d \in LevelsOf(k)
                               THEN buckets[k][At(acc[k].path, d)] ELSE client[d]]
         /\ S(k)!WithPath \in NodeArrays
         /\ S(k)!UpdatedPath = [n \in NodesOf(k) |-> IF n \in WalkOf(k, acc[k].path)
                                  THEN client[n[1]] ELSE buckets[k][n]]
         /\ S(k)!UpdatedPath \in [NodesOf(k) -> SoundNode]
<1>1. /\ k \in Nat /\ acc[k].path \in Paths \cup {0}
      /\ client \in NodeArrays /\ buckets[k] \in [NodesOf(k) -> SoundNode]
  BY TreesDescend DEF TypeInv, AccInv, AccessOf, Labels
<1>2. \A d \in LevelsOf(k) : At(acc[k].path, d) \in NodesOf(k)
  BY <1>1, WalksInTree
<1>3. S(k)!WithPath = [d \in Depths |-> IF d \in LevelsOf(k)
                         THEN buckets[k][At(acc[k].path, d)] ELSE client[d]]
  BY SameNames DEF S!WithPath
<1>4. [d \in Depths |-> IF d \in LevelsOf(k)
         THEN buckets[k][At(acc[k].path, d)] ELSE client[d]] \in NodeArrays
  BY <1>1, <1>2 DEF NodeArrays
<1>5. S(k)!UpdatedPath = [n \in NodesOf(k) |-> IF n \in WalkOf(k, acc[k].path)
                            THEN client[n[1]] ELSE buckets[k][n]]
  BY SameNames DEF S!UpdatedPath
<1>6. ASSUME NEW n \in NodesOf(k), n \in WalkOf(k, acc[k].path)
      PROVE  client[n[1]] \in SoundNode
  <2>1. PICK d \in LevelsOf(k) : n = At(acc[k].path, d)
    BY <1>6 DEF WalkOf
  <2>2. n[1] = d /\ d \in Depths
    BY <1>1, <2>1, HeightsFit DEF At
  <2>. QED BY <1>1, <2>2 DEF NodeArrays
<1>7. [n \in NodesOf(k) |-> IF n \in WalkOf(k, acc[k].path)
         THEN client[n[1]] ELSE buckets[k][n]] \in [NodesOf(k) -> SoundNode]
  BY <1>1, <1>6
<1>. QED BY <1>3, <1>4, <1>5, <1>7

\* The fetch, from the first node of client->path with the key.
LEMMA FetchSound ==
  ASSUME TypeInv, NEW k \in Trees, NEW key \in Nat
  PROVE  /\ S(k)!FetchTakes(key) \in NodeArrays
         /\ S(k)!FetchedContent(key) \in Contents
<1> DEFINE F == {d \in Depths : Hits(client[d], key) # {}}
           d == Min(F)
<1>1. /\ S(k)!FoundAt(key) = F /\ S(k)!Min(F) = d
      /\ \A n : S(k)!NodeRead(n, key) = NodeRead(n, key)
      /\ \A n : S(k)!ReadContent(n, key) = ReadContent(n, key)
      /\ S(k)!ZeroBlock = ZeroBlock
  BY SameNames DEF S!FoundAt
<1>2. client \in NodeArrays
  BY DEF TypeInv
<1>3. CASE F = {}
  <2>1. S(k)!FetchTakes(key) = client /\ S(k)!FetchedContent(key) = ZeroBlock
    BY <1>1, <1>3 DEF S!FetchTakes, S!FetchedContent
  <2>. QED BY <1>2, <2>1, ContentTyping
<1>4. CASE F # {}
  <2>1. F \in SUBSET Nat
    BY DEF Depths
  <2>2. d \in F
    BY <1>4, <2>1, MinOf
  <2>3. d \in Depths /\ Hits(client[d], key) # {} /\ client[d] \in SoundNode
    BY <1>2, <2>2 DEF NodeArrays
  <2>4. /\ S(k)!FetchTakes(key)
             = [client EXCEPT ![d] = S(k)!Forgotten(NodeRead(client[d], key))]
        /\ S(k)!FetchedContent(key) = ReadContent(client[d], key)
    BY <1>1, <1>4 DEF S!FetchTakes, S!FetchedContent
  <2> HIDE DEF d, F
  <2>5. S(k)!Forgotten(NodeRead(client[d], key)) \in SoundNode
    <3>1. NodeRead(client[d], key) \in SoundNode
      BY <2>3, ReadSound
    <3>. QED BY <3>1, ForgottenSound
  <2>6. ReadContent(client[d], key) \in Contents
    <3>1. Hits(client[d], key) \in SUBSET (0 .. BlocksPerNode - 1) /\ BlocksPerNode - 1 \in Nat
      BY NodeAssumption DEF Hits, Slots
    <3>2. Max(Hits(client[d], key)) \in Slots
      BY <2>3, <3>1, MaxOf DEF Slots
    <3>. QED BY <2>3, <3>2 DEF ReadContent, SoundNode, Node
  <2>. QED BY <1>2, <2>3, <2>4, <2>5, <2>6 DEF NodeArrays
<1>. QED BY <1>3, <1>4

\* The root bucket with the block.
LEMMA RootSound ==
  ASSUME TypeInv, NEW k \in Trees, RootHasRoom(k)
  PROVE  /\ Root \in NodesOf(k) /\ buckets[k][Root] \in SoundNode
         /\ \E i \in FreeSlots(buckets[k][Root]) :
              RootWithBlock(k) = Filled(buckets[k][Root], i, BlockKey(acc[k].req.ind),
                                        acc[k].newPath, acc[k].fetched)
         /\ RootWithBlock(k) \in SoundNode
<1> DEFINE key == BlockKey(acc[k].req.ind)
<1>1. acc[k] \in AccessOf(k) /\ k \in Nat
  BY TreesDescend DEF TypeInv, AccInv
<1>2. acc[k].newPath \in Nat /\ acc[k].fetched \in Contents
  BY <1>1, ContentTyping DEF AccessOf
<1>3. key \in Nat
  <2>1. acc[k].req.ind \in 0 .. CapacityAt[k] - 1
    BY <1>1, IndsFit DEF AccessOf, RequestOf
  <2>. QED BY <2>1 DEF BlockKey
<1>4. Root \in NodesOf(k) /\ buckets[k][Root] \in SoundNode
  <2>1. 0 \in Paths \cup {0}
    OBVIOUS
  <2>2. Root \in NodesOf(k)
    BY <1>1, <2>1, WalksInTree
  <2>. QED BY <2>2 DEF TypeInv
<1>5. CanWrite(buckets[k][Root], key)
  BY SameNames DEF RootHasRoom, S!RootHasRoom
<1>6. RootWithBlock(k) = NodeWrite(buckets[k][Root], key, acc[k].newPath, acc[k].fetched)
  BY SameNames DEF RootWithBlock, PutLabel, S!RootWithBlock
<1> HIDE DEF key
<1>7. PICK i \in FreeSlots(buckets[k][Root]) :
        RootWithBlock(k) = Filled(buckets[k][Root], i, key, acc[k].newPath, acc[k].fetched)
  BY <1>2, <1>3, <1>4, <1>5, <1>6, WriteSound
<1>8. RootWithBlock(k) \in SoundNode
  BY <1>2, <1>3, <1>4, <1>7, FilledSound
<1>. QED BY <1>4, <1>7, <1>8 DEF key

\* Where an access of one tree leads when its own steps are taken.
LEMMA AccessMoves ==
  ASSUME AccInv, NEW k \in Trees, acc[k].pc \in Working
  PROVE  /\ \A pc \in Working : Goes(k, pc) =>
              AccInv' /\ \A j \in Trees : j # k => acc'[j] = acc[j]
         /\ \A a \in AccessOf(k) :
              acc' = [acc EXCEPT ![k] = a] /\ a.pc \in Working \cup {Back(k)} =>
                AccInv' /\ \A j \in Trees : j # k => acc'[j] = acc[j]
<1>1. ASSUME NEW a \in AccessOf(k), acc' = [acc EXCEPT ![k] = a],
             a.pc \in Working \cup {Back(k)}
      PROVE  AccInv' /\ \A j \in Trees : j # k => acc'[j] = acc[j]
  <2>1. acc'[k] = a
    BY <1>1 DEF AccInv
  <2>. QED BY <1>1, <2>1, OwnStep
<1>2. ASSUME NEW pc \in Working, Goes(k, pc)
      PROVE  AccInv' /\ \A j \in Trees : j # k => acc'[j] = acc[j]
  <2> DEFINE a == [acc[k] EXCEPT !.pc = pc]
  <2>1. acc[k] \in AccessOf(k)
    BY DEF AccInv
  <2>2. a \in AccessOf(k) /\ a.pc = pc
    BY <2>1 DEF AccessOf
  <2>3. acc' = [acc EXCEPT ![k] = a]
    BY <1>2 DEF Goes
  <2> HIDE DEF a
  <2>. QED BY <1>1, <2>2, <2>3
<1>. QED BY <1>1, <1>2

LEMMA ReturnTyping ==
  ASSUME NEW k \in Trees, acc[k] \in AccessOf(k)
  PROVE  Return(k) \in AccessOf(k) /\ Return(k).pc = Back(k)
<1>1. acc[k].req \in RequestOf(k) /\ 0 \in Labels
  BY DEF AccessOf, Labels
<1>2. Return(k) \in AccessOf(k)
  BY <1>1, AccessTyping DEF Return
<1>. QED BY <1>2 DEF Return, Access, Back

LEMMA TreeStepTyping ==
  ASSUME TypeInv, NEW k \in Trees,
         \/ DownloadPath(k)
         \/ ObliviousFetch(k)
         \/ UpdatePath(k)
         \/ PutToRoot(k)
         \/ Flush(k)
         \/ UpdateFlushed(k)
  PROVE  /\ TypeInv'
         /\ acc[k].pc \in Working
         /\ \A j \in Trees : j # k => acc'[j] = acc[j]
<1>1. AccInv /\ acc[k] \in AccessOf(k)
  BY DEF TypeInv, AccInv
<1>2. CASE DownloadPath(k)
  <2>1. acc[k].pc \in Working
    BY <1>2 DEF DownloadPath, Working
  <2>2. \E pc \in Working : Goes(k, pc)
    BY <1>2 DEF DownloadPath, Working
  <2>3. AccInv' /\ \A j \in Trees : j # k => acc'[j] = acc[j]
    BY <1>1, <2>1, <2>2, AccessMoves
  <2>4. client' \in NodeArrays /\ UNCHANGED <<posmap, buckets>>
    BY <1>2, PathSound DEF DownloadPath
  <2>. QED BY <2>1, <2>3, <2>4 DEF TypeInv
<1>3. CASE ObliviousFetch(k)
  <2> DEFINE key == BlockKey(acc[k].req.ind)
             a == [acc[k] EXCEPT !.pc = "update", !.fetched = S(k)!FetchedContent(key)]
  <2>1. acc[k].pc \in Working
    BY <1>3 DEF ObliviousFetch, Working
  <2>2. key \in Nat
    <3>1. acc[k].req.ind \in 0 .. CapacityAt[k] - 1
      BY <1>1, IndsFit DEF AccessOf, RequestOf
    <3>. QED BY <3>1 DEF BlockKey
  <2>3. /\ client' = S(k)!FetchTakes(key)
        /\ acc' = [acc EXCEPT ![k] = a]
        /\ UNCHANGED <<posmap, buckets>>
    BY <1>3 DEF ObliviousFetch
  <2> HIDE DEF key
  <2>4. client' \in NodeArrays /\ S(k)!FetchedContent(key) \in Contents
    BY <2>2, <2>3, FetchSound
  <2>5. a \in AccessOf(k) /\ a.pc = "update"
    BY <1>1, <2>4 DEF AccessOf, Working
  <2> HIDE DEF a
  <2>6. AccInv' /\ \A j \in Trees : j # k => acc'[j] = acc[j]
    BY <1>1, <2>1, <2>3, <2>5, AccessMoves DEF Working
  <2>. QED BY <2>1, <2>3, <2>4, <2>6 DEF TypeInv
<1>4. CASE UpdatePath(k)
  <2> DEFINE r == acc[k].req
             stored == Stored(r, acc[k].fetched)
             loaded == Loaded(r, acc[k].fetched)
             a == [acc[k] EXCEPT !.pc = "put", !.fetched = stored, !.req.buf = loaded]
  <2>1. acc[k].pc \in Working
    BY <1>4 DEF UpdatePath, Working
  <2>2. stored \in Contents /\ loaded \in Contents
    BY <1>1, ContentTyping DEF AccessOf, RequestOf
  <2>3. /\ buckets' = [buckets EXCEPT ![k] = S(k)!UpdatedPath]
        /\ acc' = [acc EXCEPT ![k] = a]
        /\ UNCHANGED <<posmap, client>>
    BY <1>4 DEF UpdatePath
  <2> HIDE DEF stored, loaded
  <2>4. a \in AccessOf(k)
    BY <1>1, <2>2 DEF AccessOf, RequestOf, Working
  <2>5. a.pc = "put"
    BY <1>1 DEF AccessOf
  <2> HIDE DEF a
  <2>6. AccInv' /\ \A j \in Trees : j # k => acc'[j] = acc[j]
    BY <1>1, <2>1, <2>3, <2>4, <2>5, AccessMoves DEF Working
  <2>7. /\ buckets' = [j \in Trees |-> buckets'[j]]
        /\ \A j \in Trees : buckets'[j] \in [NodesOf(j) -> SoundNode]
    BY <2>3, PathSound DEF TypeInv
  <2>. QED BY <2>1, <2>3, <2>6, <2>7 DEF TypeInv
<1>5. CASE PutToRoot(k)
  <2>1. acc[k].pc \in Working
    BY <1>5 DEF PutToRoot, Working
  <2>2. /\ buckets' = [buckets EXCEPT ![k][Root] = RootWithBlock(k)]
        /\ client' = [client EXCEPT ![0] = RootWithBlock(k)]
        /\ UNCHANGED posmap
        /\ RootHasRoom(k)
        /\ \E a \in {Return(k)} \cup {Access("flushdown", acc[k].req, p, 0) : p \in Labels} :
             acc' = [acc EXCEPT ![k] = a]
    BY <1>5, SameNames DEF PutToRoot, Labels
  <2>3. Root \in NodesOf(k) /\ RootWithBlock(k) \in SoundNode
    BY <2>2, RootSound
  <2>4. \A a \in {Return(k)} \cup {Access("flushdown", acc[k].req, p, 0) : p \in Labels} :
           a \in AccessOf(k) /\ a.pc \in Working \cup {Back(k)}
    <3>1. Return(k) \in AccessOf(k) /\ Return(k).pc = Back(k)
      BY <1>1, ReturnTyping
    <3>2. ASSUME NEW p \in Labels
          PROVE  /\ Access("flushdown", acc[k].req, p, 0) \in AccessOf(k)
                 /\ Access("flushdown", acc[k].req, p, 0).pc \in Working
      <4>1. acc[k].req \in RequestOf(k) /\ 0 \in Labels
        BY <1>1 DEF AccessOf, Labels
      <4>2. Access("flushdown", acc[k].req, p, 0) \in AccessOf(k)
        BY <4>1, AccessTyping DEF Working
      <4>. QED BY <4>2 DEF Access, Working
    <3>. QED BY <3>1, <3>2
  <2>5. AccInv' /\ \A j \in Trees : j # k => acc'[j] = acc[j]
    BY <1>1, <2>1, <2>2, <2>4, AccessMoves
  <2>6. client' \in NodeArrays
    <3>1. k \in Nat
      BY TreesDescend
    <3>2. 0 \in Depths
      BY <3>1, HeightsFit
    <3>. QED BY <2>2, <2>3, <3>2 DEF TypeInv, NodeArrays
  <2>7. /\ buckets' = [j \in Trees |-> buckets'[j]]
        /\ \A j \in Trees : buckets'[j] \in [NodesOf(j) -> SoundNode]
    BY <2>2, <2>3 DEF TypeInv
  <2>. QED BY <2>1, <2>2, <2>5, <2>6, <2>7 DEF TypeInv
<1>6. CASE Flush(k)
  <2>1. acc[k].pc \in Working /\ Goes(k, "flushup") /\ "flushup" \in Working
    BY <1>6 DEF Flush, Working
  <2>2. AccInv' /\ \A j \in Trees : j # k => acc'[j] = acc[j]
    BY <1>1, <2>1, AccessMoves
  <2>3. client' \in NodeArrays /\ UNCHANGED <<posmap, buckets>>
    <3>1. k \in Nat /\ acc[k].path \in Nat /\ client \in NodeArrays
      BY <1>1, TreesDescend, ContentTyping DEF TypeInv, AccessOf
    <3>. QED BY <1>6, <3>1, FlushMoves DEF Flush
  <2>. QED BY <2>1, <2>2, <2>3 DEF TypeInv
<1>7. CASE UpdateFlushed(k)
  <2>1. /\ acc[k].pc \in Working
        /\ acc' = [acc EXCEPT ![k] = Return(k)]
        /\ buckets' = [buckets EXCEPT ![k] = S(k)!UpdatedPath]
        /\ UNCHANGED <<posmap, client>>
    BY <1>7 DEF UpdateFlushed, Working
  <2>2. AccInv' /\ \A j \in Trees : j # k => acc'[j] = acc[j]
    BY <1>1, <2>1, ReturnTyping, AccessMoves
  <2>3. /\ buckets' = [j \in Trees |-> buckets'[j]]
        /\ \A j \in Trees : buckets'[j] \in [NodesOf(j) -> SoundNode]
    BY <2>1, PathSound DEF TypeInv
  <2>. QED BY <2>1, <2>2, <2>3 DEF TypeInv
<1>. QED BY <1>2, <1>3, <1>4, <1>5, <1>6, <1>7

LEMMA StepTyping ==
  TypeInv /\ [Next]_vars => TypeInv'
<1> SUFFICES ASSUME TypeInv, [Next]_vars PROVE TypeInv'
  OBVIOUS
<1>1. ASSUME NEW r \in Requests, StartAccess(r) PROVE TypeInv'
  BY <1>1, StartTyping
<1>2. ASSUME NEW k \in Trees, AskMap(k) PROVE TypeInv'
  BY <1>2, AskTyping
<1>3. ASSUME NEW k \in Trees, MapAnswered(k) PROVE TypeInv'
  BY <1>3, AnsweredTyping
<1>4. ASSUME NEW k \in Trees,
             \/ DownloadPath(k) \/ ObliviousFetch(k) \/ UpdatePath(k)
             \/ PutToRoot(k) \/ Flush(k) \/ UpdateFlushed(k)
      PROVE  TypeInv'
  BY <1>4, TreeStepTyping
<1>5. ASSUME NEW k \in Trees, RootOverflow(k) PROVE TypeInv'
  BY <1>5 DEF RootOverflow, TypeInv, AccInv
<1>6. ASSUME UNCHANGED vars PROVE TypeInv'
  BY <1>6 DEF vars, TypeInv, AccInv
<1>. QED BY <1>1, <1>2, <1>3, <1>4, <1>5, <1>6 DEF Next, Step, Ended

-----------------------------------------------------------------------------

\* The variables keep their types, one tree is worked on at a time, those above
\* it wait and those below are idle, and every node counts its blocks.
THEOREM Types == Spec => []TypeInv
<1>1. Init => TypeInv
  BY InitTyping
<1>. QED BY <1>1, StepTyping, PTL DEF Spec

\* num_blocks agrees with the presence bits, in every tree and in client->path.
THEOREM CountersStayTrue == Spec => []CountersAgree
<1>1. TypeInv => CountersAgree
  <2> SUFFICES ASSUME TypeInv,
               NEW node \in (UNION {{buckets[k][n] : n \in S(k)!Nodes} : k \in Trees})
                      \cup {client[d] : d \in DOMAIN client}
               PROVE  node.num = Cardinality({i \in DOMAIN node.presence :
                                                node.presence[i] > 0})
    BY DEF CountersAgree
  <2>1. node \in SoundNode
    <3>1. ASSUME NEW k \in Trees, NEW n \in S(k)!Nodes PROVE buckets[k][n] \in SoundNode
      <4>1. n \in NodesOf(k)
        BY SameNames
      <4>. QED BY <4>1 DEF TypeInv
    <3>2. \A d \in DOMAIN client : client[d] \in SoundNode
      BY DEF TypeInv, NodeArrays
    <3>. QED BY <3>1, <3>2
  <2>2. DOMAIN node.presence = Slots /\ node.num = Filling(node)
    BY <2>1 DEF SoundNode, Node
  <2>. QED BY <2>2 DEF Filling, Taken
<1>. QED BY <1>1, Types, PTL

\* A flush keeps every block of the path, sinking it or leaving it in its node.
THEOREM FlushesSink == Spec => FlushSinks
<1> DEFINE Sinks(k) ==
      acc[k].pc = "flush" =>
       \A i \in S(k)!Levels, j \in Slots :
         client[i].presence[j] > 0 =>
           \E d \in S(k)!Levels, l \in Slots :
             /\ d >= i
             /\ client'[d].presence[l] > 0
             /\ client'[d].keys[l] = client[i].keys[j]
             /\ client'[d].paths[l] = client[i].paths[j]
             /\ client'[d].contents[l] = client[i].contents[j]
<1>1. ASSUME TypeInv, [Next]_vars, NEW k \in Trees, acc[k].pc = "flush",
             NEW i \in S(k)!Levels, NEW j \in Slots, client[i].presence[j] > 0
      PROVE  \E d \in S(k)!Levels, l \in Slots :
             /\ d >= i
             /\ client'[d].presence[l] > 0
             /\ client'[d].keys[l] = client[i].keys[j]
             /\ client'[d].paths[l] = client[i].paths[j]
             /\ client'[d].contents[l] = client[i].contents[j]
  <2>1. k \in Nat /\ acc[k].path \in Nat /\ client \in NodeArrays /\ AccInv
    BY <1>1, TreesDescend, ContentTyping DEF TypeInv, AccInv, AccessOf
  <2>2. S(k)!Levels = LevelsOf(k) /\ LevelsOf(k) \subseteq Depths /\ LevelsOf(k) \subseteq Nat
    <3>1. S(k)!Levels = LevelsOf(k)
      BY SameNames
    <3>2. LevelsOf(k) \subseteq Depths
      BY <2>1, HeightsFit
    <3>. QED BY <3>1, <3>2 DEF LevelsOf
  <2>3. i \in LevelsOf(k)
    BY <2>2
  <2>4. client' = client \/ client' = S(k)!Flushed
    BY <1>1, <2>1, OthersRest DEF Next, StartAccess, Step, AskMap, MapAnswered, DownloadPath,
       ObliviousFetch, UpdatePath, PutToRoot, Flush, UpdateFlushed, RootOverflow, Ended, vars
  <2>5. CASE client' = client
    BY <1>1, <2>2, <2>3, <2>5
  <2>6. CASE client' = S(k)!Flushed
    <3>1. client' \in NodeArrays /\ \E f : SunkTo(k, client, client', f)
      BY <2>1, <2>6, FlushMoves
    <3>2. PICK f : SunkTo(k, client, client', f)
      BY <3>1
    <3> DEFINE s == <<i, j>>
    <3>3. s \in InSlots(client)
      BY <1>1, <2>2, <2>3 DEF InSlots, Taken
    <3>4. /\ f[s] \in InSlots(client')
          /\ Copy(client', f[s]) = Copy(client, s)
          /\ Deeper(k, client[i].paths[j], i, f[s][1])
      <4>1. s[1] = i /\ s[2] = j
        OBVIOUS
      <4> HIDE DEF s
      <4>. QED BY <3>2, <3>3, <4>1 DEF SunkTo
    <3> DEFINE d == f[s][1]
               l == f[s][2]
    <3>5. d \in Depths /\ l \in Taken(client'[d])
      BY <3>4 DEF InSlots
    <3>6. l \in Slots /\ client'[d].presence[l] > 0
      BY <3>5 DEF Taken
    <3>7. d >= i /\ d \in LevelsOf(k)
      BY <2>2, <2>3, <3>4, <3>5 DEF Deeper, Depths
    <3>8. /\ client'[d].keys[l] = client[i].keys[j]
          /\ client'[d].paths[l] = client[i].paths[j]
          /\ client'[d].contents[l] = client[i].contents[j]
      BY <3>4 DEF Copy
    <3> HIDE DEF d, l
    <3>. QED BY <2>2, <3>6, <3>7, <3>8
  <2>. QED BY <2>4, <2>5, <2>6
<1>2. TypeInv /\ [Next]_vars => [\A k \in Trees : Sinks(k)]_vars
  <2> SUFFICES ASSUME TypeInv, [Next]_vars PROVE \A k \in Trees : Sinks(k)
    OBVIOUS
  <2>. QED BY <1>1
<1>. QED BY <1>2, Types, PTL DEF Spec, FlushSinks
-----------------------------------------------------------------------------
(***************************************************************************)
(* Where the blocks are.  A tree here is a function from nodes to buckets; *)
(* block i is either in no slot of it, or in one, on the path of the label *)
(* it was put under.                                                       *)
(***************************************************************************)
SlotsOf(tree, i) ==
  {s \in (DOMAIN tree) \X Slots :
     s[2] \in Taken(tree[s[1]]) /\ tree[s[1]].keys[s[2]] = BlockKey(i)}
LabelAt(tree, s) == tree[s[1]].paths[s[2]]
DataAt(tree, s) == tree[s[1]].contents[s[2]]

DataIn(tree, i) ==
  IF SlotsOf(tree, i) = {} THEN ZeroBlock
  ELSE DataAt(tree, CHOOSE s \in SlotsOf(tree, i) : TRUE)

Absent(tree, i) == SlotsOf(tree, i) = {}
Lies(tree, k, i, label, content) ==
  \E s \in (DOMAIN tree) \X Slots :
    /\ SlotsOf(tree, i) = {s}
    /\ LabelAt(tree, s) = label
    /\ DataAt(tree, s) = content
    /\ s[1] \in WalkOf(k, label)

Keeps(tree, new, k, i) ==
  /\ Absent(tree, i) => Absent(new, i)
  /\ \A label, content : Lies(tree, k, i, label, content) => Lies(new, k, i, label, content)

LEMMA DataWhere ==
  ASSUME NEW tree, NEW k, NEW i
  PROVE  /\ Absent(tree, i) => DataIn(tree, i) = ZeroBlock
         /\ \A label, content : Lies(tree, k, i, label, content) =>
              DataIn(tree, i) = content /\ ~ Absent(tree, i)
<1>1. ASSUME NEW label, NEW content, Lies(tree, k, i, label, content)
      PROVE  DataIn(tree, i) = content /\ ~ Absent(tree, i)
  <2>1. PICK s : SlotsOf(tree, i) = {s} /\ DataAt(tree, s) = content
    BY <1>1 DEF Lies
  <2>2. (CHOOSE t \in SlotsOf(tree, i) : TRUE) = s
    BY <2>1
  <2>. QED BY <2>1, <2>2 DEF DataIn, Absent
<1>. QED BY <1>1 DEF DataIn, Absent

\* A block stays where it is, or is taken from its slot to another on its path.
LEMMA KeepsBy ==
  ASSUME NEW tree, NEW new, NEW k, NEW i, NEW g,
         \A s \in SlotsOf(tree, i) :
           /\ g[s] \in SlotsOf(new, i)
           /\ LabelAt(new, g[s]) = LabelAt(tree, s)
           /\ DataAt(new, g[s]) = DataAt(tree, s)
           /\ s[1] \in WalkOf(k, LabelAt(tree, s)) => g[s][1] \in WalkOf(k, LabelAt(tree, s)),
         \A u \in SlotsOf(new, i) : \E s \in SlotsOf(tree, i) : u = g[s]
  PROVE  Keeps(tree, new, k, i)
<1>1. Absent(tree, i) => Absent(new, i)
  BY DEF Absent
<1>2. ASSUME NEW label, NEW content, Lies(tree, k, i, label, content)
      PROVE  Lies(new, k, i, label, content)
  <2>1. PICK s \in (DOMAIN tree) \X Slots :
          /\ SlotsOf(tree, i) = {s}
          /\ LabelAt(tree, s) = label
          /\ DataAt(tree, s) = content
          /\ s[1] \in WalkOf(k, label)
    BY <1>2 DEF Lies
  <2>2. /\ g[s] \in SlotsOf(new, i)
        /\ LabelAt(new, g[s]) = label /\ DataAt(new, g[s]) = content
        /\ g[s][1] \in WalkOf(k, label)
    BY <2>1
  <2>3. SlotsOf(new, i) = {g[s]}
    BY <2>1, <2>2
  <2>4. g[s] \in (DOMAIN new) \X Slots
    BY <2>2 DEF SlotsOf
  <2>. QED BY <2>2, <2>3, <2>4 DEF Lies
<1>. QED BY <1>1, <1>2 DEF Keeps

LEMMA KeepsSame ==
  ASSUME NEW tree, NEW new, NEW k, NEW i,
         SlotsOf(new, i) = SlotsOf(tree, i),
         \A s \in SlotsOf(tree, i) :
           LabelAt(new, s) = LabelAt(tree, s) /\ DataAt(new, s) = DataAt(tree, s)
  PROVE  Keeps(tree, new, k, i)
<1> DEFINE g == [s \in SlotsOf(tree, i) |-> s]
<1>1. \A s \in SlotsOf(tree, i) : g[s] = s
  OBVIOUS
<1> HIDE DEF g
<1>. QED BY <1>1, KeepsBy

\* Keys are block ids, one up.
LEMMA KeysDiffer ==
  \A i, j \in Nat : BlockKey(i) = BlockKey(j) => i = j
BY DEF BlockKey

LEMMA LevelsAbove ==
  ASSUME NEW k \in Nat, NEW d \in LevelsOf(k), NEW e \in Nat, e =< d
  PROVE  e \in LevelsOf(k)
<1>1. HeightOf(k) \in Nat
  BY HeightsFit
<1>. QED BY <1>1 DEF LevelsOf

\* The put: into a free slot of the root.
LEMMA PutEffect ==
  ASSUME NEW k \in Nat, NEW tree \in [NodesOf(k) -> SoundNode], Root \in NodesOf(k),
         NEW l \in FreeSlots(tree[Root]), NEW r \in Nat,
         NEW label \in Paths, NEW content \in Contents
  PROVE  LET new == [tree EXCEPT ![Root] = Filled(tree[Root], l, BlockKey(r), label, content)]
         IN /\ \A i \in Nat : i # r => Keeps(tree, new, k, i)
            /\ Absent(tree, r) => Lies(new, k, r, label, content)
<1> DEFINE node == Filled(tree[Root], l, BlockKey(r), label, content)
           new == [tree EXCEPT ![Root] = node]
<1>1. /\ Taken(node) = Taken(tree[Root]) \cup {l} /\ l \notin Taken(tree[Root])
      /\ node.keys[l] = BlockKey(r) /\ node.paths[l] = label /\ node.contents[l] = content
      /\ \A j \in Slots \ {l} :
           /\ node.keys[j] = tree[Root].keys[j] /\ node.paths[j] = tree[Root].paths[j]
           /\ node.contents[j] = tree[Root].contents[j]
      /\ l \in Slots
  <2>1. BlockKey(r) \in Nat /\ label \in Nat /\ tree[Root] \in SoundNode /\ l \in Slots
    BY SimpleORAMAssumption DEF BlockKey, FreeSlots
  <2>. QED BY <2>1, FilledSound
<1> HIDE DEF node
<1>2. /\ DOMAIN tree = NodesOf(k) /\ DOMAIN new = NodesOf(k)
      /\ new[Root] = node /\ \A n \in NodesOf(k) : n # Root => new[n] = tree[n]
  OBVIOUS
<1> HIDE DEF new
<1>3. ASSUME NEW s \in NodesOf(k) \X Slots, s # <<Root, l>>
      PROVE  /\ s[2] \in Taken(new[s[1]]) <=> s[2] \in Taken(tree[s[1]])
             /\ new[s[1]].keys[s[2]] = tree[s[1]].keys[s[2]]
             /\ LabelAt(new, s) = LabelAt(tree, s)
             /\ DataAt(new, s) = DataAt(tree, s)
  <2>1. s = <<s[1], s[2]>> /\ s[1] \in NodesOf(k) /\ s[2] \in Slots
    OBVIOUS
  <2>2. CASE s[1] # Root
    BY <1>2, <2>1, <2>2 DEF LabelAt, DataAt
  <2>3. CASE s[1] = Root
    <3>1. s[2] # l
      BY <1>3, <2>1, <2>3
    <3>. QED BY <1>1, <1>2, <2>1, <2>3, <3>1 DEF LabelAt, DataAt
  <2>. QED BY <2>2, <2>3
<1> DEFINE t == <<Root, l>>
<1>4. /\ t \in NodesOf(k) \X Slots
      /\ t[1] = Root /\ t[2] = l
  BY <1>1
<1>5. /\ t[2] \in Taken(new[t[1]]) /\ t[2] \notin Taken(tree[t[1]])
      /\ new[t[1]].keys[t[2]] = BlockKey(r)
      /\ LabelAt(new, t) = label /\ DataAt(new, t) = content
  BY <1>1, <1>2, <1>4 DEF LabelAt, DataAt
<1> HIDE DEF t
<1>6. \A s \in NodesOf(k) \X Slots : s # t =>
         /\ s[2] \in Taken(new[s[1]]) <=> s[2] \in Taken(tree[s[1]])
         /\ new[s[1]].keys[s[2]] = tree[s[1]].keys[s[2]]
         /\ LabelAt(new, s) = LabelAt(tree, s)
         /\ DataAt(new, s) = DataAt(tree, s)
  BY <1>3 DEF t
<1>7. ASSUME NEW i \in Nat, i # r PROVE Keeps(tree, new, k, i)
  <2>1. BlockKey(i) # BlockKey(r)
    BY <1>7, KeysDiffer
  <2>2. SlotsOf(new, i) = SlotsOf(tree, i)
    BY <1>2, <1>5, <1>6, <2>1 DEF SlotsOf
  <2>3. \A s \in SlotsOf(tree, i) :
          LabelAt(new, s) = LabelAt(tree, s) /\ DataAt(new, s) = DataAt(tree, s)
    BY <1>2, <1>5, <1>6 DEF SlotsOf
  <2>. QED BY <2>2, <2>3, KeepsSame
<1>8. ASSUME Absent(tree, r) PROVE Lies(new, k, r, label, content)
  <2>1. SlotsOf(new, r) = {t}
    BY <1>2, <1>4, <1>5, <1>6, <1>8 DEF SlotsOf, Absent
  <2>2. Root \in WalkOf(k, label)
    BY WalksInTree
  <2>. QED BY <1>2, <1>4, <1>5, <2>1, <2>2 DEF Lies
<1>. QED BY <1>7, <1>8 DEF new, node
\* The fetch: from the one slot of the tree that has the block, if one has.
LEMMA FetchEffect ==
  ASSUME NEW k \in Nat, acc[k].path \in Labels, client \in NodeArrays,
         NEW tree \in [NodesOf(k) -> SoundNode],
         \A d \in LevelsOf(k) : client[d] = tree[At(acc[k].path, d)],
         NEW r \in Nat
  PROVE  LET c == S(k)!FetchTakes(BlockKey(r))
             x == S(k)!FetchedContent(BlockKey(r))
             new == [n \in NodesOf(k) |-> IF n \in WalkOf(k, acc[k].path)
                                          THEN c[n[1]] ELSE tree[n]]
         IN /\ \A i \in Nat : i # r => Keeps(tree, new, k, i)
            /\ Absent(tree, r) => Absent(new, r)
            /\ Absent(tree, r) /\ (\A d \in Depths \ LevelsOf(k) : Taken(client[d]) = {}) =>
                 x = ZeroBlock
            /\ \A y : Lies(tree, k, r, acc[k].path, y) => Absent(new, r) /\ x = y
            /\ \A d \in Depths : Taken(c[d]) \subseteq Taken(client[d])
<1> DEFINE key == BlockKey(r)
           p == acc[k].path
           F == {d \in Depths : Hits(client[d], key) # {}}
           e == Min(F)
           c == S(k)!FetchTakes(key)
           x == S(k)!FetchedContent(key)
           new == [n \in NodesOf(k) |-> IF n \in WalkOf(k, p) THEN c[n[1]] ELSE tree[n]]
<1>1. /\ S(k)!FoundAt(key) = F /\ S(k)!Min(F) = e
      /\ \A n : S(k)!NodeRead(n, key) = NodeRead(n, key)
      /\ \A n : S(k)!ReadContent(n, key) = ReadContent(n, key)
      /\ S(k)!ZeroBlock = ZeroBlock
  BY SameNames DEF S!FoundAt
<1>2. F = {} => c = client /\ x = ZeroBlock
  BY <1>1 DEF S!FetchTakes, S!FetchedContent
<1>3. F # {} => /\ c = [client EXCEPT ![e] = S(k)!Forgotten(NodeRead(client[e], key))]
                /\ x = ReadContent(client[e], key)
  BY <1>1 DEF S!FetchTakes, S!FetchedContent
<1>4. F # {} => e \in F /\ \A d \in F : e =< d
  <2>1. F \in SUBSET Nat
    BY DEF Depths
  <2>. QED BY <2>1, MinOf
<1>5. key \in Nat /\ LevelsOf(k) \subseteq Depths /\ p \in Paths \cup {0}
  BY HeightsFit DEF BlockKey, Labels
<1> HIDE DEF key, c, x, e
<1>6. ASSUME NEW d \in Depths, NEW j \in Slots
      PROVE  /\ j \in Taken(c[d]) => /\ j \in Taken(client[d])
                                     /\ c[d].keys[j] = client[d].keys[j]
                                     /\ c[d].paths[j] = client[d].paths[j]
                                     /\ c[d].contents[j] = client[d].contents[j]
             /\ j \in Taken(client[d]) => (j \notin Taken(c[d]) <=>
                    F # {} /\ d = e /\ client[d].keys[j] = key)
  <2>1. CASE F = {} \/ d # e
    <3>1. c[d] = client[d]
      BY <1>2, <1>3, <2>1 DEF NodeArrays
    <3>. QED BY <2>1, <3>1
  <2>2. CASE F # {} /\ d = e
    <3> DEFINE read == NodeRead(client[e], key)
    <3>1. c[d] = S(k)!Forgotten(read) /\ client[e] \in SoundNode
      BY <1>3, <2>2 DEF NodeArrays
    <3>2. /\ read \in SoundNode
          /\ Taken(read) = Taken(client[e]) \ Hits(client[e], key)
          /\ read.paths = client[e].paths /\ read.contents = client[e].contents
          /\ \A i \in Slots \ Hits(client[e], key) : read.keys[i] = client[e].keys[i]
      BY <1>5, <3>1, ReadSound
    <3> HIDE DEF read
    <3>3. /\ Taken(c[d]) = Taken(read) /\ c[d].keys = read.keys
          /\ \A i \in Taken(read) :
               c[d].paths[i] = read.paths[i] /\ c[d].contents[i] = read.contents[i]
      BY <3>1, <3>2, ForgottenSound
    <3>4. \A i \in Slots : i \in Hits(client[e], key) <=>
            i \in Taken(client[e]) /\ client[e].keys[i] = key
      BY DEF Hits, Taken
    <3>. QED BY <2>2, <3>2, <3>3, <3>4
  <2>. QED BY <2>1, <2>2
<1>7. \A d \in Depths : Taken(c[d]) \subseteq Taken(client[d])
  <2>1. \A n : Taken(n) \subseteq Slots
    BY DEF Taken
  <2>. QED BY <1>6, <2>1
<1>8. \A d \in LevelsOf(k) : At(p, d) \in WalkOf(k, p) /\ At(p, d) \in NodesOf(k)
  BY <1>5, WalksInTree
<1>9. \A d : At(p, d)[1] = d
  BY DEF At
<1>10. DOMAIN tree = NodesOf(k) /\ DOMAIN new = NodesOf(k)
  OBVIOUS
<1>11. ASSUME NEW n \in NodesOf(k), NEW j \in Slots
       PROVE  /\ j \in Taken(new[n]) => /\ j \in Taken(tree[n])
                                        /\ new[n].keys[j] = tree[n].keys[j]
                                        /\ new[n].paths[j] = tree[n].paths[j]
                                        /\ new[n].contents[j] = tree[n].contents[j]
              /\ j \in Taken(tree[n]) /\ j \notin Taken(new[n]) => tree[n].keys[j] = key
              /\ j \in Taken(tree[n]) /\ n \in WalkOf(k, p) /\ F # {} /\ n[1] = e
                   /\ tree[n].keys[j] = key => j \notin Taken(new[n])
  <2>1. CASE n \in WalkOf(k, p)
    <3>1. PICK d \in LevelsOf(k) : n = At(p, d)
      BY <2>1 DEF WalkOf
    <3>2. n[1] = d /\ d \in Depths /\ tree[n] = client[d] /\ new[n] = c[d]
      BY <1>5, <1>9, <2>1, <3>1
    <3> HIDE DEF new
    <3>. QED BY <1>6, <3>2
  <2>2. CASE n \notin WalkOf(k, p)
    <3>1. new[n] = tree[n]
      BY <2>2
    <3> HIDE DEF new
    <3>. QED BY <2>2, <3>1
  <2>. QED BY <2>1, <2>2
<1> HIDE DEF new
<1>12. ASSUME NEW i \in Nat, i # r PROVE Keeps(tree, new, k, i)
  <2>1. BlockKey(i) # key
    BY <1>12, KeysDiffer DEF key
  <2>2. SlotsOf(new, i) \subseteq SlotsOf(tree, i)
    BY <1>10, <1>11 DEF SlotsOf
  <2>3. SlotsOf(tree, i) \subseteq SlotsOf(new, i)
    <3> SUFFICES ASSUME NEW s \in SlotsOf(tree, i) PROVE s \in SlotsOf(new, i)
      OBVIOUS
    <3>1. /\ s \in NodesOf(k) \X Slots /\ s[1] \in NodesOf(k) /\ s[2] \in Slots
          /\ s[2] \in Taken(tree[s[1]]) /\ tree[s[1]].keys[s[2]] = BlockKey(i)
      BY <1>10 DEF SlotsOf
    <3>2. s[2] \in Taken(new[s[1]]) /\ new[s[1]].keys[s[2]] = BlockKey(i)
      BY <1>11, <2>1, <3>1
    <3>. QED BY <1>10, <3>1, <3>2 DEF SlotsOf
  <2>4. \A s \in SlotsOf(tree, i) :
          LabelAt(new, s) = LabelAt(tree, s) /\ DataAt(new, s) = DataAt(tree, s)
    <3> SUFFICES ASSUME NEW s \in SlotsOf(new, i)
                 PROVE  LabelAt(new, s) = LabelAt(tree, s) /\ DataAt(new, s) = DataAt(tree, s)
      BY <2>3
    <3>1. s[1] \in NodesOf(k) /\ s[2] \in Slots /\ s[2] \in Taken(new[s[1]])
      BY <1>10 DEF SlotsOf
    <3>. QED BY <1>11, <3>1 DEF LabelAt, DataAt
  <2>. QED BY <2>2, <2>3, <2>4, KeepsSame
<1>13. SlotsOf(new, r) \subseteq SlotsOf(tree, r)
  BY <1>10, <1>11 DEF SlotsOf
<1>14. ASSUME NEW d \in LevelsOf(k), NEW j \in Hits(client[d], key)
       PROVE  <<At(p, d), j>> \in SlotsOf(tree, r)
  <2>1. j \in Slots /\ j \in Taken(client[d]) /\ client[d].keys[j] = key
    BY DEF Hits, Taken
  <2>2. tree[At(p, d)] = client[d] /\ At(p, d) \in NodesOf(k)
    BY <1>8
  <2>. QED BY <1>10, <2>1, <2>2 DEF SlotsOf, key
<1>15. ASSUME Absent(tree, r), \A d \in Depths \ LevelsOf(k) : Taken(client[d]) = {}
       PROVE  x = ZeroBlock
  <2>1. ASSUME NEW d \in Depths PROVE Hits(client[d], key) = {}
    <3>1. CASE d \in LevelsOf(k)
      BY <1>14, <1>15, <3>1 DEF Absent
    <3>2. CASE d \notin LevelsOf(k)
      <4>1. Taken(client[d]) = {}
        BY <1>15, <3>2
      <4>. QED BY <4>1 DEF Hits, Taken
    <3>. QED BY <3>1, <3>2
  <2>. QED BY <1>2, <2>1
<1>16. ASSUME NEW y, Lies(tree, k, r, p, y) PROVE Absent(new, r) /\ x = y
  <2>1. PICK s \in NodesOf(k) \X Slots :
          /\ SlotsOf(tree, r) = {s}
          /\ DataAt(tree, s) = y
          /\ s[1] \in WalkOf(k, p)
    BY <1>10, <1>16 DEF Lies
  <2>2. PICK d \in LevelsOf(k) : s[1] = At(p, d)
    BY <2>1 DEF WalkOf
  <2>3. /\ s[1] \in NodesOf(k) /\ s[2] \in Slots /\ s = <<s[1], s[2]>>
        /\ s[2] \in Taken(tree[s[1]]) /\ tree[s[1]].keys[s[2]] = key
    BY <2>1 DEF SlotsOf, key
  <2>4. tree[s[1]] = client[d] /\ d \in Depths /\ d \in Nat
    BY <1>5, <2>2 DEF LevelsOf
  <2>5. s[2] \in Hits(client[d], key)
    BY <2>3, <2>4 DEF Hits, Taken
  <2>6. d \in F
    BY <2>4, <2>5
  <2>7. e \in F /\ e =< d
    BY <1>4, <2>6
  <2>8. e \in LevelsOf(k)
    BY <2>2, <2>7, LevelsAbove DEF Depths
  <2>9. ASSUME NEW j \in Hits(client[e], key) PROVE e = d /\ j = s[2]
    <3>1. <<At(p, e), j>> = s
      BY <1>14, <2>1, <2>8
    <3>. QED BY <1>9, <2>2, <3>1
  <2>10. e = d /\ Hits(client[d], key) = {s[2]}
    <3>1. PICK j : j \in Hits(client[e], key)
      BY <2>7
    <3>2. e = d
      BY <2>9, <3>1
    <3>. QED BY <2>5, <2>9, <3>2
  <2>11. x = y
    <3>1. Max(Hits(client[d], key)) = s[2]
      <4>1. Hits(client[d], key) \in SUBSET (0 .. BlocksPerNode - 1) /\ BlocksPerNode - 1 \in Nat
        BY NodeAssumption DEF Hits, Slots
      <4>2. Max(Hits(client[d], key)) \in Hits(client[d], key)
        BY <2>5, <4>1, MaxOf
      <4>. QED BY <2>10, <4>2
    <3>2. x = client[d].contents[s[2]]
      BY <1>3, <2>6, <2>10, <3>1 DEF ReadContent
    <3>. QED BY <2>1, <2>4, <3>2 DEF DataAt
  <2>12. s \notin SlotsOf(new, r)
    <3>1. s[2] \notin Taken(new[s[1]])
      <4>1. s[1][1] = e /\ F # {}
        BY <1>9, <2>2, <2>6, <2>10
      <4> HIDE DEF F
      <4>. QED BY <1>11, <2>1, <2>3, <4>1
    <3>. QED BY <3>1 DEF SlotsOf
  <2>. QED BY <1>13, <2>1, <2>11, <2>12 DEF Absent
<1>. QED BY <1>7, <1>12, <1>13, <1>15, <1>16 DEF new, c, x, key, Absent

\* The flush: down the path, as FlushMoves says.
LEMMA FlushEffect ==
  ASSUME NEW k \in Nat, acc[k].path \in Labels, client \in NodeArrays,
         NEW tree \in [NodesOf(k) -> SoundNode],
         \A d \in LevelsOf(k) : client[d] = tree[At(acc[k].path, d)],
         NEW i \in Nat
  PROVE  LET new == [n \in NodesOf(k) |-> IF n \in WalkOf(k, acc[k].path)
                                          THEN S(k)!Flushed[n[1]] ELSE tree[n]]
         IN  Keeps(tree, new, k, i)
<1> DEFINE p == acc[k].path
           c == S(k)!Flushed
           new == [n \in NodesOf(k) |-> IF n \in WalkOf(k, p) THEN c[n[1]] ELSE tree[n]]
<1>1. p \in Nat /\ p \in Paths \cup {0} /\ LevelsOf(k) \subseteq Depths
  BY ContentTyping, HeightsFit DEF Labels
<1>2. c \in NodeArrays /\ \E f : SunkTo(k, client, c, f)
  BY <1>1, FlushMoves
<1>3. PICK f : SunkTo(k, client, c, f)
  BY <1>2
<1>4. /\ \A d \in LevelsOf(k) : At(p, d) \in WalkOf(k, p) /\ At(p, d) \in NodesOf(k)
      /\ \A d : At(p, d)[1] = d
      /\ DOMAIN tree = NodesOf(k) /\ DOMAIN new = NodesOf(k)
  BY <1>1, WalksInTree DEF At
<1> HIDE DEF c
<1>5. \A d \in LevelsOf(k) : new[At(p, d)] = c[d]
  BY <1>4
<1>6. \A n \in NodesOf(k) : n \notin WalkOf(k, p) => new[n] = tree[n]
  OBVIOUS
<1> HIDE DEF new, p
<1> DEFINE Sunk(s) == f[<<s[1][1], s[2]>>]
           OnWalk(s) == s[1] \in WalkOf(k, p)
           g == [s \in SlotsOf(tree, i) |->
                   IF OnWalk(s) THEN <<At(p, Sunk(s)[1]), Sunk(s)[2]>> ELSE s]
<1>7. ASSUME NEW s \in SlotsOf(tree, i), OnWalk(s)
      PROVE  /\ s[1] = At(p, s[1][1]) /\ s[1][1] \in LevelsOf(k)
             /\ <<s[1][1], s[2]>> \in InSlots(client)
             /\ Sunk(s) \in InSlots(c) /\ Sunk(s)[1] \in LevelsOf(k)
             /\ Copy(c, Sunk(s)) = <<BlockKey(i), LabelAt(tree, s), DataAt(tree, s)>>
             /\ Deeper(k, LabelAt(tree, s), s[1][1], Sunk(s)[1])
  <2>1. PICK d \in LevelsOf(k) : s[1] = At(p, d)
    BY <1>7 DEF WalkOf
  <2>2. d = s[1][1] /\ d \in Depths /\ tree[s[1]] = client[d]
    BY <1>1, <1>4, <2>1 DEF p
  <2>3. s[2] \in Slots /\ s[2] \in Taken(client[d]) /\ client[d].keys[s[2]] = BlockKey(i)
    BY <2>2 DEF SlotsOf
  <2> DEFINE t == <<d, s[2]>>
  <2>4. t \in InSlots(client) /\ t[1] = d /\ t[2] = s[2]
    BY <2>2, <2>3 DEF InSlots
  <2>5. /\ f[t] \in InSlots(c)
        /\ Copy(c, f[t]) = Copy(client, t)
        /\ Deeper(k, client[d].paths[s[2]], d, f[t][1])
    <3> HIDE DEF t
    <3>. QED BY <1>3, <2>4 DEF SunkTo
  <2>6. Copy(client, t) = <<BlockKey(i), LabelAt(tree, s), DataAt(tree, s)>>
    BY <2>2, <2>3 DEF Copy, LabelAt, DataAt
  <2>7. client[d].paths[s[2]] = LabelAt(tree, s)
    BY <2>2 DEF LabelAt
  <2>8. f[t][1] \in LevelsOf(k)
    BY <2>5 DEF Deeper
  <2>9. Sunk(s) = f[t]
    BY <2>2
  <2> HIDE DEF t
  <2>. QED BY <2>1, <2>2, <2>4, <2>5, <2>6, <2>7, <2>8, <2>9 DEF t
<1>8. ASSUME NEW d \in LevelsOf(k), NEW l \in Taken(c[d]), c[d].keys[l] = BlockKey(i)
      PROVE  <<At(p, d), l>> \in SlotsOf(new, i)
  <2>1. l \in Slots
    BY DEF Taken
  <2>. QED BY <1>4, <1>5, <1>8, <2>1 DEF SlotsOf
<1>9. ASSUME NEW s \in SlotsOf(tree, i)
      PROVE  /\ g[s] \in SlotsOf(new, i)
             /\ LabelAt(new, g[s]) = LabelAt(tree, s)
             /\ DataAt(new, g[s]) = DataAt(tree, s)
             /\ s[1] \in WalkOf(k, LabelAt(tree, s)) => g[s][1] \in WalkOf(k, LabelAt(tree, s))
  <2>1. CASE OnWalk(s)
    <3> DEFINE d == Sunk(s)[1]
               l == Sunk(s)[2]
               label == LabelAt(tree, s)
    <3>1. /\ d \in LevelsOf(k) /\ l \in Taken(c[d])
          /\ c[d].keys[l] = BlockKey(i) /\ c[d].paths[l] = label
          /\ c[d].contents[l] = DataAt(tree, s)
          /\ Deeper(k, label, s[1][1], d)
          /\ s[1] = At(p, s[1][1])
      BY <1>7, <2>1 DEF InSlots, Copy
    <3>2. g[s] = <<At(p, d), l>>
      BY <2>1
    <3> HIDE DEF d, l, label, g, OnWalk, Sunk
    <3>3. g[s][1] = At(p, d) /\ g[s][2] = l /\ new[At(p, d)] = c[d]
      BY <1>5, <3>1, <3>2
    <3>4. g[s] \in SlotsOf(new, i)
      BY <1>8, <3>1, <3>2
    <3>5. LabelAt(new, g[s]) = label /\ DataAt(new, g[s]) = DataAt(tree, s)
      BY <3>1, <3>3 DEF LabelAt, DataAt
    <3>6. ASSUME s[1] \in WalkOf(k, label) PROVE g[s][1] \in WalkOf(k, label)
      <4>1. PICK b \in LevelsOf(k) : s[1] = At(label, b)
        BY <3>6 DEF WalkOf
      <4>2. b = s[1][1]
        BY <4>1 DEF At
      <4>3. At(label, d) = At(p, d)
        BY <3>1, <4>1, <4>2 DEF Deeper, p
      <4>. QED BY <3>1, <3>3, <4>3 DEF WalkOf
    <3>. QED BY <3>4, <3>5, <3>6 DEF label
  <2>2. CASE ~ OnWalk(s)
    <3>1. g[s] = s /\ s[1] \in NodesOf(k)
      BY <1>4, <2>2 DEF SlotsOf
    <3>2. new[s[1]] = tree[s[1]]
      BY <1>6, <2>2, <3>1
    <3> HIDE DEF g, OnWalk
    <3>. QED BY <1>4, <3>1, <3>2 DEF SlotsOf, LabelAt, DataAt
  <2>. QED BY <2>1, <2>2
<1>10. ASSUME NEW u \in SlotsOf(new, i) PROVE \E s \in SlotsOf(tree, i) : u = g[s]
  <2>1. /\ u \in NodesOf(k) \X Slots /\ u = <<u[1], u[2]>> /\ u[1] \in NodesOf(k)
        /\ u[2] \in Taken(new[u[1]]) /\ new[u[1]].keys[u[2]] = BlockKey(i)
    BY <1>4 DEF SlotsOf
  <2>2. CASE OnWalk(u)
    <3>1. PICK d \in LevelsOf(k) : u[1] = At(p, d)
      BY <2>2 DEF WalkOf
    <3>2. new[u[1]] = c[d] /\ d \in Depths
      BY <1>1, <1>5, <3>1
    <3> DEFINE t == <<d, u[2]>>
    <3>3. t \in InSlots(c) /\ t[1] = d /\ t[2] = u[2]
      BY <2>1, <3>2 DEF InSlots
    <3> HIDE DEF t
    <3>4. PICK b \in InSlots(client) : f[b] = t
      BY <1>3, <3>3 DEF SunkTo
    <3>5. /\ Copy(c, t) = Copy(client, b)
          /\ Deeper(k, client[b[1]].paths[b[2]], b[1], d)
      BY <1>3, <3>3, <3>4 DEF SunkTo
    <3>6. /\ b = <<b[1], b[2]>> /\ b[1] \in Depths /\ b[2] \in Slots
          /\ b[2] \in Taken(client[b[1]])
      BY DEF InSlots
    <3>7. b[1] \in LevelsOf(k)
      BY <3>1, <3>5, <3>6, LevelsAbove DEF Deeper, Depths
    <3>8. client[b[1]].keys[b[2]] = BlockKey(i)
      BY <2>1, <3>2, <3>3, <3>5 DEF Copy
    <3> DEFINE s == <<At(p, b[1]), b[2]>>
    <3>9. s[1] = At(p, b[1]) /\ s[2] = b[2] /\ s[1][1] = b[1]
      BY <1>4
    <3>10. tree[At(p, b[1])] = client[b[1]] /\ At(p, b[1]) \in NodesOf(k)
           /\ At(p, b[1]) \in WalkOf(k, p)
      BY <1>4, <3>7 DEF p
    <3>11. s \in SlotsOf(tree, i)
      BY <1>4, <3>6, <3>8, <3>10 DEF SlotsOf
    <3>12. OnWalk(s) /\ Sunk(s) = t
      BY <3>4, <3>6, <3>9, <3>10
    <3> HIDE DEF s
    <3>13. g[s] = <<At(p, t[1]), t[2]>>
      BY <3>11, <3>12
    <3>. QED BY <2>1, <3>1, <3>3, <3>11, <3>13
  <2>3. CASE ~ OnWalk(u)
    <3>1. new[u[1]] = tree[u[1]]
      BY <1>6, <2>1, <2>3
    <3>2. u \in SlotsOf(tree, i)
      BY <1>4, <2>1, <3>1 DEF SlotsOf
    <3>. QED BY <2>3, <3>2
  <2>. QED BY <2>2, <2>3
<1> HIDE DEF g
<1>11. Keeps(tree, new, k, i)
  BY <1>9, <1>10, KeepsBy
<1>. QED BY <1>11 DEF new, c, p
-----------------------------------------------------------------------------
(***************************************************************************)
(* A tree with the path an access has changed and not yet written back;    *)
(* the block an access has taken out; the label the tree below, or the     *)
(* position map, has for a block; and the label the block is found under,  *)
(* which for the block an access is about is the old one, from when the    *)
(* tree below has the new one to the fetch.                                *)
(***************************************************************************)
Ahead(k) == acc[k].pc \in {"update", "flushup"}
ViewOf(k) ==
  [n \in NodesOf(k) |-> IF Ahead(k) /\ n \in WalkOf(k, acc[k].path)
                        THEN client[n[1]] ELSE buckets[k][n]]

InHand(k, i) == acc[k].pc \in {"update", "put"} /\ i = acc[k].req.ind
ContentOf(k, i) == IF InHand(k, i) THEN acc[k].fetched ELSE DataIn(ViewOf(k), i)

Below(i) == MapInd(i, WordsPerBlock)
LabelNow(k, i) ==
  IF MapInEnclave(k) THEN posmap[i] ELSE ContentOf(k + 1, Below(i))[MapWord(i)]

\* The tree below has stored the new label.
Stores == {"put", "flushdown", "flush", "flushup", "answered"}
Swapping(k) == acc[k].pc = "wait" /\ acc[k + 1].pc \in Stores

Walking(k, i) == acc[k].pc \in {"download", "fetch"} /\ i = acc[k].req.ind
Expected(k, i) ==
  IF Walking(k, i) THEN acc[k].path
  ELSE IF Swapping(k) /\ i = acc[k].req.ind THEN OldLabel(k)
  ELSE LabelNow(k, i)

\* Block i of tree k is nowhere, or where the next access looks for it.
Findable(k, i) ==
  \/ Absent(ViewOf(k), i)
  \/ /\ Expected(k, i) \in Paths
     /\ \E x : Lies(ViewOf(k), k, i, Expected(k, i), x)
BlocksFindable(k) == \A i \in IndsAt[k] : Findable(k, i)

\* What an access of tree k has in hand, and has asked of the tree below.
HandInv(k) ==
  /\ acc[k].pc \in {"update", "put"} => Absent(ViewOf(k), acc[k].req.ind)
  /\ acc[k].pc \in {"map", "wait", "download", "fetch", "update", "put"} =>
       acc[k].newPath \in Paths
  /\ acc[k].pc \in {"map", "wait"} => acc[k].path = acc[k].newPath
  /\ acc[k].pc = "wait" =>
       /\ acc[k + 1].req.ind = Below(acc[k].req.ind)
       /\ acc[k + 1].req.ws = {MapWord(acc[k].req.ind)}
       /\ ~ Swapping(k) => OldLabel(k) = acc[k].newPath
  /\ acc[k].pc \in {"download", "fetch", "update", "put"} \/ Swapping(k) =>
       LabelNow(k, acc[k].req.ind) = acc[k].newPath

\* The path downloaded is that of the tree.
PathInv(k) ==
  acc[k].pc \in {"fetch", "flush"} =>
    \A d \in LevelsOf(k) : client[d] = buckets[k][At(acc[k].path, d)]

\* Below the levels of the highest tree, client->path stays empty.
EmptyBelow == \A d \in Depths \ LevelsOf(0) : Taken(client[d]) = {}

IInv ==
  /\ TypeInv
  /\ \A k \in Trees : BlocksFindable(k)
  /\ \A k \in Trees : HandInv(k)
  /\ \A k \in Trees : PathInv(k)
  /\ EmptyBelow

\* No two ids in use are neighbours where the labels are in the position map.
NoNeighbours ==
  \A k \in Trees : MapInEnclave(k) => \A i \in IndsAt[k] : i + 1 \notin IndsAt[k]

LEMMA ViewTyping ==
  ASSUME TypeInv, NEW k \in Trees
  PROVE  /\ ViewOf(k) \in [NodesOf(k) -> SoundNode]
         /\ ~ Ahead(k) => ViewOf(k) = buckets[k]
<1>1. k \in Nat /\ client \in NodeArrays /\ buckets[k] \in [NodesOf(k) -> SoundNode]
  BY TreesDescend DEF TypeInv
<1>2. ~ Ahead(k) => ViewOf(k) = buckets[k]
  BY <1>1 DEF ViewOf
<1>3. \A n \in WalkOf(k, acc[k].path) : client[n[1]] \in SoundNode
  <2> SUFFICES ASSUME NEW d \in LevelsOf(k) PROVE client[At(acc[k].path, d)[1]] \in SoundNode
    BY DEF WalkOf
  <2>1. d \in Depths
    BY <1>1, HeightsFit
  <2>. QED BY <1>1, <2>1 DEF NodeArrays, At
<1>. QED BY <1>1, <1>2, <1>3 DEF ViewOf

\* Where nothing is ahead of the tree, the bucket decides.
LEMMA ViewRests ==
  ASSUME TypeInv, TypeInv', NEW k \in Trees, ~ Ahead(k), ~ Ahead(k)', buckets'[k] = buckets[k]
  PROVE  ViewOf(k)' = ViewOf(k)
<1>1. /\ buckets[k] \in [NodesOf(k) -> SoundNode]
      /\ buckets'[k] \in [NodesOf(k) -> SoundNode]
  BY DEF TypeInv
<1>. QED BY <1>1 DEF ViewOf

LEMMA IndsTyping ==
  ASSUME NEW k \in Trees, NEW i \in IndsAt[k]
  PROVE  /\ i \in Nat
         /\ ~ MapInEnclave(k) => /\ k + 1 \in Trees /\ k + 1 # k /\ k \in Nat
                                 /\ Below(i) \in IndsAt[k + 1] /\ MapWord(i) \in Words
<1>1. i \in Nat /\ k \in Nat
  <2>1. i \in 0 .. CapacityAt[k] - 1
    BY IndsFit
  <2>. QED BY <2>1, TreesDescend
<1>2. ASSUME ~ MapInEnclave(k)
      PROVE  /\ k + 1 \in Trees /\ k + 1 # k
             /\ Below(i) \in IndsAt[k + 1] /\ MapWord(i) \in Words
  <2>1. k + 1 \in Trees
    BY <1>2, TreesDescend
  <2>2. Below(i) \in IndsAt[k + 1]
    BY <2>1, IndsFit DEF Below, MapInds
  <2>3. MapWord(i) \in Words
    BY <1>1, DataAssumption, Division DEF MapWord, Words
  <2>. QED BY <1>1, <2>1, <2>2, <2>3
<1>. QED BY <1>1, <1>2

\* Two blocks do not share a word of the blocks of labels.
LEMMA WordsDiffer ==
  ASSUME NEW i \in Nat, NEW j \in Nat, Below(i) = Below(j), MapWord(i) = MapWord(j)
  PROVE  i = j
<1> DEFINE w == WordsPerBlock
<1>1. w \in Nat \ {0}
  BY DataAssumption
<1> HIDE DEF w
<1>2. i = w * (i \div w) + (i % w) /\ j = w * (j \div w) + (j % w)
  BY <1>1, Division
<1>3. i \div w = j \div w /\ i % w = j % w
  BY DEF Below, MapInd, MapWord, w
<1>. QED BY <1>2, <1>3

\* What the tree below holds for a block stays when the block of labels does.
LEMMA LabelRests ==
  ASSUME NEW k \in Trees, NEW i \in IndsAt[k], posmap' = posmap,
         ~ MapInEnclave(k) => ContentOf(k + 1, Below(i))' = ContentOf(k + 1, Below(i))
  PROVE  LabelNow(k, i)' = LabelNow(k, i)
BY DEF LabelNow

\* A tree whose own access rests, and whose labels stay.
LEMMA TreeRests ==
  ASSUME IInv, NEW k \in Trees, acc'[k] = acc[k], ViewOf(k)' = ViewOf(k),
         acc[k].req.ind \in IndsAt[k],
         \A i \in IndsAt[k] : LabelNow(k, i)' = LabelNow(k, i),
         acc[k].pc = "wait" => /\ acc'[k + 1].req = acc[k + 1].req
                               /\ Swapping(k)' <=> Swapping(k)
  PROVE  BlocksFindable(k)' /\ HandInv(k)'
<1>1. acc[k].pc = "wait" => OldLabel(k)' = OldLabel(k)
  BY DEF OldLabel
<1>2. Swapping(k)' <=> Swapping(k)
  BY DEF Swapping
<1>3. Swapping(k) => acc[k].pc = "wait"
  BY DEF Swapping
<1>4. \A i \in IndsAt[k] : Expected(k, i)' = Expected(k, i)
  BY <1>1, <1>2, <1>3 DEF Expected, Walking
<1>5. BlocksFindable(k)'
  <2> SUFFICES ASSUME NEW i \in IndsAt[k] PROVE Findable(k, i)'
    BY DEF BlocksFindable
  <2>1. Findable(k, i)
    BY DEF IInv, BlocksFindable
  <2>2. Expected(k, i)' = Expected(k, i)
    BY <1>4
  <2>. QED BY <2>1, <2>2 DEF Findable
<1>6. HandInv(k)'
  <2>1. HandInv(k)
    BY DEF IInv
  <2>2. LabelNow(k, acc[k].req.ind)' = LabelNow(k, acc[k].req.ind)
    OBVIOUS
  <2> HIDE DEF LabelNow
  <2>. QED BY <1>1, <1>2, <2>1, <2>2 DEF HandInv
<1>. QED BY <1>5, <1>6
\* While tree m is worked on, the other trees and the labels they hold stay.
LEMMA OthersStay ==
  ASSUME IInv, TypeInv', NEW m \in Trees, acc[m].pc \in Working, posmap' = posmap,
         \A j \in Trees : j # m => acc'[j] = acc[j] /\ buckets'[j] = buckets[j]
  PROVE  /\ \A j \in Trees : j # m =>
              /\ acc[j].pc \in {"wait", "idle"}
              /\ ViewOf(j)' = ViewOf(j)
              /\ \A b : ContentOf(j, b)' = ContentOf(j, b)
         /\ \A j \in Trees : j + 1 # m =>
              \A i \in IndsAt[j] : LabelNow(j, i)' = LabelNow(j, i)
         /\ \A j \in Trees : j # m /\ j + 1 # m => BlocksFindable(j)' /\ HandInv(j)'
         /\ \A j \in Trees : j # m => PathInv(j)'
<1>1. TypeInv /\ AccInv
  BY DEF IInv, TypeInv
<1>2. ASSUME NEW j \in Trees, j # m
      PROVE  /\ acc[j].pc \in {"wait", "idle"}
             /\ ViewOf(j)' = ViewOf(j)
             /\ \A b : ContentOf(j, b)' = ContentOf(j, b)
             /\ PathInv(j)'
  <2>1. acc[j].pc \in {"wait", "idle"}
    BY <1>1, <1>2, OthersRest DEF Working
  <2>2. acc'[j] = acc[j] /\ buckets'[j] = buckets[j]
    BY <1>2
  <2>3. ViewOf(j)' = ViewOf(j)
    BY <1>1, <2>1, <2>2, ViewRests DEF Ahead
  <2>4. \A b : ContentOf(j, b)' = ContentOf(j, b)
    BY <2>2, <2>3 DEF ContentOf, InHand
  <2>5. PathInv(j)'
    BY <2>1, <2>2 DEF PathInv
  <2>. QED BY <2>1, <2>3, <2>4, <2>5
<1>3. ASSUME NEW j \in Trees, j + 1 # m, NEW i \in IndsAt[j]
      PROVE  LabelNow(j, i)' = LabelNow(j, i)
  <2>1. ~ MapInEnclave(j) => ContentOf(j + 1, Below(i))' = ContentOf(j + 1, Below(i))
    BY <1>2, <1>3, IndsTyping
  <2>. QED BY <2>1, LabelRests
<1>4. ASSUME NEW j \in Trees, j # m, j + 1 # m PROVE BlocksFindable(j)' /\ HandInv(j)'
  <2>1. acc'[j] = acc[j] /\ ViewOf(j)' = ViewOf(j) /\ acc[j].req.ind \in IndsAt[j]
    BY <1>1, <1>2, <1>4 DEF AccInv, AccessOf, RequestOf
  <2>2. \A i \in IndsAt[j] : LabelNow(j, i)' = LabelNow(j, i)
    BY <1>3, <1>4
  <2>3. acc[j].pc = "wait" => acc'[j + 1] = acc[j + 1]
    <3>1. acc[j].pc = "wait" => j + 1 \in Trees
      BY <1>1, TreesDescend DEF AccInv
    <3>. QED BY <1>4, <3>1
  <2>4. acc[j].pc = "wait" => Swapping(j)' <=> Swapping(j)
    BY <2>1, <2>3 DEF Swapping
  <2>. QED BY <2>1, <2>2, <2>3, <2>4, TreeRests
<1>. QED BY <1>2, <1>3, <1>4

\* The tree above rests too when the blocks of labels keep their contents.
LEMMA AboveStays ==
  ASSUME IInv, TypeInv', NEW m \in Trees, acc[m].pc \in Working, posmap' = posmap,
         \A j \in Trees : j # m => acc'[j] = acc[j] /\ buckets'[j] = buckets[j],
         acc'[m].req = acc[m].req,
         acc'[m].pc \in Stores <=> acc[m].pc \in Stores,
         \A b \in IndsAt[m] : ContentOf(m, b)' = ContentOf(m, b)
  PROVE  \A j \in Trees : j # m => BlocksFindable(j)' /\ HandInv(j)' /\ PathInv(j)'
<1>1. TypeInv /\ AccInv
  BY DEF IInv, TypeInv
<1>2. ASSUME NEW j \in Trees, j + 1 = m PROVE BlocksFindable(j)' /\ HandInv(j)'
  <2>1. j # m
    BY <1>2, TreesDescend
  <2>2. acc'[j] = acc[j] /\ ViewOf(j)' = ViewOf(j) /\ acc[j].req.ind \in IndsAt[j]
    BY <1>1, <2>1, OthersStay DEF AccInv, AccessOf, RequestOf
  <2>3. ASSUME NEW i \in IndsAt[j] PROVE LabelNow(j, i)' = LabelNow(j, i)
    <3>1. ~ MapInEnclave(j) => ContentOf(j + 1, Below(i))' = ContentOf(j + 1, Below(i))
      BY <1>2, IndsTyping
    <3>. QED BY <3>1, LabelRests
  <2>4. Swapping(j)' <=> Swapping(j)
    BY <1>2, <2>2 DEF Swapping
  <2>. QED BY <1>2, <2>2, <2>3, <2>4, TreeRests
<1>. QED BY <1>2, OthersStay

\* A block that a step keeps is as findable as before, with the same content.
LEMMA KeptFindable ==
  ASSUME NEW k, NEW i, Findable(k, i), Keeps(ViewOf(k), ViewOf(k)', k, i),
         Expected(k, i)' = Expected(k, i)
  PROVE  Findable(k, i)' /\ DataIn(ViewOf(k), i)' = DataIn(ViewOf(k), i)
<1>1. CASE Absent(ViewOf(k), i)
  <2>1. Absent(ViewOf(k)', i)
    BY <1>1 DEF Keeps
  <2>2. DataIn(ViewOf(k), i) = ZeroBlock /\ DataIn(ViewOf(k)', i) = ZeroBlock
    BY <1>1, <2>1, DataWhere
  <2>. QED BY <2>1, <2>2 DEF Findable
<1>2. CASE ~ Absent(ViewOf(k), i)
  <2>1. PICK x : Expected(k, i) \in Paths /\ Lies(ViewOf(k), k, i, Expected(k, i), x)
    BY <1>2 DEF Findable
  <2>2. Lies(ViewOf(k)', k, i, Expected(k, i), x)
    BY <2>1 DEF Keeps
  <2>3. DataIn(ViewOf(k), i) = x /\ DataIn(ViewOf(k)', i) = x
    BY <2>1, <2>2, DataWhere
  <2>. QED BY <2>1, <2>2, <2>3 DEF Findable
<1>. QED BY <1>1, <1>2

\* The invariant from its parts, when tree m has been worked on.
LEMMA FromParts ==
  ASSUME TypeInv', NEW m \in Trees,
         \A j \in Trees : j # m => BlocksFindable(j)' /\ HandInv(j)' /\ PathInv(j)',
         BlocksFindable(m)', HandInv(m)', PathInv(m)', EmptyBelow'
  PROVE  IInv'
BY DEF IInv

\* Below the highest tree's levels is below those of any tree.
LEMMA BelowAll ==
  ASSUME NEW k \in Trees
  PROVE  /\ LevelsOf(k) \subseteq Depths
         /\ Depths \ LevelsOf(0) \subseteq Depths \ LevelsOf(k)
<1>1. k \in Nat
  BY TreesDescend
<1>2. /\ HeightOf(k) \in Nat /\ HeightOf(0) \in Nat /\ HeightOf(k) =< HeightOf(0)
      /\ LevelsOf(k) \subseteq Depths
  BY <1>1, HeightsFit
<1>3. LevelsOf(k) \subseteq LevelsOf(0)
  BY <1>2 DEF LevelsOf
<1>. QED BY <1>2, <1>3
\* What the steps of a tree leave alone, and what they need to know.
LEMMA StepFacts ==
  ASSUME IInv, NEW m \in Trees,
         \/ DownloadPath(m) \/ ObliviousFetch(m) \/ UpdatePath(m)
         \/ PutToRoot(m) \/ Flush(m) \/ UpdateFlushed(m)
  PROVE  /\ TypeInv' /\ posmap' = posmap /\ acc[m].pc \in Working
         /\ \A j \in Trees : j # m => acc'[j] = acc[j] /\ buckets'[j] = buckets[j]
         /\ m \in Nat /\ acc[m] \in AccessOf(m)
         /\ acc[m].req.ind \in IndsAt[m] /\ acc[m].req.ind \in Nat
         /\ \A i \in IndsAt[m] : i \in Nat /\ LabelNow(m, i)' = LabelNow(m, i)
         /\ ~ Swapping(m)
<1>1. TypeInv /\ AccInv
  BY DEF IInv, TypeInv
<1>2. TypeInv' /\ acc[m].pc \in Working /\ \A j \in Trees : j # m => acc'[j] = acc[j]
  BY <1>1, TreeStepTyping
<1>3. posmap' = posmap /\ \A j \in Trees : j # m => buckets'[j] = buckets[j]
  BY <1>1 DEF DownloadPath, ObliviousFetch, UpdatePath, PutToRoot, Flush, UpdateFlushed, TypeInv
<1>4. m \in Nat /\ acc[m] \in AccessOf(m) /\ acc[m].req.ind \in IndsAt[m]
  BY <1>1, TreesDescend DEF AccInv, AccessOf, RequestOf
<1>5. \A i \in IndsAt[m] : i \in Nat
  BY IndsTyping
<1>6. \A i \in IndsAt[m] : LabelNow(m, i)' = LabelNow(m, i)
  <2>1. m + 1 # m
    BY <1>4
  <2>. QED BY <1>2, <1>3, <2>1, OthersStay
<1>7. ~ Swapping(m)
  BY <1>2 DEF Swapping, Working
<1>. QED BY <1>2, <1>3, <1>4, <1>5, <1>6, <1>7

LEMMA DownloadKeeps ==
  ASSUME IInv, NEW m \in Trees, DownloadPath(m)
  PROVE  IInv' /\ \A b \in IndsAt[m] : ContentOf(m, b)' = ContentOf(m, b)
<1>1. /\ TypeInv' /\ posmap' = posmap /\ acc[m].pc \in Working
      /\ \A j \in Trees : j # m => acc'[j] = acc[j] /\ buckets'[j] = buckets[j]
      /\ m \in Nat /\ acc[m].req.ind \in IndsAt[m]
      /\ \A i \in IndsAt[m] : LabelNow(m, i)' = LabelNow(m, i)
      /\ ~ Swapping(m)
  BY StepFacts
<1>2. TypeInv /\ AccInv /\ BlocksFindable(m) /\ HandInv(m) /\ EmptyBelow
  BY DEF IInv, TypeInv
<1>3. /\ acc[m].pc \in {"download", "flushdown"}
      /\ acc'[m] = [acc[m] EXCEPT !.pc = IF acc[m].pc = "download" THEN "fetch" ELSE "flush"]
      /\ client' = S(m)!WithPath /\ buckets' = buckets
  BY <1>2 DEF DownloadPath, Goes, AccInv
<1>4. /\ acc'[m].pc = IF acc[m].pc = "download" THEN "fetch" ELSE "flush"
      /\ acc'[m].req = acc[m].req /\ acc'[m].path = acc[m].path
      /\ acc'[m].newPath = acc[m].newPath
  BY <1>1, <1>2, <1>3, StepFacts DEF AccessOf
<1>5. ViewOf(m)' = ViewOf(m)
  BY <1>1, <1>2, <1>3, <1>4, ViewRests DEF Ahead
<1>6. \A b : ContentOf(m, b)' = ContentOf(m, b)
  BY <1>3, <1>4, <1>5 DEF ContentOf, InHand
<1>7. \A j \in Trees : j # m => BlocksFindable(j)' /\ HandInv(j)' /\ PathInv(j)'
  <2>1. acc'[m].pc \in Stores <=> acc[m].pc \in Stores
    BY <1>3, <1>4 DEF Stores
  <2>. QED BY <1>1, <1>4, <1>6, <2>1, AboveStays
<1>8. ~ Swapping(m)'
  BY <1>4 DEF Swapping
<1>9. BlocksFindable(m)'
  <2> SUFFICES ASSUME NEW i \in IndsAt[m] PROVE Findable(m, i)'
    BY DEF BlocksFindable
  <2>1. Expected(m, i)' = Expected(m, i)
    BY <1>1, <1>3, <1>4, <1>8 DEF Expected, Walking
  <2>2. Findable(m, i)
    BY <1>2 DEF BlocksFindable
  <2>. QED BY <1>5, <2>1, <2>2 DEF Findable
<1>10. HandInv(m)'
  <2>1. LabelNow(m, acc[m].req.ind)' = LabelNow(m, acc[m].req.ind)
    BY <1>1, <1>4
  <2> HIDE DEF LabelNow
  <2>. QED BY <1>2, <1>3, <1>4, <1>8, <2>1 DEF HandInv
<1>11. PathInv(m)' /\ EmptyBelow'
  <2>1. client' = [d \in Depths |-> IF d \in LevelsOf(m)
                     THEN buckets[m][At(acc[m].path, d)] ELSE client[d]]
    BY <1>2, <1>3, PathSound
  <2>2. LevelsOf(m) \subseteq Depths /\ Depths \ LevelsOf(0) \subseteq Depths \ LevelsOf(m)
    BY BelowAll
  <2>3. PathInv(m)'
    BY <1>3, <1>4, <2>1, <2>2 DEF PathInv
  <2>4. EmptyBelow'
    BY <1>2, <2>1, <2>2 DEF EmptyBelow
  <2>. QED BY <2>3, <2>4
<1>. QED BY <1>1, <1>6, <1>7, <1>9, <1>10, <1>11, FromParts

LEMMA UpdateFlushedKeeps ==
  ASSUME IInv, NEW m \in Trees, UpdateFlushed(m)
  PROVE  IInv' /\ \A b \in IndsAt[m] : ContentOf(m, b)' = ContentOf(m, b)
<1>1. /\ TypeInv' /\ posmap' = posmap /\ acc[m].pc \in Working
      /\ \A j \in Trees : j # m => acc'[j] = acc[j] /\ buckets'[j] = buckets[j]
      /\ m \in Nat /\ acc[m].req.ind \in IndsAt[m]
      /\ \A i \in IndsAt[m] : LabelNow(m, i)' = LabelNow(m, i)
      /\ ~ Swapping(m)
  BY StepFacts
<1>2. TypeInv /\ AccInv /\ BlocksFindable(m) /\ HandInv(m) /\ EmptyBelow
  BY DEF IInv, TypeInv
<1>3. /\ acc[m].pc = "flushup"
      /\ acc'[m] = Return(m)
      /\ buckets'[m] = S(m)!UpdatedPath /\ client' = client
  BY <1>2 DEF UpdateFlushed, AccInv, TypeInv
<1>4. acc'[m].pc \in {"idle", "answered"} /\ acc'[m].pc = Back(m) /\ acc'[m].req = acc[m].req
  BY <1>3 DEF Return, Access, Back
<1>5. ViewOf(m)' = ViewOf(m)
  <2>1. ViewOf(m) = S(m)!UpdatedPath
    BY <1>2, <1>3, PathSound DEF ViewOf, Ahead
  <2>2. ViewOf(m)' = buckets'[m]
    <3>1. buckets'[m] \in [NodesOf(m) -> SoundNode]
      BY <1>1 DEF TypeInv
    <3>. QED BY <1>4, <3>1 DEF ViewOf, Ahead
  <2>. QED BY <1>3, <2>1, <2>2
<1>6. \A b : ContentOf(m, b)' = ContentOf(m, b)
  BY <1>3, <1>4, <1>5 DEF ContentOf, InHand
<1>7. \A j \in Trees : j # m => BlocksFindable(j)' /\ HandInv(j)' /\ PathInv(j)'
  <2> DEFINE goes == acc'[m].pc \in Stores <=> acc[m].pc \in Stores
  <2>1. CASE m = 0
    <3>1. \A j \in Trees : j + 1 # m
      BY <2>1, TreesDescend
    <3>. QED BY <1>1, <3>1, OthersStay
  <2>2. CASE m # 0
    <3>1. goes
      BY <1>3, <1>4, <2>2 DEF Back, Stores
    <3>. QED BY <1>1, <1>4, <1>6, <3>1, AboveStays
  <2>. QED BY <2>1, <2>2
<1>8. ~ Swapping(m)'
  BY <1>4 DEF Swapping
<1>9. BlocksFindable(m)'
  <2> SUFFICES ASSUME NEW i \in IndsAt[m] PROVE Findable(m, i)'
    BY DEF BlocksFindable
  <2>1. Expected(m, i)' = Expected(m, i)
    BY <1>1, <1>3, <1>4, <1>8 DEF Expected, Walking
  <2>2. Findable(m, i)
    BY <1>2 DEF BlocksFindable
  <2>. QED BY <1>5, <2>1, <2>2 DEF Findable
<1>10. HandInv(m)' /\ PathInv(m)' /\ EmptyBelow'
  BY <1>2, <1>3, <1>4, <1>8 DEF HandInv, PathInv, EmptyBelow
<1>. QED BY <1>1, <1>6, <1>7, <1>9, <1>10, FromParts

LEMMA FlushKeeps ==
  ASSUME IInv, NEW m \in Trees, Flush(m)
  PROVE  IInv' /\ \A b \in IndsAt[m] : ContentOf(m, b)' = ContentOf(m, b)
<1>1. /\ TypeInv' /\ posmap' = posmap /\ acc[m].pc \in Working
      /\ \A j \in Trees : j # m => acc'[j] = acc[j] /\ buckets'[j] = buckets[j]
      /\ m \in Nat /\ acc[m] \in AccessOf(m) /\ acc[m].req.ind \in IndsAt[m]
      /\ \A i \in IndsAt[m] : i \in Nat /\ LabelNow(m, i)' = LabelNow(m, i)
      /\ ~ Swapping(m)
  BY StepFacts
<1>2. TypeInv /\ AccInv /\ BlocksFindable(m) /\ HandInv(m) /\ EmptyBelow /\ PathInv(m)
  BY DEF IInv, TypeInv
<1>3. /\ acc[m].pc = "flush"
      /\ acc'[m] = [acc[m] EXCEPT !.pc = "flushup"]
      /\ client' = S(m)!Flushed /\ buckets' = buckets
  BY <1>2 DEF Flush, Goes, AccInv
<1>4. /\ acc'[m].pc = "flushup"
      /\ acc'[m].req = acc[m].req /\ acc'[m].path = acc[m].path
  BY <1>1, <1>3 DEF AccessOf
<1>5. acc[m].path \in Labels /\ acc[m].path \in Nat /\ client \in NodeArrays
  BY <1>1, <1>2, ContentTyping DEF AccessOf, TypeInv
<1> DEFINE tree == buckets[m]
           new == [n \in NodesOf(m) |-> IF n \in WalkOf(m, acc[m].path)
                                        THEN S(m)!Flushed[n[1]] ELSE tree[n]]
<1>6. /\ tree \in [NodesOf(m) -> SoundNode]
      /\ \A d \in LevelsOf(m) : client[d] = tree[At(acc[m].path, d)]
  BY <1>2, <1>3 DEF TypeInv, PathInv
<1>7. ViewOf(m) = tree
  BY <1>2, <1>3, ViewTyping DEF Ahead
<1>8. ViewOf(m)' = new
  BY <1>3, <1>4 DEF ViewOf, Ahead
<1>9. \A i \in IndsAt[m] : Keeps(tree, new, m, i)
  <2> HIDE DEF tree
  <2>. QED BY <1>1, <1>5, <1>6, FlushEffect
<1> HIDE DEF new
<1>10. ~ Swapping(m)'
  BY <1>4 DEF Swapping
<1>11. ASSUME NEW i \in IndsAt[m]
       PROVE  Findable(m, i)' /\ ContentOf(m, i)' = ContentOf(m, i)
  <2>1. Expected(m, i)' = Expected(m, i)
    BY <1>1, <1>3, <1>4, <1>10 DEF Expected, Walking
  <2>2. Findable(m, i)
    BY <1>2 DEF BlocksFindable
  <2>3. Keeps(ViewOf(m), ViewOf(m)', m, i)
    BY <1>7, <1>8, <1>9
  <2>4. Findable(m, i)' /\ DataIn(ViewOf(m), i)' = DataIn(ViewOf(m), i)
    BY <2>1, <2>2, <2>3, KeptFindable
  <2>. QED BY <1>3, <1>4, <2>4 DEF ContentOf, InHand
<1>12. \A j \in Trees : j # m => BlocksFindable(j)' /\ HandInv(j)' /\ PathInv(j)'
  <2>1. acc'[m].pc \in Stores <=> acc[m].pc \in Stores
    BY <1>3, <1>4 DEF Stores
  <2>. QED BY <1>1, <1>4, <1>11, <2>1, AboveStays
<1>13. BlocksFindable(m)'
  BY <1>11 DEF BlocksFindable
<1>14. HandInv(m)' /\ PathInv(m)'
  BY <1>4, <1>10 DEF HandInv, PathInv
<1>15. EmptyBelow'
  <2>1. \A d \in Depths \ LevelsOf(m) : client'[d] = client[d]
    BY <1>1, <1>3, <1>5, FlushMoves DEF SunkTo
  <2>. QED BY <1>2, <2>1, BelowAll DEF EmptyBelow
<1>. QED BY <1>1, <1>11, <1>12, <1>13, <1>14, <1>15, FromParts

LEMMA PutKeeps ==
  ASSUME IInv, NEW m \in Trees, PutToRoot(m)
  PROVE  IInv' /\ \A b \in IndsAt[m] : ContentOf(m, b)' = ContentOf(m, b)
<1>1. /\ TypeInv' /\ posmap' = posmap /\ acc[m].pc \in Working
      /\ \A j \in Trees : j # m => acc'[j] = acc[j] /\ buckets'[j] = buckets[j]
      /\ m \in Nat /\ acc[m] \in AccessOf(m)
      /\ acc[m].req.ind \in IndsAt[m] /\ acc[m].req.ind \in Nat
      /\ \A i \in IndsAt[m] : i \in Nat /\ LabelNow(m, i)' = LabelNow(m, i)
      /\ ~ Swapping(m)
  BY StepFacts
<1>2. TypeInv /\ AccInv /\ BlocksFindable(m) /\ HandInv(m) /\ EmptyBelow
  BY DEF IInv, TypeInv
<1> DEFINE r == acc[m].req.ind
           tree == buckets[m]
           new == [tree EXCEPT ![Root] = RootWithBlock(m)]
<1>3. /\ acc[m].pc = "put" /\ RootHasRoom(m)
      /\ buckets' = [buckets EXCEPT ![m][Root] = RootWithBlock(m)]
      /\ client' = [client EXCEPT ![0] = RootWithBlock(m)]
      /\ acc'[m] = Return(m) \/ \E p \in Labels : acc'[m] = Access("flushdown", acc[m].req, p, 0)
  BY <1>2, SameNames DEF PutToRoot, Labels, AccInv
<1>4. /\ acc'[m].pc \in {"flushdown", "idle", "answered"} /\ acc'[m].pc \in {"flushdown", Back(m)}
      /\ acc'[m].req = acc[m].req
  <2>1. CASE acc'[m] = Return(m)
    BY <2>1 DEF Return, Access, Back
  <2>2. ASSUME NEW p \in Labels, acc'[m] = Access("flushdown", acc[m].req, p, 0)
        PROVE  acc'[m].pc = "flushdown" /\ acc'[m].req = acc[m].req
    BY <2>2 DEF Access
  <2>. QED BY <1>3, <2>1, <2>2
<1>5. tree \in [NodesOf(m) -> SoundNode] /\ Root \in NodesOf(m)
  BY <1>2, <1>3, RootSound DEF TypeInv
<1>6. buckets'[m] = new
  BY <1>2, <1>3 DEF TypeInv
<1>7. PICK l \in FreeSlots(tree[Root]) :
        RootWithBlock(m) = Filled(tree[Root], l, BlockKey(r), acc[m].newPath, acc[m].fetched)
  BY <1>2, <1>3, RootSound
<1>8. ViewOf(m) = tree /\ ViewOf(m)' = new
  <2>1. ViewOf(m) = tree
    BY <1>2, <1>3, ViewTyping DEF Ahead
  <2>2. ViewOf(m)' = buckets'[m]
    <3>1. buckets'[m] \in [NodesOf(m) -> SoundNode]
      BY <1>1 DEF TypeInv
    <3>. QED BY <1>4, <3>1 DEF ViewOf, Ahead
  <2>. QED BY <1>6, <2>1, <2>2
<1>9. /\ acc[m].newPath \in Paths /\ acc[m].fetched \in Contents
      /\ Absent(ViewOf(m), r) /\ LabelNow(m, r) = acc[m].newPath
  BY <1>1, <1>2, <1>3 DEF HandInv, AccessOf
<1>10. /\ \A i \in IndsAt[m] : i # r => Keeps(tree, new, m, i)
       /\ Lies(new, m, r, acc[m].newPath, acc[m].fetched)
  <2>1. Absent(tree, r)
    BY <1>8, <1>9
  <2> DEFINE content == acc[m].fetched
             label == acc[m].newPath
  <2>2. new = [tree EXCEPT ![Root] = Filled(tree[Root], l, BlockKey(r), label, content)]
    BY <1>7
  <2>3. label \in Paths /\ content \in Contents /\ r \in Nat
    BY <1>1, <1>9
  <2> HIDE DEF tree, new, r, content, label
  <2>4. /\ \A i \in Nat : i # r => Keeps(tree, new, m, i)
        /\ Absent(tree, r) => Lies(new, m, r, label, content)
    BY <1>1, <1>5, <2>2, <2>3, PutEffect
  <2>. QED BY <1>1, <2>1, <2>4 DEF content, label
<1> HIDE DEF new, tree
<1>11. ~ Swapping(m)'
  BY <1>4 DEF Swapping
<1>12. \A i \in IndsAt[m] : Expected(m, i)' = LabelNow(m, i) /\ Expected(m, i) = LabelNow(m, i)
  BY <1>1, <1>3, <1>4, <1>11 DEF Expected, Walking
<1>13. ASSUME NEW i \in IndsAt[m]
       PROVE  Findable(m, i)' /\ ContentOf(m, i)' = ContentOf(m, i)
  <2>1. CASE i = r
    <3>1. Expected(m, i)' = acc[m].newPath
      BY <1>9, <1>12, <2>1
    <3>2. Lies(ViewOf(m)', m, i, Expected(m, i)', acc[m].fetched)
      BY <1>8, <1>10, <2>1, <3>1
    <3>3. Findable(m, i)'
      BY <1>9, <3>1, <3>2 DEF Findable
    <3>4. DataIn(ViewOf(m)', i) = acc[m].fetched
      BY <3>2, DataWhere
    <3>. QED BY <1>3, <1>4, <2>1, <3>3, <3>4 DEF ContentOf, InHand
  <2>2. CASE i # r
    <3>1. Findable(m, i)
      BY <1>2 DEF BlocksFindable
    <3>2. Keeps(ViewOf(m), ViewOf(m)', m, i)
      BY <1>8, <1>10, <2>2
    <3>3. Findable(m, i)' /\ DataIn(ViewOf(m), i)' = DataIn(ViewOf(m), i)
      BY <1>12, <3>1, <3>2, KeptFindable
    <3>. QED BY <1>3, <1>4, <2>2, <3>3 DEF ContentOf, InHand
  <2>. QED BY <2>1, <2>2
<1>14. \A j \in Trees : j # m => BlocksFindable(j)' /\ HandInv(j)' /\ PathInv(j)'
  <2>1. CASE m = 0
    <3>1. \A j \in Trees : j + 1 # m
      BY <2>1, TreesDescend
    <3>. QED BY <1>1, <3>1, OthersStay
  <2>2. CASE m # 0
    <3>1. acc'[m].pc \in Stores <=> acc[m].pc \in Stores
      BY <1>3, <1>4, <2>2 DEF Back, Stores
    <3>. QED BY <1>1, <1>4, <1>13, <3>1, AboveStays
  <2>. QED BY <2>1, <2>2
<1>15. BlocksFindable(m)'
  BY <1>13 DEF BlocksFindable
<1>16. HandInv(m)' /\ PathInv(m)'
  BY <1>4, <1>11 DEF HandInv, PathInv
<1>17. EmptyBelow'
  <2>1. 0 \in LevelsOf(0) /\ client \in NodeArrays
    BY <1>2, HeightsFit DEF TypeInv
  <2>2. \A d \in Depths \ LevelsOf(0) : client'[d] = client[d]
    BY <1>3, <2>1 DEF NodeArrays
  <2>. QED BY <1>2, <2>2 DEF EmptyBelow
<1>. QED BY <1>1, <1>13, <1>14, <1>15, <1>16, <1>17, FromParts
\* The fetch.  A block of labels that is nowhere may be fetched from a node another
\* tree left; the labels in it are then those of blocks that are nowhere.
LEMMA FetchKeeps ==
  ASSUME IInv, NEW m \in Trees, ObliviousFetch(m)
  PROVE  IInv' /\ (m = 0 => \A b \in IndsAt[m] : ContentOf(m, b)' = ContentOf(m, b))
<1>1. /\ TypeInv' /\ posmap' = posmap /\ acc[m].pc \in Working
      /\ \A j \in Trees : j # m => acc'[j] = acc[j] /\ buckets'[j] = buckets[j]
      /\ m \in Nat /\ acc[m] \in AccessOf(m)
      /\ acc[m].req.ind \in IndsAt[m] /\ acc[m].req.ind \in Nat
      /\ \A i \in IndsAt[m] : i \in Nat /\ LabelNow(m, i)' = LabelNow(m, i)
      /\ ~ Swapping(m)
  BY StepFacts
<1>2. TypeInv /\ AccInv /\ BlocksFindable(m) /\ HandInv(m) /\ EmptyBelow /\ PathInv(m)
  BY DEF IInv, TypeInv
<1> DEFINE r == acc[m].req.ind
           p == acc[m].path
           c == S(m)!FetchTakes(BlockKey(r))
           x == S(m)!FetchedContent(BlockKey(r))
           tree == buckets[m]
           new == [n \in NodesOf(m) |-> IF n \in WalkOf(m, p) THEN c[n[1]] ELSE tree[n]]
<1>3. /\ acc[m].pc = "fetch"
      /\ acc'[m] = [acc[m] EXCEPT !.pc = "update", !.fetched = x]
      /\ client' = c /\ buckets' = buckets
  BY <1>2 DEF ObliviousFetch, AccInv
<1>4. /\ acc'[m].pc = "update" /\ acc'[m].fetched = x
      /\ acc'[m].req = acc[m].req /\ acc'[m].path = p /\ acc'[m].newPath = acc[m].newPath
  <2> HIDE DEF x
  <2>. QED BY <1>1, <1>3 DEF AccessOf
<1>5. /\ tree \in [NodesOf(m) -> SoundNode]
      /\ \A d \in LevelsOf(m) : client[d] = tree[At(p, d)]
      /\ p \in Labels /\ client \in NodeArrays
  BY <1>1, <1>2, <1>3 DEF TypeInv, PathInv, AccessOf
<1>6. ViewOf(m) = tree /\ ViewOf(m)' = new
  <2>1. ViewOf(m) = tree
    BY <1>2, <1>3, ViewTyping DEF Ahead
  <2> HIDE DEF c, p
  <2>2. ViewOf(m)' = new
    BY <1>3, <1>4 DEF ViewOf, Ahead
  <2>. QED BY <2>1, <2>2
<1>7. /\ \A i \in Nat : i # r => Keeps(tree, new, m, i)
      /\ Absent(tree, r) => Absent(new, r)
      /\ Absent(tree, r) /\ (\A d \in Depths \ LevelsOf(m) : Taken(client[d]) = {}) => x = ZeroBlock
      /\ \A y : Lies(tree, m, r, p, y) => Absent(new, r) /\ x = y
      /\ \A d \in Depths : Taken(c[d]) \subseteq Taken(client[d])
  <2> HIDE DEF tree, r
  <2>1. LET cc == S(m)!FetchTakes(BlockKey(r))
            xx == S(m)!FetchedContent(BlockKey(r))
            nn == [n \in NodesOf(m) |-> IF n \in WalkOf(m, acc[m].path)
                                        THEN cc[n[1]] ELSE tree[n]]
        IN /\ \A i \in Nat : i # r => Keeps(tree, nn, m, i)
           /\ Absent(tree, r) => Absent(nn, r)
           /\ Absent(tree, r) /\ (\A d \in Depths \ LevelsOf(m) : Taken(client[d]) = {}) =>
                xx = ZeroBlock
           /\ \A y : Lies(tree, m, r, acc[m].path, y) => Absent(nn, r) /\ xx = y
           /\ \A d \in Depths : Taken(cc[d]) \subseteq Taken(client[d])
    <3>1. m \in Nat /\ r \in Nat
      BY <1>1 DEF r
    <3>2. /\ tree \in [NodesOf(m) -> SoundNode] /\ client \in NodeArrays
          /\ \A d \in LevelsOf(m) : client[d] = tree[At(acc[m].path, d)]
          /\ acc[m].path \in Labels
      BY <1>5
    <3>. QED BY <3>1, <3>2, FetchEffect
  <2>. QED BY <2>1
<1> HIDE DEF new, tree, c, x, p
<1>8. /\ Expected(m, r) = p
      /\ \A i \in IndsAt[m] : i # r => Expected(m, i) = LabelNow(m, i)
      /\ \A i \in IndsAt[m] : Expected(m, i)' = LabelNow(m, i)
  <2>1. ~ Swapping(m)'
    BY <1>4 DEF Swapping
  <2>. QED BY <1>1, <1>3, <1>4, <2>1 DEF Expected, Walking, p
<1>9. Absent(tree, r) \/ \E y : Lies(tree, m, r, p, y)
  BY <1>1, <1>2, <1>6, <1>8 DEF BlocksFindable, Findable
<1>10. Absent(new, r)
  BY <1>7, <1>9
<1>11. ASSUME NEW i \in IndsAt[m], i # r
       PROVE  Findable(m, i)' /\ ContentOf(m, i)' = ContentOf(m, i)
  <2>1. Findable(m, i) /\ Expected(m, i)' = Expected(m, i)
    BY <1>2, <1>8, <1>11 DEF BlocksFindable
  <2>2. Keeps(ViewOf(m), ViewOf(m)', m, i)
    BY <1>1, <1>6, <1>7, <1>11
  <2>3. Findable(m, i)' /\ DataIn(ViewOf(m), i)' = DataIn(ViewOf(m), i)
    BY <2>1, <2>2, KeptFindable
  <2>. QED BY <1>3, <1>4, <1>11, <2>3 DEF ContentOf, InHand
<1>12. \A b : b = r => ContentOf(m, b)' = x /\ ContentOf(m, b) = DataIn(tree, r)
  BY <1>3, <1>4, <1>6 DEF ContentOf, InHand
<1>13. ~ Absent(tree, r) => \A b : b = r => ContentOf(m, b)' = ContentOf(m, b)
  <2>1. ~ Absent(tree, r) => x = DataIn(tree, r)
    BY <1>7, <1>9, DataWhere
  <2>. QED BY <1>12, <2>1
<1>14. Absent(tree, r) => \A b : b = r => ContentOf(m, b) = ZeroBlock
  <2>1. Absent(tree, r) => DataIn(tree, r) = ZeroBlock
    BY DataWhere
  <2>. QED BY <1>12, <2>1
<1>15. m = 0 => \A b : b = r => ContentOf(m, b)' = ContentOf(m, b)
  <2>1. m = 0 /\ Absent(tree, r) => x = ZeroBlock
    BY <1>2, <1>7 DEF EmptyBelow
  <2>. QED BY <1>12, <1>13, <1>14, <2>1
<1>16. ASSUME NEW j \in Trees, j + 1 = m PROVE BlocksFindable(j)' /\ HandInv(j)'
  <2>1. j # m /\ j < m
    <3>1. j \in Nat
      BY TreesDescend
    <3>. QED BY <1>16, <3>1
  <2>2. acc'[j] = acc[j] /\ acc[j].pc = "wait" /\ ViewOf(j)' = ViewOf(j)
    <3>1. acc[j].pc = "wait"
      BY <1>2, <1>3, <2>1, OthersRest
    <3>. QED BY <1>1, <2>1, <3>1, OthersStay
  <2>3. ~ MapInEnclave(j) /\ ~ Swapping(j) /\ ~ Swapping(j)'
    BY <1>2, <1>3, <1>4, <1>16, <2>2 DEF AccInv, Swapping, Stores
  <2>4. \A i \in IndsAt[j] : /\ Expected(j, i) = LabelNow(j, i)
                             /\ Expected(j, i)' = LabelNow(j, i)'
    BY <2>2, <2>3 DEF Expected, Walking
  <2>5. ASSUME NEW i \in IndsAt[j] PROVE Findable(j, i)'
    <3>1. Findable(j, i)
      BY DEF IInv, BlocksFindable
    <3>2. Below(i) \in IndsAt[m] /\ MapWord(i) \in Words
      BY <1>16, <2>3, IndsTyping
    <3>3. CASE ContentOf(m, Below(i))' = ContentOf(m, Below(i))
      <4>1. LabelNow(j, i)' = LabelNow(j, i)
        BY <1>1, <1>16, <3>3, LabelRests
      <4>2. Expected(j, i)' = Expected(j, i)
        BY <2>4, <4>1
      <4>. QED BY <2>2, <3>1, <4>2 DEF Findable
    <3>4. CASE ContentOf(m, Below(i))' # ContentOf(m, Below(i))
      <4>1. ContentOf(m, Below(i)) = ZeroBlock
        <5>1. CASE Below(i) = r
          BY <1>13, <1>14, <3>4, <5>1
        <5>2. CASE Below(i) # r
          BY <1>11, <3>2, <3>4, <5>2
        <5>. QED BY <5>1, <5>2
      <4>2. LabelNow(j, i) = 0
        BY <1>16, <2>3, <3>2, <4>1, SimpleORAMAssumption DEF LabelNow, ZeroBlock
      <4>3. Expected(j, i) \notin Paths
        BY <2>4, <4>2, SimpleORAMAssumption
      <4>4. Absent(ViewOf(j), i)
        BY <3>1, <4>3 DEF Findable
      <4>. QED BY <2>2, <4>4 DEF Findable
    <3>. QED BY <3>3, <3>4
  <2>6. BlocksFindable(j)'
    BY <2>5 DEF BlocksFindable
  <2>7. OldLabel(j)' = OldLabel(j)
    BY <1>4, <1>16, <2>2 DEF OldLabel
  <2>8. HandInv(j)
    BY DEF IInv
  <2>9. HandInv(j)'
    BY <1>4, <1>16, <2>2, <2>3, <2>7, <2>8 DEF HandInv
  <2>. QED BY <2>6, <2>9
<1>17. \A j \in Trees : j # m => BlocksFindable(j)' /\ HandInv(j)' /\ PathInv(j)'
  BY <1>1, <1>16, OthersStay
<1>18. BlocksFindable(m)'
  BY <1>6, <1>10, <1>11 DEF BlocksFindable, Findable
<1>19. HandInv(m)'
  <2>1. LabelNow(m, acc[m].req.ind)' = LabelNow(m, acc[m].req.ind)
    BY <1>1, <1>4
  <2>2. ~ Swapping(m)'
    BY <1>4 DEF Swapping
  <2>3. Absent(ViewOf(m), acc[m].req.ind)'
    BY <1>4, <1>6, <1>10
  <2> HIDE DEF LabelNow
  <2>. QED BY <1>2, <1>3, <1>4, <2>1, <2>2, <2>3 DEF HandInv
<1>20. PathInv(m)'
  BY <1>4 DEF PathInv
<1>21. EmptyBelow'
  BY <1>2, <1>3, <1>7 DEF EmptyBelow
<1>22. ASSUME m = 0, NEW b \in IndsAt[m] PROVE ContentOf(m, b)' = ContentOf(m, b)
  <2>1. CASE b = r
    BY <1>15, <1>22, <2>1
  <2>2. CASE b # r
    BY <1>11, <2>2
  <2>. QED BY <2>1, <2>2
<1>23. IInv'
  BY <1>1, <1>17, <1>18, <1>19, <1>20, <1>21, FromParts
<1>. QED BY <1>22, <1>23

\* The new label is stored in the block of labels, and the old one is in the buffer.
LEMMA UpdateKeeps ==
  ASSUME IInv, NEW m \in Trees, UpdatePath(m)
  PROVE  /\ IInv'
         /\ \A b \in IndsAt[m] : b # acc[m].req.ind => ContentOf(m, b)' = ContentOf(m, b)
         /\ ContentOf(m, acc[m].req.ind) = acc[m].fetched
         /\ ContentOf(m, acc[m].req.ind)' = Stored(acc[m].req, acc[m].fetched)
         /\ acc'[m].req = [acc[m].req EXCEPT !.buf = Loaded(acc[m].req, acc[m].fetched)]
<1>1. /\ TypeInv' /\ posmap' = posmap /\ acc[m].pc \in Working
      /\ \A j \in Trees : j # m => acc'[j] = acc[j] /\ buckets'[j] = buckets[j]
      /\ m \in Nat /\ acc[m] \in AccessOf(m)
      /\ acc[m].req.ind \in IndsAt[m]
      /\ \A i \in IndsAt[m] : i \in Nat /\ LabelNow(m, i)' = LabelNow(m, i)
      /\ ~ Swapping(m)
  BY StepFacts
<1>2. TypeInv /\ AccInv /\ BlocksFindable(m) /\ HandInv(m) /\ EmptyBelow
  BY DEF IInv, TypeInv
<1> DEFINE req == acc[m].req
           stored == Stored(req, acc[m].fetched)
           loaded == Loaded(req, acc[m].fetched)
<1>3. /\ acc[m].pc = "update"
      /\ acc'[m] = [acc[m] EXCEPT !.pc = "put", !.fetched = stored, !.req.buf = loaded]
      /\ buckets'[m] = S(m)!UpdatedPath /\ client' = client
  BY <1>2 DEF UpdatePath, AccInv, TypeInv
<1>4. /\ acc'[m].pc = "put" /\ acc'[m].fetched = stored
      /\ acc'[m].req = [req EXCEPT !.buf = loaded]
      /\ acc'[m].path = acc[m].path /\ acc'[m].newPath = acc[m].newPath
  <2> HIDE DEF stored, loaded
  <2>. QED BY <1>1, <1>3 DEF AccessOf
<1>5. acc'[m].req.ind = req.ind /\ acc'[m].req.ws = req.ws /\ acc'[m].req.buf = loaded
  <2> HIDE DEF loaded
  <2>. QED BY <1>1, <1>4 DEF AccessOf, RequestOf
<1>6. ViewOf(m)' = ViewOf(m)
  <2>1. ViewOf(m) = S(m)!UpdatedPath
    BY <1>2, <1>3, PathSound DEF ViewOf, Ahead
  <2>2. ViewOf(m)' = buckets'[m]
    <3>1. buckets'[m] \in [NodesOf(m) -> SoundNode]
      BY <1>1 DEF TypeInv
    <3>. QED BY <1>4, <3>1 DEF ViewOf, Ahead
  <2>. QED BY <1>3, <2>1, <2>2
<1>7. \A b : b # req.ind => ContentOf(m, b)' = ContentOf(m, b)
  BY <1>3, <1>4, <1>5, <1>6 DEF ContentOf, InHand
<1>8. /\ ContentOf(m, req.ind) = acc[m].fetched
      /\ \A b : b = req.ind => ContentOf(m, b)' = stored
  BY <1>3, <1>4, <1>5 DEF ContentOf, InHand
<1>9. ~ Swapping(m)'
  BY <1>4 DEF Swapping
<1>10. BlocksFindable(m)'
  <2> SUFFICES ASSUME NEW i \in IndsAt[m] PROVE Findable(m, i)'
    BY DEF BlocksFindable
  <2>1. Expected(m, i)' = Expected(m, i)
    BY <1>1, <1>3, <1>4, <1>9 DEF Expected, Walking
  <2>2. Findable(m, i)
    BY <1>2 DEF BlocksFindable
  <2>. QED BY <1>6, <2>1, <2>2 DEF Findable
<1>11. HandInv(m)' /\ PathInv(m)' /\ EmptyBelow'
  <2>1. LabelNow(m, acc[m].req.ind)' = LabelNow(m, acc[m].req.ind)
    BY <1>1, <1>5
  <2>2. Absent(ViewOf(m), acc[m].req.ind)'
    BY <1>2, <1>3, <1>5, <1>6 DEF HandInv
  <2>3. HandInv(m)'
    <3> HIDE DEF LabelNow
    <3>. QED BY <1>2, <1>3, <1>4, <1>5, <1>9, <2>1, <2>2 DEF HandInv
  <2>. QED BY <1>2, <1>3, <1>4, <2>3 DEF PathInv, EmptyBelow
<1>12. ASSUME NEW j \in Trees, j + 1 = m PROVE BlocksFindable(j)' /\ HandInv(j)'
  <2> DEFINE q == acc[j].req.ind
  <2>1. j # m /\ j < m
    BY <1>1, <1>12, TreesDescend
  <2>2. acc'[j] = acc[j] /\ acc[j].pc = "wait" /\ ViewOf(j)' = ViewOf(j)
    <3>1. acc[j].pc = "wait"
      BY <1>2, <1>3, <2>1, OthersRest
    <3>. QED BY <1>1, <2>1, <3>1, OthersStay
  <2>3. ~ MapInEnclave(j) /\ ~ Swapping(j) /\ Swapping(j)'
    BY <1>2, <1>3, <1>4, <1>12, <2>2 DEF AccInv, Swapping, Stores
  <2>4. /\ req.ind = Below(q) /\ req.ws = {MapWord(q)}
        /\ req.buf[MapWord(q)] = acc[j].newPath /\ acc[j].newPath \in Paths
        /\ acc[j].path = acc[j].newPath
    BY <1>12, <2>2, <2>3 DEF IInv, HandInv, OldLabel
  <2>5. q \in IndsAt[j] /\ q \in Nat /\ MapWord(q) \in Words
    <3>1. q \in IndsAt[j]
      BY <1>2 DEF AccInv, AccessOf, RequestOf
    <3>. QED BY <2>3, <3>1, IndsTyping
  <2>6. /\ \A w \in Words : stored[w] = IF w = MapWord(q) THEN acc[j].newPath
                                        ELSE acc[m].fetched[w]
        /\ loaded[MapWord(q)] = acc[m].fetched[MapWord(q)]
    BY <2>4, <2>5 DEF Stored, Loaded
  <2> HIDE DEF stored, loaded
  <2>7. ASSUME NEW i \in IndsAt[j]
        PROVE  LabelNow(j, i)' = IF i = q THEN acc[j].newPath ELSE LabelNow(j, i)
    <3>1. i \in Nat /\ MapWord(i) \in Words /\ Below(i) \in IndsAt[m]
      BY <1>12, <2>3, IndsTyping
    <3>2. CASE Below(i) = req.ind
      <4>1. LabelNow(j, i)' = stored[MapWord(i)]
        BY <1>8, <1>12, <2>3, <3>2 DEF LabelNow
      <4>2. LabelNow(j, i) = acc[m].fetched[MapWord(i)]
        BY <1>8, <1>12, <2>3, <3>2 DEF LabelNow
      <4>3. i # q => MapWord(i) # MapWord(q)
        BY <2>4, <2>5, <3>1, <3>2, WordsDiffer
      <4>. QED BY <2>6, <3>1, <4>1, <4>2, <4>3
    <3>3. CASE Below(i) # req.ind
      <4>1. LabelNow(j, i)' = LabelNow(j, i)
        BY <1>1, <1>7, <1>12, <3>3, LabelRests
      <4>. QED BY <2>4, <3>3, <4>1
    <3>. QED BY <3>2, <3>3
  <2>8. OldLabel(j)' = LabelNow(j, q)
    <3>1. OldLabel(j)' = loaded[MapWord(q)]
      BY <1>5, <1>12, <2>2 DEF OldLabel
    <3>2. LabelNow(j, q) = acc[m].fetched[MapWord(q)]
      BY <1>8, <1>12, <2>3, <2>4 DEF LabelNow
    <3>. QED BY <2>6, <3>1, <3>2
  <2>9. ASSUME NEW i \in IndsAt[j] PROVE Expected(j, i)' = Expected(j, i)
    <3>1. Expected(j, i) = LabelNow(j, i)
      BY <2>2, <2>3 DEF Expected, Walking
    <3>2. Expected(j, i)' = IF i = q THEN OldLabel(j)' ELSE LabelNow(j, i)'
      BY <2>2, <2>3 DEF Expected, Walking
    <3>. QED BY <2>7, <2>8, <3>1, <3>2
  <2>10. BlocksFindable(j)'
    <3> SUFFICES ASSUME NEW i \in IndsAt[j] PROVE Findable(j, i)'
      BY DEF BlocksFindable
    <3>1. Findable(j, i) /\ Expected(j, i)' = Expected(j, i)
      BY <2>9 DEF IInv, BlocksFindable
    <3>. QED BY <2>2, <3>1 DEF Findable
  <2>11. HandInv(j)'
    <3>1. LabelNow(j, acc[j].req.ind)' = acc[j].newPath
      BY <2>2, <2>5, <2>7
    <3> HIDE DEF LabelNow
    <3>. QED BY <1>5, <1>12, <2>2, <2>3, <2>4, <3>1 DEF HandInv
  <2>. QED BY <2>10, <2>11
<1>13. \A j \in Trees : j # m => BlocksFindable(j)' /\ HandInv(j)' /\ PathInv(j)'
  BY <1>1, <1>12, OthersStay
<1>14. ContentOf(m, acc[m].req.ind)' = stored
  BY <1>5, <1>8
<1>. QED BY <1>1, <1>4, <1>7, <1>8, <1>10, <1>11, <1>13, <1>14, FromParts

\* Between the calls on a tree, what the trees hold is in their buckets.
LEMMA CalmViews ==
  ASSUME TypeInv, TypeInv', buckets' = buckets,
         \A j \in Trees : /\ acc[j].pc \notin {"update", "put", "flushup"}
                          /\ acc'[j].pc \notin {"update", "put", "flushup"}
  PROVE  \A j \in Trees : /\ ViewOf(j)' = ViewOf(j)
                          /\ \A b : ContentOf(j, b)' = ContentOf(j, b)
<1>1. ASSUME NEW j \in Trees PROVE ViewOf(j)' = ViewOf(j)
  BY ViewRests DEF Ahead
<1>. QED BY <1>1 DEF ContentOf, InHand

LEMMA LabelsStay ==
  ASSUME NEW k \in Trees,
         \A j \in Trees : \A b : ContentOf(j, b)' = ContentOf(j, b),
         ~ MapInEnclave(k) \/ posmap' = posmap
  PROVE  \A i \in IndsAt[k] : LabelNow(k, i)' = LabelNow(k, i)
<1> SUFFICES ASSUME NEW i \in IndsAt[k] PROVE LabelNow(k, i)' = LabelNow(k, i)
  OBVIOUS
<1>1. CASE MapInEnclave(k)
  BY <1>1 DEF LabelNow
<1>2. CASE ~ MapInEnclave(k)
  <2>1. k + 1 \in Trees
    BY <1>2, IndsTyping
  <2>. QED BY <1>2, <2>1 DEF LabelNow
<1>. QED BY <1>1, <1>2

\* Only the last tree has its labels in the position map.
LEMMA OneMap ==
  ASSUME NEW j \in Trees, NEW m \in Trees, MapInEnclave(j), MapInEnclave(m)
  PROVE  j = m
<1>1. j \in Nat /\ m \in Nat
  BY TreesDescend
<1>2. ~ (j < m)
  <2>1. j < m => j \in 0 .. m - 1
    BY <1>1
  <2>. QED BY <2>1, TreesDescend
<1>3. ~ (m < j)
  <2>1. m < j => m \in 0 .. j - 1
    BY <1>1
  <2>. QED BY <2>1, TreesDescend
<1>. QED BY <1>1, <1>2, <1>3

\* An access begins: the label is swapped for the one its block is found under, or
\* the tree below is about to be asked to.
LEMMA BeginKeeps ==
  ASSUME IInv, NoNeighbours, TypeInv', NEW m \in Trees, NEW r \in RequestOf(m),
         NEW others \in [Trees -> UNION {AccessOf(j) : j \in Trees}], Begin(m, r, others),
         buckets' = buckets, acc[m].pc = "idle",
         \A j \in Trees : acc[j].pc \notin {"update", "put", "flushup"},
         \A j \in Trees : acc'[j].pc \notin {"update", "put", "flushup"}
  PROVE  /\ \A j \in Trees : /\ ViewOf(j)' = ViewOf(j)
                             /\ \A b : ContentOf(j, b)' = ContentOf(j, b)
         /\ \A j \in Trees : j # m => \A i \in IndsAt[j] : LabelNow(j, i)' = LabelNow(j, i)
         /\ BlocksFindable(m)' /\ HandInv(m)' /\ PathInv(m)'
         /\ acc'[m].req = r /\ acc'[m].pc \in {"map", "download"}
         /\ \A j \in Trees : j # m => acc'[j] = others[j]
<1>1. TypeInv /\ BlocksFindable(m)
  BY DEF IInv
<1>2. PICK label \in Paths :
        IF MapInEnclave(m)
        THEN /\ \E behind \in Junk : posmap' = Swapped(r.ind, label, behind)
             /\ acc' = [others EXCEPT ![m] = Access("download", r, posmap[r.ind], label)]
        ELSE /\ acc' = [others EXCEPT ![m] = Access("map", r, label, label)]
             /\ UNCHANGED posmap
  BY DEF Begin
<1>3. \A j \in Trees : j # m => acc'[j] = others[j]
  BY <1>2
<1>4. /\ MapInEnclave(m) => acc'[m] = Access("download", r, posmap[r.ind], label)
      /\ ~ MapInEnclave(m) => acc'[m] = Access("map", r, label, label)
  BY <1>2
<1>5. /\ acc'[m].req = r /\ acc'[m].newPath = label
      /\ MapInEnclave(m) => acc'[m].pc = "download" /\ acc'[m].path = posmap[r.ind]
      /\ ~ MapInEnclave(m) => acc'[m].pc = "map" /\ acc'[m].path = label
  BY <1>4 DEF Access
<1>6. \A j \in Trees : /\ ViewOf(j)' = ViewOf(j)
                       /\ \A b : ContentOf(j, b)' = ContentOf(j, b)
  BY <1>1, CalmViews
<1>7. ASSUME NEW j \in Trees, j # m
      PROVE  \A i \in IndsAt[j] : LabelNow(j, i)' = LabelNow(j, i)
  <2>1. ~ MapInEnclave(j) \/ posmap' = posmap
    BY <1>2, <1>7, OneMap
  <2>. QED BY <1>6, <2>1, LabelsStay
<1>8. r.ind \in IndsAt[m]
  BY DEF RequestOf
<1>9. MapInEnclave(m) =>
        \A i \in IndsAt[m] : /\ LabelNow(m, i) = posmap[i]
                             /\ LabelNow(m, i)' = IF i = r.ind THEN label ELSE posmap[i]
  <2> SUFFICES ASSUME MapInEnclave(m), NEW i \in IndsAt[m]
               PROVE  /\ LabelNow(m, i) = posmap[i]
                      /\ LabelNow(m, i)' = IF i = r.ind THEN label ELSE posmap[i]
    OBVIOUS
  <2>1. PICK behind \in Junk : posmap' = Swapped(r.ind, label, behind)
    BY <1>2
  <2>2. i # r.ind + 1
    BY <1>8 DEF NoNeighbours
  <2>3. i \in 0 .. MaxPosMap - 1
    <3>1. i \in 0 .. CapacityAt[m] - 1
      BY IndsFit
    <3>2. CapacityAt[m] \in Nat /\ CapacityAt[m] =< MaxPosMap
      BY Capacities, TreesDescend DEF MapInEnclave
    <3>3. MaxPosMap \in Nat
      BY SimpleORAMAssumption
    <3>. QED BY <3>1, <3>2, <3>3
  <2>4. DOMAIN posmap = 0 .. MaxPosMap - 1
    BY <1>1 DEF TypeInv
  <2>5. posmap'[i] = IF i = r.ind THEN label ELSE posmap[i]
    BY <2>1, <2>2, <2>3, <2>4 DEF Swapped
  <2>. QED BY <2>5 DEF LabelNow
<1>10. ~ MapInEnclave(m) => \A i \in IndsAt[m] : LabelNow(m, i)' = LabelNow(m, i)
  BY <1>6, LabelsStay
<1>11. \A i \in IndsAt[m] : Expected(m, i) = LabelNow(m, i)
  BY DEF Expected, Walking, Swapping
<1>12. ~ Swapping(m)'
  BY <1>5 DEF Swapping
<1>13. ASSUME NEW i \in IndsAt[m] PROVE Expected(m, i)' = Expected(m, i)
  <2>1. CASE MapInEnclave(m)
    <3>1. Expected(m, i)' = IF i = r.ind THEN posmap[r.ind] ELSE LabelNow(m, i)'
      BY <1>5, <1>12, <2>1 DEF Expected, Walking
    <3>. QED BY <1>9, <1>11, <2>1, <3>1
  <2>2. CASE ~ MapInEnclave(m)
    <3>1. Expected(m, i)' = LabelNow(m, i)'
      BY <1>5, <1>12, <2>2 DEF Expected, Walking
    <3>. QED BY <1>10, <1>11, <2>2, <3>1
  <2>. QED BY <2>1, <2>2
<1>14. BlocksFindable(m)'
  <2> SUFFICES ASSUME NEW i \in IndsAt[m] PROVE Findable(m, i)'
    BY DEF BlocksFindable
  <2>1. Findable(m, i) /\ Expected(m, i)' = Expected(m, i)
    BY <1>1, <1>13 DEF BlocksFindable
  <2>. QED BY <1>6, <2>1 DEF Findable
<1>15. HandInv(m)'
  <2>1. MapInEnclave(m) => LabelNow(m, acc[m].req.ind)' = label
    BY <1>5, <1>8, <1>9
  <2> HIDE DEF LabelNow
  <2>. QED BY <1>5, <1>12, <2>1 DEF HandInv
<1>16. PathInv(m)'
  BY <1>5 DEF PathInv
<1>. QED BY <1>3, <1>5, <1>6, <1>7, <1>14, <1>15, <1>16

LEMMA StartKeeps ==
  ASSUME IInv, NoNeighbours, NEW r \in Requests, StartAccess(r)
  PROVE  /\ IInv'
         /\ \A j \in Trees : \A b : ContentOf(j, b)' = ContentOf(j, b)
         /\ acc'[0].req = r /\ acc'[0].pc \in {"map", "download"}
<1>1. TypeInv /\ AccInv /\ EmptyBelow
  BY DEF IInv, TypeInv
<1>2. TypeInv'
  BY <1>1, StartTyping
<1>3. 0 \in Trees /\ r \in RequestOf(0)
  BY TreesDescend, RequestTyping
<1>4. /\ Begin(0, r, acc) /\ buckets' = buckets /\ client' = client
      /\ \A k \in Trees : acc[k].pc = "idle"
  BY DEF StartAccess
<1>5. acc \in [Trees -> UNION {AccessOf(j) : j \in Trees}]
  BY <1>1 DEF AccInv
<1>6. PICK a : /\ acc' = [acc EXCEPT ![0] = a] /\ a.pc \in {"download", "map"}
  BY <1>1, <1>3, <1>4, BeginTyping
<1>7. \A j \in Trees : acc'[j].pc \in {"idle", "download", "map"}
  BY <1>1, <1>4, <1>6 DEF AccInv
<1>8. /\ \A j \in Trees : /\ ViewOf(j)' = ViewOf(j)
                          /\ \A b : ContentOf(j, b)' = ContentOf(j, b)
      /\ \A j \in Trees : j # 0 => \A i \in IndsAt[j] : LabelNow(j, i)' = LabelNow(j, i)
      /\ BlocksFindable(0)' /\ HandInv(0)' /\ PathInv(0)'
      /\ acc'[0].req = r /\ acc'[0].pc \in {"map", "download"}
      /\ \A j \in Trees : j # 0 => acc'[j] = acc[j]
  BY <1>2, <1>3, <1>4, <1>5, <1>7, BeginKeeps
<1>9. ASSUME NEW j \in Trees, j # 0 PROVE BlocksFindable(j)' /\ HandInv(j)' /\ PathInv(j)'
  <2>1. acc[j].req.ind \in IndsAt[j] /\ acc[j].pc = "idle" /\ acc'[j] = acc[j]
    BY <1>1, <1>4, <1>8, <1>9 DEF AccInv, AccessOf, RequestOf
  <2>2. BlocksFindable(j)' /\ HandInv(j)'
    BY <1>8, <1>9, <2>1, TreeRests
  <2>. QED BY <2>1, <2>2 DEF PathInv
<1>10. EmptyBelow'
  BY <1>1, <1>4 DEF EmptyBelow
<1>11. IInv'
  BY <1>2, <1>3, <1>8, <1>9, <1>10, FromParts
<1>. QED BY <1>8, <1>11

\* The tree below is asked to store the new label where the old one is.
LEMMA AskKeeps ==
  ASSUME IInv, NoNeighbours, NEW k \in Trees, AskMap(k)
  PROVE  /\ IInv'
         /\ \A j \in Trees : \A b : ContentOf(j, b)' = ContentOf(j, b)
         /\ acc'[k] = [acc[k] EXCEPT !.pc = "wait"]
         /\ \A j \in Trees : j # k /\ j # k + 1 => acc'[j] = acc[j]
<1>1. TypeInv /\ AccInv /\ EmptyBelow
  BY DEF IInv, TypeInv
<1>2. TypeInv'
  BY <1>1, AskTyping
<1>3. acc[k] \in AccessOf(k) /\ acc[k].pc = "map" /\ ~ MapInEnclave(k)
  BY <1>1 DEF AskMap, AccInv
<1>4. k + 1 \in Trees /\ k + 1 # k /\ k \in Nat /\ Trees \subseteq Nat
  BY <1>3, TreesDescend
<1>5. MapWrite(k) \in RequestOf(k + 1) /\ MapWord(acc[k].req.ind) \in Words
  BY <1>3, RequestTyping
<1> DEFINE others == [acc EXCEPT ![k].pc = "wait"]
<1>6. Begin(k + 1, MapWrite(k), others) /\ buckets' = buckets /\ client' = client
  BY DEF AskMap
<1>7. /\ others \in [Trees -> UNION {AccessOf(j) : j \in Trees}]
      /\ others[k] = [acc[k] EXCEPT !.pc = "wait"]
      /\ \A j \in Trees : j # k => others[j] = acc[j]
  <2>1. [acc[k] EXCEPT !.pc = "wait"] \in AccessOf(k)
    BY <1>3 DEF AccessOf
  <2>2. /\ others[k] = [acc[k] EXCEPT !.pc = "wait"]
        /\ \A j \in Trees : j # k => others[j] = acc[j]
    BY <1>1 DEF AccInv
  <2>3. \A j \in Trees : others[j] \in AccessOf(j)
    BY <1>1, <2>1, <2>2 DEF AccInv
  <2>4. others = [j \in Trees |-> others[j]]
    BY <1>1 DEF AccInv
  <2> HIDE DEF others
  <2>. QED BY <2>2, <2>3, <2>4
<1> HIDE DEF others
<1>8. \A j \in Trees : j # k => acc[j].pc = IF j < k THEN "wait" ELSE "idle"
  BY <1>1, <1>3, OthersRest
<1>9. acc[k + 1].pc = "idle"
  <2>1. ~ (k + 1 < k)
    BY <1>4
  <2>. QED BY <1>4, <1>8, <2>1
<1>10. PICK a : acc' = [others EXCEPT ![k + 1] = a] /\ a.pc \in {"download", "map"}
  BY <1>1, <1>4, <1>5, <1>6, BeginTyping
<1>11. others[k].pc = "wait"
  BY <1>3, <1>7 DEF AccessOf
<1>12. \A j \in Trees : acc'[j].pc \in {"idle", "wait", "download", "map"}
  BY <1>7, <1>8, <1>10, <1>11
<1>13. /\ \A j \in Trees : /\ ViewOf(j)' = ViewOf(j)
                           /\ \A b : ContentOf(j, b)' = ContentOf(j, b)
       /\ \A j \in Trees : j # k + 1 => \A i \in IndsAt[j] : LabelNow(j, i)' = LabelNow(j, i)
       /\ BlocksFindable(k + 1)' /\ HandInv(k + 1)' /\ PathInv(k + 1)'
       /\ acc'[k + 1].req = MapWrite(k) /\ acc'[k + 1].pc \in {"map", "download"}
       /\ \A j \in Trees : j # k + 1 => acc'[j] = others[j]
  <2>1. \A j \in Trees : acc[j].pc \notin {"update", "put", "flushup"}
    BY <1>3, <1>8
  <2>. QED BY <1>2, <1>4, <1>5, <1>6, <1>7, <1>9, <1>12, <2>1, BeginKeeps
<1>14. /\ acc'[k] = [acc[k] EXCEPT !.pc = "wait"]
       /\ \A j \in Trees : j # k /\ j # k + 1 => acc'[j] = acc[j]
  BY <1>4, <1>7, <1>13
<1>15. /\ acc'[k].pc = "wait" /\ acc'[k].req = acc[k].req /\ acc'[k].path = acc[k].path
       /\ acc'[k].newPath = acc[k].newPath
  BY <1>3, <1>14 DEF AccessOf
<1>16. BlocksFindable(k)' /\ HandInv(k)' /\ PathInv(k)'
  <2>1. BlocksFindable(k) /\ HandInv(k)
    BY DEF IInv
  <2>2. ~ Swapping(k) /\ ~ Swapping(k)'
    BY <1>3, <1>13 DEF Swapping, Stores
  <2>3. \A i \in IndsAt[k] : LabelNow(k, i)' = LabelNow(k, i)
    BY <1>4, <1>13
  <2>4. ASSUME NEW i \in IndsAt[k] PROVE Findable(k, i)'
    <3>1. Expected(k, i) = LabelNow(k, i) /\ Expected(k, i)' = LabelNow(k, i)'
      BY <1>3, <1>15, <2>2 DEF Expected, Walking
    <3>2. Findable(k, i) /\ ViewOf(k)' = ViewOf(k)
      BY <1>13, <2>1 DEF BlocksFindable
    <3>. QED BY <2>3, <3>1, <3>2 DEF Findable
  <2>5. BlocksFindable(k)'
    BY <2>4 DEF BlocksFindable
  <2>6. /\ acc'[k + 1].req.ind = Below(acc[k].req.ind)
        /\ acc'[k + 1].req.ws = {MapWord(acc[k].req.ind)}
        /\ acc'[k + 1].req.buf[MapWord(acc[k].req.ind)] = acc[k].path
    BY <1>5, <1>13 DEF MapWrite, Below
  <2>7. OldLabel(k)' = acc[k].path
    BY <1>15, <2>6 DEF OldLabel
  <2>8. acc[k].newPath \in Paths /\ acc[k].path = acc[k].newPath
    BY <1>3, <2>1 DEF HandInv
  <2>9. HandInv(k)'
    BY <1>15, <2>2, <2>6, <2>7, <2>8 DEF HandInv
  <2>. QED BY <1>15, <2>5, <2>9 DEF PathInv
<1>17. ASSUME NEW j \in Trees, j # k + 1
       PROVE  BlocksFindable(j)' /\ HandInv(j)' /\ PathInv(j)'
  <2>1. CASE j = k
    BY <1>16, <2>1
  <2>2. CASE j # k
    <3>1. acc'[j] = acc[j] /\ acc[j].pc \in {"wait", "idle"}
      BY <1>8, <1>14, <1>17, <2>2
    <3>2. acc[j].req.ind \in IndsAt[j]
      BY <1>1 DEF AccInv, AccessOf, RequestOf
    <3>3. ASSUME acc[j].pc = "wait"
          PROVE  acc'[j + 1].req = acc[j + 1].req /\ (Swapping(j)' <=> Swapping(j))
      <4>1. j < k /\ j \in Nat
        BY <1>4, <1>8, <2>2, <3>3
      <4>2. j + 1 \in Trees
        BY <1>1, <3>3, TreesDescend DEF AccInv
      <4>3. CASE j + 1 = k
        BY <1>3, <1>15, <3>1, <4>3 DEF Swapping, Stores
      <4>4. CASE j + 1 # k
        <5>1. j + 1 # k + 1
          BY <1>4, <2>2, <4>1
        <5>2. acc'[j + 1] = acc[j + 1]
          BY <1>14, <4>2, <4>4, <5>1
        <5>. QED BY <3>1, <5>2 DEF Swapping
      <4>. QED BY <4>3, <4>4
    <3>4. BlocksFindable(j)' /\ HandInv(j)'
      BY <1>13, <1>17, <3>1, <3>2, <3>3, TreeRests
    <3>. QED BY <3>1, <3>4 DEF PathInv
  <2>. QED BY <2>1, <2>2
<1>18. EmptyBelow'
  BY <1>1, <1>6 DEF EmptyBelow
<1>19. IInv'
  BY <1>2, <1>4, <1>13, <1>17, <1>18, FromParts
<1>. QED BY <1>13, <1>14, <1>19

\* The tree below has answered: the block is looked for under the old label, which
\* is the one it was found under while the tree below had the new one.
LEMMA AnsweredKeeps ==
  ASSUME IInv, NEW k \in Trees, MapAnswered(k)
  PROVE  /\ IInv'
         /\ \A j \in Trees : \A b : ContentOf(j, b)' = ContentOf(j, b)
         /\ acc'[k] = [acc[k] EXCEPT !.pc = "download", !.path = OldLabel(k)]
         /\ \A j \in Trees : j # k /\ j # k + 1 => acc'[j] = acc[j]
<1>1. TypeInv /\ AccInv /\ EmptyBelow /\ BlocksFindable(k) /\ HandInv(k)
  BY DEF IInv, TypeInv
<1>2. TypeInv'
  BY <1>1, AnsweredTyping
<1>3. acc[k] \in AccessOf(k) /\ acc[k].pc = "wait" /\ ~ MapInEnclave(k)
  BY <1>1 DEF MapAnswered, AccInv
<1>4. k + 1 \in Trees /\ k + 1 # k /\ k \in Nat /\ Trees \subseteq Nat
  BY <1>3, TreesDescend
<1>5. /\ acc[k + 1].pc = "answered"
      /\ acc' = [acc EXCEPT ![k].pc = "download", ![k].path = OldLabel(k),
                            ![k + 1] = NoAccess(k + 1)]
      /\ posmap' = posmap /\ buckets' = buckets /\ client' = client
  BY DEF MapAnswered
<1>6. /\ acc'[k + 1] = NoAccess(k + 1)
      /\ acc'[k] = [acc[k] EXCEPT !.pc = "download", !.path = OldLabel(k)]
      /\ \A j \in Trees : j # k /\ j # k + 1 => acc'[j] = acc[j]
  BY <1>1, <1>4, <1>5 DEF AccInv
<1>7. /\ acc'[k].pc = "download" /\ acc'[k].path = OldLabel(k)
      /\ acc'[k].req = acc[k].req /\ acc'[k].newPath = acc[k].newPath
      /\ acc'[k + 1].pc = "idle"
  <2>1. acc'[k + 1].pc = "idle"
    BY <1>6 DEF NoAccess, Access
  <2> HIDE DEF OldLabel
  <2>. QED BY <1>3, <1>6, <2>1 DEF AccessOf
<1>8. \A j \in Trees : j # k + 1 => acc[j].pc = IF j < k + 1 THEN "wait" ELSE "idle"
  BY <1>1, <1>4, <1>5, OthersRest
<1>9. \A j \in Trees : /\ ViewOf(j)' = ViewOf(j)
                       /\ \A b : ContentOf(j, b)' = ContentOf(j, b)
  <2>1. \A j \in Trees : /\ acc[j].pc \notin {"update", "put", "flushup"}
                         /\ acc'[j].pc \notin {"update", "put", "flushup"}
    BY <1>5, <1>6, <1>7, <1>8
  <2>. QED BY <1>1, <1>2, <1>5, <2>1, CalmViews
<1>10. \A j \in Trees : \A i \in IndsAt[j] : LabelNow(j, i)' = LabelNow(j, i)
  BY <1>5, <1>9, LabelsStay
<1>11. Swapping(k) /\ ~ Swapping(k)'
  BY <1>3, <1>5, <1>7 DEF Swapping, Stores
<1>12. BlocksFindable(k)' /\ HandInv(k)' /\ PathInv(k)'
  <2>1. ASSUME NEW i \in IndsAt[k] PROVE Findable(k, i)'
    <3>1. Expected(k, i) = IF i = acc[k].req.ind THEN OldLabel(k) ELSE LabelNow(k, i)
      BY <1>3, <1>11 DEF Expected, Walking
    <3>2. Expected(k, i)' = IF i = acc[k].req.ind THEN OldLabel(k) ELSE LabelNow(k, i)'
      BY <1>7, <1>11 DEF Expected, Walking
    <3>3. Findable(k, i) /\ ViewOf(k)' = ViewOf(k) /\ Expected(k, i)' = Expected(k, i)
      BY <1>1, <1>9, <1>10, <3>1, <3>2 DEF BlocksFindable
    <3>. QED BY <3>3 DEF Findable
  <2>2. BlocksFindable(k)'
    BY <2>1 DEF BlocksFindable
  <2>3. acc[k].req.ind \in IndsAt[k]
    BY <1>3 DEF AccessOf, RequestOf
  <2>4. LabelNow(k, acc[k].req.ind)' = LabelNow(k, acc[k].req.ind)
    BY <1>7, <1>10, <2>3
  <2>5. HandInv(k)'
    <3> HIDE DEF LabelNow
    <3>. QED BY <1>1, <1>3, <1>7, <1>11, <2>4 DEF HandInv
  <2>. QED BY <1>7, <2>2, <2>5 DEF PathInv
<1>13. BlocksFindable(k + 1)' /\ HandInv(k + 1)' /\ PathInv(k + 1)'
  <2>1. ~ Swapping(k + 1) /\ ~ Swapping(k + 1)'
    BY <1>5, <1>7 DEF Swapping
  <2>2. ASSUME NEW i \in IndsAt[k + 1] PROVE Findable(k + 1, i)'
    <3>1. /\ Expected(k + 1, i) = LabelNow(k + 1, i)
          /\ Expected(k + 1, i)' = LabelNow(k + 1, i)'
      BY <1>5, <1>7, <2>1 DEF Expected, Walking
    <3>2. Findable(k + 1, i) /\ ViewOf(k + 1)' = ViewOf(k + 1)
      BY <1>4, <1>9 DEF IInv, BlocksFindable
    <3>3. Expected(k + 1, i)' = Expected(k + 1, i)
      BY <1>4, <1>10, <3>1
    <3>. QED BY <3>2, <3>3 DEF Findable
  <2>3. BlocksFindable(k + 1)'
    BY <2>2 DEF BlocksFindable
  <2>. QED BY <1>7, <2>1, <2>3 DEF HandInv, PathInv
<1>14. ASSUME NEW j \in Trees, j # k, j # k + 1
       PROVE  BlocksFindable(j)' /\ HandInv(j)' /\ PathInv(j)'
  <2>1. acc'[j] = acc[j] /\ acc[j].pc \in {"wait", "idle"}
    BY <1>6, <1>8, <1>14
  <2>2. acc[j].req.ind \in IndsAt[j]
    BY <1>1 DEF AccInv, AccessOf, RequestOf
  <2>3. ASSUME acc[j].pc = "wait"
        PROVE  acc'[j + 1].req = acc[j + 1].req /\ (Swapping(j)' <=> Swapping(j))
    <3>1. j < k + 1 /\ j \in Nat
      BY <1>4, <1>8, <1>14, <2>3
    <3>2. j + 1 \in Trees
      BY <1>1, <2>3, TreesDescend DEF AccInv
    <3>3. CASE j + 1 = k
      BY <1>3, <1>7, <2>1, <3>3 DEF Swapping, Stores
    <3>4. CASE j + 1 # k
      <4>1. j + 1 # k + 1
        BY <1>4, <1>14, <3>1
      <4>2. acc'[j + 1] = acc[j + 1]
        BY <1>6, <3>2, <3>4, <4>1
      <4>. QED BY <2>1, <4>2 DEF Swapping
    <3>. QED BY <3>3, <3>4
  <2>4. BlocksFindable(j)' /\ HandInv(j)'
    BY <1>9, <1>10, <2>1, <2>2, <2>3, TreeRests
  <2>. QED BY <2>1, <2>4 DEF PathInv
<1>15. EmptyBelow'
  BY <1>1, <1>5 DEF EmptyBelow
<1>16. IInv'
  BY <1>2, <1>12, <1>13, <1>14, <1>15, FromParts
<1>. QED BY <1>6, <1>9, <1>16

LEMMA IInvInit == Init => IInv
<1> SUFFICES ASSUME Init PROVE IInv
  OBVIOUS
<1>1. TypeInv
  BY InitTyping
<1>2. \A k \in Trees : acc[k].pc = "idle"
  BY DEF Init, NoAccess, Access
<1>3. \A k \in Trees : ~ Swapping(k)
  BY <1>2 DEF Swapping
<1>4. ASSUME NEW k \in Trees, NEW i \in IndsAt[k] PROVE Findable(k, i)
  <2>1. buckets[k] = [n \in NodesOf(k) |-> EmptyNode]
    BY SameNames DEF Init
  <2>2. ViewOf(k) = buckets[k]
    BY <1>1, <1>2, ViewTyping DEF Ahead
  <2>3. SlotsOf(ViewOf(k), i) = {}
    BY <2>1, <2>2, EmptyIsSound DEF SlotsOf
  <2>. QED BY <2>3 DEF Findable, Absent
<1>5. \A k \in Trees : BlocksFindable(k) /\ HandInv(k) /\ PathInv(k)
  BY <1>2, <1>3, <1>4 DEF BlocksFindable, HandInv, PathInv
<1>6. EmptyBelow
  BY EmptyIsSound DEF Init, EmptyBelow, Depths
<1>. QED BY <1>1, <1>5, <1>6 DEF IInv

LEMMA IInvStep ==
  ASSUME NoNeighbours, IInv, [Next]_vars
  PROVE  IInv'
<1>1. ASSUME NEW r \in Requests, StartAccess(r) PROVE IInv'
  BY <1>1, StartKeeps
<1>2. ASSUME NEW k \in Trees, AskMap(k) PROVE IInv'
  BY <1>2, AskKeeps
<1>3. ASSUME NEW k \in Trees, MapAnswered(k) PROVE IInv'
  BY <1>3, AnsweredKeeps
<1>4. ASSUME NEW k \in Trees,
             \/ DownloadPath(k) \/ ObliviousFetch(k) \/ UpdatePath(k)
             \/ PutToRoot(k) \/ Flush(k) \/ UpdateFlushed(k)
      PROVE  IInv'
  BY <1>4, DownloadKeeps, FetchKeeps, UpdateKeeps, PutKeeps, FlushKeeps, UpdateFlushedKeeps
<1>5. ASSUME UNCHANGED <<posmap, buckets, client, acc>> PROVE IInv'
  <2>1. TypeInv'
    BY <1>5 DEF IInv, TypeInv, AccInv
  <2>2. \A k \in Trees : ViewOf(k)' = ViewOf(k)
    BY <1>5 DEF ViewOf, Ahead
  <2>3. \A k \in Trees : \A b : ContentOf(k, b)' = ContentOf(k, b)
    BY <1>5, <2>2 DEF ContentOf, InHand
  <2>4. ASSUME NEW k \in Trees PROVE BlocksFindable(k)' /\ HandInv(k)' /\ PathInv(k)'
    <3>1. acc[k].req.ind \in IndsAt[k]
      BY DEF IInv, TypeInv, AccInv, AccessOf, RequestOf
    <3>2. \A i \in IndsAt[k] : LabelNow(k, i)' = LabelNow(k, i)
      BY <1>5, <2>3, LabelsStay
    <3>3. Swapping(k)' <=> Swapping(k)
      BY <1>5 DEF Swapping
    <3>4. BlocksFindable(k)' /\ HandInv(k)'
      BY <1>5, <2>2, <3>1, <3>2, <3>3, TreeRests
    <3>5. PathInv(k)'
      BY <1>5 DEF IInv, PathInv
    <3>. QED BY <3>4, <3>5
  <2>5. EmptyBelow'
    BY <1>5 DEF IInv, EmptyBelow
  <2>. QED BY <2>1, <2>4, <2>5 DEF IInv
<1>6. ASSUME NEW k \in Trees, RootOverflow(k) PROVE IInv'
  BY <1>5, <1>6 DEF RootOverflow
<1>7. ASSUME UNCHANGED vars PROVE IInv'
  BY <1>5, <1>7 DEF vars
<1>. QED BY <1>1, <1>2, <1>3, <1>4, <1>6, <1>7 DEF Next, Step, Ended

\* Wherever the accesses are, each block is nowhere or where it is looked for next.
THEOREM BlocksStayFindable == ASSUME NoNeighbours PROVE Spec => []IInv
BY IInvInit, IInvStep, PTL DEF Spec

-----------------------------------------------------------------------------
(* The slots of the invariant are those of the model's properties.         *)

HeldIsView ==
  \A k \in Trees : \A i :
    Held(k, i) = SlotsOf(ViewOf(k), i) /\ DataOf(k, i) = DataIn(ViewOf(k), i)

LEMMA HeldInView == HeldIsView
<1> SUFFICES ASSUME NEW k \in Trees, NEW i
             PROVE  Held(k, i) = SlotsOf(ViewOf(k), i) /\ DataOf(k, i) = DataIn(ViewOf(k), i)
  BY DEF HeldIsView
<1>1. S(k)!Nodes = NodesOf(k) /\ S(k)!PathNodes(acc[k].path) = WalkOf(k, acc[k].path)
  BY SameNames
<1>2. \A n \in NodesOf(k) : View(k, n) = ViewOf(k)[n]
  BY <1>1 DEF View, ViewOf, Ahead
<1>3. DOMAIN ViewOf(k) = NodesOf(k)
  BY DEF ViewOf
<1> DEFINE V == ViewOf(k)
<1>4. Held(k, i) = SlotsOf(V, i)
  <2> HIDE DEF V
  <2>1. \A s \in NodesOf(k) \X Slots : View(k, s[1]) = V[s[1]]
    BY <1>2 DEF V
  <2>2. Held(k, i) = {s \in NodesOf(k) \X Slots :
                        View(k, s[1]).presence[s[2]] > 0 /\ View(k, s[1]).keys[s[2]] = BlockKey(i)}
    BY <1>1 DEF Held
  <2>3. SlotsOf(V, i) = {s \in NodesOf(k) \X Slots :
                           V[s[1]].presence[s[2]] > 0 /\ V[s[1]].keys[s[2]] = BlockKey(i)}
    BY <1>3 DEF SlotsOf, Taken, V
  <2>. QED BY <2>1, <2>2, <2>3
<1>5. DataOf(k, i) = DataIn(V, i)
  <2>1. CASE Held(k, i) = {}
    BY <1>4, <2>1 DEF DataOf, DataIn
  <2>2. CASE Held(k, i) # {}
    <3> DEFINE s == CHOOSE s \in Held(k, i) : TRUE
    <3>1. s \in Held(k, i)
      BY <2>2
    <3>2. s[1] \in NodesOf(k)
      <4> HIDE DEF s
      <4>1. Held(k, i) \subseteq NodesOf(k) \X Slots
        BY <1>1 DEF Held
      <4>. QED BY <3>1, <4>1
    <3>3. DataOf(k, i) = View(k, s[1]).contents[s[2]]
      BY <2>2 DEF DataOf
    <3>4. DataIn(V, i) = V[s[1]].contents[s[2]]
      BY <1>4, <2>2 DEF DataIn, DataAt
    <3> HIDE DEF s
    <3>. QED BY <1>2, <3>2, <3>3, <3>4
  <2>. QED BY <2>1, <2>2
<1>. QED BY <1>4, <1>5

\* The same in the state after a step.
LEMMA HeldInViewNext == HeldIsView'
BY HeldInView, PTL

\* Between accesses no block is in two slots, and the next access will find it: its
\* slot is on the path of the label kept for it.
THEOREM OneSlotEach == ASSUME NoNeighbours PROVE Spec => []OneSlotOnLabelledPath
<1>1. IInv => OneSlotOnLabelledPath
  <2> SUFFICES ASSUME IInv, \A k \in Trees : acc[k].pc = "idle",
                      NEW k \in Trees, NEW i \in IndsAt[k]
               PROVE  /\ Cardinality(Held(k, i)) =< 1
                      /\ \A s \in Held(k, i) :
                           /\ View(k, s[1]).paths[s[2]] = LabelOf(k, i)
                           /\ s[1] \in S(k)!PathNodes(LabelOf(k, i))
    BY DEF OneSlotOnLabelledPath
  <2>1. Expected(k, i) = LabelNow(k, i)
    BY DEF Expected, Walking, Swapping
  <2>2. LabelNow(k, i) = LabelOf(k, i)
    <3>1. CASE MapInEnclave(k)
      BY <3>1 DEF LabelNow, LabelOf
    <3>2. CASE ~ MapInEnclave(k)
      <4>1. k + 1 \in Trees
        BY <3>2, IndsTyping
      <4>2. ContentOf(k + 1, Below(i)) = DataOf(k + 1, Below(i))
        BY <4>1, HeldInView DEF ContentOf, InHand, HeldIsView
      <4>. QED BY <3>2, <4>2 DEF LabelNow, LabelOf, Below
    <3>. QED BY <3>1, <3>2
  <2>3. Held(k, i) = SlotsOf(ViewOf(k), i)
    BY HeldInView DEF HeldIsView
  <2>4. CASE Absent(ViewOf(k), i)
    BY <2>3, <2>4, FS_EmptySet DEF Absent
  <2>5. CASE ~ Absent(ViewOf(k), i)
    <3>1. Findable(k, i)
      BY DEF IInv, BlocksFindable
    <3>2. PICK x : Lies(ViewOf(k), k, i, Expected(k, i), x)
      BY <2>5, <3>1 DEF Findable
    <3>3. PICK s \in NodesOf(k) \X Slots :
            /\ SlotsOf(ViewOf(k), i) = {s}
            /\ LabelAt(ViewOf(k), s) = Expected(k, i)
            /\ s[1] \in WalkOf(k, Expected(k, i))
      <4>1. DOMAIN ViewOf(k) = NodesOf(k)
        BY DEF ViewOf
      <4>. QED BY <3>2, <4>1 DEF Lies
    <3>4. Cardinality(Held(k, i)) = 1
      BY <2>3, <3>3, FS_Singleton
    <3>5. View(k, s[1]) = ViewOf(k)[s[1]]
      BY <3>3, SameNames DEF View, ViewOf, Ahead
    <3>6. S(k)!PathNodes(LabelOf(k, i)) = WalkOf(k, LabelOf(k, i))
      BY SameNames
    <3>7. View(k, s[1]).paths[s[2]] = LabelOf(k, i) /\ s[1] \in S(k)!PathNodes(LabelOf(k, i))
      BY <2>1, <2>2, <3>3, <3>5, <3>6 DEF LabelAt
    <3>. QED BY <2>3, <3>3, <3>4, <3>7
  <2>. QED BY <2>4, <2>5
<1>. QED BY <1>1, BlocksStayFindable, PTL

-----------------------------------------------------------------------------
(***************************************************************************)
(* A SimpleORAM with its maps implements the memory of module ORAM: the    *)
(* update of the fetched block changes what callers see, and nothing else  *)
(* does, in whichever tree it is done.                                     *)
(***************************************************************************)

MemIsContent ==
  \A i \in Inds : PhaseBar # "crashed" => MemBar[i] = ContentOf(0, i)

LEMMA MemOfContent == MemIsContent
<1> SUFFICES ASSUME NEW i \in Inds, PhaseBar # "crashed"
             PROVE  MemBar[i] = ContentOf(0, i)
  BY DEF MemIsContent
<1>1. DataOf(0, i) = DataIn(ViewOf(0), i)
  BY HeldInView, TreesDescend DEF HeldIsView
<1>2. MemBar[i] = IF acc[0].pc \in {"update", "put"} /\ i = acc[0].req.ind
                  THEN acc[0].fetched ELSE DataOf(0, i)
  BY DEF MemBar
<1>. QED BY <1>1, <1>2 DEF ContentOf, InHand

LEMMA MemOfContentNext == MemIsContent'
BY MemOfContent, PTL

Called == {"map", "wait", "download", "fetch", "update"}
Served == {"put", "flushdown", "flush", "flushup"}
Phases ==
  /\ acc[0].pc = "idle" => PhaseBar = "idle"
  /\ acc[0].pc # "idle" /\ ~ alive => PhaseBar = "crashed"
  /\ acc[0].pc \in Called /\ alive => PhaseBar = "called"
  /\ acc[0].pc \in Served /\ alive => PhaseBar = "served"

LEMMA PhaseOf == Phases
<1> DEFINE pc == acc[0].pc
<1>1. /\ pc \in Called => pc # "idle" /\ pc \notin Served
      /\ pc \in Served => pc # "idle" /\ pc \notin Called
  BY DEF Called, Served
<1>2. PhaseBar =
        CASE pc = "idle" -> "idle"
          [] pc # "idle" /\ ~ alive -> "crashed"
          [] pc \in Called /\ alive -> "called"
          [] pc \in Served /\ alive -> "served"
  BY DEF PhaseBar, Called, Served
<1> HIDE DEF pc
<1>3. /\ pc = "idle" => PhaseBar = "idle"
      /\ pc # "idle" /\ ~ alive => PhaseBar = "crashed"
      /\ pc \in Called /\ alive => PhaseBar = "called"
      /\ pc \in Served /\ alive => PhaseBar = "served"
  BY <1>1, <1>2, Zenon
<1>. QED BY <1>3 DEF Phases, pc

LEMMA PhaseOfNext == Phases'
BY PhaseOf, PTL

\* Requests and the exchange of bytes are the same in both.
LEMMA SameData ==
  /\ RAM!ZeroBlock = ZeroBlock
  /\ RAM!ReadRequests = ReadRequests
  /\ RAM!WriteRequests = WriteRequests
  /\ \A r, c : RAM!Stored(r, c) = Stored(r, c) /\ RAM!Loaded(r, c) = Loaded(r, c)
<1>1. RAM!Words = Words
  BY DEF Words, RAM!Words
<1>2. RAM!ZeroBlock = ZeroBlock /\ RAM!Contents = Contents
  BY <1>1 DEF ZeroBlock, RAM!ZeroBlock, Contents, RAM!Contents
<1>3. RAM!WriteRanges = WriteRanges
  BY <1>1 DEF WriteRanges, RAM!WriteRanges
<1>4. RAM!ReadRequests = ReadRequests /\ RAM!WriteRequests = WriteRequests
  BY <1>1, <1>2, <1>3
     DEF ReadRequests, RAM!ReadRequests, WriteRequests, RAM!WriteRequests
<1>5. \A r, c : RAM!Stored(r, c) = Stored(r, c) /\ RAM!Loaded(r, c) = Loaded(r, c)
  BY <1>1 DEF Stored, RAM!Stored, Loaded, RAM!Loaded
<1>. QED BY <1>2, <1>4, <1>5

\* What the top tree holds is the memory.
LEMMA SameContentSameMem ==
  ASSUME \A i \in Inds : ContentOf(0, i)' = ContentOf(0, i),
         PhaseBar # "crashed", PhaseBar' # "crashed"
  PROVE  MemBar' = MemBar
<1>1. \A i \in Inds : MemBar'[i] = MemBar[i]
  BY MemOfContent, MemOfContentNext DEF MemIsContent
<1>2. MemBar = [i \in Inds |-> MemBar[i]] /\ MemBar' = [i \in Inds |-> MemBar'[i]]
  BY DEF MemBar
<1>. QED BY <1>1, <1>2

\* A step within a phase of the call, or its return.
LEMMA QuietStep ==
  ASSUME alive, alive' = alive, acc[0].pc # "idle",
         \A i \in Inds : ContentOf(0, i)' = ContentOf(0, i),
         acc'[0].req = acc[0].req,
         \/ acc[0].pc \in Called /\ acc'[0].pc \in Called
         \/ acc[0].pc \in Served /\ acc'[0].pc \in Served \cup {"idle"}
  PROVE  RAM!Return \/ UNCHANGED RAM!vars
<1>1. alive'
  OBVIOUS
<1>2. \/ PhaseBar = "called" /\ PhaseBar' = "called"
      \/ PhaseBar = "served" /\ PhaseBar' \in {"served", "idle"}
  BY <1>1, PhaseOf, PhaseOfNext DEF Phases
<1>3. MemBar' = MemBar
  BY <1>2, SameContentSameMem
<1>. QED BY <1>2, <1>3 DEF RAM!Return, RAM!vars

LEMMA RefinesInit == Init => RAM!Init
<1> SUFFICES ASSUME Init PROVE RAM!Init
  OBVIOUS
<1>1. TypeInv /\ IInv
  BY InitTyping, IInvInit
<1>2. acc[0] = NoAccess(0) /\ acc[0].pc = "idle" /\ acc[0].req = NoRequest(0)
  BY TreesDescend DEF Init, NoAccess, Access
<1>3. acc[0].req \in ReadRequests
  <2>1. (CHOOSE i \in IndsAt[0] : TRUE) \in IndsAt[0] /\ IndsAt[0] = Inds
    BY IndsFit, TreesDescend
  <2>. QED BY <1>2, <2>1 DEF NoRequest, ReadRequests
<1>4. PhaseBar = "idle"
  BY <1>2, PhaseOf DEF Phases
<1>5. ASSUME NEW i \in Inds PROVE MemBar[i] = ZeroBlock
  <2>1. ContentOf(0, i) = DataIn(ViewOf(0), i)
    BY <1>2 DEF ContentOf, InHand
  <2>2. buckets[0] = [n \in NodesOf(0) |-> EmptyNode]
    BY SameNames, TreesDescend DEF Init
  <2>3. ViewOf(0) = buckets[0]
    BY <1>1, <1>2, ViewTyping, TreesDescend DEF Ahead
  <2>4. SlotsOf(ViewOf(0), i) = {}
    BY <2>2, <2>3, EmptyIsSound DEF SlotsOf
  <2>. QED BY <1>4, <2>1, <2>4, MemOfContent DEF MemIsContent, DataIn
<1>6. MemBar = [i \in Inds |-> ZeroBlock]
  <2>1. MemBar = [i \in Inds |-> MemBar[i]]
    BY DEF MemBar
  <2>. QED BY <1>5, <2>1
<1>. QED BY <1>3, <1>4, <1>6, SameData DEF RAM!Init

LEMMA RefinesStart ==
  ASSUME NoNeighbours, IInv, NEW r \in Requests, StartAccess(r)
  PROVE  RAM!Invoke(r)
<1>1. alive /\ alive' /\ acc[0].pc = "idle"
  BY TreesDescend DEF StartAccess
<1>2. /\ \A j \in Trees : \A b : ContentOf(j, b)' = ContentOf(j, b)
      /\ acc'[0].req = r /\ acc'[0].pc \in {"map", "download"}
  BY StartKeeps
<1>3. PhaseBar = "idle" /\ PhaseBar' = "called"
  BY <1>1, <1>2, PhaseOf, PhaseOfNext DEF Phases, Called
<1>4. MemBar' = MemBar
  BY <1>2, <1>3, SameContentSameMem, TreesDescend
<1>. QED BY <1>2, <1>3, <1>4 DEF RAM!Invoke

\* The exchange of labels, in any tree.
LEMMA RefinesMap ==
  ASSUME NoNeighbours, IInv, NEW k \in Trees, alive, alive' = alive,
         AskMap(k) \/ MapAnswered(k)
  PROVE  UNCHANGED RAM!vars
<1>1. k \in Nat /\ 0 \in Trees /\ AccInv
  BY TreesDescend DEF IInv, TypeInv
<1>2. acc[k] \in AccessOf(k) /\ acc[k].pc \in {"map", "wait"}
  BY <1>1 DEF AccInv, AskMap, MapAnswered
<1>3. /\ \A j \in Trees : \A b : ContentOf(j, b)' = ContentOf(j, b)
      /\ \/ acc'[k] = [acc[k] EXCEPT !.pc = "wait"]
         \/ acc'[k] = [acc[k] EXCEPT !.pc = "download", !.path = OldLabel(k)]
      /\ \A j \in Trees : j # k /\ j # k + 1 => acc'[j] = acc[j]
  BY AskKeeps, AnsweredKeeps
<1>4. /\ acc'[k].pc \in {"wait", "download"} /\ acc'[k].req = acc[k].req
  <2> HIDE DEF OldLabel
  <2>. QED BY <1>2, <1>3 DEF AccessOf
<1>5. acc[0].pc \in {"map", "wait"} /\ acc'[0].pc \in {"wait", "download"}
      /\ acc'[0].req = acc[0].req
  <2>1. CASE k = 0
    BY <1>2, <1>4, <2>1
  <2>2. CASE k # 0
    <3>1. acc'[0] = acc[0]
      BY <1>1, <1>3, <2>2
    <3>2. 0 \in 0 .. k - 1
      BY <1>1, <2>2
    <3>3. acc[0].pc = "wait"
      BY <1>1, <1>2, <3>2 DEF AccInv
    <3>. QED BY <3>1, <3>3
  <2>. QED BY <2>1, <2>2
<1>6. alive'
  OBVIOUS
<1>7. PhaseBar = "called" /\ PhaseBar' = "called"
  BY <1>5, <1>6, PhaseOf, PhaseOfNext DEF Phases, Called
<1>8. MemBar' = MemBar
  BY <1>1, <1>3, <1>7, SameContentSameMem
<1>. QED BY <1>5, <1>7, <1>8 DEF RAM!vars

\* The calls on the trees below: the caller sees nothing of them.
LEMMA RefinesBelow ==
  ASSUME IInv, NEW k \in Trees, k # 0, alive, alive' = alive,
         \/ DownloadPath(k) \/ ObliviousFetch(k) \/ UpdatePath(k)
         \/ PutToRoot(k) \/ Flush(k) \/ UpdateFlushed(k)
  PROVE  UNCHANGED RAM!vars
<1>1. /\ TypeInv' /\ posmap' = posmap /\ acc[k].pc \in Working
      /\ \A j \in Trees : j # k => acc'[j] = acc[j] /\ buckets'[j] = buckets[j]
      /\ k \in Nat
  BY StepFacts
<1>2. 0 \in Trees /\ AccInv
  BY TreesDescend DEF IInv, TypeInv
<1>3. \A b : ContentOf(0, b)' = ContentOf(0, b)
  BY <1>1, <1>2, OthersStay
<1>4. acc[0].pc = "wait" /\ acc'[0] = acc[0]
  <2>1. 0 < k
    BY <1>1
  <2>. QED BY <1>1, <1>2, <2>1, OthersRest DEF Working
<1>5. PhaseBar = "called" /\ PhaseBar' = "called"
  <2>1. alive'
    OBVIOUS
  <2>. QED BY <1>4, <2>1, PhaseOf, PhaseOfNext DEF Phases, Called
<1>6. MemBar' = MemBar
  BY <1>3, <1>5, SameContentSameMem
<1>. QED BY <1>4, <1>5, <1>6 DEF RAM!vars

\* The update of the block that was fetched serves the request.
LEMMA RefinesUpdate ==
  ASSUME IInv, alive, alive' = alive, UpdatePath(0)
  PROVE  RAM!Serve
<1>1. 0 \in Trees /\ IndsAt[0] = Inds
  BY TreesDescend, IndsFit
<1>2. /\ acc[0].pc = "update" /\ acc[0] \in AccessOf(0) /\ acc[0].req.ind \in Inds
  BY <1>1 DEF UpdatePath, IInv, TypeInv, AccInv, AccessOf, RequestOf
<1>3. acc'[0].pc = "put"
  <2> DEFINE stored == Stored(acc[0].req, acc[0].fetched)
             loaded == Loaded(acc[0].req, acc[0].fetched)
  <2>1. acc'[0] = [acc[0] EXCEPT !.pc = "put", !.fetched = stored, !.req.buf = loaded]
    BY <1>1 DEF UpdatePath, IInv, TypeInv, AccInv
  <2> HIDE DEF stored, loaded
  <2>. QED BY <1>2, <2>1 DEF AccessOf
<1>4. /\ \A b \in Inds : b # acc[0].req.ind => ContentOf(0, b)' = ContentOf(0, b)
      /\ ContentOf(0, acc[0].req.ind) = acc[0].fetched
      /\ ContentOf(0, acc[0].req.ind)' = Stored(acc[0].req, acc[0].fetched)
      /\ acc'[0].req = [acc[0].req EXCEPT !.buf = Loaded(acc[0].req, acc[0].fetched)]
  BY <1>1, UpdateKeeps
<1>5. acc'[0].req.ind = acc[0].req.ind
  BY <1>2, <1>4 DEF AccessOf, RequestOf
<1>6. PhaseBar = "called" /\ PhaseBar' = "served"
  <2>1. alive'
    OBVIOUS
  <2>. QED BY <1>2, <1>3, <2>1, PhaseOf, PhaseOfNext DEF Phases, Called, Served
<1>7. /\ \A i \in Inds : MemBar[i] = ContentOf(0, i) /\ MemBar'[i] = ContentOf(0, i)'
      /\ MemBar = [i \in Inds |-> MemBar[i]] /\ MemBar' = [i \in Inds |-> MemBar'[i]]
  <2>1. \A i \in Inds : MemBar[i] = ContentOf(0, i) /\ MemBar'[i] = ContentOf(0, i)'
    BY <1>6, MemOfContent, MemOfContentNext DEF MemIsContent
  <2>2. MemBar = [i \in Inds |-> MemBar[i]] /\ MemBar' = [i \in Inds |-> MemBar'[i]]
    BY DEF MemBar
  <2>. QED BY <2>1, <2>2
<1> DEFINE q == acc[0].req.ind
           stored == Stored(acc[0].req, acc[0].fetched)
<1>8. MemBar[q] = acc[0].fetched /\ MemBar'[acc[0].req.ind] = stored
  BY <1>2, <1>4, <1>5, <1>7
<1>9. MemBar' = [MemBar EXCEPT ![acc[0].req.ind] = stored]
  <2> HIDE DEF stored
  <2>. QED BY <1>2, <1>4, <1>7, <1>8
<1>. QED BY <1>4, <1>6, <1>8, <1>9, SameData DEF RAM!Serve

\* The other calls on the top tree move blocks and change none.
LEMMA RefinesMoves ==
  ASSUME IInv, alive, alive' = alive,
         DownloadPath(0) \/ ObliviousFetch(0) \/ PutToRoot(0) \/ Flush(0) \/ UpdateFlushed(0)
  PROVE  RAM!Return \/ UNCHANGED RAM!vars
<1>1. 0 \in Trees /\ IndsAt[0] = Inds /\ AccInv /\ acc[0] \in AccessOf(0)
  BY TreesDescend, IndsFit DEF IInv, TypeInv, AccInv
<1>2. \A i \in Inds : ContentOf(0, i)' = ContentOf(0, i)
  BY <1>1, DownloadKeeps, FetchKeeps, PutKeeps, FlushKeeps, UpdateFlushedKeeps
<1>3. CASE DownloadPath(0)
  <2>1. /\ acc[0].pc \in {"download", "flushdown"}
        /\ acc'[0] = [acc[0] EXCEPT !.pc = IF acc[0].pc = "download" THEN "fetch" ELSE "flush"]
    BY <1>1, <1>3 DEF DownloadPath, Goes, AccInv
  <2>2. /\ acc'[0].pc = IF acc[0].pc = "download" THEN "fetch" ELSE "flush"
        /\ acc'[0].req = acc[0].req
    BY <1>1, <2>1 DEF AccessOf
  <2>. QED BY <1>2, <2>1, <2>2, QuietStep DEF Called, Served
<1>4. CASE ObliviousFetch(0)
  <2>1. acc[0].pc = "fetch" /\ \E x : acc'[0] = [acc[0] EXCEPT !.pc = "update", !.fetched = x]
    BY <1>1, <1>4 DEF ObliviousFetch, AccInv
  <2>2. acc'[0].pc = "update" /\ acc'[0].req = acc[0].req
    BY <1>1, <2>1 DEF AccessOf
  <2>. QED BY <1>2, <2>1, <2>2, QuietStep DEF Called
<1>5. CASE PutToRoot(0)
  <2>1. /\ acc[0].pc = "put"
        /\ \/ acc'[0] = Return(0)
           \/ \E p : acc'[0] = Access("flushdown", acc[0].req, p, 0)
    BY <1>1, <1>5 DEF PutToRoot, AccInv
  <2>2. acc'[0].pc \in {"idle", "flushdown"} /\ acc'[0].req = acc[0].req
    <3>1. CASE acc'[0] = Return(0)
      BY <3>1 DEF Return, Access
    <3>2. ASSUME NEW p, acc'[0] = Access("flushdown", acc[0].req, p, 0)
          PROVE  acc'[0].pc = "flushdown" /\ acc'[0].req = acc[0].req
      BY <3>2 DEF Access
    <3>. QED BY <2>1, <3>1, <3>2
  <2>. QED BY <1>2, <2>1, <2>2, QuietStep DEF Served
<1>6. CASE Flush(0)
  <2>1. acc[0].pc = "flush" /\ acc'[0] = [acc[0] EXCEPT !.pc = "flushup"]
    BY <1>1, <1>6 DEF Flush, Goes, AccInv
  <2>2. acc'[0].pc = "flushup" /\ acc'[0].req = acc[0].req
    BY <1>1, <2>1 DEF AccessOf
  <2>. QED BY <1>2, <2>1, <2>2, QuietStep DEF Served
<1>7. CASE UpdateFlushed(0)
  <2>1. acc[0].pc = "flushup" /\ acc'[0] = Return(0)
    BY <1>1, <1>7 DEF UpdateFlushed, AccInv
  <2>2. acc'[0].pc = "idle" /\ acc'[0].req = acc[0].req
    BY <2>1 DEF Return, Access
  <2>. QED BY <1>2, <2>1, <2>2, QuietStep DEF Served
<1>. QED BY <1>3, <1>4, <1>5, <1>6, <1>7

\* A process that ends takes its memory with it.
LEMMA RefinesOverflow ==
  ASSUME IInv, NEW k \in Trees, alive, RootOverflow(k)
  PROVE  RAM!Crash
<1>1. k \in Nat /\ 0 \in Trees /\ AccInv
  BY TreesDescend DEF IInv, TypeInv
<1>2. acc[k].pc = "put" /\ acc' = acc /\ ~ alive'
  BY DEF RootOverflow
<1>3. acc[0].pc \in {"put", "wait"}
  <2>1. CASE k = 0
    BY <1>2, <2>1
  <2>2. CASE k # 0
    <3>1. 0 \in 0 .. k - 1
      BY <1>1, <2>2
    <3>. QED BY <1>1, <1>2, <3>1 DEF AccInv
  <2>. QED BY <2>1, <2>2
<1>4. PhaseBar \in {"called", "served"} /\ PhaseBar' = "crashed"
  BY <1>2, <1>3, PhaseOf, PhaseOfNext DEF Phases, Called, Served
<1>5. MemBar' = [i \in Inds |-> ZeroBlock]
  BY <1>4 DEF MemBar
<1>. QED BY <1>2, <1>4, <1>5, SameData DEF RAM!Crash

LEMMA RefinesStep ==
  ASSUME NoNeighbours, IInv, [Next]_vars
  PROVE  [RAM!Next]_(RAM!vars)
<1>1. ASSUME NEW r \in Requests, StartAccess(r) PROVE RAM!Next
  <2>1. r \in ReadRequests \cup WriteRequests
    BY SimpleORAMAssumption
  <2>. QED BY <1>1, <2>1, RefinesStart, SameData DEF RAM!Next
<1>2. ASSUME alive, NEW k \in Trees, AskMap(k) \/ MapAnswered(k)
      PROVE  UNCHANGED RAM!vars
  <2>1. alive' = alive
    BY <1>2 DEF AskMap, MapAnswered
  <2>. QED BY <1>2, <2>1, RefinesMap
<1>3. ASSUME alive, NEW k \in Trees,
             \/ DownloadPath(k) \/ ObliviousFetch(k) \/ UpdatePath(k)
             \/ PutToRoot(k) \/ Flush(k) \/ UpdateFlushed(k)
      PROVE  RAM!Serve \/ RAM!Return \/ UNCHANGED RAM!vars
  <2>1. alive' = alive
    BY <1>3 DEF DownloadPath, ObliviousFetch, UpdatePath, PutToRoot, Flush, UpdateFlushed
  <2>2. CASE k = 0
    BY <1>3, <2>1, <2>2, RefinesUpdate, RefinesMoves
  <2>3. CASE k # 0
    BY <1>3, <2>1, <2>3, RefinesBelow
  <2>. QED BY <2>2, <2>3
<1>4. ASSUME alive, NEW k \in Trees, RootOverflow(k) PROVE RAM!Crash
  BY <1>4, RefinesOverflow
<1>5. ASSUME UNCHANGED vars PROVE UNCHANGED RAM!vars
  <2>1. acc' = acc /\ buckets' = buckets /\ client' = client /\ alive' = alive
    BY <1>5 DEF vars
  <2>2. PhaseBar' = PhaseBar
    BY <2>1 DEF PhaseBar
  <2>3. ViewOf(0)' = ViewOf(0)
    BY <2>1 DEF ViewOf, Ahead
  <2>4. \A i \in Inds : ContentOf(0, i)' = ContentOf(0, i)
    BY <2>1, <2>3 DEF ContentOf, InHand
  <2>5. MemBar' = MemBar
    <3>1. CASE PhaseBar = "crashed"
      BY <2>2, <3>1 DEF MemBar
    <3>2. CASE PhaseBar # "crashed"
      BY <2>2, <2>4, <3>2, SameContentSameMem
    <3>. QED BY <3>1, <3>2
  <2>. QED BY <2>1, <2>2, <2>5 DEF RAM!vars
<1>. QED BY <1>1, <1>2, <1>3, <1>4, <1>5 DEF Next, Step, Ended, RAM!Next

\* For any capacity, bucket size and threshold, any labels drawn and maps as deep as
\* they need be, the accesses of a SimpleORAM are the reads and writes of a memory of
\* blocks, as long as the last map keeps no labels of two neighbours.
THEOREM RefinesORAM == ASSUME NoNeighbours PROVE Spec => ImplementsORAM
<1>1. IInv /\ [Next]_vars => [RAM!Next]_(RAM!vars)
  BY RefinesStep
<1>. QED
  BY <1>1, RefinesInit, BlocksStayFindable, PTL DEF Spec, ImplementsORAM, RAM!Spec
=============================================================================
