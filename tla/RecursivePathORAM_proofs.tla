--------------------- MODULE RecursivePathORAM_proofs ---------------------
(***************************************************************************)
(* Theorems about RecursivePathORAM, for every capacity, block, bucket and *)
(* stash size and as many ORAMs below the caller's as its position map     *)
(* takes.  What the variables hold is proved without restriction; that the *)
(* maps lead to the blocks, and that the whole is a memory, is proved as   *)
(* long as no eviction leaves a block in the stash the trees share         *)
(* (NothingSpilled): a block left there is found by other trees.           *)
(***************************************************************************)
EXTENDS RecursivePathORAM, Common_proofs

-----------------------------------------------------------------------------
(* The trees.                                                              *)

HeightOf(k) == ComputeTreeHeight[CapacityAt[k]]
LevelsOf(k) == 0 .. HeightOf(k) - 1

LEMMA Capacities ==
  /\ CapacityAt \in [Nat -> Nat \ {0}]
  /\ \A k \in Nat : HeightOf(k) \in Nat \ {0}
<1>1. CapacityAt \in [Nat -> Nat \ {0}]
  BY CapacitiesDescend, DataAssumption, RecursionAssumption DEF CapacityAt
<1>2. \A k \in Nat : HeightOf(k) \in Nat \ {0}
  BY HeightsDescend, DataAssumption, RecursionAssumption DEF HeightOf, CapacityAt
<1>. QED BY <1>1, <1>2

\* Every tree but the last has one below it.
LEMMA TreesDescend ==
  /\ Trees \subseteq Nat /\ 0 \in Trees
  /\ \A k \in Trees : ~ MapInEnclave(k) => k + 1 \in Trees
  /\ \A k \in Trees : \A j \in 0 .. k - 1 : j \in Trees /\ ~ MapInEnclave(j)
BY DepthsDescend, DataAssumption, RecursionAssumption
   DEF Trees, MapInEnclave, CapacityAt

\* Each object is asked for blocks it has, and the map of an object for the
\* blocks that hold the labels of these.
LEMMA IndsFit ==
  /\ IndsAt[0] = Inds
  /\ \A k \in Trees : k + 1 \in Trees => IndsAt[k + 1] = MapInds(IndsAt[k], WordsPerBlock)
  /\ \A k \in Trees : IndsAt[k] # {} /\ IndsAt[k] \subseteq 0 .. CapacityAt[k] - 1
<1> DEFINE I == IndsBelow(Inds, WordsPerBlock)
<1>1. \A k \in Trees : k \in Nat /\ IndsAt[k] = I[k]
  BY TreesDescend DEF IndsAt
<1>2. /\ Capacity \in Nat \ {0} /\ WordsPerBlock \in Nat \ {0}
      /\ Inds \in SUBSET (0 .. Capacity - 1) /\ Inds # {}
  BY DataAssumption, RecursionAssumption
<1>3. /\ I[0] = Inds
      /\ \A k \in Nat : I[k + 1] = MapInds(I[k], WordsPerBlock)
      /\ \A k \in Nat : I[k] # {} /\ I[k] \subseteq 0 .. CapacityAt[k] - 1
  BY <1>2, IndsDescend DEF CapacityAt
<1> HIDE DEF I
<1>. QED BY <1>1, <1>3, TreesDescend

-----------------------------------------------------------------------------
(* What the instances of PathORAM say of a tree, without their names.      *)

At(p, h) == <<h, p % TwoTo[h]>>
WalkOf(k, p) == {At(p, h) : h \in LevelsOf(k)}
NodesOf(k) == UNION {WalkOf(k, p) : p \in Paths}

OnWalk(k) == UNION {buckets[k][At(acc[k].path, h)] : h \in LevelsOf(k)}
SlotsOnWalk(k) ==
  {s \in LevelsOf(k) \X OnWalk(k) : s[2] \in buckets[k][At(acc[k].path, s[1])]}

LEMMA SameNames ==
  ASSUME NEW k
  PROVE  /\ P(k)!Nodes = NodesOf(k)
         /\ \A p : P(k)!PathNodes(p) = WalkOf(k, p)
         /\ \A p, q, h : P(k)!SamePrefix(p, q, h) => At(p, h) = At(q, h)
         /\ \A i : P(k)!BlockKey(i) = i + 1
         /\ P(k)!OnPath = OnWalk(k) /\ P(k)!SlotsOnPath = SlotsOnWalk(k)
         /\ \A n : P(k)!Fits(n) <=> n =< StashCap
         /\ \A r, c : P(k)!Stored(r, c) = Stored(r, c) /\ P(k)!Loaded(r, c) = Loaded(r, c)
<1>1. P(k)!Levels = LevelsOf(k)
  BY DEF P!Levels, LevelsOf, HeightOf
<1>2. P(k)!TwoTo = TwoTo
  BY DEF P!TwoTo, TwoTo
<1>3. \A p, h : P(k)!NodeAt(p, h) = At(p, h)
  BY <1>2 DEF P!NodeAt, P!Masked, At
<1>4. \A p : P(k)!PathNodes(p) = WalkOf(k, p)
  BY <1>1, <1>3 DEF P!PathNodes, WalkOf
<1>5. P(k)!Nodes = NodesOf(k)
  BY <1>4 DEF P!Nodes, NodesOf
<1>6. \A p, q, h : P(k)!SamePrefix(p, q, h) => At(p, h) = At(q, h)
  BY <1>2 DEF P!SamePrefix, P!Masked, At
<1>7. P(k)!OnPath = OnWalk(k)
  BY <1>1, <1>3 DEF P!OnPath, OnWalk
<1>8. P(k)!SlotsOnPath = SlotsOnWalk(k)
  BY <1>1, <1>3, <1>7 DEF P!SlotsOnPath, SlotsOnWalk
<1>9. \A r, c : P(k)!Stored(r, c) = Stored(r, c) /\ P(k)!Loaded(r, c) = Loaded(r, c)
  BY DEF P!Stored, Stored, P!Loaded, Loaded, P!Words, Words
<1>. QED BY <1>4, <1>5, <1>6, <1>7, <1>8, <1>9 DEF P!BlockKey, P!Fits

\* The nodes a label meets are nodes of the tree.
LEMMA WalksInTree ==
  ASSUME NEW k, NEW p \in Paths
  PROVE  /\ WalkOf(k, p) \subseteq NodesOf(k)
         /\ \A h \in LevelsOf(k) : At(p, h) \in WalkOf(k, p) /\ At(p, h)[1] = h
         /\ \A n \in WalkOf(k, p) : n[1] \in LevelsOf(k) /\ n = At(p, n[1])
BY DEF WalkOf, NodesOf, At

-----------------------------------------------------------------------------
(* What the variables hold, and where the accesses of the trees are.       *)

Labels == Paths \cup {0}
BlockOf(k) ==
  [key : {i + 1 : i \in IndsAt[k]}, path : Paths, data : Contents, own : {k}]
AnyBlock == UNION {BlockOf(k) : k \in Trees}

RequestOf(k) == [ind : IndsAt[k], ws : SUBSET Words, buf : Contents]
Working == {"wild", "download", "fetch", "put", "evict"}
AccessRecord(k) ==
  [pc : Working \cup {"idle", "map", "wait", "answered"}, req : RequestOf(k),
   path : Labels, newPath : Labels, fetched : Contents]

\* An access in progress has its labels; the last entry of the map in the
\* enclave is never downloaded for.
AccessOf(k) ==
  {a \in AccessRecord(k) :
     /\ a.pc \notin {"idle", "answered"} => a.path \in Paths /\ a.newPath \in Paths
     /\ a.pc \in {"map", "wait"} => ~ MapInEnclave(k)
     /\ MapInEnclave(k) /\ a.pc \in {"download", "fetch", "put", "evict"} =>
          a.req.ind + 1 # MaxPosMap}
Back(k) == IF k = 0 THEN "idle" ELSE "answered"

\* One tree is worked on; those above it wait, those below are idle.
AccInv ==
  /\ acc = [k \in Trees |-> acc[k]]
  /\ \A k \in Trees : acc[k] \in AccessOf(k)
  /\ \A k \in Trees : acc[k].pc = "wait" => acc[k + 1].pc # "idle"
  /\ \A k \in Trees : \A j \in 0 .. k - 1 : acc[k].pc # "idle" => acc[j].pc = "wait"
  /\ acc[0].pc # "answered"

BucketsOf(k) ==
  {t \in [NodesOf(k) -> SUBSET AnyBlock] :
     \A n \in NodesOf(k) : IsFiniteSet(t[n]) /\ Cardinality(t[n]) =< BlocksPerNode}
StashInv ==
  /\ stash \in SUBSET AnyBlock
  /\ IsFiniteSet(stash) /\ Cardinality(stash) =< StashCap
  /\ stashLoad \in Int

TypeInv ==
  /\ posmap \in [0 .. MaxPosMap - 1 -> Labels]
  /\ buckets = [k \in Trees |-> buckets[k]]
  /\ \A k \in Trees : buckets[k] \in BucketsOf(k)
  /\ StashInv
  /\ AccInv
  /\ alive \in BOOLEAN

LEMMA ContentTyping ==
  /\ ZeroBlock \in Contents
  /\ Labels = Vals /\ Labels \subseteq Nat /\ 0 \notin Paths /\ Paths \subseteq Labels
  /\ Junk \subseteq Labels
<1>1. ZeroBlock \in Contents
  BY DataAssumption DEF ZeroBlock, Contents
<1>2. /\ Labels = Vals /\ Labels \subseteq Nat /\ 0 \notin Paths /\ Paths \subseteq Labels
      /\ Junk \subseteq Labels
  BY RecursionAssumption DEF Labels
<1>. QED BY <1>1, <1>2

\* What callers may ask for, and what an ORAM asks of the one below.
LEMMA RequestTyping ==
  /\ Requests \subseteq RequestOf(0)
  /\ \A k \in Trees : NoRequest(k) \in RequestOf(k)
  /\ \A k \in Trees : acc[k] \in AccessOf(k) /\ ~ MapInEnclave(k) =>
       MapWrite(k) \in RequestOf(k + 1) /\ MapWord(acc[k].req.ind) \in Words
<1>1. ZeroBlock \in Contents
  BY ContentTyping
<1>2. ReadRequests \cup WriteRequests \subseteq RequestOf(0)
  <2>1. WriteRanges \subseteq SUBSET Words
    BY DataAssumption DEF WriteRanges, Words
  <2>2. IndsAt[0] = Inds
    BY IndsFit
  <2>. QED BY <1>1, <2>1, <2>2 DEF ReadRequests, WriteRequests, RequestOf
<1>3. ASSUME NEW k \in Trees PROVE NoRequest(k) \in RequestOf(k)
  <2>1. (CHOOSE i \in IndsAt[k] : TRUE) \in IndsAt[k]
    BY IndsFit
  <2>. QED BY <1>1, <2>1 DEF NoRequest, RequestOf
<1>4. ASSUME NEW k \in Trees, acc[k] \in AccessOf(k), ~ MapInEnclave(k)
      PROVE  MapWrite(k) \in RequestOf(k + 1) /\ MapWord(acc[k].req.ind) \in Words
  <2> DEFINE i == acc[k].req.ind
             w == MapWord(i)
             buf == [v \in Words |-> IF v = w THEN acc[k].path ELSE Zero]
  <2>1. k + 1 \in Trees /\ i \in IndsAt[k] /\ acc[k].path \in Vals
    BY <1>4, TreesDescend, ContentTyping DEF AccessOf, AccessRecord, RequestOf
  <2>2. i \in Nat
    BY <2>1, IndsFit
  <2>3. MapInd(i, WordsPerBlock) \in IndsAt[k + 1]
    BY <2>1, IndsFit DEF MapInds
  <2>4. w \in Words
    BY <2>2, DataAssumption, Division DEF MapWord, Words
  <2>5. buf \in Contents
    BY <2>1, DataAssumption DEF Contents
  <2>6. MapWrite(k) = [ind |-> MapInd(i, WordsPerBlock), ws |-> {w}, buf |-> buf]
    BY DEF MapWrite
  <2> HIDE DEF i, w, buf
  <2>. QED BY <2>3, <2>4, <2>5, <2>6 DEF RequestOf, w, i
<1>. QED BY <1>2, <1>3, <1>4, RecursionAssumption

\* While one tree is worked on, the others wait or are idle.
LEMMA OthersRest ==
  ASSUME AccInv, NEW k \in Trees, acc[k].pc \notin {"idle", "wait"}, NEW j \in Trees, j # k
  PROVE  acc[j].pc = IF j < k THEN "wait" ELSE "idle"
<1>1. j \in Nat /\ k \in Nat
  BY TreesDescend
<1>2. CASE j < k
  <2>1. j \in 0 .. k - 1
    BY <1>1, <1>2
  <2>. QED BY <1>2, <2>1 DEF AccInv
<1>3. CASE j > k
  <2>1. k \in 0 .. j - 1
    BY <1>1, <1>3
  <2>2. acc[j].pc # "idle" => acc[k].pc = "wait"
    BY <2>1 DEF AccInv
  <2>3. ~ (j < k)
    BY <1>1, <1>3
  <2>. QED BY <2>2, <2>3
<1>. QED BY <1>1, <1>2, <1>3

\* A step of the tree at hand.
LEMMA OwnStep ==
  ASSUME AccInv, NEW k \in Trees, acc[k].pc \in Working,
         acc' = [acc EXCEPT ![k] = acc'[k]],
         acc'[k] \in AccessOf(k), acc'[k].pc \in Working \cup {Back(k)}
  PROVE  AccInv' /\ \A j \in Trees : j # k => acc'[j] = acc[j]
<1>1. \A j \in Trees : j # k => acc'[j] = acc[j]
  BY DEF AccInv
<1>2. acc' = [j \in Trees |-> acc'[j]]
  BY DEF AccInv
<1>3. \A j \in Trees : acc'[j] \in AccessOf(j)
  BY <1>1 DEF AccInv
<1>4. acc'[k].pc # "wait" /\ acc[k].pc \notin {"idle", "map", "wait", "answered"}
  BY DEF Working, Back
<1>5. Trees \subseteq Nat /\ 0 \in Trees
  BY TreesDescend
<1>6. acc'[k].pc = "idle" => k = 0
  BY DEF Working, Back
<1>7. ASSUME NEW j \in Trees, acc'[j].pc = "wait" PROVE acc'[j + 1].pc # "idle"
  <2>1. j # k /\ acc[j].pc = "wait"
    BY <1>1, <1>4, <1>7
  <2>2. ~ MapInEnclave(j)
    BY <2>1 DEF AccInv, AccessOf
  <2>3. acc[j + 1].pc # "idle" /\ j + 1 \in Trees
    BY <2>1, <2>2, TreesDescend DEF AccInv
  <2>4. CASE j + 1 = k
    BY <1>5, <1>6, <2>4
  <2>5. CASE j + 1 # k
    BY <1>1, <2>3, <2>5
  <2>. QED BY <2>4, <2>5
<1>8. ASSUME NEW j \in Trees, NEW i \in 0 .. j - 1, acc'[j].pc # "idle"
      PROVE  acc'[i].pc = "wait"
  <2>1. i \in Trees
    BY TreesDescend
  <2>2. CASE j = k
    <3>1. acc[i].pc = "wait"
      BY <1>4, <2>2 DEF AccInv
    <3>2. i # k
      BY <1>5, <2>2
    <3>. QED BY <1>1, <2>1, <3>1, <3>2
  <2>3. CASE j # k
    <3>1. acc[j].pc # "idle" /\ acc[i].pc = "wait"
      BY <1>1, <1>8, <2>3 DEF AccInv
    <3>. QED BY <1>1, <1>4, <2>1, <3>1
  <2>. QED BY <2>2, <2>3
<1>9. acc'[0].pc # "answered"
  BY <1>1, <1>5 DEF AccInv, Working, Back
<1>. QED BY <1>1, <1>2, <1>3, <1>7, <1>8, <1>9 DEF AccInv

\* Labels drawn, and labels swapped in, fit an access.
LEMMA AccessTyping ==
  ASSUME NEW k \in Trees, NEW r \in RequestOf(k), NEW p \in Paths, NEW q \in Paths,
         NEW pc \in {"map", "wild", "download"},
         pc = "map" => ~ MapInEnclave(k), pc = "download" /\ MapInEnclave(k) => r.ind + 1 # MaxPosMap
  PROVE  Access(pc, r, p, q) \in AccessOf(k) /\ Access(pc, r, p, q).pc = pc
<1> DEFINE a == Access(pc, r, p, q)
<1>1. a = [pc |-> pc, req |-> r, path |-> p, newPath |-> q, fetched |-> ZeroBlock]
  BY DEF Access
<1>2. a \in AccessRecord(k)
  BY <1>1, ContentTyping DEF AccessRecord, Working
<1> HIDE DEF a
<1>. QED BY <1>1, <1>2 DEF AccessOf, a

LEMMA RestTyping ==
  ASSUME NEW k \in Trees, NEW r \in RequestOf(k), NEW pc \in {"idle", "answered"}
  PROVE  Access(pc, r, 0, 0) \in AccessOf(k) /\ Access(pc, r, 0, 0).pc = pc
<1> DEFINE a == Access(pc, r, 0, 0)
<1>1. a = [pc |-> pc, req |-> r, path |-> 0, newPath |-> 0, fetched |-> ZeroBlock]
  BY DEF Access
<1>2. 0 \in Labels
  BY DEF Labels
<1>3. a \in AccessRecord(k)
  BY <1>1, <1>2, ContentTyping DEF AccessRecord
<1> HIDE DEF a
<1>. QED BY <1>1, <1>3 DEF AccessOf, a

\* A draw in place of the label zero.
LEMMA OldLabels ==
  ASSUME NEW label \in Labels, NEW p \in OldOrFresh(label)
  PROVE  p \in Paths /\ (label # 0 => p = label)
BY DEF OldOrFresh, Labels

-----------------------------------------------------------------------------
(* Every step keeps to the types.                                          *)

\* The swap of labels, in the enclave or asked of the ORAM below.
LEMMA BeginTyping ==
  ASSUME TypeInv, NEW k \in Trees, NEW r \in RequestOf(k), NEW others,
         Begin(k, r, others)
  PROVE  /\ posmap' \in [0 .. MaxPosMap - 1 -> Labels]
         /\ \E a \in AccessOf(k) :
              /\ acc' = [others EXCEPT ![k] = a]
              /\ a.pc \in {"download", "wild", "map"}
<1>1. /\ posmap \in [0 .. MaxPosMap - 1 -> Labels]
      /\ Junk \subseteq Labels /\ Paths \subseteq Labels
  BY ContentTyping DEF TypeInv
<1>2. PICK label \in Paths :
        IF MapInEnclave(k)
        THEN /\ \E behind \in Junk : posmap' = P(k)!Swapped(r.ind, label, behind)
             /\ \E path \in OldOrFresh(posmap[r.ind]) :
                  acc' = [others EXCEPT ![k] =
                            Access(IF r.ind + 1 = MaxPosMap THEN "wild" ELSE "download",
                                   r, path, label)]
        ELSE /\ acc' = [others EXCEPT ![k] = Access("map", r, label, label)]
             /\ UNCHANGED posmap
  BY DEF Begin
<1>3. CASE MapInEnclave(k)
  <2>1. PICK behind \in Junk : posmap' = P(k)!Swapped(r.ind, label, behind)
    BY <1>2, <1>3
  <2>2. posmap' \in [0 .. MaxPosMap - 1 -> Labels]
    BY <1>1, <1>2, <2>1 DEF P!Swapped
  <2>3. r.ind \in 0 .. MaxPosMap - 1
    <3>1. r.ind \in 0 .. CapacityAt[k] - 1
      BY IndsFit DEF RequestOf
    <3>2. CapacityAt[k] \in Nat /\ CapacityAt[k] =< MaxPosMap
      BY <1>3, Capacities, TreesDescend DEF MapInEnclave
    <3>3. MaxPosMap \in Nat
      BY RecursionAssumption
    <3>. QED BY <3>1, <3>2, <3>3
  <2> DEFINE pc == IF r.ind + 1 = MaxPosMap THEN "wild" ELSE "download"
  <2>4. PICK path \in OldOrFresh(posmap[r.ind]) :
          acc' = [others EXCEPT ![k] = Access(pc, r, path, label)]
    BY <1>2, <1>3
  <2>5. pc \in {"download", "wild"} /\ (pc = "download" => r.ind + 1 # MaxPosMap)
    OBVIOUS
  <2>6. path \in Paths
    BY <1>1, <2>3, <2>4, OldLabels
  <2> HIDE DEF pc
  <2>7. Access(pc, r, path, label) \in AccessOf(k) /\ Access(pc, r, path, label).pc = pc
    BY <1>2, <2>5, <2>6, AccessTyping
  <2>. QED BY <2>2, <2>4, <2>5, <2>7
<1>4. CASE ~ MapInEnclave(k)
  <2>1. Access("map", r, label, label) \in AccessOf(k)
        /\ Access("map", r, label, label).pc = "map"
    BY <1>2, <1>4, AccessTyping
  <2>. QED BY <1>1, <1>2, <1>4, <2>1
<1>. QED BY <1>3, <1>4

LEMMA InitTyping ==
  ASSUME Init
  PROVE  TypeInv
<1>1. Trees \subseteq Nat /\ 0 \in Trees
  BY TreesDescend
<1>2. posmap \in [0 .. MaxPosMap - 1 -> Labels]
  BY DEF Init, Labels
<1>3. buckets = [k \in Trees |-> buckets[k]]
  BY DEF Init
<1>4. ASSUME NEW k \in Trees PROVE buckets[k] \in BucketsOf(k)
  <2>1. buckets[k] = [n \in NodesOf(k) |-> {}]
    BY SameNames DEF Init
  <2>2. IsFiniteSet({}) /\ Cardinality({}) =< BlocksPerNode
    BY FS_EmptySet, NodeAssumption
  <2>. QED BY <2>1, <2>2 DEF BucketsOf
<1>5. StashInv
  <2>1. IsFiniteSet({}) /\ Cardinality({}) =< StashCap
    BY FS_EmptySet, RecursionAssumption
  <2>. QED BY <2>1 DEF StashInv, Init
<1>6. /\ acc = [k \in Trees |-> acc[k]]
      /\ \A k \in Trees : acc[k] = NoAccess(k)
  BY DEF Init
<1>7. \A k \in Trees : NoAccess(k) \in AccessOf(k) /\ NoAccess(k).pc = "idle"
  BY RequestTyping, RestTyping DEF NoAccess
<1>8. \A k \in Trees : acc[k] \in AccessOf(k) /\ acc[k].pc = "idle"
  BY <1>6, <1>7
<1>9. AccInv
  BY <1>1, <1>6, <1>8 DEF AccInv
<1>. QED BY <1>2, <1>3, <1>4, <1>5, <1>9 DEF TypeInv, Init

LEMMA StartTyping ==
  ASSUME TypeInv, NEW r \in Requests, StartAccess(r)
  PROVE  TypeInv'
<1>1. 0 \in Trees /\ Trees \subseteq Nat
  BY TreesDescend
<1>2. r \in RequestOf(0)
  BY RequestTyping
<1>3. /\ Begin(0, r, acc) /\ UNCHANGED <<buckets, stash, stashLoad, alive>>
      /\ \A k \in Trees : acc[k].pc = "idle"
  BY DEF StartAccess, Top
<1>4. /\ posmap' \in [0 .. MaxPosMap - 1 -> Labels]
      /\ \E a \in AccessOf(0) :
           /\ acc' = [acc EXCEPT ![0] = a]
           /\ a.pc \in {"download", "wild", "map"}
  BY <1>1, <1>2, <1>3, BeginTyping
<1>5. PICK a \in AccessOf(0) :
        /\ acc' = [acc EXCEPT ![0] = a]
        /\ a.pc \in {"download", "wild", "map"}
  BY <1>4
<1>6. AccInv
  BY DEF TypeInv
<1>7. /\ acc' = [k \in Trees |-> acc'[k]]
      /\ acc'[0] = a /\ \A k \in Trees : k # 0 => acc'[k] = acc[k]
  BY <1>1, <1>5, <1>6 DEF AccInv
<1>8. \A k \in Trees : acc'[k] \in AccessOf(k)
  BY <1>6, <1>7 DEF AccInv
<1>9. \A k \in Trees : k # 0 => acc'[k].pc = "idle"
  BY <1>3, <1>7
<1>10. \A k \in Trees : acc'[k].pc # "wait"
  BY <1>5, <1>7, <1>9
<1>11. \A k \in Trees : \A j \in 0 .. k - 1 : acc'[k].pc # "idle" => acc'[j].pc = "wait"
  <2>1. \A k \in Trees : acc'[k].pc # "idle" => k = 0
    BY <1>9
  <2>. QED BY <2>1
<1>12. AccInv'
  BY <1>5, <1>7, <1>8, <1>10, <1>11 DEF AccInv
<1>. QED BY <1>3, <1>4, <1>12 DEF TypeInv, StashInv

LEMMA AskTyping ==
  ASSUME TypeInv, NEW k \in Trees, AskMap(k)
  PROVE  TypeInv'
<1>1. Trees \subseteq Nat /\ 0 \in Trees /\ AccInv
  BY TreesDescend DEF TypeInv
<1>2. acc[k] \in AccessOf(k) /\ acc[k].pc = "map" /\ ~ MapInEnclave(k)
  BY <1>1 DEF AskMap, AccInv, AccessOf
<1>3. k + 1 \in Trees /\ k + 1 # k /\ k \in Nat
  BY <1>1, <1>2, TreesDescend
<1>4. MapWrite(k) \in RequestOf(k + 1)
  BY <1>2, RequestTyping
<1> DEFINE others == [acc EXCEPT ![k].pc = "wait"]
<1>5. Begin(k + 1, MapWrite(k), others) /\ UNCHANGED <<buckets, stash, stashLoad, alive>>
  BY DEF AskMap, MapOf
<1>6. /\ posmap' \in [0 .. MaxPosMap - 1 -> Labels]
      /\ \E a \in AccessOf(k + 1) :
           /\ acc' = [others EXCEPT ![k + 1] = a]
           /\ a.pc \in {"download", "wild", "map"}
  <2> HIDE DEF others
  <2>. QED BY <1>3, <1>4, <1>5, BeginTyping
<1>7. PICK a \in AccessOf(k + 1) :
        /\ acc' = [others EXCEPT ![k + 1] = a]
        /\ a.pc \in {"download", "wild", "map"}
  BY <1>6
<1>8. /\ acc' = [j \in Trees |-> acc'[j]]
      /\ acc'[k + 1] = a /\ acc'[k] = [acc[k] EXCEPT !.pc = "wait"]
      /\ \A j \in Trees : j # k /\ j # k + 1 => acc'[j] = acc[j]
  BY <1>1, <1>3, <1>7 DEF AccInv
<1>9. [acc[k] EXCEPT !.pc = "wait"] \in AccessOf(k) /\ acc'[k].pc = "wait"
  BY <1>2, <1>8 DEF AccessOf, AccessRecord
<1>10. \A j \in Trees : acc'[j] \in AccessOf(j)
  BY <1>1, <1>7, <1>8, <1>9 DEF AccInv
<1>11. \A j \in Trees : j # k => acc[j].pc = IF j < k THEN "wait" ELSE "idle"
  BY <1>1, <1>2, OthersRest
<1>12. ASSUME NEW j \in Trees
       PROVE  /\ acc'[j].pc = "wait" <=> j =< k
              /\ acc'[j].pc # "idle" <=> j =< k + 1
  <2>1. j \in Nat
    BY <1>1
  <2>2. CASE j = k
    BY <1>3, <1>9, <2>2
  <2>3. CASE j = k + 1
    BY <1>3, <1>7, <1>8, <2>3
  <2>4. CASE j # k /\ j # k + 1
    <3>1. acc'[j].pc = IF j < k THEN "wait" ELSE "idle"
      BY <1>8, <1>11, <2>4
    <3>. QED BY <1>3, <2>1, <2>4, <3>1
  <2>. QED BY <2>2, <2>3, <2>4
<1>13. \A j \in Trees : acc'[j].pc # "idle" <=> j =< k + 1
  BY <1>12
<1>14. ASSUME NEW j \in Trees, acc'[j].pc = "wait" PROVE acc'[j + 1].pc # "idle"
  <2>1. ~ MapInEnclave(j)
    BY <1>10, <1>14 DEF AccessOf
  <2>2. j + 1 \in Trees /\ j \in Nat /\ j =< k
    BY <1>1, <1>12, <1>14, <2>1, TreesDescend
  <2>3. j + 1 =< k + 1
    BY <1>3, <2>2
  <2>. QED BY <1>13, <2>2, <2>3
<1>15. ASSUME NEW j \in Trees, NEW i \in 0 .. j - 1, acc'[j].pc # "idle"
       PROVE  acc'[i].pc = "wait"
  <2>1. i \in Trees
    BY TreesDescend
  <2>2. j =< k + 1 /\ j \in Nat
    BY <1>1, <1>13, <1>15
  <2>3. i =< k
    BY <1>3, <2>2
  <2>. QED BY <1>12, <2>1, <2>3
<1>16. acc'[0].pc # "answered"
  <2>1. acc'[0].pc = "wait"
    BY <1>1, <1>3, <1>12
  <2>. QED BY <2>1
<1>17. AccInv'
  BY <1>8, <1>10, <1>14, <1>15, <1>16 DEF AccInv
<1>. QED BY <1>5, <1>6, <1>17 DEF TypeInv, StashInv

\* The label the ORAM below gave back, or a drawn one.
LEMMA LabelGivenBack ==
  ASSUME AccInv, NEW k \in Trees, k + 1 \in Trees, ~ MapInEnclave(k)
  PROVE  OldLabel(k) \in Labels
<1>1. acc[k] \in AccessOf(k) /\ acc[k + 1].req.buf \in Contents
  BY DEF AccInv, AccessOf, AccessRecord, RequestOf
<1>2. MapWord(acc[k].req.ind) \in Words
  BY <1>1, RequestTyping
<1>. QED BY <1>1, <1>2, ContentTyping DEF OldLabel, Contents, MapOf

LEMMA AnsweredTyping ==
  ASSUME TypeInv, NEW k \in Trees, MapAnswered(k)
  PROVE  TypeInv'
<1>1. Trees \subseteq Nat /\ 0 \in Trees /\ AccInv
  BY TreesDescend DEF TypeInv
<1>2. acc[k] \in AccessOf(k) /\ acc[k].pc = "wait" /\ ~ MapInEnclave(k)
  BY <1>1 DEF MapAnswered, AccInv, AccessOf
<1>3. k + 1 \in Trees /\ k + 1 # k /\ k \in Nat
  BY <1>1, <1>2, TreesDescend
<1>4. PICK path \in OldOrFresh(OldLabel(k)) :
        acc' = [acc EXCEPT ![k].pc = "download", ![k].path = path,
                           ![k + 1] = NoAccess(k + 1)]
  BY DEF MapAnswered, MapOf
<1>5. /\ acc[k + 1] \in AccessOf(k + 1) /\ acc[k + 1].pc = "answered"
      /\ UNCHANGED <<posmap, buckets, stash, stashLoad, alive>>
  BY <1>1, <1>3 DEF MapAnswered, AccInv, MapOf
<1>6. path \in Paths
  BY <1>1, <1>2, <1>3, <1>4, LabelGivenBack, OldLabels
<1>7. /\ acc' = [j \in Trees |-> acc'[j]]
      /\ acc'[k + 1] = NoAccess(k + 1)
      /\ acc'[k] = [acc[k] EXCEPT !.pc = "download", !.path = path]
      /\ \A j \in Trees : j # k /\ j # k + 1 => acc'[j] = acc[j]
  BY <1>1, <1>3, <1>4 DEF AccInv
<1>8. NoAccess(k + 1) \in AccessOf(k + 1) /\ NoAccess(k + 1).pc = "idle"
  BY <1>3, RequestTyping, RestTyping DEF NoAccess
<1>9. /\ [acc[k] EXCEPT !.pc = "download", !.path = path] \in AccessOf(k)
      /\ acc'[k].pc = "download"
  BY <1>2, <1>6, <1>7, ContentTyping DEF AccessOf, AccessRecord, Working
<1>10. \A j \in Trees : acc'[j] \in AccessOf(j)
  BY <1>1, <1>7, <1>8, <1>9 DEF AccInv
<1>11. ASSUME NEW j \in Trees, j # k, j # k + 1
       PROVE  acc[j].pc = IF j < k THEN "wait" ELSE "idle"
  <2>1. acc[j].pc = IF j < k + 1 THEN "wait" ELSE "idle"
    BY <1>1, <1>3, <1>5, <1>11, OthersRest
  <2>2. j < k + 1 <=> j < k
    BY <1>1, <1>3, <1>11
  <2>. QED BY <2>1, <2>2
<1>12. ASSUME NEW j \in Trees
       PROVE  /\ acc'[j].pc = "wait" <=> j < k
              /\ acc'[j].pc # "idle" <=> j =< k
  <2>1. j \in Nat
    BY <1>1
  <2>2. CASE j = k
    BY <1>3, <1>9, <2>2
  <2>3. CASE j = k + 1
    BY <1>3, <1>7, <1>8, <2>3
  <2>4. CASE j # k /\ j # k + 1
    <3>1. acc'[j].pc = IF j < k THEN "wait" ELSE "idle"
      BY <1>7, <1>11, <2>4
    <3>. QED BY <1>3, <2>1, <2>4, <3>1
  <2>. QED BY <2>2, <2>3, <2>4
<1>13. \A j \in Trees : acc'[j].pc # "idle" <=> j =< k
  BY <1>12
<1>14. ASSUME NEW j \in Trees, acc'[j].pc = "wait" PROVE acc'[j + 1].pc # "idle"
  <2>1. ~ MapInEnclave(j)
    BY <1>10, <1>14 DEF AccessOf
  <2>2. j + 1 \in Trees /\ j \in Nat /\ j < k
    BY <1>1, <1>12, <1>14, <2>1, TreesDescend
  <2>3. j + 1 =< k
    BY <1>3, <2>2
  <2>. QED BY <1>13, <2>2, <2>3
<1>15. ASSUME NEW j \in Trees, NEW i \in 0 .. j - 1, acc'[j].pc # "idle"
       PROVE  acc'[i].pc = "wait"
  <2>1. i \in Trees
    BY TreesDescend
  <2>2. j \in Nat /\ j =< k
    BY <1>1, <1>13, <1>15
  <2>3. i < k
    BY <1>3, <2>2
  <2>. QED BY <1>12, <2>1, <2>3
<1>16. acc'[0].pc # "answered"
  <2>1. CASE k = 0
    BY <1>9, <2>1
  <2>2. CASE k # 0
    BY <1>1, <1>3, <1>12, <2>2
  <2>. QED BY <2>1, <2>2
<1>17. AccInv'
  BY <1>7, <1>10, <1>14, <1>15, <1>16 DEF AccInv
<1>. QED BY <1>5, <1>17 DEF TypeInv, StashInv

-----------------------------------------------------------------------------
(* What each enclave call does to the tree at hand and to the stash.       *)

\* An access of k that goes on with the same request and labels.
Goes(k, pc) == acc' = [acc EXCEPT ![k].pc = pc]
Sunk(lv, h) == {b \in stash : lv[b] = h}
Returned(k) == Access(Back(k), acc[k].req, 0, 0)

\* Each block the eviction moves goes into a bucket of the path that is also on
\* the path of the block's label, no bucket takes more than it has slots for.
EvictsTo(k, lv) ==
  /\ \A b \in stash : \A h \in LevelsOf(k) :
       lv[b] = h => At(b.path, h) = At(acc[k].path, h)
  /\ \A h \in LevelsOf(k) : Cardinality(Sunk(lv, h)) =< BlocksPerNode
  /\ buckets' = [buckets EXCEPT ![k] =
       [n \in NodesOf(k) |->
          IF n \in WalkOf(k, acc[k].path) THEN Sunk(lv, n[1]) ELSE buckets[k][n]]]
  /\ stash' = Sunk(lv, HeightOf(k))
  /\ stashLoad' = stashLoad - Cardinality({b \in stash : lv[b] # HeightOf(k)})

LEMMA EvictEffect ==
  ASSUME NEW k \in Trees, EvictPath(k)
  PROVE  /\ \E lv \in [stash -> 0 .. HeightOf(k)] : EvictsTo(k, lv)
         /\ acc' = [acc EXCEPT ![k] = Returned(k)]
         /\ alive /\ acc[k].pc = "evict" /\ UNCHANGED <<posmap, alive>>
<1>1. PICK lv \in [stash -> 0 .. HeightOf(k)] :
        /\ P(k)!IsEviction(lv)
        /\ buckets' = [buckets EXCEPT ![k] = P(k)!Refilled(lv)]
        /\ stash' = P(k)!Leftover(lv)
        /\ stashLoad' = stashLoad - Cardinality({b \in stash : lv[b] # HeightOf(k)})
  BY DEF EvictPath, HeightOf
<1>2. \A h : P(k)!Placed(lv, h) = Sunk(lv, h)
  BY DEF P!Placed, Sunk
<1>3. \A T : P(k)!Cardinality(T) = Cardinality(T)
  BY DEF P!Cardinality, Cardinality
<1>4. P(k)!Levels = LevelsOf(k)
  BY DEF P!Levels, LevelsOf, HeightOf
<1>5. \A h \in LevelsOf(k) :
        /\ Sunk(lv, h) \subseteq P(k)!Eligible(lv, h)
        /\ Cardinality(Sunk(lv, h)) =< BlocksPerNode
  BY <1>1, <1>2, <1>3, <1>4 DEF P!IsEviction, P!FilledGreedily, P!EvictedLevels
<1>6. ASSUME NEW b \in stash, NEW h \in LevelsOf(k), lv[b] = h
      PROVE  At(b.path, h) = At(acc[k].path, h)
  <2>1. b \in P(k)!Eligible(lv, h)
    BY <1>5, <1>6 DEF Sunk
  <2>2. P(k)!SamePrefix(b.path, P(k)!EvictedPath, h)
    BY <2>1 DEF P!Eligible
  <2>3. P(k)!EvictedPath = acc[k].path
    BY DEF P!EvictedPath
  <2>. QED BY <2>2, <2>3, SameNames
<1>7. P(k)!Refilled(lv) =
        [n \in NodesOf(k) |->
          IF n \in WalkOf(k, acc[k].path) THEN Sunk(lv, n[1]) ELSE buckets[k][n]]
  BY <1>2, SameNames DEF P!Refilled, P!EvictedPath
<1>8. stash' = Sunk(lv, HeightOf(k))
  BY <1>1, <1>2 DEF P!Leftover, HeightOf
<1>9. EvictsTo(k, lv)
  BY <1>1, <1>5, <1>6, <1>7, <1>8 DEF EvictsTo
<1>10. acc' = [acc EXCEPT ![k] = Returned(k)]
  BY DEF EvictPath, Returned, Back, Top
<1>. QED BY <1>9, <1>10 DEF EvictPath

\* The fetch takes copies of the block asked for out of the stash, one at least
\* when there is one.
FetchesWhat(k, taken, content) ==
  /\ taken \in SUBSET {b \in stash : b.key = acc[k].req.ind + 1}
  /\ taken = {} => \A b \in stash : b.key # acc[k].req.ind + 1
  /\ IF taken = {} THEN content = ZeroBlock ELSE \E b \in taken : content = b.data
  /\ stash' = stash \ taken
  /\ stashLoad' = IF taken = {} THEN stashLoad ELSE stashLoad - 1
  /\ acc' = [acc EXCEPT ![k].pc = "put",
                        ![k].fetched = Stored(acc[k].req, content),
                        ![k].req.buf = Loaded(acc[k].req, content)]

LEMMA FetchEffect ==
  ASSUME NEW k \in Trees, ObliviousFetch(k)
  PROVE  /\ \E taken, content : FetchesWhat(k, taken, content)
         /\ alive /\ acc[k].pc = "fetch" /\ UNCHANGED <<posmap, buckets, alive>>
<1> DEFINE hits == {b \in stash : b.key = acc[k].req.ind + 1}
<1>1. P(k)!InStash(P(k)!BlockKey(acc[k].req.ind)) = hits
  BY SameNames DEF P!InStash
<1>2. /\ \A taken : P(k)!LeftInStash(taken) = stash \ taken
      /\ \A taken : P(k)!LoadAfterFetch(taken) =
           IF taken = {} THEN stashLoad ELSE stashLoad - 1
      /\ \A c : P(k)!BlockAfter(c) = Stored(acc[k].req, c)
      /\ \A c : P(k)!BufferAfter(c) = Loaded(acc[k].req, c)
  BY SameNames DEF P!LeftInStash, P!LoadAfterFetch, P!BlockAfter, P!BufferAfter
<1> HIDE DEF hits
<1>3. PICK taken \in SUBSET hits :
        /\ taken = {} => hits = {}
        /\ stash' = P(k)!LeftInStash(taken)
        /\ stashLoad' = P(k)!LoadAfterFetch(taken)
        /\ \E content \in IF taken = {} THEN {ZeroBlock} ELSE {b.data : b \in taken} :
             acc' = [acc EXCEPT ![k].pc = "put",
                                ![k].fetched = P(k)!BlockAfter(content),
                                ![k].req.buf = P(k)!BufferAfter(content)]
  BY <1>1 DEF ObliviousFetch
<1>4. PICK content \in IF taken = {} THEN {ZeroBlock} ELSE {b.data : b \in taken} :
        acc' = [acc EXCEPT ![k].pc = "put",
                           ![k].fetched = P(k)!BlockAfter(content),
                           ![k].req.buf = P(k)!BufferAfter(content)]
  BY <1>3
<1>5. IF taken = {} THEN content = ZeroBlock ELSE \E b \in taken : content = b.data
  BY <1>4
<1>6. FetchesWhat(k, taken, content)
  BY <1>2, <1>3, <1>4, <1>5 DEF FetchesWhat, hits
<1>. QED BY <1>6 DEF ObliviousFetch

-----------------------------------------------------------------------------

\* The blocks on the path at hand, and the slots that hold them.
LEMMA OnWalkFinite ==
  ASSUME NEW k \in Trees, buckets[k] \in BucketsOf(k), acc[k].path \in Paths
  PROVE  /\ OnWalk(k) \in SUBSET AnyBlock
         /\ IsFiniteSet(OnWalk(k))
         /\ IsFiniteSet(SlotsOnWalk(k))
         /\ Cardinality(OnWalk(k)) =< Cardinality(SlotsOnWalk(k))
<1> DEFINE p == acc[k].path
           D == LevelsOf(k)
<1>1. \A h \in D : At(p, h) \in NodesOf(k)
  BY WalksInTree
<1>2. OnWalk(k) \in SUBSET AnyBlock
  BY <1>1 DEF BucketsOf, OnWalk
<1>3. IsFiniteSet(D)
  <2>1. HeightOf(k) \in Int
    BY Capacities, TreesDescend
  <2>. QED BY <2>1, FS_Interval DEF LevelsOf
<1>4. IsFiniteSet(OnWalk(k))
  <2> DEFINE onLevel == [h \in D |-> buckets[k][At(p, h)]]
             all == {onLevel[h] : h \in D}
  <2>1. onLevel \in Surjection(D, all)
    BY DEF Surjection
  <2>2. IsFiniteSet(all)
    BY <1>3, <2>1, FS_Surjection
  <2>3. \A T \in all : IsFiniteSet(T)
    BY <1>1 DEF BucketsOf
  <2>4. OnWalk(k) = UNION all
    BY DEF OnWalk
  <2>. QED BY <2>2, <2>3, <2>4, FS_UNION
<1>5. IsFiniteSet(SlotsOnWalk(k))
  <2>1. IsFiniteSet(D \X OnWalk(k))
    BY <1>3, <1>4, FS_Product
  <2>2. SlotsOnWalk(k) \in SUBSET (D \X OnWalk(k))
    BY DEF SlotsOnWalk
  <2>. QED BY <2>1, <2>2, FS_Subset
<1>6. Cardinality(OnWalk(k)) =< Cardinality(SlotsOnWalk(k))
  <2> DEFINE block == [s \in SlotsOnWalk(k) |-> s[2]]
  <2>1. block \in [SlotsOnWalk(k) -> OnWalk(k)]
    BY DEF SlotsOnWalk
  <2>2. ASSUME NEW b \in OnWalk(k)
        PROVE  \E s \in SlotsOnWalk(k) : block[s] = b
    <3>1. PICK h \in LevelsOf(k) : b \in buckets[k][At(acc[k].path, h)]
      BY DEF OnWalk
    <3>2. <<h, b>> \in SlotsOnWalk(k)
      BY <3>1 DEF SlotsOnWalk
    <3>. QED BY <3>2
  <2>3. block \in Surjection(SlotsOnWalk(k), OnWalk(k))
    BY <2>1, <2>2 DEF Surjection
  <2>. QED BY <2>3, <1>5, FS_Surjection
<1>. QED BY <1>2, <1>4, <1>5, <1>6

\* A step of the tree at hand that leaves its request and labels.
LEMMA GoesTyping ==
  ASSUME AccInv, NEW k \in Trees, acc[k].pc \in {"download", "put"},
         NEW pc \in {"fetch", "evict"}, Goes(k, pc)
  PROVE  /\ AccInv' /\ \A j \in Trees : j # k => acc'[j] = acc[j]
         /\ acc'[k] = [acc[k] EXCEPT !.pc = pc]
<1>1. acc[k] \in AccessOf(k)
  BY DEF AccInv
<1> DEFINE a == [acc[k] EXCEPT !.pc = pc]
<1>2. a \in AccessOf(k) /\ a.pc = pc
  BY <1>1 DEF AccessOf, AccessRecord, Working
<1>3. acc'[k] = a /\ acc' = [acc EXCEPT ![k] = a]
  BY DEF Goes, AccInv
<1> HIDE DEF a
<1>4. AccInv' /\ \A j \in Trees : j # k => acc'[j] = acc[j]
  BY <1>2, <1>3, OwnStep DEF Working
<1>. QED BY <1>3, <1>4 DEF a

LEMMA ExchangeTyping ==
  ASSUME NEW k \in Trees, acc[k] \in AccessOf(k), NEW c \in Contents
  PROVE  Stored(acc[k].req, c) \in Contents /\ Loaded(acc[k].req, c) \in Contents
<1>1. acc[k].req.buf \in Contents
  BY DEF AccessOf, AccessRecord, RequestOf
<1>. QED BY <1>1 DEF Stored, Loaded, Contents

LEMMA DownloadTyping ==
  ASSUME TypeInv, NEW k \in Trees, DownloadPath(k)
  PROVE  TypeInv'
<1>1. AccInv /\ StashInv /\ acc[k] \in AccessOf(k) /\ buckets[k] \in BucketsOf(k)
  BY DEF TypeInv, AccInv
<1>2. /\ acc[k].pc = "download"
      /\ stash' = stash \cup OnWalk(k)
      /\ stashLoad' = stashLoad + Cardinality(SlotsOnWalk(k))
      /\ Cardinality(stash) + Cardinality(SlotsOnWalk(k)) =< StashCap
      /\ Goes(k, "fetch")
      /\ UNCHANGED <<posmap, buckets, alive>>
  BY SameNames DEF DownloadPath, PathFits, Goes
<1>3. acc[k].path \in Paths
  BY <1>1, <1>2 DEF AccessOf
<1>4. /\ IsFiniteSet(stash \cup OnWalk(k))
      /\ Cardinality(stash \cup OnWalk(k)) =
           Cardinality(stash) + Cardinality(OnWalk(k)) - Cardinality(stash \cap OnWalk(k))
  BY <1>1, <1>3, OnWalkFinite, FS_Union DEF StashInv
<1>5. /\ Cardinality(stash) \in Nat
      /\ Cardinality(OnWalk(k)) \in Nat
      /\ Cardinality(SlotsOnWalk(k)) \in Nat
      /\ Cardinality(stash \cap OnWalk(k)) \in Nat
  BY <1>1, <1>3, OnWalkFinite, FS_CardinalityType, FS_Intersection DEF StashInv
<1>6. Cardinality(stash \cup OnWalk(k)) =< StashCap
  BY <1>1, <1>2, <1>3, <1>4, <1>5, OnWalkFinite, RecursionAssumption
<1>7. StashInv'
  BY <1>1, <1>2, <1>3, <1>4, <1>5, <1>6, OnWalkFinite DEF StashInv
<1>8. AccInv'
  BY <1>1, <1>2, GoesTyping
<1>. QED BY <1>2, <1>7, <1>8 DEF TypeInv

\* The access after the fetch.
Fetched(k, content) ==
  [acc[k] EXCEPT !.pc = "put",
                 !.fetched = Stored(acc[k].req, content),
                 !.req.buf = Loaded(acc[k].req, content)]

LEMMA FetchTyping ==
  ASSUME TypeInv, NEW k \in Trees, NEW taken, NEW content,
         FetchesWhat(k, taken, content), acc[k].pc = "fetch",
         UNCHANGED <<posmap, buckets, alive>>
  PROVE  /\ TypeInv' /\ content \in Contents
         /\ \A j \in Trees : j # k => acc'[j] = acc[j]
         /\ acc'[k] = Fetched(k, content)
<1>1. AccInv /\ StashInv /\ acc[k] \in AccessOf(k)
  BY DEF TypeInv, AccInv
<1>2. content \in Contents
  <2>1. \A b \in AnyBlock : b.data \in Contents
    BY DEF AnyBlock, BlockOf
  <2>. QED BY <1>1, <2>1, ContentTyping DEF FetchesWhat, StashInv
<1> DEFINE stored == Stored(acc[k].req, content)
           loaded == Loaded(acc[k].req, content)
           a == [acc[k] EXCEPT !.pc = "put", !.fetched = stored, !.req.buf = loaded]
<1>3. stored \in Contents /\ loaded \in Contents
  BY <1>1, <1>2, ExchangeTyping
<1> HIDE DEF stored, loaded
<1>4. acc'[k] = a /\ acc' = [acc EXCEPT ![k] = a]
  <2>1. acc' = [acc EXCEPT ![k].pc = "put", ![k].fetched = stored, ![k].req.buf = loaded]
    BY DEF FetchesWhat, stored, loaded
  <2>2. acc = [j \in Trees |-> acc[j]]
    BY <1>1 DEF AccInv
  <2>3. acc' = [j \in Trees |-> IF j = k THEN a ELSE acc[j]]
    BY <1>1, <2>1, <2>2 DEF AccessOf, AccessRecord, RequestOf
  <2> HIDE DEF a
  <2>. QED BY <2>2, <2>3
<1>5. a \in AccessOf(k) /\ a.pc = "put"
  BY <1>1, <1>3 DEF AccessOf, AccessRecord, RequestOf, Working
<1> HIDE DEF a
<1>6. AccInv' /\ \A j \in Trees : j # k => acc'[j] = acc[j]
  BY <1>1, <1>4, <1>5, OwnStep DEF Working
<1>7. StashInv'
  <2>1. stash' \in SUBSET stash
    BY DEF FetchesWhat
  <2>2. /\ IsFiniteSet(stash') /\ Cardinality(stash') =< Cardinality(stash)
    BY <1>1, <2>1, FS_Subset DEF StashInv
  <2>3. Cardinality(stash') \in Nat /\ Cardinality(stash) \in Nat
    BY <1>1, <2>2, FS_CardinalityType DEF StashInv
  <2>4. Cardinality(stash') =< StashCap
    BY <1>1, <2>2, <2>3, RecursionAssumption DEF StashInv
  <2>. QED BY <1>1, <2>1, <2>2, <2>4 DEF StashInv, FetchesWhat
<1>8. TypeInv'
  BY <1>6, <1>7 DEF TypeInv
<1>. QED BY <1>2, <1>4, <1>6, <1>8 DEF a, stored, loaded, Fetched

LEMMA PutTyping ==
  ASSUME TypeInv, NEW k \in Trees, PutToStash(k)
  PROVE  TypeInv' /\ PutBlock(k) \in BlockOf(k)
<1>1. AccInv /\ StashInv /\ acc[k] \in AccessOf(k)
  BY DEF TypeInv, AccInv
<1>2. /\ acc[k].pc = "put" /\ Goes(k, "evict")
      /\ Cardinality(stash) < StashCap
      /\ stash' = stash \cup {PutBlock(k)} /\ stashLoad' = stashLoad + 1
      /\ UNCHANGED <<posmap, buckets, alive>>
  BY DEF PutToStash, Goes
<1>3. PutBlock(k) \in BlockOf(k)
  BY <1>1, <1>2, SameNames DEF PutBlock, BlockOf, AccessOf, AccessRecord, RequestOf
<1>4. AccInv'
  BY <1>1, <1>2, GoesTyping
<1>5. StashInv'
  <2>1. Cardinality(stash) \in Nat /\ IsFiniteSet(stash)
    BY <1>1, FS_CardinalityType DEF StashInv
  <2>2. /\ IsFiniteSet(stash \cup {PutBlock(k)})
        /\ Cardinality(stash \cup {PutBlock(k)}) =
             IF PutBlock(k) \in stash THEN Cardinality(stash) ELSE Cardinality(stash) + 1
    BY <2>1, FS_AddElement
  <2>3. Cardinality(stash \cup {PutBlock(k)}) =< StashCap
    BY <1>2, <2>1, <2>2, RecursionAssumption
  <2>. QED BY <1>1, <1>2, <1>3, <2>2, <2>3 DEF StashInv, AnyBlock
<1>. QED BY <1>2, <1>3, <1>4, <1>5 DEF TypeInv

LEMMA EvictTyping ==
  ASSUME TypeInv, NEW k \in Trees, EvictPath(k)
  PROVE  /\ TypeInv' /\ \A j \in Trees : j # k => acc'[j] = acc[j]
         /\ acc'[k] = Returned(k) /\ Returned(k).pc = Back(k)
<1>1. AccInv /\ StashInv /\ acc[k] \in AccessOf(k) /\ buckets[k] \in BucketsOf(k)
  BY DEF TypeInv, AccInv
<1>2. PICK lv \in [stash -> 0 .. HeightOf(k)] : EvictsTo(k, lv)
  BY EvictEffect
<1>3. /\ acc' = [acc EXCEPT ![k] = Returned(k)]
      /\ acc[k].pc = "evict" /\ UNCHANGED <<posmap, alive>>
  BY EvictEffect
<1>4. Returned(k) \in AccessOf(k) /\ Returned(k).pc = Back(k)
  <2>1. acc[k].req \in RequestOf(k)
    BY <1>1 DEF AccessOf, AccessRecord
  <2>. QED BY <2>1, RestTyping DEF Returned, Back
<1>5. acc'[k] = Returned(k)
  BY <1>1, <1>3 DEF AccInv
<1>6. AccInv' /\ \A j \in Trees : j # k => acc'[j] = acc[j]
  BY <1>1, <1>3, <1>4, <1>5, OwnStep DEF Working
<1>7. \A h : Sunk(lv, h) \in SUBSET stash
  BY DEF Sunk
<1>8. Cardinality(stash) \in Nat /\ IsFiniteSet(stash)
  BY <1>1, FS_CardinalityType DEF StashInv
<1>9. \A T \in SUBSET stash :
        IsFiniteSet(T) /\ Cardinality(T) =< Cardinality(stash) /\ Cardinality(T) \in Nat
  BY <1>8, FS_Subset, FS_CardinalityType
<1>10. StashInv'
  <2>1. stash' \in SUBSET stash
    BY <1>2, <1>7 DEF EvictsTo
  <2>2. Cardinality(stash') =< StashCap
    BY <1>1, <1>8, <1>9, <2>1, RecursionAssumption DEF StashInv
  <2>3. stashLoad' \in Int
    <3>1. {b \in stash : lv[b] # HeightOf(k)} \in SUBSET stash
      OBVIOUS
    <3>2. Cardinality({b \in stash : lv[b] # HeightOf(k)}) \in Nat
      BY <1>9, <3>1
    <3>. QED BY <1>1, <1>2, <3>2 DEF EvictsTo, StashInv
  <2>. QED BY <1>1, <1>9, <2>1, <2>2, <2>3 DEF StashInv
<1> DEFINE t == [n \in NodesOf(k) |->
                   IF n \in WalkOf(k, acc[k].path) THEN Sunk(lv, n[1]) ELSE buckets[k][n]]
<1>11. t \in BucketsOf(k)
  <2>1. acc[k].path \in Paths
    BY <1>1, <1>3 DEF AccessOf
  <2>2. ASSUME NEW n \in NodesOf(k)
        PROVE  /\ t[n] \in SUBSET AnyBlock
               /\ IsFiniteSet(t[n]) /\ Cardinality(t[n]) =< BlocksPerNode
    <3>1. CASE n \in WalkOf(k, acc[k].path)
      <4>1. n[1] \in LevelsOf(k) /\ t[n] = Sunk(lv, n[1])
        BY <2>1, <3>1, WalksInTree
      <4>2. Cardinality(Sunk(lv, n[1])) =< BlocksPerNode
        BY <1>2, <4>1 DEF EvictsTo
      <4>. QED BY <1>1, <1>7, <1>9, <4>1, <4>2 DEF StashInv
    <3>2. CASE n \notin WalkOf(k, acc[k].path)
      BY <1>1, <3>2 DEF BucketsOf
    <3>. QED BY <3>1, <3>2
  <2>3. t \in [NodesOf(k) -> SUBSET AnyBlock]
    <3>1. \A n \in NodesOf(k) : t[n] \in SUBSET AnyBlock
      BY <2>2
    <3>. QED BY <3>1
  <2> HIDE DEF t
  <2>. QED BY <2>2, <2>3 DEF BucketsOf
<1>12. /\ buckets' = [j \in Trees |-> buckets'[j]]
       /\ \A j \in Trees : buckets'[j] \in BucketsOf(j)
  <2>1. buckets' = [buckets EXCEPT ![k] = t]
    BY <1>2 DEF EvictsTo
  <2> HIDE DEF t
  <2>. QED BY <1>11, <2>1 DEF TypeInv
<1>. QED BY <1>3, <1>4, <1>5, <1>6, <1>10, <1>12 DEF TypeInv

LEMMA StepTyping ==
  TypeInv /\ [Next]_vars => TypeInv'
<1> SUFFICES ASSUME TypeInv, [Next]_vars PROVE TypeInv'
  OBVIOUS
<1>1. ASSUME NEW r \in Requests, StartAccess(r) PROVE TypeInv'
  BY <1>1, StartTyping
<1>2. ASSUME NEW k \in Trees, AskMap(k) PROVE TypeInv'
  BY <1>2, AskTyping
<1>3. ASSUME NEW k \in Trees, MapAnswered(k) PROVE TypeInv'
  BY <1>3, AnsweredTyping
<1>4. ASSUME NEW k \in Trees, DownloadPath(k) PROVE TypeInv'
  BY <1>4, DownloadTyping
<1>5. ASSUME NEW k \in Trees, ObliviousFetch(k) PROVE TypeInv'
  BY <1>5, FetchEffect, FetchTyping
<1>6. ASSUME NEW k \in Trees, PutToStash(k) PROVE TypeInv'
  BY <1>6, PutTyping
<1>7. ASSUME NEW k \in Trees, EvictPath(k) PROVE TypeInv'
  BY <1>7, EvictTyping
<1>8. ASSUME Crash PROVE TypeInv'
  BY <1>8 DEF Crash, TypeInv, AccInv, StashInv
<1>9. ASSUME UNCHANGED vars PROVE TypeInv'
  BY <1>9 DEF vars, TypeInv, AccInv, StashInv
<1>. QED BY <1>1, <1>2, <1>3, <1>4, <1>5, <1>6, <1>7, <1>8, <1>9
         DEF Next, Step, Ended, PathPointerFault, DownloadOverflow, PutOverflow

LEMMA TypesSuffice == TypeInv => TypeOK
<1> SUFFICES ASSUME TypeInv PROVE TypeOK
  OBVIOUS
<1>1. \A b \in AnyBlock : IsBlock(b)
  BY DEF AnyBlock, BlockOf, IsBlock
<1>2. \A k \in Trees : \A n \in P(k)!Nodes :
        /\ \A b \in buckets[k][n] : IsBlock(b)
        /\ Cardinality(buckets[k][n]) =< BlocksPerNode
  BY <1>1, SameNames DEF TypeInv, BucketsOf
<1>3. \A k \in Trees : acc[k].pc \in Steps
  BY DEF TypeInv, AccInv, AccessOf, AccessRecord, Working, Steps
<1>. QED BY <1>1, <1>2, <1>3 DEF TypeInv, StashInv, TypeOK, Labels

\* However many ORAMs share the stash, and whatever an eviction leaves in it: no
\* bucket and no stash holds more blocks than it has slots for, the map holds
\* labels, and every block in a bucket or in the stash is one of some tree's.
THEOREM TypeCorrect == Spec => []TypeOK
<1>1. Init => TypeInv
  BY InitTyping
<1>. QED BY <1>1, StepTyping, TypesSuffice, PTL DEF Spec

-----------------------------------------------------------------------------
(***************************************************************************)
(* Where the blocks are.  Of a tree whose path has been downloaded, the    *)
(* buckets of the path hold copies nobody reads again; their blocks are in *)
(* the stash, which is one more place.  Block i is in no place, or in one  *)
(* and there once, in the stash or on the path of the label it carries.    *)
(***************************************************************************)
InStash == <<-1, 0>>
Places(k) == NodesOf(k) \cup {InStash}
FoundAt(k, label) == WalkOf(k, label) \cup {InStash}

PathHeld(k) == acc[k].pc \in {"fetch", "put", "evict"}
ViewOf(k) ==
  [n \in Places(k) |->
     IF n = InStash THEN (IF PathHeld(k) THEN stash ELSE {})
     ELSE IF PathHeld(k) /\ n \in WalkOf(k, acc[k].path) THEN {}
     ELSE buckets[k][n]]

SlotsOf(view, i) ==
  {s \in (DOMAIN view) \X AnyBlock : s[2] \in view[s[1]] /\ s[2].key = i + 1}
CopiesOf(view, i) == {s[2] : s \in SlotsOf(view, i)}
DataIn(view, i) ==
  IF CopiesOf(view, i) = {} THEN ZeroBlock
  ELSE (CHOOSE b \in CopiesOf(view, i) : TRUE).data

Absent(view, i) == SlotsOf(view, i) = {}
Lies(view, k, i, label, content) ==
  \E s \in (DOMAIN view) \X AnyBlock :
    /\ SlotsOf(view, i) = {s}
    /\ s[2].path = label
    /\ s[2].data = content
    /\ s[1] \in FoundAt(k, label)

Keeps(view, new, k, i) ==
  /\ Absent(view, i) => Absent(new, i)
  /\ \A label, content : Lies(view, k, i, label, content) => Lies(new, k, i, label, content)

LEMMA DataWhere ==
  ASSUME NEW view, NEW k, NEW i
  PROVE  /\ Absent(view, i) => DataIn(view, i) = ZeroBlock
         /\ \A label, content : Lies(view, k, i, label, content) =>
              DataIn(view, i) = content /\ ~ Absent(view, i)
<1>1. ASSUME NEW label, NEW content, Lies(view, k, i, label, content)
      PROVE  DataIn(view, i) = content /\ ~ Absent(view, i)
  <2>1. PICK s : SlotsOf(view, i) = {s} /\ s[2].data = content
    BY <1>1 DEF Lies
  <2>2. CopiesOf(view, i) = {s[2]}
    BY <2>1 DEF CopiesOf
  <2>3. (CHOOSE b \in CopiesOf(view, i) : TRUE) = s[2]
    BY <2>2
  <2>. QED BY <2>1, <2>2, <2>3 DEF DataIn, Absent
<1>2. Absent(view, i) => DataIn(view, i) = ZeroBlock
  BY DEF DataIn, Absent, CopiesOf
<1>. QED BY <1>1, <1>2

\* A block stays where it is, or goes from one place where it may be to another.
LEMMA KeepsBy ==
  ASSUME NEW view, NEW new, NEW k, NEW i, NEW to,
         \A s \in SlotsOf(view, i) :
           /\ <<to[s], s[2]>> \in SlotsOf(new, i)
           /\ s[1] \in FoundAt(k, s[2].path) => to[s] \in FoundAt(k, s[2].path),
         \A u \in SlotsOf(new, i) : \E s \in SlotsOf(view, i) : u = <<to[s], s[2]>>
  PROVE  Keeps(view, new, k, i)
<1>1. Absent(view, i) => Absent(new, i)
  BY DEF Absent
<1>2. ASSUME NEW label, NEW content, Lies(view, k, i, label, content)
      PROVE  Lies(new, k, i, label, content)
  <2>1. PICK s : /\ SlotsOf(view, i) = {s}
                 /\ s[2].path = label
                 /\ s[2].data = content
                 /\ s[1] \in FoundAt(k, label)
    BY <1>2 DEF Lies
  <2> DEFINE u == <<to[s], s[2]>>
  <2>2. u \in SlotsOf(new, i) /\ u[1] \in FoundAt(k, label) /\ u[2] = s[2]
    BY <2>1
  <2>3. SlotsOf(new, i) = {u}
    BY <2>1, <2>2
  <2>4. u \in (DOMAIN new) \X AnyBlock
    BY <2>2 DEF SlotsOf
  <2> HIDE DEF u
  <2>. QED BY <2>1, <2>2, <2>3, <2>4 DEF Lies
<1>. QED BY <1>1, <1>2 DEF Keeps

LEMMA KeepsSame ==
  ASSUME NEW view, NEW new, NEW k, NEW i, SlotsOf(new, i) = SlotsOf(view, i)
  PROVE  Keeps(view, new, k, i)
<1> DEFINE to == [s \in SlotsOf(view, i) |-> s[1]]
<1>1. \A s \in SlotsOf(view, i) : to[s] = s[1] /\ s = <<s[1], s[2]>>
  BY DEF SlotsOf
<1> HIDE DEF to
<1>. QED BY <1>1, KeepsBy

LEMMA StashApart ==
  ASSUME NEW k \in Trees
  PROVE  InStash \notin NodesOf(k)
<1>1. HeightOf(k) \in Nat
  BY Capacities, TreesDescend
<1>2. \A n \in NodesOf(k) : n[1] \in 0 .. HeightOf(k) - 1
  BY WalksInTree DEF NodesOf, LevelsOf
<1>3. InStash[1] = -1
  BY DEF InStash
<1>. QED BY <1>1, <1>2, <1>3

\* Where block i has a slot.
SlotHere(k, i, n, b) ==
  /\ b.key = i + 1
  /\ \/ n = InStash /\ PathHeld(k) /\ b \in stash
     \/ /\ n \in NodesOf(k) /\ b \in buckets[k][n]
        /\ ~ (PathHeld(k) /\ n \in WalkOf(k, acc[k].path))
SlotsAre ==
  TypeInv =>
    \A k \in Trees :
      /\ ViewOf(k) \in [Places(k) -> SUBSET AnyBlock]
      /\ \A i, n, b : <<n, b>> \in SlotsOf(ViewOf(k), i) <=> SlotHere(k, i, n, b)
      /\ \A i : \A s \in SlotsOf(ViewOf(k), i) : s = <<s[1], s[2]>>

LEMMA SlotsWhere == SlotsAre
<1> SUFFICES ASSUME TypeInv, NEW k \in Trees
             PROVE  /\ ViewOf(k) \in [Places(k) -> SUBSET AnyBlock]
                    /\ \A i, n, b : <<n, b>> \in SlotsOf(ViewOf(k), i) <=> SlotHere(k, i, n, b)
                    /\ \A i : \A s \in SlotsOf(ViewOf(k), i) : s = <<s[1], s[2]>>
  BY DEF SlotsAre
<1>1. /\ stash \in SUBSET AnyBlock /\ InStash \notin NodesOf(k)
      /\ \A n \in NodesOf(k) : buckets[k][n] \in SUBSET AnyBlock
  BY StashApart DEF TypeInv, StashInv, BucketsOf
<1> DEFINE at(n) == IF n = InStash THEN (IF PathHeld(k) THEN stash ELSE {})
                    ELSE IF PathHeld(k) /\ n \in WalkOf(k, acc[k].path) THEN {}
                    ELSE buckets[k][n]
<1>2. ViewOf(k) = [n \in Places(k) |-> at(n)]
  BY DEF ViewOf
<1>3. \A n \in Places(k) : at(n) \in SUBSET AnyBlock
  BY <1>1 DEF Places
<1> HIDE DEF at
<1>4. ViewOf(k) \in [Places(k) -> SUBSET AnyBlock]
  BY <1>2, <1>3
<1>5. ASSUME NEW i, NEW n, NEW b
      PROVE  <<n, b>> \in SlotsOf(ViewOf(k), i) <=> SlotHere(k, i, n, b)
  <2>1. <<n, b>> \in SlotsOf(ViewOf(k), i) <=>
          n \in Places(k) /\ b \in at(n) /\ b.key = i + 1
    BY <1>2, <1>3 DEF SlotsOf
  <2>. QED BY <1>1, <2>1 DEF at, Places, SlotHere
<1>6. \A i : \A s \in SlotsOf(ViewOf(k), i) : s = <<s[1], s[2]>>
  BY DEF SlotsOf
<1>. QED BY <1>4, <1>5, <1>6

LEMMA SlotsWhereNext == SlotsAre'
BY SlotsWhere, PTL

(***************************************************************************)
(* The block an access has taken out; the label the tree below, or the     *)
(* position map, has for a block; and the label the block is found under,  *)
(* which for the block an access is about is the old one, from when the    *)
(* tree below has the new one to the fetch.                                *)
(***************************************************************************)
InHand(k, i) == acc[k].pc = "put" /\ i = acc[k].req.ind
ContentOf(k, i) == IF InHand(k, i) THEN acc[k].fetched ELSE DataIn(ViewOf(k), i)

Below(i) == MapInd(i, WordsPerBlock)
LabelNow(k, i) ==
  IF MapInEnclave(k) THEN posmap[i] ELSE ContentOf(k + 1, Below(i))[MapWord(i)]

\* The tree below has stored the new label.
Stores == {"put", "evict", "answered"}
Swapping(k) == acc[k].pc = "wait" /\ acc[k + 1].pc \in Stores

Walking(k, i) == acc[k].pc \in {"wild", "download", "fetch"} /\ i = acc[k].req.ind
Expected(k, i) ==
  IF Walking(k, i) THEN acc[k].path
  ELSE IF Swapping(k) /\ i = acc[k].req.ind THEN OldLabel(k)
  ELSE LabelNow(k, i)

\* Block i of tree k is nowhere, or where the next access looks for it.
Findable(k, i) ==
  \/ Absent(ViewOf(k), i)
  \/ /\ Expected(k, i) \in Paths
     /\ \E x \in Contents : Lies(ViewOf(k), k, i, Expected(k, i), x)
BlocksFindable(k) == \A i \in IndsAt[k] : Findable(k, i)

\* What an access of tree k has in hand, and has asked of the tree below.
HandInv(k) ==
  /\ acc[k].pc = "put" => Absent(ViewOf(k), acc[k].req.ind)
  /\ acc[k].pc \in {"map", "wait"} => acc[k].path = acc[k].newPath
  /\ acc[k].pc = "wait" =>
       /\ acc[k + 1].req.ind = Below(acc[k].req.ind)
       /\ acc[k + 1].req.ws = {MapWord(acc[k].req.ind)}
       /\ ~ Swapping(k) => OldLabel(k) = acc[k].newPath
  /\ acc[k].pc \in {"wild", "download", "fetch", "put"} \/ Swapping(k) =>
       LabelNow(k, acc[k].req.ind) = acc[k].newPath

\* The blocks of a tree, and those in the stash while its path is there, were put
\* there for it.  The last entry of the enclave's map is never used.
OwnInv(k) ==
  /\ \A n \in NodesOf(k) : buckets[k][n] \subseteq BlockOf(k)
  /\ PathHeld(k) => stash \subseteq BlockOf(k)
  /\ MapInEnclave(k) => Absent(ViewOf(k), MaxPosMap - 1)

TreeInv(k) == OwnInv(k) /\ BlocksFindable(k) /\ HandInv(k)

IInv ==
  /\ TypeInv
  /\ NothingSpilled
  /\ \A k \in Trees : TreeInv(k)

\* Of two neighbouring ids whose labels are in the position map, the second is the
\* last of the map: the swap of the first one's label spoils no other's.
OnlyLastSpoiled ==
  \A k \in Trees : MapInEnclave(k) =>
    \A i \in IndsAt[k] : i + 1 \in IndsAt[k] => i + 1 = MaxPosMap - 1

LEMMA IndsTyping ==
  ASSUME NEW k \in Trees, NEW i \in IndsAt[k]
  PROVE  /\ i \in Nat
         /\ ~ MapInEnclave(k) => /\ k + 1 \in Trees /\ k + 1 # k /\ k \in Nat
                                 /\ Below(i) \in IndsAt[k + 1] /\ MapWord(i) \in Words
<1>1. i \in Nat /\ k \in Nat
  <2>1. i \in 0 .. CapacityAt[k] - 1
    BY IndsFit
  <2>. QED BY <2>1, TreesDescend
<1>2. ASSUME ~ MapInEnclave(k)
      PROVE  /\ k + 1 \in Trees /\ k + 1 # k
             /\ Below(i) \in IndsAt[k + 1] /\ MapWord(i) \in Words
  <2>1. k + 1 \in Trees
    BY <1>2, TreesDescend
  <2>2. Below(i) \in IndsAt[k + 1]
    BY <2>1, IndsFit DEF Below, MapInds
  <2>3. MapWord(i) \in Words
    BY <1>1, DataAssumption, Division DEF MapWord, Words
  <2>. QED BY <1>1, <2>1, <2>2, <2>3
<1>. QED BY <1>1, <1>2

\* Two blocks do not share a word of the blocks of labels.
LEMMA WordsDiffer ==
  ASSUME NEW i \in Nat, NEW j \in Nat, Below(i) = Below(j), MapWord(i) = MapWord(j)
  PROVE  i = j
<1> DEFINE w == WordsPerBlock
<1>1. w \in Nat \ {0}
  BY DataAssumption
<1> HIDE DEF w
<1>2. i = w * (i \div w) + (i % w) /\ j = w * (j \div w) + (j % w)
  BY <1>1, Division
<1>3. i \div w = j \div w /\ i % w = j % w
  BY DEF Below, MapInd, MapWord, w
<1>. QED BY <1>2, <1>3

\* What a block of labels holds stays, and the labels in it.
LEMMA LabelRests ==
  ASSUME NEW k \in Trees, NEW i \in IndsAt[k], posmap' = posmap,
         ~ MapInEnclave(k) => ContentOf(k + 1, Below(i))' = ContentOf(k + 1, Below(i))
  PROVE  LabelNow(k, i)' = LabelNow(k, i)
BY DEF LabelNow

\* A tree whose path is in its buckets is not touched by what goes on in the stash.
LEMMA ViewRests ==
  ASSUME NEW k, ~ PathHeld(k), ~ PathHeld(k)', buckets'[k] = buckets[k]
  PROVE  ViewOf(k)' = ViewOf(k)
BY DEF ViewOf

\* A tree whose own access rests, and whose labels stay.
LEMMA TreeRests ==
  ASSUME IInv, NEW k \in Trees, acc'[k] = acc[k], buckets'[k] = buckets[k],
         acc[k].pc \in {"wait", "idle"}, acc[k].req.ind \in IndsAt[k],
         \A i \in IndsAt[k] : LabelNow(k, i)' = LabelNow(k, i),
         acc[k].pc = "wait" => /\ acc'[k + 1].req = acc[k + 1].req
                               /\ Swapping(k)' <=> Swapping(k)
  PROVE  TreeInv(k)'
<1>1. acc[k].pc = "wait" => OldLabel(k)' = OldLabel(k)
  BY DEF OldLabel, MapOf
<1>2. Swapping(k)' <=> Swapping(k)
  BY DEF Swapping
<1>3. \A i \in IndsAt[k] : Expected(k, i)' = Expected(k, i)
  BY <1>1, <1>2 DEF Expected, Walking, Swapping
<1>4. ~ PathHeld(k) /\ ~ PathHeld(k)'
  BY DEF PathHeld
<1>5. ViewOf(k)' = ViewOf(k)
  BY <1>4, ViewRests
<1>6. TreeInv(k)
  BY DEF IInv
<1>7. BlocksFindable(k)'
  <2> SUFFICES ASSUME NEW i \in IndsAt[k] PROVE Findable(k, i)'
    BY DEF BlocksFindable
  <2>1. Findable(k, i)
    BY <1>6 DEF TreeInv, BlocksFindable
  <2>2. Expected(k, i)' = Expected(k, i)
    BY <1>3
  <2>. QED BY <1>5, <2>1, <2>2 DEF Findable
<1>8. HandInv(k)'
  <2>1. LabelNow(k, acc[k].req.ind)' = LabelNow(k, acc[k].req.ind)
    OBVIOUS
  <2> HIDE DEF LabelNow
  <2>. QED BY <1>1, <1>2, <1>6, <2>1 DEF TreeInv, HandInv
<1>9. OwnInv(k)'
  BY <1>4, <1>5, <1>6 DEF TreeInv, OwnInv
<1>. QED BY <1>7, <1>8, <1>9 DEF TreeInv

\* While tree m is worked on, the other trees and the labels they hold stay.
LEMMA OthersStay ==
  ASSUME IInv, NEW m \in Trees, acc[m].pc \in Working, posmap' = posmap,
         \A j \in Trees : j # m => acc'[j] = acc[j] /\ buckets'[j] = buckets[j]
  PROVE  /\ \A j \in Trees : j # m =>
              /\ acc[j].pc = IF j < m THEN "wait" ELSE "idle"
              /\ acc[j].pc \in {"wait", "idle"} /\ acc[j].req.ind \in IndsAt[j]
              /\ ViewOf(j)' = ViewOf(j)
              /\ \A b : ContentOf(j, b)' = ContentOf(j, b)
         /\ \A j \in Trees : j + 1 # m =>
              \A i \in IndsAt[j] : LabelNow(j, i)' = LabelNow(j, i)
         /\ \A j \in Trees : j # m /\ j + 1 # m => TreeInv(j)'
<1>1. TypeInv /\ AccInv
  BY DEF IInv, TypeInv
<1>2. ASSUME NEW j \in Trees, j # m
      PROVE  /\ acc[j].pc = IF j < m THEN "wait" ELSE "idle"
             /\ acc[j].pc \in {"wait", "idle"} /\ acc[j].req.ind \in IndsAt[j]
             /\ ViewOf(j)' = ViewOf(j)
             /\ \A b : ContentOf(j, b)' = ContentOf(j, b)
  <2>1. acc[j].pc = IF j < m THEN "wait" ELSE "idle"
    BY <1>1, <1>2, OthersRest DEF Working
  <2>2. acc'[j] = acc[j] /\ buckets'[j] = buckets[j] /\ acc[j].pc \in {"wait", "idle"}
    BY <1>2, <2>1
  <2>3. ViewOf(j)' = ViewOf(j)
    BY <2>2, ViewRests DEF PathHeld
  <2>4. \A b : ContentOf(j, b)' = ContentOf(j, b)
    BY <2>2, <2>3 DEF ContentOf, InHand
  <2>5. acc[j].req.ind \in IndsAt[j]
    BY <1>1 DEF AccInv, AccessOf, AccessRecord, RequestOf
  <2>. QED BY <2>1, <2>2, <2>3, <2>4, <2>5
<1>3. ASSUME NEW j \in Trees, j + 1 # m, NEW i \in IndsAt[j]
      PROVE  LabelNow(j, i)' = LabelNow(j, i)
  <2>1. ~ MapInEnclave(j) => ContentOf(j + 1, Below(i))' = ContentOf(j + 1, Below(i))
    BY <1>2, <1>3, IndsTyping
  <2>. QED BY <2>1, LabelRests
<1>4. ASSUME NEW j \in Trees, j # m, j + 1 # m PROVE TreeInv(j)'
  <2>1. /\ acc'[j] = acc[j] /\ buckets'[j] = buckets[j]
        /\ acc[j].pc \in {"wait", "idle"} /\ acc[j].req.ind \in IndsAt[j]
    BY <1>2, <1>4
  <2>2. \A i \in IndsAt[j] : LabelNow(j, i)' = LabelNow(j, i)
    BY <1>3, <1>4
  <2>3. acc[j].pc = "wait" => acc'[j + 1] = acc[j + 1]
    <3>1. acc[j].pc = "wait" => j + 1 \in Trees
      BY <1>1, TreesDescend DEF AccInv, AccessOf
    <3>. QED BY <1>4, <3>1
  <2>4. acc[j].pc = "wait" => (Swapping(j)' <=> Swapping(j))
    BY <2>1, <2>3 DEF Swapping
  <2>. QED BY <2>1, <2>2, <2>3, <2>4, TreeRests
<1>. QED BY <1>2, <1>3, <1>4

\* The tree above rests too when the blocks of labels keep their contents.
LEMMA AboveStays ==
  ASSUME IInv, NEW m \in Trees, acc[m].pc \in Working, posmap' = posmap,
         \A j \in Trees : j # m => acc'[j] = acc[j] /\ buckets'[j] = buckets[j],
         acc'[m].req = acc[m].req,
         m # 0 => (acc'[m].pc \in Stores <=> acc[m].pc \in Stores),
         \A b \in IndsAt[m] : ContentOf(m, b)' = ContentOf(m, b)
  PROVE  \A j \in Trees : j # m => TreeInv(j)'
<1>1. ASSUME NEW j \in Trees, j + 1 = m PROVE TreeInv(j)'
  <2>1. j # m /\ m # 0
    BY <1>1, TreesDescend
  <2>2. /\ acc'[j] = acc[j] /\ buckets'[j] = buckets[j]
        /\ acc[j].pc \in {"wait", "idle"} /\ acc[j].req.ind \in IndsAt[j]
    BY <2>1, OthersStay
  <2>3. ASSUME NEW i \in IndsAt[j] PROVE LabelNow(j, i)' = LabelNow(j, i)
    <3>1. ~ MapInEnclave(j) => ContentOf(j + 1, Below(i))' = ContentOf(j + 1, Below(i))
      BY <1>1, IndsTyping
    <3>. QED BY <3>1, LabelRests
  <2>4. Swapping(j)' <=> Swapping(j)
    BY <1>1, <2>1, <2>2 DEF Swapping
  <2>. QED BY <1>1, <2>2, <2>3, <2>4, TreeRests
<1>. QED BY <1>1, OthersStay

\* A block that a step keeps is as findable as before, with the same content.
LEMMA KeptFindable ==
  ASSUME NEW k, NEW i, Findable(k, i), Keeps(ViewOf(k), ViewOf(k)', k, i),
         Expected(k, i)' = Expected(k, i)
  PROVE  Findable(k, i)' /\ DataIn(ViewOf(k), i)' = DataIn(ViewOf(k), i)
<1>1. CASE Absent(ViewOf(k), i)
  <2>1. Absent(ViewOf(k)', i)
    BY <1>1 DEF Keeps
  <2>2. DataIn(ViewOf(k), i) = ZeroBlock /\ DataIn(ViewOf(k)', i) = ZeroBlock
    BY <1>1, <2>1, DataWhere
  <2>. QED BY <2>1, <2>2 DEF Findable
<1>2. CASE ~ Absent(ViewOf(k), i)
  <2>1. PICK x \in Contents :
          Expected(k, i) \in Paths /\ Lies(ViewOf(k), k, i, Expected(k, i), x)
    BY <1>2 DEF Findable
  <2>2. Lies(ViewOf(k)', k, i, Expected(k, i), x)
    BY <2>1 DEF Keeps
  <2>3. DataIn(ViewOf(k), i) = x /\ DataIn(ViewOf(k)', i) = x
    BY <2>1, <2>2, DataWhere
  <2>. QED BY <2>1, <2>2, <2>3 DEF Findable
<1>. QED BY <1>1, <1>2

\* The calls on tree m that move its blocks.
Moves(m) == DownloadPath(m) \/ ObliviousFetch(m) \/ PutToStash(m) \/ EvictPath(m)

LEMMA StepFacts ==
  ASSUME IInv, NEW m \in Trees, Moves(m)
  PROVE  /\ TypeInv' /\ posmap' = posmap /\ alive' = alive /\ acc[m].pc \in Working
         /\ \A j \in Trees : j # m => acc'[j] = acc[j] /\ buckets'[j] = buckets[j]
         /\ m \in Nat /\ acc[m] \in AccessOf(m)
         /\ acc[m].req.ind \in IndsAt[m] /\ acc[m].req.ind \in Nat
         /\ \A i \in IndsAt[m] : i \in Nat /\ LabelNow(m, i)' = LabelNow(m, i)
         /\ ~ Swapping(m)
<1>1. TypeInv /\ AccInv
  BY DEF IInv, TypeInv
<1>2. /\ TypeInv' /\ posmap' = posmap /\ alive' = alive
      /\ acc[m].pc \in {"download", "fetch", "put", "evict"}
      /\ \A j \in Trees : j # m => acc'[j] = acc[j]
  <2>1. CASE DownloadPath(m)
    <3>1. Goes(m, "fetch") /\ acc[m].pc = "download" /\ posmap' = posmap /\ alive' = alive
      BY <2>1 DEF DownloadPath, Goes
    <3>. QED BY <1>1, <2>1, <3>1, DownloadTyping, GoesTyping
  <2>2. CASE ObliviousFetch(m)
    BY <1>1, <2>2, FetchEffect, FetchTyping
  <2>3. CASE PutToStash(m)
    <3>1. Goes(m, "evict") /\ acc[m].pc = "put" /\ posmap' = posmap /\ alive' = alive
      BY <2>3 DEF PutToStash, Goes
    <3>. QED BY <1>1, <2>3, <3>1, PutTyping, GoesTyping
  <2>4. CASE EvictPath(m)
    BY <1>1, <2>4, EvictEffect, EvictTyping
  <2>. QED BY <2>1, <2>2, <2>3, <2>4 DEF Moves
<1>3. \A j \in Trees : j # m => buckets'[j] = buckets[j]
  BY <1>1 DEF Moves, DownloadPath, ObliviousFetch, PutToStash, EvictPath, TypeInv
<1>4. m \in Nat /\ acc[m] \in AccessOf(m) /\ acc[m].req.ind \in IndsAt[m]
  BY <1>1, TreesDescend DEF AccInv, AccessOf, AccessRecord, RequestOf
<1>5. \A i \in IndsAt[m] : i \in Nat
  BY IndsTyping
<1>6. acc[m].pc \in Working /\ ~ Swapping(m)
  BY <1>2 DEF Working, Swapping
<1>7. \A i \in IndsAt[m] : LabelNow(m, i)' = LabelNow(m, i)
  <2>1. m + 1 # m
    BY <1>4
  <2>. QED BY <1>2, <1>3, <1>6, <2>1, OthersStay
<1>. QED BY <1>2, <1>3, <1>4, <1>5, <1>6, <1>7

-----------------------------------------------------------------------------
(* Where each of the calls leaves the blocks of its tree.                  *)

\* The download takes the blocks of the path to the stash, which was empty.
LEMMA DownloadMoves ==
  ASSUME IInv, NEW m \in Trees, DownloadPath(m)
  PROVE  /\ \A i : Keeps(ViewOf(m), ViewOf(m)', m, i)
         /\ stash' \subseteq BlockOf(m)
<1>1. /\ TypeInv' /\ buckets' = buckets /\ acc[m].pc = "download"
      /\ stash' = stash \cup OnWalk(m) /\ acc[m] \in AccessOf(m)
      /\ acc'[m] = [acc[m] EXCEPT !.pc = "fetch"]
  <2>1. Goes(m, "fetch") /\ acc[m].pc = "download" /\ AccInv
    BY DEF DownloadPath, Goes, IInv, TypeInv
  <2>2. acc'[m] = [acc[m] EXCEPT !.pc = "fetch"]
    BY <2>1, GoesTyping
  <2>3. stash' = stash \cup OnWalk(m) /\ buckets' = buckets
    BY SameNames DEF DownloadPath
  <2>. QED BY <2>1, <2>2, <2>3, StepFacts DEF Moves
<1> DEFINE p == acc[m].path
<1>2. acc'[m].path = p /\ p \in Paths /\ ~ PathHeld(m) /\ PathHeld(m)'
  BY <1>1 DEF AccessOf, AccessRecord, PathHeld
<1>3. stash = {}
  <2>1. \A k \in Trees : k # m => acc[k].pc \in {"wait", "idle"}
    BY <1>1, OthersRest DEF IInv, TypeInv
  <2>2. \A k \in Trees : acc[k].pc \notin {"fetch", "put", "evict"}
    BY <1>1, <2>1
  <2>. QED BY <2>2 DEF IInv, NothingSpilled
<1>4. stash' = OnWalk(m)
  BY <1>1, <1>3
<1>5. \A b : b \in OnWalk(m) <=> \E n \in WalkOf(m, p) : b \in buckets[m][n]
  BY DEF OnWalk, WalkOf
<1>6. WalkOf(m, p) \subseteq NodesOf(m) /\ InStash \notin NodesOf(m)
  BY <1>2, WalksInTree, StashApart
<1> HIDE DEF p
<1>7. /\ \A i, n, b : <<n, b>> \in SlotsOf(ViewOf(m), i) <=>
           b.key = i + 1 /\ n \in NodesOf(m) /\ b \in buckets[m][n]
      /\ \A i : \A s \in SlotsOf(ViewOf(m), i) : s = <<s[1], s[2]>>
  BY <1>2, SlotsWhere DEF SlotsAre, SlotHere, IInv
<1>8. /\ \A i, n, b : <<n, b>> \in SlotsOf(ViewOf(m)', i) <=>
           /\ b.key = i + 1
           /\ \/ n = InStash /\ b \in OnWalk(m)
              \/ n \in NodesOf(m) /\ b \in buckets[m][n] /\ n \notin WalkOf(m, p)
      /\ \A i : \A s \in SlotsOf(ViewOf(m)', i) : s = <<s[1], s[2]>>
  BY <1>1, <1>2, <1>4, SlotsWhereNext DEF SlotsAre, SlotHere
<1>9. ASSUME NEW i PROVE Keeps(ViewOf(m), ViewOf(m)', m, i)
  <2> DEFINE old == SlotsOf(ViewOf(m), i)
             new == SlotsOf(ViewOf(m)', i)
             to == [s \in old |-> IF s[1] \in WalkOf(m, p) THEN InStash ELSE s[1]]
  <2>1. \A s \in old : to[s] = IF s[1] \in WalkOf(m, p) THEN InStash ELSE s[1]
    OBVIOUS
  <2> HIDE DEF to
  <2>2. ASSUME NEW s \in old
        PROVE  /\ <<to[s], s[2]>> \in new
               /\ s[1] \in FoundAt(m, s[2].path) => to[s] \in FoundAt(m, s[2].path)
    <3>1. s[2].key = i + 1 /\ s[1] \in NodesOf(m) /\ s[2] \in buckets[m][s[1]]
      BY <1>7
    <3>2. s[1] \in WalkOf(m, p) => s[2] \in OnWalk(m)
      BY <1>5, <3>1
    <3>3. <<to[s], s[2]>> \in new
      BY <1>8, <2>1, <3>1, <3>2
    <3>. QED BY <2>1, <3>3 DEF FoundAt
  <2>3. ASSUME NEW u \in new PROVE \E s \in old : u = <<to[s], s[2]>>
    <3>1. u = <<u[1], u[2]>> /\ u[2].key = i + 1
      BY <1>8
    <3>2. CASE u[1] = InStash
      <4>1. u[2] \in OnWalk(m)
        BY <1>6, <1>8, <3>1, <3>2
      <4>2. PICK n \in WalkOf(m, p) : u[2] \in buckets[m][n]
        BY <1>5, <4>1
      <4>3. <<n, u[2]>> \in old
        BY <1>6, <1>7, <3>1, <4>2
      <4>4. to[<<n, u[2]>>] = InStash
        BY <2>1, <4>2, <4>3
      <4>. QED BY <3>1, <3>2, <4>3, <4>4
    <3>3. CASE u[1] # InStash
      <4>1. u[1] \in NodesOf(m) /\ u[2] \in buckets[m][u[1]] /\ u[1] \notin WalkOf(m, p)
        BY <1>8, <3>1, <3>3
      <4>2. u \in old
        BY <1>7, <3>1, <4>1
      <4>3. to[u] = u[1]
        BY <2>1, <4>1, <4>2
      <4>. QED BY <3>1, <4>2, <4>3
    <3>. QED BY <3>2, <3>3
  <2> HIDE DEF old, new
  <2>. QED BY <2>2, <2>3, KeepsBy DEF old, new
<1>10. stash' \subseteq BlockOf(m)
  <2>1. \A n \in NodesOf(m) : buckets[m][n] \subseteq BlockOf(m)
    BY DEF IInv, TreeInv, OwnInv
  <2>. QED BY <1>4, <1>5, <1>6, <2>1
<1>. QED BY <1>9, <1>10

\* The fetch takes out the block it looks for, when there is one.
LEMMA FetchMoves ==
  ASSUME IInv, NEW m \in Trees, NEW taken, NEW content,
         FetchesWhat(m, taken, content), acc[m].pc = "fetch",
         UNCHANGED <<posmap, buckets, alive>>
  PROVE  /\ \A i \in Nat : i # acc[m].req.ind => Keeps(ViewOf(m), ViewOf(m)', m, i)
         /\ Absent(ViewOf(m)', acc[m].req.ind)
         /\ content = DataIn(ViewOf(m), acc[m].req.ind)
<1> DEFINE r == acc[m].req.ind
           p == acc[m].path
           hits == {b \in stash : b.key = r + 1}
<1>1. /\ TypeInv' /\ acc[m] \in AccessOf(m) /\ r \in IndsAt[m] /\ r \in Nat
      /\ acc'[m] = Fetched(m, content)
  <2>1. TypeInv /\ AccInv /\ acc[m] \in AccessOf(m)
    BY DEF IInv, TypeInv, AccInv
  <2>2. r \in IndsAt[m]
    BY <2>1 DEF AccessOf, AccessRecord, RequestOf
  <2>3. TypeInv' /\ acc'[m] = Fetched(m, content)
    BY <2>1, FetchTyping
  <2>4. r \in Nat
    BY <2>2, IndsTyping
  <2>. QED BY <2>1, <2>2, <2>3, <2>4
<1>2. acc'[m].pc = "put" /\ acc'[m].path = p
  BY <1>1 DEF Fetched, AccessOf, AccessRecord
<1>3. PathHeld(m) /\ PathHeld(m)' /\ buckets'[m] = buckets[m]
  BY <1>2 DEF PathHeld
<1>4. InStash \notin NodesOf(m)
  BY StashApart
<1>5. Findable(m, r) /\ Expected(m, r) = p
  BY <1>1 DEF IInv, TreeInv, BlocksFindable, Expected, Walking
<1>6. /\ \A i, n, b : <<n, b>> \in SlotsOf(ViewOf(m), i) <=>
           /\ b.key = i + 1
           /\ \/ n = InStash /\ b \in stash
              \/ n \in NodesOf(m) /\ b \in buckets[m][n] /\ n \notin WalkOf(m, p)
      /\ \A i : \A s \in SlotsOf(ViewOf(m), i) : s = <<s[1], s[2]>>
  BY <1>3, SlotsWhere DEF SlotsAre, SlotHere, IInv
<1> HIDE DEF p
<1>7. /\ \A i, n, b : <<n, b>> \in SlotsOf(ViewOf(m)', i) <=>
           /\ b.key = i + 1
           /\ \/ n = InStash /\ b \in stash'
              \/ n \in NodesOf(m) /\ b \in buckets[m][n] /\ n \notin WalkOf(m, p)
      /\ \A i : \A s \in SlotsOf(ViewOf(m)', i) : s = <<s[1], s[2]>>
  <2>1. TypeInv' /\ acc'[m].path = p /\ PathHeld(m)' /\ buckets'[m] = buckets[m]
    BY <1>1, <1>2, <1>3
  <2>. QED BY <2>1, SlotsWhereNext DEF SlotsAre, SlotHere
<1>8. /\ taken \subseteq hits /\ (taken = {} => hits = {}) /\ stash' = stash \ taken
      /\ IF taken = {} THEN content = ZeroBlock ELSE \E b \in taken : content = b.data
  BY DEF FetchesWhat
<1> HIDE DEF r
<1>9. hits = {b \in stash : b.key = r + 1}
  OBVIOUS
<1> HIDE DEF hits
<1>10. ASSUME NEW i \in Nat, i # r PROVE Keeps(ViewOf(m), ViewOf(m)', m, i)
  <2>1. \A b \in taken : b.key # i + 1
    BY <1>1, <1>8, <1>9, <1>10
  <2>2. \A b : b.key = i + 1 => (b \in stash <=> b \in stash')
    BY <1>8, <2>1
  <2>3. SlotsOf(ViewOf(m)', i) = SlotsOf(ViewOf(m), i)
    <3>1. \A s \in SlotsOf(ViewOf(m), i) : s \in SlotsOf(ViewOf(m)', i)
      BY <1>6, <1>7, <2>2
    <3>2. \A s \in SlotsOf(ViewOf(m)', i) : s \in SlotsOf(ViewOf(m), i)
      BY <1>6, <1>7, <2>2
    <3>. QED BY <3>1, <3>2
  <2>. QED BY <2>3, KeepsSame
<1>11. CASE Absent(ViewOf(m), r)
  <2>1. \A n, b : ~ (<<n, b>> \in SlotsOf(ViewOf(m), r))
    BY <1>11 DEF Absent
  <2>2. hits = {}
    BY <1>6, <1>9, <2>1
  <2>3. content = ZeroBlock /\ stash' = stash
    BY <1>8, <2>2
  <2>4. SlotsOf(ViewOf(m)', r) = {}
    BY <1>6, <1>7, <2>1, <2>3
  <2>5. DataIn(ViewOf(m), r) = ZeroBlock
    BY <1>11, DataWhere
  <2>. QED BY <1>10, <2>3, <2>4, <2>5 DEF Absent, r
<1>12. ASSUME NEW x, Lies(ViewOf(m), m, r, p, x)
       PROVE  Absent(ViewOf(m)', r) /\ content = DataIn(ViewOf(m), r)
  <2>1. PICK s : /\ SlotsOf(ViewOf(m), r) = {s} /\ s[2].data = x
                 /\ s[1] \in FoundAt(m, p)
    BY <1>12 DEF Lies
  <2>2. s = <<s[1], s[2]>> /\ s \in SlotsOf(ViewOf(m), r)
    BY <1>6, <2>1
  <2>3. s[1] = InStash /\ s[2] \in stash /\ s[2].key = r + 1
    <3>1. s[2].key = r + 1
      BY <1>6, <2>2
    <3>2. \/ s[1] = InStash /\ s[2] \in stash
          \/ s[1] \in NodesOf(m) /\ s[1] \notin WalkOf(m, p)
      BY <1>6, <2>2
    <3>. QED BY <1>4, <2>1, <3>1, <3>2 DEF FoundAt
  <2>4. ASSUME NEW b \in hits PROVE b = s[2]
    <3>1. <<InStash, b>> \in SlotsOf(ViewOf(m), r)
      BY <1>6, <1>9
    <3>. QED BY <2>1, <3>1
  <2>5. hits = {s[2]}
    BY <1>9, <2>3, <2>4
  <2>6. taken = {s[2]} /\ content = x
    BY <1>8, <2>1, <2>5
  <2>7. SlotsOf(ViewOf(m)', r) = {}
    <3>1. ASSUME NEW u \in SlotsOf(ViewOf(m)', r) PROVE FALSE
      <4>1. u = <<u[1], u[2]>> /\ u[2].key = r + 1
        BY <1>7
      <4>2. u[1] # InStash
        BY <1>4, <1>7, <1>8, <1>9, <2>5, <2>6, <4>1
      <4>3. u \in SlotsOf(ViewOf(m), r)
        BY <1>6, <1>7, <4>1, <4>2
      <4>. QED BY <2>1, <2>3, <4>2, <4>3
    <3>. QED BY <3>1
  <2>8. DataIn(ViewOf(m), r) = x
    BY <1>12, DataWhere
  <2>. QED BY <2>6, <2>7, <2>8 DEF Absent
<1>. QED BY <1>5, <1>10, <1>11, <1>12 DEF Findable, r

\* The put lays the block in hand into the stash.
LEMMA PutMoves ==
  ASSUME IInv, NEW m \in Trees, PutToStash(m)
  PROVE  /\ \A i \in Nat : i # acc[m].req.ind => Keeps(ViewOf(m), ViewOf(m)', m, i)
         /\ Lies(ViewOf(m)', m, acc[m].req.ind, acc[m].newPath, acc[m].fetched)
         /\ acc'[m] = [acc[m] EXCEPT !.pc = "evict"] /\ acc[m].pc = "put"
         /\ stash' \subseteq BlockOf(m) /\ buckets' = buckets
<1> DEFINE r == acc[m].req.ind
           p == acc[m].path
           b0 == PutBlock(m)
<1>1. /\ TypeInv' /\ acc[m] \in AccessOf(m) /\ r \in Nat
      /\ acc'[m] = [acc[m] EXCEPT !.pc = "evict"] /\ acc[m].pc = "put"
      /\ stash' = stash \cup {b0} /\ buckets' = buckets
      /\ b0 \in BlockOf(m)
  <2>1. Goes(m, "evict") /\ AccInv /\ TypeInv /\ acc[m].pc = "put"
    BY DEF PutToStash, Goes, IInv, TypeInv
  <2>2. acc'[m] = [acc[m] EXCEPT !.pc = "evict"]
    BY <2>1, GoesTyping
  <2>3. b0 \in BlockOf(m)
    BY <2>1, PutTyping
  <2>4. stash' = stash \cup {b0} /\ buckets' = buckets
    BY DEF PutToStash
  <2>. QED BY <2>1, <2>2, <2>3, <2>4, StepFacts DEF Moves
<1>2. acc'[m].path = p /\ PathHeld(m) /\ PathHeld(m)'
  BY <1>1 DEF AccessOf, AccessRecord, PathHeld
<1>3. InStash \notin NodesOf(m)
  BY StashApart
<1>4. b0.key = r + 1 /\ b0.path = acc[m].newPath /\ b0.data = acc[m].fetched
  BY SameNames DEF PutBlock
<1>5. Absent(ViewOf(m), r)
  BY <1>1 DEF IInv, TreeInv, HandInv
<1>6. /\ \A i, n, b : <<n, b>> \in SlotsOf(ViewOf(m), i) <=>
           /\ b.key = i + 1
           /\ \/ n = InStash /\ b \in stash
              \/ n \in NodesOf(m) /\ b \in buckets[m][n] /\ n \notin WalkOf(m, p)
      /\ \A i : \A s \in SlotsOf(ViewOf(m), i) : s = <<s[1], s[2]>>
  BY <1>2, SlotsWhere DEF SlotsAre, SlotHere, IInv
<1> HIDE DEF p, b0
<1>7. /\ \A i, n, b : <<n, b>> \in SlotsOf(ViewOf(m)', i) <=>
           /\ b.key = i + 1
           /\ \/ n = InStash /\ b \in stash'
              \/ n \in NodesOf(m) /\ b \in buckets[m][n] /\ n \notin WalkOf(m, p)
      /\ \A i : \A s \in SlotsOf(ViewOf(m)', i) : s = <<s[1], s[2]>>
  <2>1. TypeInv' /\ acc'[m].path = p /\ PathHeld(m)' /\ buckets'[m] = buckets[m]
    BY <1>1, <1>2
  <2>. QED BY <2>1, SlotsWhereNext DEF SlotsAre, SlotHere
<1> HIDE DEF r
<1>8. ASSUME NEW i \in Nat, i # r PROVE Keeps(ViewOf(m), ViewOf(m)', m, i)
  <2>1. \A b : b.key = i + 1 => (b \in stash <=> b \in stash')
    BY <1>1, <1>4, <1>8
  <2>2. SlotsOf(ViewOf(m)', i) = SlotsOf(ViewOf(m), i)
    <3>1. \A s \in SlotsOf(ViewOf(m), i) : s \in SlotsOf(ViewOf(m)', i)
      BY <1>6, <1>7, <2>1
    <3>2. \A s \in SlotsOf(ViewOf(m)', i) : s \in SlotsOf(ViewOf(m), i)
      BY <1>6, <1>7, <2>1
    <3>. QED BY <3>1, <3>2
  <2>. QED BY <2>2, KeepsSame
<1>9. Lies(ViewOf(m)', m, r, acc[m].newPath, acc[m].fetched)
  <2> DEFINE s == <<InStash, b0>>
  <2>1. s \in SlotsOf(ViewOf(m)', r)
    BY <1>1, <1>4, <1>7
  <2>2. ASSUME NEW u \in SlotsOf(ViewOf(m)', r) PROVE u = s
    <3>1. u = <<u[1], u[2]>> /\ u[2].key = r + 1 /\ u \notin SlotsOf(ViewOf(m), r)
      BY <1>5, <1>7 DEF Absent
    <3>2. u[1] = InStash
      BY <1>6, <1>7, <3>1
    <3>3. u[2] \in stash' /\ u[2] \notin stash
      BY <1>3, <1>6, <1>7, <3>1, <3>2
    <3>. QED BY <1>1, <3>1, <3>2, <3>3
  <2>3. SlotsOf(ViewOf(m)', r) = {s}
    BY <2>1, <2>2
  <2>4. s \in (DOMAIN ViewOf(m)') \X AnyBlock
    BY <2>1 DEF SlotsOf
  <2>5. s[1] \in FoundAt(m, acc[m].newPath) /\ s[2] = b0
    BY DEF FoundAt
  <2> HIDE DEF s
  <2>. QED BY <1>4, <2>3, <2>4, <2>5 DEF Lies
<1>10. stash' \subseteq BlockOf(m)
  <2>1. stash \subseteq BlockOf(m)
    BY <1>2 DEF IInv, TreeInv, OwnInv
  <2>. QED BY <1>1, <2>1
<1>. QED BY <1>1, <1>8, <1>9, <1>10 DEF r

\* The eviction takes every block of the stash to a bucket of the path that is also
\* on the path of the block's label.
LEMMA EvictMoves ==
  ASSUME IInv, NothingSpilled', NEW m \in Trees, EvictPath(m)
  PROVE  /\ \A i : Keeps(ViewOf(m), ViewOf(m)', m, i)
         /\ \A n \in NodesOf(m) : buckets'[m][n] \subseteq BlockOf(m)
<1> DEFINE p == acc[m].path
<1>1. /\ TypeInv /\ TypeInv' /\ acc[m] \in AccessOf(m) /\ acc[m].pc = "evict"
      /\ \A j \in Trees : j # m => acc'[j] = acc[j]
      /\ acc'[m].pc = Back(m)
  BY EvictTyping, EvictEffect DEF IInv, TypeInv, AccInv
<1>2. PathHeld(m) /\ ~ PathHeld(m)' /\ p \in Paths
  BY <1>1 DEF AccessOf, AccessRecord, PathHeld, Back
<1>3. PICK lv \in [stash -> 0 .. HeightOf(m)] : EvictsTo(m, lv)
  BY EvictEffect
<1>4. stash' = {}
  <2>1. \A k \in Trees : k # m => acc[k].pc \in {"wait", "idle"}
    BY <1>1, OthersRest DEF TypeInv
  <2>2. \A k \in Trees : acc'[k].pc \notin {"fetch", "put", "evict"}
    BY <1>1, <2>1 DEF Back
  <2>. QED BY <2>2 DEF NothingSpilled
<1>5. ASSUME NEW b \in stash
      PROVE  /\ lv[b] \in LevelsOf(m) /\ b \in Sunk(lv, lv[b])
             /\ At(p, lv[b]) \in WalkOf(m, p) /\ At(p, lv[b])[1] = lv[b]
             /\ At(p, lv[b]) \in WalkOf(m, b.path)
  <2>1. lv[b] # HeightOf(m)
    BY <1>3, <1>4 DEF EvictsTo, Sunk
  <2>2. lv[b] \in LevelsOf(m)
    <3>1. HeightOf(m) \in Nat
      BY Capacities, TreesDescend
    <3>. QED BY <1>3, <2>1, <3>1 DEF LevelsOf
  <2>3. At(b.path, lv[b]) = At(p, lv[b])
    BY <1>3, <2>2 DEF EvictsTo
  <2>4. At(p, lv[b]) \in WalkOf(m, b.path)
    BY <2>2, <2>3 DEF WalkOf
  <2>. QED BY <1>2, <2>2, <2>4, WalksInTree DEF Sunk
<1>6. /\ WalkOf(m, p) \subseteq NodesOf(m) /\ InStash \notin NodesOf(m)
      /\ \A n \in WalkOf(m, p) : n = At(p, n[1])
  BY <1>2, WalksInTree, StashApart
<1>7. \A n \in NodesOf(m) :
        buckets'[m][n] = IF n \in WalkOf(m, p) THEN Sunk(lv, n[1]) ELSE buckets[m][n]
  BY <1>1, <1>3 DEF EvictsTo, TypeInv
<1>8. /\ \A i, n, b : <<n, b>> \in SlotsOf(ViewOf(m), i) <=>
           /\ b.key = i + 1
           /\ \/ n = InStash /\ b \in stash
              \/ n \in NodesOf(m) /\ b \in buckets[m][n] /\ n \notin WalkOf(m, p)
      /\ \A i : \A s \in SlotsOf(ViewOf(m), i) : s = <<s[1], s[2]>>
  BY <1>2, SlotsWhere DEF SlotsAre, SlotHere, IInv
<1> HIDE DEF p
<1>9. /\ \A i, n, b : <<n, b>> \in SlotsOf(ViewOf(m)', i) <=>
           b.key = i + 1 /\ n \in NodesOf(m) /\ b \in buckets'[m][n]
      /\ \A i : \A s \in SlotsOf(ViewOf(m)', i) : s = <<s[1], s[2]>>
  BY <1>1, <1>2, SlotsWhereNext DEF SlotsAre, SlotHere
<1>10. ASSUME NEW i PROVE Keeps(ViewOf(m), ViewOf(m)', m, i)
  <2> DEFINE old == SlotsOf(ViewOf(m), i)
             new == SlotsOf(ViewOf(m)', i)
             to == [s \in old |-> IF s[1] = InStash THEN At(p, lv[s[2]]) ELSE s[1]]
  <2>1. \A s \in old : to[s] = IF s[1] = InStash THEN At(p, lv[s[2]]) ELSE s[1]
    OBVIOUS
  <2> HIDE DEF to
  <2>2. ASSUME NEW s \in old
        PROVE  /\ <<to[s], s[2]>> \in new
               /\ s[1] \in FoundAt(m, s[2].path) => to[s] \in FoundAt(m, s[2].path)
    <3>1. s = <<s[1], s[2]>> /\ s[2].key = i + 1
      BY <1>8
    <3>2. CASE s[1] = InStash
      <4>1. s[2] \in stash
        BY <1>6, <1>8, <3>1, <3>2
      <4>2. /\ to[s] \in WalkOf(m, p) /\ to[s] \in NodesOf(m) /\ s[2] \in Sunk(lv, to[s][1])
            /\ to[s] \in WalkOf(m, s[2].path)
        BY <1>5, <1>6, <2>1, <3>2, <4>1
      <4>3. s[2] \in buckets'[m][to[s]]
        BY <1>7, <4>2
      <4>. QED BY <1>9, <3>1, <4>2, <4>3 DEF FoundAt
    <3>3. CASE s[1] # InStash
      <4>1. s[1] \in NodesOf(m) /\ s[2] \in buckets[m][s[1]] /\ s[1] \notin WalkOf(m, p)
        BY <1>8, <3>1, <3>3
      <4>2. to[s] = s[1] /\ s[2] \in buckets'[m][s[1]]
        BY <1>7, <2>1, <3>3, <4>1
      <4>. QED BY <1>9, <3>1, <4>1, <4>2
    <3>. QED BY <3>2, <3>3
  <2>3. ASSUME NEW u \in new PROVE \E s \in old : u = <<to[s], s[2]>>
    <3>1. /\ u = <<u[1], u[2]>> /\ u[2].key = i + 1
          /\ u[1] \in NodesOf(m) /\ u[2] \in buckets'[m][u[1]]
      BY <1>9
    <3>2. CASE u[1] \in WalkOf(m, p)
      <4>1. u[2] \in Sunk(lv, u[1][1])
        BY <1>7, <3>1, <3>2
      <4>2. u[2] \in stash /\ lv[u[2]] = u[1][1]
        BY <4>1 DEF Sunk
      <4>3. <<InStash, u[2]>> \in old
        BY <1>8, <3>1, <4>2
      <4>4. to[<<InStash, u[2]>>] = u[1]
        BY <1>6, <2>1, <3>2, <4>2, <4>3
      <4>. QED BY <3>1, <4>3, <4>4
    <3>3. CASE u[1] \notin WalkOf(m, p)
      <4>1. u \in old
        BY <1>7, <1>8, <3>1, <3>3
      <4>2. to[u] = u[1]
        BY <1>6, <2>1, <3>1, <4>1
      <4>. QED BY <3>1, <4>1, <4>2
    <3>. QED BY <3>2, <3>3
  <2> HIDE DEF old, new
  <2>. QED BY <2>2, <2>3, KeepsBy DEF old, new
<1>11. ASSUME NEW n \in NodesOf(m) PROVE buckets'[m][n] \subseteq BlockOf(m)
  <2>1. stash \subseteq BlockOf(m) /\ buckets[m][n] \subseteq BlockOf(m)
    BY <1>2 DEF IInv, TreeInv, OwnInv
  <2>. QED BY <1>7, <2>1 DEF Sunk
<1>. QED BY <1>10, <1>11

-----------------------------------------------------------------------------
(* The calls on a tree keep the invariant, and the contents of its blocks. *)

LEMMA OwnStays ==
  ASSUME IInv, NEW m \in Trees,
         \A n \in NodesOf(m) : buckets'[m][n] \subseteq BlockOf(m),
         PathHeld(m)' => stash' \subseteq BlockOf(m),
         MapInEnclave(m) => Keeps(ViewOf(m), ViewOf(m)', m, MaxPosMap - 1)
  PROVE  OwnInv(m)'
<1>1. OwnInv(m)
  BY DEF IInv, TreeInv
<1>2. MapInEnclave(m) => Absent(ViewOf(m)', MaxPosMap - 1)
  BY <1>1 DEF OwnInv, Keeps
<1>. QED BY <1>2 DEF OwnInv

LEMMA FromParts ==
  ASSUME TypeInv', NothingSpilled', NEW m \in Trees,
         \A j \in Trees : j # m => TreeInv(j)',
         OwnInv(m)', BlocksFindable(m)', HandInv(m)'
  PROVE  IInv'
BY DEF IInv, TreeInv

LEMMA DownloadKeeps ==
  ASSUME IInv, NothingSpilled', NEW m \in Trees, DownloadPath(m)
  PROVE  IInv' /\ \A b \in IndsAt[m] : ContentOf(m, b)' = ContentOf(m, b)
<1>1. /\ TypeInv' /\ posmap' = posmap /\ acc[m].pc \in Working
      /\ \A j \in Trees : j # m => acc'[j] = acc[j] /\ buckets'[j] = buckets[j]
      /\ acc[m] \in AccessOf(m) /\ acc[m].req.ind \in IndsAt[m]
      /\ \A i \in IndsAt[m] : LabelNow(m, i)' = LabelNow(m, i)
      /\ ~ Swapping(m)
  BY StepFacts DEF Moves
<1>2. TypeInv /\ AccInv /\ OwnInv(m) /\ BlocksFindable(m) /\ HandInv(m)
  BY DEF IInv, TreeInv, TypeInv
<1>3. /\ acc[m].pc = "download" /\ buckets' = buckets
      /\ acc'[m] = [acc[m] EXCEPT !.pc = "fetch"]
  <2>1. acc[m].pc = "download" /\ buckets' = buckets /\ Goes(m, "fetch")
    BY DEF DownloadPath, Goes
  <2>. QED BY <1>2, <2>1, GoesTyping
<1>4. /\ acc'[m].pc = "fetch" /\ acc'[m].req = acc[m].req
      /\ acc'[m].path = acc[m].path /\ acc'[m].newPath = acc[m].newPath
  BY <1>1, <1>3 DEF AccessOf, AccessRecord
<1>5. ~ Swapping(m)'
  BY <1>4 DEF Swapping
<1>6. (\A i : Keeps(ViewOf(m), ViewOf(m)', m, i)) /\ stash' \subseteq BlockOf(m)
  BY DownloadMoves
<1>7. ASSUME NEW i \in IndsAt[m]
      PROVE  Findable(m, i)' /\ ContentOf(m, i)' = ContentOf(m, i)
  <2>1. Expected(m, i)' = Expected(m, i)
    BY <1>1, <1>3, <1>4, <1>5 DEF Expected, Walking
  <2>2. Findable(m, i)
    BY <1>2 DEF BlocksFindable
  <2>3. Findable(m, i)' /\ DataIn(ViewOf(m), i)' = DataIn(ViewOf(m), i)
    BY <1>6, <2>1, <2>2, KeptFindable
  <2>. QED BY <1>3, <1>4, <2>3 DEF ContentOf, InHand
<1>8. \A j \in Trees : j # m => TreeInv(j)'
  <2>1. acc'[m].pc \in Stores <=> acc[m].pc \in Stores
    BY <1>3, <1>4 DEF Stores
  <2>. QED BY <1>1, <1>4, <1>7, <2>1, AboveStays
<1>9. HandInv(m)'
  <2>1. LabelNow(m, acc[m].req.ind)' = LabelNow(m, acc[m].req.ind)
    BY <1>1, <1>4
  <2> HIDE DEF LabelNow
  <2>. QED BY <1>2, <1>3, <1>4, <1>5, <2>1 DEF HandInv
<1>10. OwnInv(m)'
  BY <1>2, <1>3, <1>6, OwnStays DEF OwnInv
<1>11. BlocksFindable(m)'
  BY <1>7 DEF BlocksFindable
<1>. QED BY <1>1, <1>7, <1>8, <1>9, <1>10, <1>11, FromParts

LEMMA PutKeeps ==
  ASSUME IInv, NothingSpilled', NEW m \in Trees, PutToStash(m)
  PROVE  IInv' /\ \A b \in IndsAt[m] : ContentOf(m, b)' = ContentOf(m, b)
<1>1. /\ TypeInv' /\ posmap' = posmap /\ acc[m].pc \in Working
      /\ \A j \in Trees : j # m => acc'[j] = acc[j] /\ buckets'[j] = buckets[j]
      /\ acc[m] \in AccessOf(m) /\ acc[m].req.ind \in IndsAt[m]
      /\ \A i \in IndsAt[m] : i \in Nat /\ LabelNow(m, i)' = LabelNow(m, i)
      /\ ~ Swapping(m)
  BY StepFacts DEF Moves
<1>2. TypeInv /\ AccInv /\ OwnInv(m) /\ BlocksFindable(m) /\ HandInv(m)
  BY DEF IInv, TreeInv, TypeInv
<1> DEFINE r == acc[m].req.ind
<1>3. /\ \A i \in Nat : i # r => Keeps(ViewOf(m), ViewOf(m)', m, i)
      /\ Lies(ViewOf(m)', m, r, acc[m].newPath, acc[m].fetched)
      /\ acc'[m] = [acc[m] EXCEPT !.pc = "evict"] /\ acc[m].pc = "put"
      /\ stash' \subseteq BlockOf(m) /\ buckets' = buckets
  BY PutMoves
<1>4. /\ acc'[m].pc = "evict" /\ acc'[m].req = acc[m].req
      /\ acc'[m].path = acc[m].path /\ acc'[m].newPath = acc[m].newPath
  BY <1>1, <1>3 DEF AccessOf, AccessRecord
<1>5. ~ Swapping(m)'
  BY <1>4 DEF Swapping
<1>6. /\ acc[m].newPath \in Paths /\ acc[m].fetched \in Contents
      /\ LabelNow(m, r) = acc[m].newPath
  BY <1>1, <1>2, <1>3 DEF HandInv, AccessOf, AccessRecord
<1>7. \A i \in IndsAt[m] : Expected(m, i)' = LabelNow(m, i) /\ Expected(m, i) = LabelNow(m, i)
  BY <1>1, <1>3, <1>4, <1>5 DEF Expected, Walking
<1>8. ASSUME NEW i \in IndsAt[m]
      PROVE  Findable(m, i)' /\ ContentOf(m, i)' = ContentOf(m, i)
  <2>1. CASE i = r
    <3>1. Expected(m, i)' = acc[m].newPath
      BY <1>6, <1>7, <2>1
    <3>2. Lies(ViewOf(m)', m, i, Expected(m, i)', acc[m].fetched)
      BY <1>3, <2>1, <3>1
    <3>3. Findable(m, i)'
      BY <1>6, <3>1, <3>2 DEF Findable
    <3>4. DataIn(ViewOf(m)', i) = acc[m].fetched
      BY <3>2, DataWhere
    <3>. QED BY <1>3, <1>4, <2>1, <3>3, <3>4 DEF ContentOf, InHand
  <2>2. CASE i # r
    <3>1. Findable(m, i)
      BY <1>2 DEF BlocksFindable
    <3>2. Keeps(ViewOf(m), ViewOf(m)', m, i)
      BY <1>1, <1>3, <2>2
    <3>3. Findable(m, i)' /\ DataIn(ViewOf(m), i)' = DataIn(ViewOf(m), i)
      BY <1>7, <3>1, <3>2, KeptFindable
    <3>. QED BY <1>3, <1>4, <2>2, <3>3 DEF ContentOf, InHand
  <2>. QED BY <2>1, <2>2
<1>9. \A j \in Trees : j # m => TreeInv(j)'
  <2>1. acc'[m].pc \in Stores <=> acc[m].pc \in Stores
    BY <1>3, <1>4 DEF Stores
  <2>. QED BY <1>1, <1>4, <1>8, <2>1, AboveStays
<1>10. HandInv(m)' /\ BlocksFindable(m)'
  BY <1>4, <1>5, <1>8 DEF HandInv, BlocksFindable
<1>11. OwnInv(m)'
  <2>1. MapInEnclave(m) => MaxPosMap - 1 \in Nat /\ MaxPosMap - 1 # r
    <3>1. MaxPosMap \in Nat \ {0}
      BY RecursionAssumption
    <3>2. r \in Nat /\ (MapInEnclave(m) => r + 1 # MaxPosMap)
      BY <1>1, <1>3 DEF AccessOf
    <3>. QED BY <3>1, <3>2
  <2>. QED BY <1>2, <1>3, <2>1, OwnStays DEF OwnInv
<1>. QED BY <1>1, <1>8, <1>9, <1>10, <1>11, FromParts

LEMMA EvictKeeps ==
  ASSUME IInv, NothingSpilled', NEW m \in Trees, EvictPath(m)
  PROVE  IInv' /\ \A b \in IndsAt[m] : ContentOf(m, b)' = ContentOf(m, b)
<1>1. /\ TypeInv' /\ posmap' = posmap /\ acc[m].pc \in Working
      /\ \A j \in Trees : j # m => acc'[j] = acc[j] /\ buckets'[j] = buckets[j]
      /\ acc[m].req.ind \in IndsAt[m]
      /\ \A i \in IndsAt[m] : LabelNow(m, i)' = LabelNow(m, i)
      /\ ~ Swapping(m)
  BY StepFacts DEF Moves
<1>2. TypeInv /\ AccInv /\ OwnInv(m) /\ BlocksFindable(m) /\ HandInv(m)
  BY DEF IInv, TreeInv, TypeInv
<1>3. acc[m].pc = "evict" /\ acc'[m] = Returned(m)
  BY <1>2, EvictEffect, EvictTyping
<1>4. acc'[m].pc \in {"idle", "answered"} /\ acc'[m].pc = Back(m) /\ acc'[m].req = acc[m].req
  BY <1>3 DEF Returned, Access, Back
<1>5. ~ Swapping(m)' /\ ~ PathHeld(m)'
  BY <1>4 DEF Swapping, PathHeld
<1>6. /\ \A i : Keeps(ViewOf(m), ViewOf(m)', m, i)
      /\ \A n \in NodesOf(m) : buckets'[m][n] \subseteq BlockOf(m)
  BY EvictMoves
<1>7. ASSUME NEW i \in IndsAt[m]
      PROVE  Findable(m, i)' /\ ContentOf(m, i)' = ContentOf(m, i)
  <2>1. Expected(m, i)' = Expected(m, i)
    BY <1>1, <1>3, <1>4, <1>5 DEF Expected, Walking
  <2>2. Findable(m, i)
    BY <1>2 DEF BlocksFindable
  <2>3. Findable(m, i)' /\ DataIn(ViewOf(m), i)' = DataIn(ViewOf(m), i)
    BY <1>6, <2>1, <2>2, KeptFindable
  <2>. QED BY <1>3, <1>4, <2>3 DEF ContentOf, InHand
<1>8. \A j \in Trees : j # m => TreeInv(j)'
  <2>1. m # 0 => (acc'[m].pc \in Stores <=> acc[m].pc \in Stores)
    BY <1>3, <1>4 DEF Back, Stores
  <2>. QED BY <1>1, <1>4, <1>7, <2>1, AboveStays
<1>9. HandInv(m)' /\ BlocksFindable(m)'
  BY <1>4, <1>5, <1>7 DEF HandInv, BlocksFindable
<1>10. OwnInv(m)'
  BY <1>5, <1>6, OwnStays
<1>. QED BY <1>1, <1>7, <1>8, <1>9, <1>10, FromParts

\* The fetch stores what the request writes.  In a tree of labels the new label is
\* then in its block, and the old one in the buffer.
LEMMA FetchKeeps ==
  ASSUME IInv, NothingSpilled', NEW m \in Trees, ObliviousFetch(m)
  PROVE  LET content == ContentOf(m, acc[m].req.ind)
         IN /\ IInv' /\ acc[m].pc = "fetch" /\ acc'[m].pc = "put"
            /\ \A b \in IndsAt[m] : b # acc[m].req.ind => ContentOf(m, b)' = ContentOf(m, b)
            /\ ContentOf(m, acc[m].req.ind)' = Stored(acc[m].req, content)
            /\ acc'[m].req = [acc[m].req EXCEPT !.buf = Loaded(acc[m].req, content)]
<1> DEFINE req == acc[m].req
           held == ContentOf(m, req.ind)
           stored == Stored(req, held)
           loaded == Loaded(req, held)
<1>1. /\ TypeInv' /\ posmap' = posmap /\ acc[m].pc \in Working
      /\ \A j \in Trees : j # m => acc'[j] = acc[j] /\ buckets'[j] = buckets[j]
      /\ m \in Nat /\ acc[m] \in AccessOf(m) /\ req.ind \in IndsAt[m] /\ req.ind \in Nat
      /\ \A i \in IndsAt[m] : i \in Nat /\ LabelNow(m, i)' = LabelNow(m, i)
      /\ ~ Swapping(m)
  BY StepFacts DEF Moves
<1>2. TypeInv /\ AccInv /\ OwnInv(m) /\ BlocksFindable(m) /\ HandInv(m)
  BY DEF IInv, TreeInv, TypeInv
<1>3. PICK taken, content :
        /\ FetchesWhat(m, taken, content)
        /\ acc[m].pc = "fetch" /\ UNCHANGED <<posmap, buckets, alive>>
  BY FetchEffect
<1>4. /\ \A i \in Nat : i # req.ind => Keeps(ViewOf(m), ViewOf(m)', m, i)
      /\ Absent(ViewOf(m)', req.ind)
      /\ content = DataIn(ViewOf(m), req.ind)
  BY <1>3, FetchMoves
<1>5. acc'[m] = Fetched(m, content) /\ stash' \subseteq stash
  <2>1. acc'[m] = Fetched(m, content)
    BY <1>2, <1>3, FetchTyping
  <2>2. stash' = stash \ taken
    BY <1>3 DEF FetchesWhat
  <2>. QED BY <2>1, <2>2
<1>6. content = held
  BY <1>3, <1>4 DEF ContentOf, InHand
<1>7. acc'[m] = [acc[m] EXCEPT !.pc = "put", !.fetched = stored, !.req.buf = loaded]
  BY <1>5, <1>6 DEF Fetched
<1> HIDE DEF held
<1>8. /\ acc'[m].pc = "put" /\ acc'[m].fetched = stored
      /\ acc'[m].req = [req EXCEPT !.buf = loaded]
      /\ acc'[m].path = acc[m].path /\ acc'[m].newPath = acc[m].newPath
  <2> HIDE DEF stored, loaded
  <2>. QED BY <1>1, <1>7 DEF AccessOf, AccessRecord
<1>9. acc'[m].req.ind = req.ind /\ acc'[m].req.ws = req.ws /\ acc'[m].req.buf = loaded
  <2> HIDE DEF loaded
  <2>. QED BY <1>1, <1>8 DEF AccessOf, AccessRecord, RequestOf
<1>10. ~ Swapping(m)'
  BY <1>8 DEF Swapping
<1>11. ASSUME NEW i \in IndsAt[m], i # req.ind
       PROVE  Findable(m, i)' /\ ContentOf(m, i)' = ContentOf(m, i)
  <2>1. Expected(m, i)' = Expected(m, i)
    BY <1>1, <1>8, <1>9, <1>10, <1>11 DEF Expected, Walking
  <2>2. Findable(m, i) /\ Keeps(ViewOf(m), ViewOf(m)', m, i)
    BY <1>1, <1>2, <1>4, <1>11 DEF BlocksFindable
  <2>3. Findable(m, i)' /\ DataIn(ViewOf(m), i)' = DataIn(ViewOf(m), i)
    BY <2>1, <2>2, KeptFindable
  <2>. QED BY <1>3, <1>8, <1>9, <1>11, <2>3 DEF ContentOf, InHand
<1>12. \A b : b = req.ind => ContentOf(m, b)' = stored
  BY <1>8, <1>9 DEF ContentOf, InHand
<1>13. BlocksFindable(m)'
  BY <1>4, <1>11 DEF BlocksFindable, Findable
<1>14. HandInv(m)'
  <2>1. LabelNow(m, acc[m].req.ind)' = LabelNow(m, acc[m].req.ind)
    BY <1>1, <1>9
  <2>2. Absent(ViewOf(m), acc[m].req.ind)'
    BY <1>4, <1>9
  <2> HIDE DEF LabelNow
  <2>. QED BY <1>2, <1>3, <1>8, <1>9, <1>10, <2>1, <2>2 DEF HandInv
<1>15. OwnInv(m)'
  <2>1. PathHeld(m)
    BY <1>3 DEF PathHeld
  <2>2. MapInEnclave(m) => MaxPosMap - 1 \in Nat /\ MaxPosMap - 1 # req.ind
    <3>1. MaxPosMap \in Nat \ {0}
      BY RecursionAssumption
    <3>2. req.ind \in Nat /\ (MapInEnclave(m) => req.ind + 1 # MaxPosMap)
      BY <1>1, <1>3 DEF AccessOf
    <3>. QED BY <3>1, <3>2
  <2>. QED BY <1>2, <1>3, <1>4, <1>5, <2>1, <2>2, OwnStays DEF OwnInv
<1>16. ASSUME NEW j \in Trees, j + 1 = m PROVE TreeInv(j)'
  <2> DEFINE q == acc[j].req.ind
  <2>1. j # m /\ j < m
    <3>1. j \in Nat /\ j + 1 = m
      BY <1>16, TreesDescend
    <3>. QED BY <3>1
  <2>2. /\ acc'[j] = acc[j] /\ buckets'[j] = buckets[j] /\ acc[j].pc = "wait"
        /\ ViewOf(j)' = ViewOf(j) /\ q \in IndsAt[j]
    BY <1>1, <2>1, OthersStay
  <2>3. ~ MapInEnclave(j) /\ ~ Swapping(j) /\ Swapping(j)'
    BY <1>2, <1>3, <1>8, <1>16, <2>2 DEF AccInv, AccessOf, Swapping, Stores
  <2>4. TreeInv(j)
    BY DEF IInv
  <2>5. /\ req.ind = Below(q) /\ req.ws = {MapWord(q)}
        /\ req.buf[MapWord(q)] = acc[j].newPath /\ acc[j].path = acc[j].newPath
    BY <1>16, <2>2, <2>3, <2>4 DEF TreeInv, HandInv, OldLabel, MapOf
  <2>6. q \in Nat /\ MapWord(q) \in Words
    BY <2>2, <2>3, IndsTyping
  <2>7. /\ \A w \in Words : stored[w] = IF w = MapWord(q) THEN acc[j].newPath ELSE held[w]
        /\ loaded[MapWord(q)] = held[MapWord(q)]
    BY <2>5, <2>6 DEF Stored, Loaded
  <2>8. ContentOf(m, Below(q)) = held
    BY <2>5 DEF held
  <2> HIDE DEF stored, loaded
  <2>9. ASSUME NEW i \in IndsAt[j]
        PROVE  LabelNow(j, i)' = IF i = q THEN acc[j].newPath ELSE LabelNow(j, i)
    <3>1. i \in Nat /\ MapWord(i) \in Words /\ Below(i) \in IndsAt[m]
      BY <1>16, <2>3, IndsTyping
    <3>2. CASE Below(i) = req.ind
      <4>1. LabelNow(j, i)' = stored[MapWord(i)]
        BY <1>12, <1>16, <2>3, <3>2 DEF LabelNow
      <4>2. LabelNow(j, i) = held[MapWord(i)]
        BY <1>16, <2>3, <2>5, <2>8, <3>2 DEF LabelNow
      <4>3. i # q => MapWord(i) # MapWord(q)
        BY <2>5, <2>6, <3>1, <3>2, WordsDiffer
      <4>. QED BY <2>7, <3>1, <4>1, <4>2, <4>3
    <3>3. CASE Below(i) # req.ind
      <4>1. LabelNow(j, i)' = LabelNow(j, i)
        BY <1>1, <1>11, <1>16, <3>1, <3>3, LabelRests
      <4>. QED BY <2>5, <3>3, <4>1
    <3>. QED BY <3>2, <3>3
  <2>10. OldLabel(j)' = LabelNow(j, q)
    <3>1. OldLabel(j)' = loaded[MapWord(q)]
      BY <1>9, <1>16, <2>2 DEF OldLabel, MapOf
    <3>2. LabelNow(j, q) = held[MapWord(q)]
      BY <1>16, <2>3, <2>8 DEF LabelNow
    <3>. QED BY <2>7, <3>1, <3>2
  <2>11. ASSUME NEW i \in IndsAt[j] PROVE Expected(j, i)' = Expected(j, i)
    <3>1. Expected(j, i) = LabelNow(j, i)
      BY <2>2, <2>3 DEF Expected, Walking
    <3>2. Expected(j, i)' = IF i = q THEN OldLabel(j)' ELSE LabelNow(j, i)'
      BY <2>2, <2>3 DEF Expected, Walking
    <3>. QED BY <2>9, <2>10, <3>1, <3>2
  <2>12. BlocksFindable(j)'
    <3> SUFFICES ASSUME NEW i \in IndsAt[j] PROVE Findable(j, i)'
      BY DEF BlocksFindable
    <3>1. Findable(j, i) /\ Expected(j, i)' = Expected(j, i)
      BY <2>4, <2>11 DEF TreeInv, BlocksFindable
    <3>. QED BY <2>2, <3>1 DEF Findable
  <2>13. HandInv(j)'
    <3>1. LabelNow(j, acc[j].req.ind)' = acc[j].newPath
      BY <2>2, <2>9
    <3> HIDE DEF LabelNow
    <3>. QED BY <1>9, <1>16, <2>2, <2>3, <2>5, <3>1 DEF HandInv
  <2>14. OwnInv(j)'
    BY <2>2, <2>4 DEF TreeInv, OwnInv, PathHeld
  <2>. QED BY <2>12, <2>13, <2>14 DEF TreeInv
<1>17. \A j \in Trees : j # m => TreeInv(j)'
  BY <1>1, <1>16, OthersStay
<1>18. ContentOf(m, acc[m].req.ind)' = stored
  BY <1>9, <1>12
<1>19. IInv'
  BY <1>1, <1>13, <1>14, <1>15, <1>17, FromParts
<1>. QED BY <1>3, <1>8, <1>11, <1>18, <1>19 DEF held

-----------------------------------------------------------------------------
(* The exchange of labels keeps it too.                                    *)

\* Between the calls on a tree, what the trees hold is in their buckets.
LEMMA CalmViews ==
  ASSUME buckets' = buckets,
         \A j \in Trees : /\ acc[j].pc \notin {"fetch", "put", "evict"}
                          /\ acc'[j].pc \notin {"fetch", "put", "evict"}
  PROVE  \A j \in Trees : /\ ViewOf(j)' = ViewOf(j) /\ ~ PathHeld(j)'
                          /\ \A b : ContentOf(j, b)' = ContentOf(j, b)
<1>1. ASSUME NEW j \in Trees PROVE ViewOf(j)' = ViewOf(j)
  BY ViewRests DEF PathHeld
<1>. QED BY <1>1 DEF ContentOf, InHand, PathHeld

LEMMA LabelsStay ==
  ASSUME NEW k \in Trees,
         \A j \in Trees : \A b : ContentOf(j, b)' = ContentOf(j, b),
         ~ MapInEnclave(k) \/ posmap' = posmap
  PROVE  \A i \in IndsAt[k] : LabelNow(k, i)' = LabelNow(k, i)
<1> SUFFICES ASSUME NEW i \in IndsAt[k] PROVE LabelNow(k, i)' = LabelNow(k, i)
  OBVIOUS
<1>1. CASE MapInEnclave(k)
  BY <1>1 DEF LabelNow
<1>2. CASE ~ MapInEnclave(k)
  <2>1. k + 1 \in Trees
    BY <1>2, IndsTyping
  <2>. QED BY <1>2, <2>1 DEF LabelNow
<1>. QED BY <1>1, <1>2

\* Only the last tree has its labels in the position map.
LEMMA OneMap ==
  ASSUME NEW j \in Trees, NEW m \in Trees, MapInEnclave(j), MapInEnclave(m)
  PROVE  j = m
<1>1. j \in Nat /\ m \in Nat
  BY TreesDescend
<1>2. ~ (j < m)
  <2>1. j < m => j \in 0 .. m - 1
    BY <1>1
  <2>. QED BY <2>1, TreesDescend
<1>3. ~ (m < j)
  <2>1. m < j => m \in 0 .. j - 1
    BY <1>1
  <2>. QED BY <2>1, TreesDescend
<1>. QED BY <1>1, <1>2, <1>3

\* An access begins: the label is swapped for the one its block is found under, or
\* the tree below is about to be asked to.  The entry behind it, which the swap
\* spoils, is one no block was ever put for.
LEMMA BeginKeeps ==
  ASSUME IInv, OnlyLastSpoiled, NEW m \in Trees, NEW r \in RequestOf(m),
         NEW others, others = [j \in Trees |-> others[j]], Begin(m, r, others),
         buckets' = buckets, acc[m].pc = "idle",
         \A j \in Trees : acc[j].pc \notin {"fetch", "put", "evict"},
         \A j \in Trees : acc'[j].pc \notin {"fetch", "put", "evict"}
  PROVE  /\ \A j \in Trees : /\ ViewOf(j)' = ViewOf(j)
                             /\ \A b : ContentOf(j, b)' = ContentOf(j, b)
         /\ \A j \in Trees : j # m => \A i \in IndsAt[j] : LabelNow(j, i)' = LabelNow(j, i)
         /\ TreeInv(m)'
         /\ acc'[m].req = r /\ acc'[m].pc \in {"map", "wild", "download"}
         /\ \A j \in Trees : j # m => acc'[j] = others[j]
<1>1. TypeInv /\ OwnInv(m) /\ BlocksFindable(m)
  BY DEF IInv, TreeInv
<1>2. PICK label \in Paths :
        IF MapInEnclave(m)
        THEN /\ \E behind \in Junk : posmap' = P(m)!Swapped(r.ind, label, behind)
             /\ \E path \in OldOrFresh(posmap[r.ind]) :
                  acc' = [others EXCEPT ![m] =
                            Access(IF r.ind + 1 = MaxPosMap THEN "wild" ELSE "download",
                                   r, path, label)]
        ELSE /\ acc' = [others EXCEPT ![m] = Access("map", r, label, label)]
             /\ UNCHANGED posmap
  BY DEF Begin
<1>3. /\ acc'[m].req = r /\ acc'[m].newPath = label
      /\ MapInEnclave(m) => /\ acc'[m].pc \in {"wild", "download"}
                            /\ acc'[m].path \in OldOrFresh(posmap[r.ind])
      /\ ~ MapInEnclave(m) => acc'[m].pc = "map" /\ acc'[m].path = label
      /\ \A j \in Trees : j # m => acc'[j] = others[j]
  <2>1. CASE MapInEnclave(m)
    <3>1. PICK path \in OldOrFresh(posmap[r.ind]) :
            acc' = [others EXCEPT ![m] =
                      Access(IF r.ind + 1 = MaxPosMap THEN "wild" ELSE "download",
                             r, path, label)]
      BY <1>2, <2>1
    <3>. QED BY <2>1, <3>1 DEF Access
  <2>2. CASE ~ MapInEnclave(m)
    <3>1. acc' = [others EXCEPT ![m] = Access("map", r, label, label)]
      BY <1>2, <2>2
    <3>. QED BY <2>2, <3>1 DEF Access
  <2>. QED BY <2>1, <2>2
<1>4. \A j \in Trees : /\ ViewOf(j)' = ViewOf(j) /\ ~ PathHeld(j)'
                       /\ \A b : ContentOf(j, b)' = ContentOf(j, b)
  BY CalmViews
<1>5. ASSUME NEW j \in Trees, j # m
      PROVE  \A i \in IndsAt[j] : LabelNow(j, i)' = LabelNow(j, i)
  <2>1. ~ MapInEnclave(j) \/ posmap' = posmap
    BY <1>2, <1>5, OneMap
  <2>. QED BY <1>4, <2>1, LabelsStay
<1>6. r.ind \in IndsAt[m]
  BY DEF RequestOf
<1>7. ASSUME MapInEnclave(m), NEW i \in IndsAt[m]
      PROVE  /\ LabelNow(m, i) = posmap[i] /\ posmap[i] \in Labels
             /\ i = r.ind => LabelNow(m, i)' = label
             /\ i # r.ind => i = MaxPosMap - 1 \/ LabelNow(m, i)' = LabelNow(m, i)
  <2>1. PICK behind \in Junk : posmap' = P(m)!Swapped(r.ind, label, behind)
    BY <1>2, <1>7
  <2>2. i = r.ind + 1 => i = MaxPosMap - 1
    BY <1>6, <1>7 DEF OnlyLastSpoiled
  <2>3. i \in 0 .. MaxPosMap - 1
    <3>1. i \in 0 .. CapacityAt[m] - 1
      BY IndsFit
    <3>2. CapacityAt[m] \in Nat /\ CapacityAt[m] =< MaxPosMap
      BY <1>7, Capacities, TreesDescend DEF MapInEnclave
    <3>3. MaxPosMap \in Nat
      BY RecursionAssumption
    <3>. QED BY <3>1, <3>2, <3>3
  <2>4. DOMAIN posmap = 0 .. MaxPosMap - 1 /\ posmap[i] \in Labels
    BY <1>1, <2>3 DEF TypeInv
  <2>5. posmap'[i] = IF i = r.ind THEN label ELSE IF i = r.ind + 1 THEN behind ELSE posmap[i]
    BY <2>1, <2>3, <2>4 DEF P!Swapped
  <2>. QED BY <1>7, <2>2, <2>4, <2>5 DEF LabelNow
<1>8. ~ MapInEnclave(m) => \A i \in IndsAt[m] : LabelNow(m, i)' = LabelNow(m, i)
  BY <1>4, LabelsStay
<1>9. \A i \in IndsAt[m] : Expected(m, i) = LabelNow(m, i)
  BY DEF Expected, Walking, Swapping
<1>10. ~ Swapping(m)'
  BY <1>3 DEF Swapping
<1>11. ASSUME NEW i \in IndsAt[m] PROVE Findable(m, i)'
  <2>1. CASE Absent(ViewOf(m), i)
    BY <1>4, <2>1 DEF Findable
  <2>2. CASE ~ Absent(ViewOf(m), i)
    <3>1. /\ LabelNow(m, i) \in Paths
          /\ \E x \in Contents : Lies(ViewOf(m), m, i, LabelNow(m, i), x)
      BY <1>1, <1>9, <2>2 DEF BlocksFindable, Findable
    <3>2. Expected(m, i)' = LabelNow(m, i)
      <4>1. CASE ~ MapInEnclave(m)
        <5>1. Expected(m, i)' = LabelNow(m, i)'
          BY <1>3, <1>10, <4>1 DEF Expected, Walking
        <5>. QED BY <1>8, <4>1, <5>1
      <4>2. CASE MapInEnclave(m) /\ i = r.ind
        <5>1. Expected(m, i)' = acc'[m].path
          BY <1>3, <4>2 DEF Expected, Walking
        <5>2. posmap[i] # 0 /\ posmap[i] = LabelNow(m, i) /\ posmap[i] \in Labels
          BY <1>7, <3>1, <4>2, ContentTyping
        <5>3. acc'[m].path \in OldOrFresh(posmap[i])
          BY <1>3, <4>2
        <5>4. acc'[m].path = posmap[i]
          BY <5>2, <5>3, OldLabels
        <5>. QED BY <5>1, <5>2, <5>4
      <4>3. CASE MapInEnclave(m) /\ i # r.ind
        <5>1. Expected(m, i)' = LabelNow(m, i)'
          BY <1>3, <1>10, <4>3 DEF Expected, Walking
        <5>2. i # MaxPosMap - 1
          BY <1>1, <2>2, <4>3 DEF OwnInv
        <5>. QED BY <1>7, <4>3, <5>1, <5>2
      <4>. QED BY <4>1, <4>2, <4>3
    <3>. QED BY <1>4, <3>1, <3>2 DEF Findable
  <2>. QED BY <2>1, <2>2
<1>12. BlocksFindable(m)'
  BY <1>11 DEF BlocksFindable
<1>13. HandInv(m)'
  <2>1. MapInEnclave(m) => LabelNow(m, acc[m].req.ind)' = label
    BY <1>3, <1>6, <1>7
  <2> HIDE DEF LabelNow
  <2>. QED BY <1>3, <1>10, <2>1 DEF HandInv
<1>14. OwnInv(m)'
  BY <1>1, <1>4 DEF OwnInv
<1>. QED BY <1>3, <1>4, <1>5, <1>12, <1>13, <1>14 DEF TreeInv

LEMMA StartKeeps ==
  ASSUME IInv, OnlyLastSpoiled, NothingSpilled', NEW r \in Requests, StartAccess(r)
  PROVE  /\ IInv'
         /\ \A j \in Trees : \A b : ContentOf(j, b)' = ContentOf(j, b)
         /\ acc'[0].req = r /\ acc'[0].pc \in {"map", "wild", "download"}
<1>1. TypeInv /\ AccInv
  BY DEF IInv, TypeInv
<1>2. TypeInv'
  BY <1>1, StartTyping
<1>3. 0 \in Trees /\ r \in RequestOf(0)
  BY TreesDescend, RequestTyping
<1>4. /\ Begin(0, r, acc) /\ buckets' = buckets
      /\ \A k \in Trees : acc[k].pc = "idle"
  BY DEF StartAccess, Top
<1>5. acc = [j \in Trees |-> acc[j]]
  BY <1>1 DEF AccInv
<1>6. PICK a : /\ acc' = [acc EXCEPT ![0] = a] /\ a.pc \in {"download", "wild", "map"}
  BY <1>1, <1>3, <1>4, BeginTyping
<1>7. \A j \in Trees : acc'[j].pc \in {"idle", "download", "wild", "map"}
  BY <1>1, <1>4, <1>6 DEF AccInv
<1>8. /\ \A j \in Trees : /\ ViewOf(j)' = ViewOf(j)
                          /\ \A b : ContentOf(j, b)' = ContentOf(j, b)
      /\ \A j \in Trees : j # 0 => \A i \in IndsAt[j] : LabelNow(j, i)' = LabelNow(j, i)
      /\ TreeInv(0)'
      /\ acc'[0].req = r /\ acc'[0].pc \in {"map", "wild", "download"}
      /\ \A j \in Trees : j # 0 => acc'[j] = acc[j]
  BY <1>3, <1>4, <1>5, <1>7, BeginKeeps
<1>9. ASSUME NEW j \in Trees, j # 0 PROVE TreeInv(j)'
  <2>1. acc[j].req.ind \in IndsAt[j] /\ acc[j].pc = "idle" /\ acc'[j] = acc[j]
    BY <1>1, <1>4, <1>8, <1>9 DEF AccInv, AccessOf, AccessRecord, RequestOf
  <2>. QED BY <1>4, <1>8, <1>9, <2>1, TreeRests
<1>10. IInv'
  BY <1>2, <1>8, <1>9 DEF IInv
<1>. QED BY <1>8, <1>10

\* The tree below is asked to store the new label where the old one is.
LEMMA AskKeeps ==
  ASSUME IInv, OnlyLastSpoiled, NothingSpilled', NEW k \in Trees, AskMap(k)
  PROVE  /\ IInv'
         /\ \A j \in Trees : \A b : ContentOf(j, b)' = ContentOf(j, b)
         /\ acc'[k] = [acc[k] EXCEPT !.pc = "wait"]
         /\ \A j \in Trees : j # k /\ j # k + 1 => acc'[j] = acc[j]
<1>1. TypeInv /\ AccInv
  BY DEF IInv, TypeInv
<1>2. TypeInv'
  BY <1>1, AskTyping
<1>3. acc[k] \in AccessOf(k) /\ acc[k].pc = "map" /\ ~ MapInEnclave(k)
  BY <1>1 DEF AskMap, AccInv, AccessOf
<1>4. k + 1 \in Trees /\ k + 1 # k /\ k \in Nat /\ Trees \subseteq Nat
  BY <1>3, TreesDescend
<1>5. MapWrite(k) \in RequestOf(k + 1) /\ MapWord(acc[k].req.ind) \in Words
  BY <1>3, RequestTyping
<1> DEFINE others == [acc EXCEPT ![k].pc = "wait"]
<1>6. Begin(k + 1, MapWrite(k), others) /\ buckets' = buckets
  BY DEF AskMap, MapOf
<1>7. /\ others = [j \in Trees |-> others[j]]
      /\ others[k] = [acc[k] EXCEPT !.pc = "wait"]
      /\ \A j \in Trees : j # k => others[j] = acc[j]
  <2>1. acc = [j \in Trees |-> acc[j]]
    BY <1>1 DEF AccInv
  <2>. QED BY <2>1
<1> HIDE DEF others
<1>8. \A j \in Trees : j # k => acc[j].pc = IF j < k THEN "wait" ELSE "idle"
  BY <1>1, <1>3, OthersRest
<1>9. acc[k + 1].pc = "idle"
  <2>1. ~ (k + 1 < k)
    BY <1>4
  <2>. QED BY <1>4, <1>8, <2>1
<1>10. PICK a : acc' = [others EXCEPT ![k + 1] = a] /\ a.pc \in {"download", "wild", "map"}
  BY <1>1, <1>4, <1>5, <1>6, BeginTyping
<1>11. others[k].pc = "wait"
  BY <1>3, <1>7 DEF AccessOf, AccessRecord
<1>12. \A j \in Trees : acc'[j].pc \in {"idle", "wait", "download", "wild", "map"}
  BY <1>7, <1>8, <1>10, <1>11
<1>13. /\ \A j \in Trees : /\ ViewOf(j)' = ViewOf(j)
                           /\ \A b : ContentOf(j, b)' = ContentOf(j, b)
       /\ \A j \in Trees : j # k + 1 => \A i \in IndsAt[j] : LabelNow(j, i)' = LabelNow(j, i)
       /\ TreeInv(k + 1)'
       /\ acc'[k + 1].req = MapWrite(k) /\ acc'[k + 1].pc \in {"map", "wild", "download"}
       /\ \A j \in Trees : j # k + 1 => acc'[j] = others[j]
  <2>1. \A j \in Trees : acc[j].pc \notin {"fetch", "put", "evict"}
    BY <1>3, <1>8
  <2>. QED BY <1>4, <1>5, <1>6, <1>7, <1>9, <1>12, <2>1, BeginKeeps
<1>14. /\ acc'[k] = [acc[k] EXCEPT !.pc = "wait"]
       /\ \A j \in Trees : j # k /\ j # k + 1 => acc'[j] = acc[j]
  BY <1>4, <1>7, <1>13
<1>15. /\ acc'[k].pc = "wait" /\ acc'[k].req = acc[k].req /\ acc'[k].path = acc[k].path
       /\ acc'[k].newPath = acc[k].newPath
  BY <1>3, <1>14 DEF AccessOf, AccessRecord
<1>16. TreeInv(k)'
  <2>1. OwnInv(k) /\ BlocksFindable(k) /\ HandInv(k)
    BY DEF IInv, TreeInv
  <2>2. ~ Swapping(k) /\ ~ Swapping(k)'
    BY <1>3, <1>13 DEF Swapping, Stores
  <2>3. \A i \in IndsAt[k] : LabelNow(k, i)' = LabelNow(k, i)
    BY <1>4, <1>13
  <2>4. ASSUME NEW i \in IndsAt[k] PROVE Findable(k, i)'
    <3>1. Expected(k, i) = LabelNow(k, i) /\ Expected(k, i)' = LabelNow(k, i)'
      BY <1>3, <1>15, <2>2 DEF Expected, Walking
    <3>2. Findable(k, i) /\ ViewOf(k)' = ViewOf(k)
      BY <1>13, <2>1 DEF BlocksFindable
    <3>. QED BY <2>3, <3>1, <3>2 DEF Findable
  <2>5. BlocksFindable(k)'
    BY <2>4 DEF BlocksFindable
  <2>6. /\ acc'[k + 1].req.ind = Below(acc[k].req.ind)
        /\ acc'[k + 1].req.ws = {MapWord(acc[k].req.ind)}
        /\ acc'[k + 1].req.buf[MapWord(acc[k].req.ind)] = acc[k].path
    BY <1>5, <1>13 DEF MapWrite, Below
  <2>7. OldLabel(k)' = acc[k].path
    BY <1>15, <2>6 DEF OldLabel, MapOf
  <2>8. acc[k].newPath \in Paths /\ acc[k].path = acc[k].newPath
    BY <1>3, <2>1 DEF HandInv, AccessOf
  <2>9. HandInv(k)'
    BY <1>15, <2>2, <2>6, <2>7, <2>8 DEF HandInv
  <2>10. OwnInv(k)'
    BY <1>6, <1>13, <1>15, <2>1 DEF OwnInv, PathHeld
  <2>. QED BY <2>5, <2>9, <2>10 DEF TreeInv
<1>17. ASSUME NEW j \in Trees, j # k, j # k + 1 PROVE TreeInv(j)'
  <2>1. acc'[j] = acc[j] /\ acc[j].pc \in {"wait", "idle"} /\ buckets'[j] = buckets[j]
    BY <1>6, <1>8, <1>14, <1>17
  <2>2. acc[j].req.ind \in IndsAt[j]
    BY <1>1 DEF AccInv, AccessOf, AccessRecord, RequestOf
  <2>3. ASSUME acc[j].pc = "wait"
        PROVE  acc'[j + 1].req = acc[j + 1].req /\ (Swapping(j)' <=> Swapping(j))
    <3>1. j < k /\ j \in Nat
      BY <1>4, <1>8, <1>17, <2>3
    <3>2. j + 1 \in Trees
      BY <1>1, <2>3, TreesDescend DEF AccInv, AccessOf
    <3>3. CASE j + 1 = k
      BY <1>3, <1>15, <2>1, <3>3 DEF Swapping, Stores
    <3>4. CASE j + 1 # k
      <4>1. j + 1 # k + 1
        BY <1>4, <1>17, <3>1
      <4>2. acc'[j + 1] = acc[j + 1]
        BY <1>14, <3>2, <3>4, <4>1
      <4>. QED BY <2>1, <4>2 DEF Swapping
    <3>. QED BY <3>3, <3>4
  <2>4. \A i \in IndsAt[j] : LabelNow(j, i)' = LabelNow(j, i)
    BY <1>13, <1>17
  <2>. QED BY <2>1, <2>2, <2>3, <2>4, TreeRests
<1>18. IInv'
  BY <1>2, <1>13, <1>16, <1>17 DEF IInv
<1>. QED BY <1>13, <1>14, <1>18

\* The tree below has answered: the block is looked for under the old label, which
\* is the one it was found under while the tree below had the new one.
LEMMA AnsweredKeeps ==
  ASSUME IInv, NothingSpilled', NEW k \in Trees, MapAnswered(k)
  PROVE  /\ IInv'
         /\ \A j \in Trees : \A b : ContentOf(j, b)' = ContentOf(j, b)
         /\ acc'[k].pc = "download" /\ acc'[k].req = acc[k].req
         /\ \A j \in Trees : j # k /\ j # k + 1 => acc'[j] = acc[j]
<1>1. TypeInv /\ AccInv
  BY DEF IInv, TypeInv
<1>2. TypeInv'
  BY <1>1, AnsweredTyping
<1>3. acc[k] \in AccessOf(k) /\ acc[k].pc = "wait" /\ ~ MapInEnclave(k)
  BY <1>1 DEF MapAnswered, AccInv, AccessOf
<1>4. k + 1 \in Trees /\ k + 1 # k /\ k \in Nat /\ Trees \subseteq Nat
  BY <1>3, TreesDescend
<1>5. PICK path \in OldOrFresh(OldLabel(k)) :
        acc' = [acc EXCEPT ![k].pc = "download", ![k].path = path,
                           ![k + 1] = NoAccess(k + 1)]
  BY DEF MapAnswered, MapOf
<1>6. /\ acc[k + 1].pc = "answered" /\ posmap' = posmap /\ buckets' = buckets
      /\ acc'[k + 1] = NoAccess(k + 1)
      /\ acc'[k] = [acc[k] EXCEPT !.pc = "download", !.path = path]
      /\ \A j \in Trees : j # k /\ j # k + 1 => acc'[j] = acc[j]
  BY <1>1, <1>4, <1>5 DEF AccInv, MapAnswered, MapOf
<1>7. /\ acc'[k].pc = "download" /\ acc'[k].path = path
      /\ acc'[k].req = acc[k].req /\ acc'[k].newPath = acc[k].newPath
      /\ acc'[k + 1].pc = "idle"
  <2>1. acc'[k + 1].pc = "idle"
    BY <1>6 DEF NoAccess, Access
  <2>. QED BY <1>3, <1>6, <2>1 DEF AccessOf, AccessRecord
<1>8. \A j \in Trees : j # k + 1 => acc[j].pc = IF j < k + 1 THEN "wait" ELSE "idle"
  BY <1>1, <1>4, <1>6, OthersRest
<1>9. \A j \in Trees : /\ ViewOf(j)' = ViewOf(j) /\ ~ PathHeld(j)'
                       /\ \A b : ContentOf(j, b)' = ContentOf(j, b)
  <2>1. \A j \in Trees : /\ acc[j].pc \notin {"fetch", "put", "evict"}
                         /\ acc'[j].pc \notin {"fetch", "put", "evict"}
    BY <1>6, <1>7, <1>8
  <2>. QED BY <1>6, <2>1, CalmViews
<1>10. \A j \in Trees : \A i \in IndsAt[j] : LabelNow(j, i)' = LabelNow(j, i)
  BY <1>6, <1>9, LabelsStay
<1>11. Swapping(k) /\ ~ Swapping(k)'
  BY <1>3, <1>6, <1>7 DEF Swapping, Stores
<1>12. \A j \in Trees : OwnInv(j)'
  BY <1>6, <1>9 DEF IInv, TreeInv, OwnInv
<1>13. TreeInv(k)'
  <2>1. BlocksFindable(k) /\ HandInv(k) /\ OldLabel(k) \in Labels
    BY <1>1, <1>3, <1>4, LabelGivenBack DEF IInv, TreeInv
  <2>2. ASSUME NEW i \in IndsAt[k] PROVE Findable(k, i)'
    <3>1. Findable(k, i) /\ ViewOf(k)' = ViewOf(k)
      BY <1>9, <2>1 DEF BlocksFindable
    <3>2. CASE Absent(ViewOf(k), i)
      BY <3>1, <3>2 DEF Findable
    <3>3. CASE ~ Absent(ViewOf(k), i)
      <4>1. Expected(k, i) \in Paths
        BY <3>1, <3>3 DEF Findable
      <4>2. Expected(k, i) = IF i = acc[k].req.ind THEN OldLabel(k) ELSE LabelNow(k, i)
        BY <1>3, <1>11 DEF Expected, Walking
      <4>3. Expected(k, i)' = IF i = acc[k].req.ind THEN path ELSE LabelNow(k, i)'
        BY <1>7, <1>11 DEF Expected, Walking
      <4>4. CASE i = acc[k].req.ind
        <5>1. OldLabel(k) # 0
          BY <4>1, <4>2, <4>4, ContentTyping
        <5>2. path = OldLabel(k)
          BY <1>5, <2>1, <5>1, OldLabels
        <5>. QED BY <3>1, <4>2, <4>3, <4>4, <5>2 DEF Findable
      <4>5. CASE i # acc[k].req.ind
        <5>1. Expected(k, i)' = Expected(k, i)
          BY <1>10, <4>2, <4>3, <4>5
        <5>. QED BY <3>1, <5>1 DEF Findable
      <4>. QED BY <4>4, <4>5
    <3>. QED BY <3>2, <3>3
  <2>3. BlocksFindable(k)'
    BY <2>2 DEF BlocksFindable
  <2>4. acc[k].req.ind \in IndsAt[k]
    BY <1>3 DEF AccessOf, AccessRecord, RequestOf
  <2>5. LabelNow(k, acc[k].req.ind)' = LabelNow(k, acc[k].req.ind)
    BY <1>7, <1>10, <2>4
  <2>6. HandInv(k)'
    <3> HIDE DEF LabelNow
    <3>. QED BY <1>3, <1>7, <1>11, <2>1, <2>5 DEF HandInv
  <2>. QED BY <1>12, <2>3, <2>6 DEF TreeInv
<1>14. TreeInv(k + 1)'
  <2>1. ~ Swapping(k + 1) /\ ~ Swapping(k + 1)'
    BY <1>6, <1>7 DEF Swapping
  <2>2. ASSUME NEW i \in IndsAt[k + 1] PROVE Findable(k + 1, i)'
    <3>1. /\ Expected(k + 1, i) = LabelNow(k + 1, i)
          /\ Expected(k + 1, i)' = LabelNow(k + 1, i)'
      BY <1>6, <1>7, <2>1 DEF Expected, Walking
    <3>2. Findable(k + 1, i) /\ ViewOf(k + 1)' = ViewOf(k + 1)
      BY <1>4, <1>9 DEF IInv, TreeInv, BlocksFindable
    <3>3. Expected(k + 1, i)' = Expected(k + 1, i)
      BY <1>4, <1>10, <3>1
    <3>. QED BY <3>2, <3>3 DEF Findable
  <2>3. BlocksFindable(k + 1)'
    BY <2>2 DEF BlocksFindable
  <2>4. HandInv(k + 1)'
    BY <1>7, <2>1 DEF HandInv
  <2>. QED BY <1>4, <1>12, <2>3, <2>4 DEF TreeInv
<1>15. ASSUME NEW j \in Trees, j # k, j # k + 1 PROVE TreeInv(j)'
  <2>1. acc'[j] = acc[j] /\ acc[j].pc \in {"wait", "idle"} /\ buckets'[j] = buckets[j]
    BY <1>6, <1>8, <1>15
  <2>2. acc[j].req.ind \in IndsAt[j]
    BY <1>1 DEF AccInv, AccessOf, AccessRecord, RequestOf
  <2>3. ASSUME acc[j].pc = "wait"
        PROVE  acc'[j + 1].req = acc[j + 1].req /\ (Swapping(j)' <=> Swapping(j))
    <3>1. j < k + 1 /\ j \in Nat
      BY <1>4, <1>8, <1>15, <2>3
    <3>2. j + 1 \in Trees
      BY <1>1, <2>3, TreesDescend DEF AccInv, AccessOf
    <3>3. CASE j + 1 = k
      BY <1>3, <1>7, <2>1, <3>3 DEF Swapping, Stores
    <3>4. CASE j + 1 # k
      <4>1. j + 1 # k + 1
        BY <1>4, <1>15, <3>1
      <4>2. acc'[j + 1] = acc[j + 1]
        BY <1>6, <3>2, <3>4, <4>1
      <4>. QED BY <2>1, <4>2 DEF Swapping
    <3>. QED BY <3>3, <3>4
  <2>. QED BY <1>10, <2>1, <2>2, <2>3, TreeRests
<1>16. IInv'
  BY <1>2, <1>13, <1>14, <1>15 DEF IInv
<1>. QED BY <1>6, <1>7, <1>9, <1>16

\* A step of the process, or its end, that moves nothing.
LEMMA NothingMoves ==
  ASSUME IInv, TypeInv', posmap' = posmap, buckets' = buckets, stash' = stash, acc' = acc
  PROVE  IInv'
<1>1. \A k : ViewOf(k)' = ViewOf(k)
  BY DEF ViewOf, PathHeld
<1>2. \A k, b : ContentOf(k, b)' = ContentOf(k, b)
  BY <1>1 DEF ContentOf, InHand
<1>3. \A k, i : LabelNow(k, i)' = LabelNow(k, i)
  BY <1>2 DEF LabelNow
<1>4. \A k, i : Expected(k, i)' = Expected(k, i)
  BY <1>3 DEF Expected, Walking, Swapping, OldLabel
<1>5. NothingSpilled'
  BY DEF IInv, NothingSpilled
<1>6. ASSUME NEW k \in Trees PROVE TreeInv(k)'
  <2>1. OwnInv(k) /\ BlocksFindable(k) /\ HandInv(k)
    BY DEF IInv, TreeInv
  <2>2. OwnInv(k)'
    BY <1>1, <2>1 DEF OwnInv, PathHeld
  <2>3. BlocksFindable(k)'
    BY <1>1, <1>4, <2>1 DEF BlocksFindable, Findable
  <2>4. HandInv(k)'
    <3>1. /\ LabelNow(k, acc[k].req.ind)' = LabelNow(k, acc[k].req.ind)
          /\ OldLabel(k)' = OldLabel(k)
          /\ Swapping(k)' <=> Swapping(k)
      BY <1>3 DEF OldLabel, Swapping
    <3> HIDE DEF LabelNow, OldLabel
    <3>. QED BY <1>1, <2>1, <3>1 DEF HandInv
  <2>. QED BY <2>2, <2>3, <2>4 DEF TreeInv
<1>. QED BY <1>5, <1>6 DEF IInv

LEMMA IInvInit == Init => IInv
<1> SUFFICES ASSUME Init PROVE IInv
  OBVIOUS
<1>1. TypeInv
  BY InitTyping
<1>2. \A k \in Trees : acc[k].pc = "idle"
  BY DEF Init, NoAccess, Access
<1>3. \A k \in Trees : ~ Swapping(k) /\ ~ PathHeld(k)
  BY <1>2 DEF Swapping, PathHeld
<1>4. ASSUME NEW k \in Trees PROVE buckets[k] = [n \in NodesOf(k) |-> {}]
  BY SameNames DEF Init
<1>5. ASSUME NEW k \in Trees, NEW i PROVE Absent(ViewOf(k), i)
  <2> SUFFICES ASSUME NEW s \in SlotsOf(ViewOf(k), i) PROVE FALSE
    BY DEF Absent
  <2>1. s = <<s[1], s[2]>> /\ SlotHere(k, i, s[1], s[2])
    BY <1>1, SlotsWhere DEF SlotsAre
  <2>. QED BY <1>3, <1>4, <2>1 DEF SlotHere
<1>6. \A k \in Trees : BlocksFindable(k) /\ HandInv(k)
  BY <1>2, <1>3, <1>5 DEF BlocksFindable, Findable, HandInv
<1>7. \A k \in Trees : OwnInv(k)
  BY <1>3, <1>4, <1>5 DEF OwnInv
<1>8. NothingSpilled
  BY DEF Init, NothingSpilled
<1>. QED BY <1>1, <1>6, <1>7, <1>8 DEF IInv, TreeInv

LEMMA IInvStep ==
  ASSUME OnlyLastSpoiled, IInv, NothingSpilled', [Next]_vars
  PROVE  IInv'
<1>1. TypeInv'
  BY StepTyping DEF IInv
<1>2. ASSUME NEW r \in Requests, StartAccess(r) PROVE IInv'
  BY <1>2, StartKeeps
<1>3. ASSUME NEW k \in Trees, AskMap(k) PROVE IInv'
  BY <1>3, AskKeeps
<1>4. ASSUME NEW k \in Trees, MapAnswered(k) PROVE IInv'
  BY <1>4, AnsweredKeeps
<1>5. ASSUME NEW k \in Trees, Moves(k) PROVE IInv'
  BY <1>5, DownloadKeeps, FetchKeeps, PutKeeps, EvictKeeps DEF Moves
<1>6. ASSUME Crash PROVE IInv'
  BY <1>1, <1>6, NothingMoves DEF Crash
<1>7. ASSUME UNCHANGED vars PROVE IInv'
  BY <1>1, <1>7, NothingMoves DEF vars
<1>. QED BY <1>2, <1>3, <1>4, <1>5, <1>6, <1>7
         DEF Next, Step, Ended, Moves, PathPointerFault, DownloadOverflow, PutOverflow

\* Wherever the accesses are, each block of each tree is nowhere or where it is looked
\* for next, as long as no eviction leaves a block in the stash.
THEOREM BlocksStayFindable ==
  ASSUME OnlyLastSpoiled
  PROVE  Spec /\ []NothingSpilled => []IInv
<1>1. Init => IInv
  BY IInvInit
<1>2. IInv /\ NothingSpilled' /\ [Next]_vars => IInv'
  BY IInvStep
<1>. QED BY <1>1, <1>2, PTL DEF Spec

-----------------------------------------------------------------------------
(* The copies of the invariant are those of the model's properties.        *)

LiveIsView ==
  IInv =>
    \A k \in Trees : \A i :
      /\ LiveOf(k, i) = CopiesOf(ViewOf(k), i)
      /\ DataOf(k, i) = DataIn(ViewOf(k), i)

LEMMA LiveInView == LiveIsView
<1> SUFFICES ASSUME IInv, NEW k \in Trees, NEW i
             PROVE  /\ LiveOf(k, i) = CopiesOf(ViewOf(k), i)
                    /\ DataOf(k, i) = DataIn(ViewOf(k), i)
  BY DEF LiveIsView
<1>1. TypeInv /\ NothingSpilled /\ \A j \in Trees : OwnInv(j)
  BY DEF IInv, TreeInv
<1>2. P(k)!Nodes = NodesOf(k) /\ P(k)!PathNodes(acc[k].path) = WalkOf(k, acc[k].path)
  BY SameNames
<1>3. P(k)!Live = stash \cup
        UNION {buckets[k][n] : n \in NodesOf(k) \
                 (IF PathHeld(k) THEN WalkOf(k, acc[k].path) ELSE {})}
  BY <1>2 DEF P!Live, P!LiveTree, P!LiveNodes, P!Shadowed, PathHeld
<1>4. \A b \in stash : b.own = k => PathHeld(k)
  <2> SUFFICES ASSUME NEW b \in stash, b.own = k PROVE PathHeld(k)
    OBVIOUS
  <2>1. PICK j \in Trees : PathHeld(j)
    BY <1>1 DEF NothingSpilled, PathHeld
  <2>2. b \in BlockOf(j)
    BY <1>1, <2>1 DEF OwnInv
  <2>3. b.own = j
    BY <2>2 DEF BlockOf
  <2>. QED BY <2>1, <2>3
<1>5. PathHeld(k) => \A b \in stash : b.own = k
  BY <1>1 DEF OwnInv, BlockOf
<1>6. \A n \in NodesOf(k) : \A b \in buckets[k][n] : b.own = k
  BY <1>1 DEF OwnInv, BlockOf
<1>7. \A b : b \in CopiesOf(ViewOf(k), i) <=> \E n : SlotHere(k, i, n, b)
  <2>1. \A n, b : <<n, b>> \in SlotsOf(ViewOf(k), i) <=> SlotHere(k, i, n, b)
    BY <1>1, SlotsWhere DEF SlotsAre
  <2>2. \A s \in SlotsOf(ViewOf(k), i) : s = <<s[1], s[2]>>
    BY <1>1, SlotsWhere DEF SlotsAre
  <2> DEFINE held == SlotsOf(ViewOf(k), i)
  <2>3. \A b : b \in CopiesOf(ViewOf(k), i) <=> \E s \in held : b = s[2]
    BY DEF CopiesOf
  <2> HIDE DEF held
  <2>4. ASSUME NEW b, NEW s \in held, b = s[2] PROVE SlotHere(k, i, s[1], b)
    BY <2>1, <2>2, <2>4 DEF held
  <2>5. ASSUME NEW b, NEW n, SlotHere(k, i, n, b) PROVE \E s \in held : b = s[2]
    <3>1. <<n, b>> \in held /\ <<n, b>>[2] = b
      BY <2>1, <2>5 DEF held
    <3>. QED BY <3>1
  <2>. QED BY <2>3, <2>4, <2>5
<1>8. ASSUME NEW b
      PROVE  b \in LiveOf(k, i) <=> \E n : SlotHere(k, i, n, b)
  <2>1. b \in LiveOf(k, i) <=> b \in P(k)!Live /\ b.own = k /\ b.key = i + 1
    BY DEF LiveOf
  <2>2. ASSUME b \in LiveOf(k, i) PROVE \E n : SlotHere(k, i, n, b)
    <3>1. CASE b \in stash
      <4>1. SlotHere(k, i, InStash, b)
        BY <1>4, <2>1, <2>2, <3>1 DEF SlotHere
      <4>. QED BY <4>1
    <3>2. CASE b \notin stash
      <4>1. PICK n \in NodesOf(k) : /\ b \in buckets[k][n]
                                    /\ ~ (PathHeld(k) /\ n \in WalkOf(k, acc[k].path))
        BY <1>3, <2>1, <2>2, <3>2
      <4>2. SlotHere(k, i, n, b)
        BY <2>1, <2>2, <4>1 DEF SlotHere
      <4>. QED BY <4>2
    <3>. QED BY <3>1, <3>2
  <2>3. ASSUME NEW n, SlotHere(k, i, n, b) PROVE b \in LiveOf(k, i)
    <3>1. b.own = k /\ b.key = i + 1
      BY <1>5, <1>6, <2>3 DEF SlotHere
    <3>2. b \in P(k)!Live
      BY <1>3, <2>3 DEF SlotHere
    <3>. QED BY <2>1, <3>1, <3>2
  <2>. QED BY <2>2, <2>3
<1>9. LiveOf(k, i) = CopiesOf(ViewOf(k), i)
  <2>1. \A b : b \in LiveOf(k, i) <=> b \in CopiesOf(ViewOf(k), i)
    BY <1>7, <1>8
  <2> HIDE DEF LiveOf, CopiesOf
  <2>. QED BY <2>1
<1>. QED BY <1>9 DEF DataOf, DataIn

\* The same in the state after a step.
LEMMA LiveInViewNext == LiveIsView'
BY LiveInView, PTL

\* Between accesses the maps lead to the blocks: each block is on the path of the
\* label the tree below stores for it, and there once.
THEOREM MapsLead ==
  ASSUME OnlyLastSpoiled
  PROVE  Spec /\ []NothingSpilled => []MapsLeadToBlocks
<1>1. IInv => MapsLeadToBlocks
  <2> SUFFICES ASSUME IInv, \A k \in Trees : acc[k].pc = "idle",
                      NEW k \in Trees, NEW i \in IndsAt[k], NEW b \in LiveOf(k, i)
               PROVE  /\ b.path = LabelOf(k, i)
                      /\ b \notin stash =>
                           \E n \in P(k)!PathNodes(LabelOf(k, i)) : b \in buckets[k][n]
                      /\ Cardinality(LiveOf(k, i)) = 1
    BY DEF MapsLeadToBlocks
  <2>1. Expected(k, i) = LabelNow(k, i)
    BY DEF Expected, Walking, Swapping
  <2>2. LabelNow(k, i) = LabelOf(k, i)
    <3>1. CASE MapInEnclave(k)
      BY <3>1 DEF LabelNow, LabelOf
    <3>2. CASE ~ MapInEnclave(k)
      <4>1. k + 1 \in Trees
        BY <3>2, IndsTyping
      <4>2. ContentOf(k + 1, Below(i)) = DataOf(k + 1, Below(i))
        BY <4>1, LiveInView DEF ContentOf, InHand, LiveIsView
      <4>. QED BY <3>2, <4>2 DEF LabelNow, LabelOf, Below, MapOf
    <3>. QED BY <3>1, <3>2
  <2>3. LiveOf(k, i) = CopiesOf(ViewOf(k), i)
    BY LiveInView DEF LiveIsView
  <2>4. ~ Absent(ViewOf(k), i)
    BY <2>3 DEF Absent, CopiesOf
  <2>5. Findable(k, i) /\ TypeInv
    BY DEF IInv, TreeInv, BlocksFindable
  <2>6. PICK x : Lies(ViewOf(k), k, i, Expected(k, i), x)
    BY <2>4, <2>5 DEF Findable
  <2>7. PICK s : /\ SlotsOf(ViewOf(k), i) = {s}
                 /\ s[2].path = Expected(k, i)
                 /\ s[1] \in FoundAt(k, Expected(k, i))
    BY <2>6 DEF Lies
  <2>8. LiveOf(k, i) = {s[2]} /\ b = s[2]
    BY <2>3, <2>7 DEF CopiesOf
  <2>9. SlotHere(k, i, s[1], b)
    BY <2>5, <2>7, <2>8, SlotsWhere DEF SlotsAre
  <2>10. ~ PathHeld(k)
    BY DEF PathHeld
  <2>11. InStash \notin NodesOf(k)
    BY StashApart
  <2>12. s[1] \in WalkOf(k, LabelOf(k, i)) /\ b \in buckets[k][s[1]]
    <3>1. s[1] \in NodesOf(k) /\ b \in buckets[k][s[1]]
      BY <2>9, <2>10 DEF SlotHere
    <3>2. s[1] \in WalkOf(k, Expected(k, i))
      BY <2>7, <2>11, <3>1 DEF FoundAt
    <3>. QED BY <2>1, <2>2, <3>1, <3>2
  <2>13. P(k)!PathNodes(LabelOf(k, i)) = WalkOf(k, LabelOf(k, i))
    BY SameNames
  <2>14. Cardinality(LiveOf(k, i)) = 1
    BY <2>8, FS_Singleton
  <2>. QED BY <2>1, <2>2, <2>7, <2>8, <2>12, <2>13, <2>14
<1>. QED BY <1>1, BlocksStayFindable, PTL

-----------------------------------------------------------------------------
(***************************************************************************)
(* An ORAM with its maps implements the memory of module ORAM: the fetch   *)
(* from the top tree changes what the caller sees, and nothing else does,  *)
(* in whichever tree it is done.                                           *)
(***************************************************************************)

MemIsContent ==
  IInv => \A i \in Inds : PhaseBar # "crashed" => MemBar[i] = ContentOf(0, i)

LEMMA MemOfContent == MemIsContent
<1> SUFFICES ASSUME IInv, NEW i \in Inds, PhaseBar # "crashed"
             PROVE  MemBar[i] = ContentOf(0, i)
  BY DEF MemIsContent
<1>1. DataOf(0, i) = DataIn(ViewOf(0), i)
  BY LiveInView, TreesDescend DEF LiveIsView
<1>2. MemBar[i] = IF acc[0].pc = "put" /\ i = acc[0].req.ind
                  THEN acc[0].fetched ELSE DataOf(0, i)
  BY DEF MemBar, Top
<1>. QED BY <1>1, <1>2 DEF ContentOf, InHand

LEMMA MemOfContentNext == MemIsContent'
BY MemOfContent, PTL

Called == {"map", "wait", "wild", "download", "fetch"}
Served == {"put", "evict"}
Phases ==
  /\ acc[0].pc = "idle" => PhaseBar = "idle"
  /\ acc[0].pc # "idle" /\ ~ alive => PhaseBar = "crashed"
  /\ acc[0].pc \in Called /\ alive => PhaseBar = "called"
  /\ acc[0].pc \in Served /\ alive => PhaseBar = "served"

LEMMA PhaseOf == Phases
<1> DEFINE pc == acc[0].pc
<1>1. /\ pc \in Called => pc # "idle" /\ pc \notin Served
      /\ pc \in Served => pc # "idle" /\ pc \notin Called
  BY DEF Called, Served
<1>2. PhaseBar =
        CASE pc = "idle" -> "idle"
          [] pc # "idle" /\ ~ alive -> "crashed"
          [] pc \in Called /\ alive -> "called"
          [] pc \in Served /\ alive -> "served"
  BY DEF PhaseBar, Called, Served, Top
<1> HIDE DEF pc
<1>3. /\ pc = "idle" => PhaseBar = "idle"
      /\ pc # "idle" /\ ~ alive => PhaseBar = "crashed"
      /\ pc \in Called /\ alive => PhaseBar = "called"
      /\ pc \in Served /\ alive => PhaseBar = "served"
  BY <1>1, <1>2, Zenon
<1>. QED BY <1>3 DEF Phases, pc

LEMMA PhaseOfNext == Phases'
BY PhaseOf, PTL

\* Requests and the exchange of bytes are the same in both.
LEMMA SameData ==
  /\ RAM!ZeroBlock = ZeroBlock
  /\ RAM!ReadRequests = ReadRequests
  /\ RAM!WriteRequests = WriteRequests
  /\ \A r, c : RAM!Stored(r, c) = Stored(r, c) /\ RAM!Loaded(r, c) = Loaded(r, c)
<1>1. RAM!Words = Words
  BY DEF Words, RAM!Words
<1>2. RAM!ZeroBlock = ZeroBlock /\ RAM!Contents = Contents
  BY <1>1 DEF ZeroBlock, RAM!ZeroBlock, Contents, RAM!Contents
<1>3. RAM!WriteRanges = WriteRanges
  BY <1>1 DEF WriteRanges, RAM!WriteRanges
<1>4. RAM!ReadRequests = ReadRequests /\ RAM!WriteRequests = WriteRequests
  BY <1>1, <1>2, <1>3
     DEF ReadRequests, RAM!ReadRequests, WriteRequests, RAM!WriteRequests
<1>5. \A r, c : RAM!Stored(r, c) = Stored(r, c) /\ RAM!Loaded(r, c) = Loaded(r, c)
  BY <1>1 DEF Stored, RAM!Stored, Loaded, RAM!Loaded
<1>. QED BY <1>2, <1>4, <1>5

\* What the top tree holds is the memory.
LEMMA SameContentSameMem ==
  ASSUME IInv, IInv', \A i \in Inds : ContentOf(0, i)' = ContentOf(0, i),
         PhaseBar # "crashed", PhaseBar' # "crashed"
  PROVE  MemBar' = MemBar
<1>1. \A i \in Inds : MemBar'[i] = MemBar[i]
  BY MemOfContent, MemOfContentNext DEF MemIsContent
<1>2. MemBar = [i \in Inds |-> MemBar[i]] /\ MemBar' = [i \in Inds |-> MemBar'[i]]
  BY DEF MemBar
<1>. QED BY <1>1, <1>2

\* A step within a phase of the call, or its return.
LEMMA QuietStep ==
  ASSUME IInv, IInv', alive, alive' = alive, acc[0].pc # "idle",
         \A i \in Inds : ContentOf(0, i)' = ContentOf(0, i),
         acc'[0].req = acc[0].req,
         \/ acc[0].pc \in Called /\ acc'[0].pc \in Called
         \/ acc[0].pc \in Served /\ acc'[0].pc \in Served \cup {"idle"}
  PROVE  RAM!Return \/ UNCHANGED RAM!vars
<1>1. alive'
  OBVIOUS
<1>2. \/ PhaseBar = "called" /\ PhaseBar' = "called"
      \/ PhaseBar = "served" /\ PhaseBar' \in {"served", "idle"}
  BY <1>1, PhaseOf, PhaseOfNext DEF Phases
<1>3. MemBar' = MemBar
  BY <1>2, SameContentSameMem
<1>. QED BY <1>2, <1>3 DEF RAM!Return, RAM!vars, Top

LEMMA RefinesInit == Init => RAM!Init
<1> SUFFICES ASSUME Init PROVE RAM!Init
  OBVIOUS
<1>1. IInv
  BY IInvInit
<1>2. acc[0] = NoAccess(0) /\ acc[0].pc = "idle" /\ acc[0].req = NoRequest(0)
  BY TreesDescend DEF Init, NoAccess, Access
<1>3. acc[0].req \in ReadRequests
  <2>1. (CHOOSE i \in IndsAt[0] : TRUE) \in IndsAt[0] /\ IndsAt[0] = Inds
    BY IndsFit, TreesDescend
  <2>. QED BY <1>2, <2>1 DEF NoRequest, ReadRequests
<1>4. PhaseBar = "idle"
  BY <1>2, PhaseOf DEF Phases
<1>5. ASSUME NEW i \in Inds PROVE MemBar[i] = ZeroBlock
  <2>1. \A n \in NodesOf(0) : buckets[0][n] = {}
    BY SameNames, TreesDescend DEF Init
  <2>2. LiveOf(0, i) = {}
    <3>1. P(0)!LiveNodes \subseteq NodesOf(0)
      BY SameNames DEF P!LiveNodes
    <3>2. P(0)!Live = {}
      BY <2>1, <3>1 DEF P!Live, P!LiveTree, Init
    <3>. QED BY <3>2 DEF LiveOf
  <2>3. MemBar[i] = DataOf(0, i)
    BY <1>2, <1>4 DEF MemBar, Top
  <2>. QED BY <2>2, <2>3 DEF DataOf
<1>6. MemBar = [i \in Inds |-> ZeroBlock]
  <2>1. MemBar = [i \in Inds |-> MemBar[i]]
    BY DEF MemBar
  <2>. QED BY <1>5, <2>1
<1>. QED BY <1>3, <1>4, <1>6, SameData DEF RAM!Init, Top

LEMMA RefinesStart ==
  ASSUME OnlyLastSpoiled, IInv, IInv', NEW r \in Requests, StartAccess(r)
  PROVE  RAM!Invoke(r)
<1>1. alive /\ alive' /\ acc[0].pc = "idle"
  BY TreesDescend DEF StartAccess
<1>2. /\ \A j \in Trees : \A b : ContentOf(j, b)' = ContentOf(j, b)
      /\ acc'[0].req = r /\ acc'[0].pc \in {"map", "wild", "download"}
  BY StartKeeps DEF IInv
<1>3. PhaseBar = "idle" /\ PhaseBar' = "called"
  BY <1>1, <1>2, PhaseOf, PhaseOfNext DEF Phases, Called
<1>4. MemBar' = MemBar
  BY <1>2, <1>3, SameContentSameMem, TreesDescend
<1>. QED BY <1>2, <1>3, <1>4 DEF RAM!Invoke, Top

\* The exchange of labels, in any tree.
LEMMA RefinesMap ==
  ASSUME OnlyLastSpoiled, IInv, IInv', NEW k \in Trees, AskMap(k) \/ MapAnswered(k)
  PROVE  UNCHANGED RAM!vars
<1>1. k \in Nat /\ 0 \in Trees /\ AccInv
  BY TreesDescend DEF IInv, TypeInv
<1>2. /\ acc[k] \in AccessOf(k) /\ acc[k].pc \in {"map", "wait"}
      /\ alive /\ alive' = alive
  BY <1>1 DEF AccInv, AskMap, MapAnswered
<1>3. /\ \A j \in Trees : \A b : ContentOf(j, b)' = ContentOf(j, b)
      /\ \/ acc'[k] = [acc[k] EXCEPT !.pc = "wait"]
         \/ acc'[k].pc = "download" /\ acc'[k].req = acc[k].req
      /\ \A j \in Trees : j # k /\ j # k + 1 => acc'[j] = acc[j]
  BY AskKeeps, AnsweredKeeps DEF IInv
<1>4. /\ acc'[k].pc \in {"wait", "download"} /\ acc'[k].req = acc[k].req
  BY <1>2, <1>3 DEF AccessOf, AccessRecord
<1>5. acc[0].pc \in {"map", "wait"} /\ acc'[0].pc \in {"wait", "download"}
      /\ acc'[0].req = acc[0].req
  <2>1. CASE k = 0
    BY <1>2, <1>4, <2>1
  <2>2. CASE k # 0
    <3>1. acc'[0] = acc[0]
      BY <1>1, <1>3, <2>2
    <3>2. 0 \in 0 .. k - 1
      BY <1>1, <2>2
    <3>3. acc[0].pc = "wait"
      BY <1>1, <1>2, <3>2 DEF AccInv
    <3>. QED BY <3>1, <3>3
  <2>. QED BY <2>1, <2>2
<1>6. alive'
  BY <1>2
<1>7. PhaseBar = "called" /\ PhaseBar' = "called"
  BY <1>2, <1>5, <1>6, PhaseOf, PhaseOfNext DEF Phases, Called
<1>8. MemBar' = MemBar
  BY <1>1, <1>3, <1>7, SameContentSameMem
<1>. QED BY <1>5, <1>7, <1>8 DEF RAM!vars, Top

\* The calls on the trees below: the caller sees nothing of them.
LEMMA RefinesBelow ==
  ASSUME IInv, IInv', NEW k \in Trees, k # 0, alive, Moves(k)
  PROVE  UNCHANGED RAM!vars
<1>1. /\ posmap' = posmap /\ alive' = alive /\ acc[k].pc \in Working
      /\ \A j \in Trees : j # k => acc'[j] = acc[j] /\ buckets'[j] = buckets[j]
      /\ k \in Nat
  BY StepFacts
<1>2. 0 \in Trees /\ AccInv
  BY TreesDescend DEF IInv, TypeInv
<1>3. \A b : ContentOf(0, b)' = ContentOf(0, b)
  BY <1>1, <1>2, OthersStay
<1>4. acc[0].pc = "wait" /\ acc'[0] = acc[0]
  <2>1. 0 < k
    BY <1>1
  <2>. QED BY <1>1, <1>2, <2>1, OthersRest DEF Working
<1>5. PhaseBar = "called" /\ PhaseBar' = "called"
  <2>1. alive'
    BY <1>1
  <2>. QED BY <1>4, <2>1, PhaseOf, PhaseOfNext DEF Phases, Called
<1>6. MemBar' = MemBar
  BY <1>3, <1>5, SameContentSameMem
<1>. QED BY <1>4, <1>5, <1>6 DEF RAM!vars, Top

\* The fetch of the block the caller asked for serves the request.
LEMMA RefinesFetch ==
  ASSUME IInv, IInv', alive, ObliviousFetch(0)
  PROVE  RAM!Serve
<1>1. 0 \in Trees /\ IndsAt[0] = Inds
  BY TreesDescend, IndsFit
<1> DEFINE q == acc[0].req.ind
           held == ContentOf(0, q)
           stored == Stored(acc[0].req, held)
           loaded == Loaded(acc[0].req, held)
<1>2. /\ acc[0].pc = "fetch" /\ acc'[0].pc = "put"
      /\ \A b \in Inds : b # q => ContentOf(0, b)' = ContentOf(0, b)
      /\ ContentOf(0, q)' = stored
      /\ acc'[0].req = [acc[0].req EXCEPT !.buf = loaded]
  BY <1>1, FetchKeeps DEF IInv
<1>3. alive' = alive /\ q \in Inds /\ acc[0] \in AccessOf(0)
  BY <1>1, StepFacts DEF Moves
<1>4. acc'[0].req.ind = q
  <2> HIDE DEF loaded
  <2>. QED BY <1>2, <1>3 DEF AccessOf, AccessRecord, RequestOf
<1>5. PhaseBar = "called" /\ PhaseBar' = "served"
  <2>1. alive'
    BY <1>3
  <2>. QED BY <1>2, <2>1, PhaseOf, PhaseOfNext DEF Phases, Called, Served
<1> HIDE DEF stored, loaded, held
<1>6. /\ \A i \in Inds : MemBar[i] = ContentOf(0, i) /\ MemBar'[i] = ContentOf(0, i)'
      /\ MemBar = [i \in Inds |-> MemBar[i]] /\ MemBar' = [i \in Inds |-> MemBar'[i]]
  <2>1. \A i \in Inds : MemBar[i] = ContentOf(0, i) /\ MemBar'[i] = ContentOf(0, i)'
    BY <1>5, MemOfContent, MemOfContentNext DEF MemIsContent
  <2>2. MemBar = [i \in Inds |-> MemBar[i]] /\ MemBar' = [i \in Inds |-> MemBar'[i]]
    BY DEF MemBar
  <2>. QED BY <2>1, <2>2
<1>7. MemBar[acc[0].req.ind] = held /\ MemBar'[acc[0].req.ind] = stored
  <2>1. MemBar[q] = held
    BY <1>3, <1>6 DEF held
  <2>2. \A i \in Inds : i = q => ContentOf(0, i)' = stored
    BY <1>2, <1>4
  <2>3. \A i \in Inds : i = q => MemBar'[i] = stored
    BY <1>6, <2>2
  <2>. QED BY <1>3, <2>1, <2>3
<1>8. MemBar' = [MemBar EXCEPT ![acc[0].req.ind] = stored]
  BY <1>2, <1>3, <1>6, <1>7
<1>. QED BY <1>2, <1>5, <1>7, <1>8, SameData DEF RAM!Serve, Top, stored, loaded

\* The other calls on the top tree move blocks and change none.
LEMMA RefinesMoves ==
  ASSUME IInv, IInv', alive, DownloadPath(0) \/ PutToStash(0) \/ EvictPath(0)
  PROVE  RAM!Return \/ UNCHANGED RAM!vars
<1>1. 0 \in Trees /\ IndsAt[0] = Inds /\ AccInv /\ acc[0] \in AccessOf(0)
  BY TreesDescend, IndsFit DEF IInv, TypeInv, AccInv
<1>2. /\ \A i \in Inds : ContentOf(0, i)' = ContentOf(0, i)
      /\ alive' = alive
  BY <1>1, DownloadKeeps, PutKeeps, EvictKeeps, StepFacts DEF IInv, Moves
<1>3. CASE DownloadPath(0)
  <2>1. acc[0].pc = "download" /\ acc'[0] = [acc[0] EXCEPT !.pc = "fetch"]
    BY <1>1, <1>3 DEF DownloadPath, AccInv
  <2>2. acc'[0].pc = "fetch" /\ acc'[0].req = acc[0].req
    BY <1>1, <2>1 DEF AccessOf, AccessRecord
  <2>. QED BY <1>2, <2>1, <2>2, QuietStep DEF Called
<1>4. CASE PutToStash(0)
  <2>1. acc[0].pc = "put" /\ acc'[0] = [acc[0] EXCEPT !.pc = "evict"]
    BY <1>1, <1>4 DEF PutToStash, AccInv
  <2>2. acc'[0].pc = "evict" /\ acc'[0].req = acc[0].req
    BY <1>1, <2>1 DEF AccessOf, AccessRecord
  <2>. QED BY <1>2, <2>1, <2>2, QuietStep DEF Served
<1>5. CASE EvictPath(0)
  <2>1. acc[0].pc = "evict" /\ acc'[0] = Returned(0)
    <3>1. acc[0].pc = "evict" /\ acc' = [acc EXCEPT ![0] = Returned(0)]
      BY <1>1, <1>5, EvictEffect
    <3>2. acc = [j \in Trees |-> acc[j]]
      BY <1>1 DEF AccInv
    <3>. QED BY <1>1, <3>1, <3>2
  <2>2. acc'[0].pc = "idle" /\ acc'[0].req = acc[0].req
    BY <2>1 DEF Returned, Access, Back
  <2>. QED BY <1>2, <2>1, <2>2, QuietStep DEF Served
<1>. QED BY <1>3, <1>4, <1>5

\* A process that ends takes its memory with it.
LEMMA RefinesCrash ==
  ASSUME IInv, NEW k \in Trees, alive, acc[k].pc \in {"wild", "download", "put"}, Crash
  PROVE  RAM!Crash
<1>1. k \in Nat /\ 0 \in Trees /\ AccInv
  BY TreesDescend DEF IInv, TypeInv
<1>2. acc' = acc /\ ~ alive'
  BY DEF Crash
<1>3. acc[0].pc \in {"wild", "download", "put", "wait"}
  <2>1. CASE k = 0
    BY <2>1
  <2>2. CASE k # 0
    <3>1. 0 \in 0 .. k - 1
      BY <1>1, <2>2
    <3>. QED BY <1>1, <3>1 DEF AccInv
  <2>. QED BY <2>1, <2>2
<1>4. PhaseBar \in {"called", "served"} /\ PhaseBar' = "crashed"
  BY <1>2, <1>3, PhaseOf, PhaseOfNext DEF Phases, Called, Served
<1>5. MemBar' = [i \in Inds |-> ZeroBlock]
  BY <1>4 DEF MemBar
<1>. QED BY <1>2, <1>4, <1>5, SameData DEF RAM!Crash, Top

LEMMA RefinesStep ==
  ASSUME OnlyLastSpoiled, IInv, IInv', [Next]_vars
  PROVE  [RAM!Next]_(RAM!vars)
<1>1. ASSUME NEW r \in Requests, StartAccess(r) PROVE RAM!Next
  <2>1. r \in ReadRequests \cup WriteRequests
    BY RecursionAssumption
  <2>. QED BY <1>1, <2>1, RefinesStart, SameData DEF RAM!Next
<1>2. ASSUME NEW k \in Trees, AskMap(k) \/ MapAnswered(k) PROVE UNCHANGED RAM!vars
  BY <1>2, RefinesMap
<1>3. ASSUME NEW k \in Trees, Moves(k)
      PROVE  RAM!Serve \/ RAM!Return \/ UNCHANGED RAM!vars
  <2>1. alive
    BY <1>3 DEF Moves, DownloadPath, ObliviousFetch, PutToStash, EvictPath
  <2>2. CASE k = 0
    BY <1>3, <2>1, <2>2, RefinesFetch, RefinesMoves DEF Moves
  <2>3. CASE k # 0
    BY <1>3, <2>1, <2>3, RefinesBelow
  <2>. QED BY <2>2, <2>3
<1>4. ASSUME NEW k \in Trees, PathPointerFault(k) \/ DownloadOverflow(k) \/ PutOverflow(k)
      PROVE  RAM!Crash
  <2>1. alive /\ Crash /\ acc[k].pc \in {"wild", "download", "put"}
    BY <1>4 DEF PathPointerFault, DownloadOverflow, PutOverflow
  <2>. QED BY <2>1, RefinesCrash
<1>5. ASSUME UNCHANGED vars PROVE UNCHANGED RAM!vars
  <2>1. acc' = acc /\ buckets' = buckets /\ stash' = stash /\ alive' = alive
    BY <1>5 DEF vars
  <2>2. PhaseBar' = PhaseBar
    BY <2>1 DEF PhaseBar
  <2>3. \A i \in Inds : ContentOf(0, i)' = ContentOf(0, i)
    BY <2>1 DEF ContentOf, InHand, ViewOf, PathHeld
  <2>4. MemBar' = MemBar
    <3>1. CASE PhaseBar = "crashed"
      BY <2>2, <3>1 DEF MemBar
    <3>2. CASE PhaseBar # "crashed"
      BY <2>2, <2>3, <3>2, SameContentSameMem
    <3>. QED BY <3>1, <3>2
  <2>. QED BY <2>1, <2>2, <2>4 DEF RAM!vars
<1>. QED BY <1>1, <1>2, <1>3, <1>4, <1>5 DEF Next, Step, Ended, Moves, RAM!Next

\* However many ORAMs hold the labels, and whatever labels are drawn: the accesses of
\* a PathORAM are the reads and writes of a memory of blocks, as long as no eviction
\* leaves a block in the stash and the swaps of labels spoil the last one only.
THEOREM RefinesORAM ==
  ASSUME OnlyLastSpoiled
  PROVE  Spec /\ []NothingSpilled => ImplementsORAM
<1>1. IInv /\ IInv' /\ [Next]_vars => [RAM!Next]_(RAM!vars)
  BY RefinesStep
<1>. QED
  BY <1>1, RefinesInit, BlocksStayFindable, PTL DEF Spec, ImplementsORAM, RAM!Spec
=============================================================================
